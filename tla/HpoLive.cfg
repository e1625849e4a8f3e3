SPECIFICATION FairSpec
CONSTANTS
  Runners = {web, cmd}
  WebRunner = web
  Users = {u1}
  SearchBatches = 1
  BatchSize <- OneBatchOfOne
  SearchSeeds = {1, 2}
  EvaluationSeeds = {3}
  Scores = {1}
  Mean <- SumScore
  Cpus = 2
  Suspends = FALSE
  Crashes = TRUE
  LosesWorkers = TRUE
  web = web
  cmd = cmd
  u1 = u1
PROPERTY ImplementsLifecycle
PROPERTY CancelEnds
 
CHECK_DEADLOCK FALSE
