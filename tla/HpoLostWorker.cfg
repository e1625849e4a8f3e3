SPECIFICATION FairSpec
CONSTANTS
  Runners = {web}
  WebRunner = web
  Users = {u1}
  SearchBatches = 1
  BatchSize <- OneBatchOfOne
  SearchSeeds = {1}
  EvaluationSeeds = {2}
  Scores = {1}
  Mean <- SumScore
  Cpus = 2
  Suspends = FALSE
  Crashes = FALSE
  LosesWorkers = TRUE
  web = web
  cmd = cmd
  u1 = u1
PROPERTY LostWorkerIsNoticed
CHECK_DEADLOCK FALSE
