SPECIFICATION Spec
CONSTANTS
  Runners = {web, cmd}
  WebRunner = web
  Users = {u1}
  SearchBatches = 2
  BatchSize <- TwoThenScout
  SearchSeeds = {1}
  EvaluationSeeds = {2}
  Scores = {0, 1}
  Mean <- SumScore
  Cpus = 2
  Suspends = TRUE
  Crashes = TRUE
  LosesWorkers = TRUE
  web = web
  cmd = cmd
  u1 = u1
INVARIANT OneProcessPerStudy
INVARIANT SettledWhenCanceled
INVARIANT ResultExact
PROPERTY ResultsFrozen
CHECK_DEADLOCK FALSE
