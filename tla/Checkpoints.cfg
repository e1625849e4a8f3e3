\* Chains of three runs, two learning agents and a baseline agent.
CONSTANTS
  Runs = {r1, r2, r3}
  NoRun = NoRun
  K = 3
  Learners = {1, 2}
  Key <- OwnKeys
  Trains = 1
  Crashes = TRUE
SPECIFICATION Spec
INVARIANTS
  FilesMatchRows
  PoliciesAreTrue
SYMMETRY RunSymmetry
CHECK_DEADLOCK FALSE
