SPECIFICATION Spec
CONSTANTS
  SN = 2
  MaxIter = 1
  SearchSeeds <- MCSearchSeeds
  EvaluationSeeds <- MCEvaluationSeeds
  Params = {1, 2}
  Decoded <- MCDecoded
  Results <- MCResults
  Failed = Failed
  NoBatch = NoBatch
  NoBest = NoBest
  NoPage = NoPage
 
PROPERTY PageOnlyMovesForward
CHECK_DEADLOCK FALSE
