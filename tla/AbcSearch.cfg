\* Two sources, two cycles, a limit that lets scouts fly in the first cycle.
CONSTANTS
  SN = 2
  MaxIter = 2
  Limit = 1
  Finite <- TiedPairs
  Failed = Failed
  W1 = 1
  W2 = 1
SPECIFICATION Spec
INVARIANTS
  SearchIsRecorded
  StudyAgreesWithColony
PROPERTY WorseOnlyByScout
\* run() returns.
CHECK_DEADLOCK FALSE
