SPECIFICATION MCSpec
CONSTANTS
  NAgents = 3
  Plants <- MCPlants
  Owner <- MCOwner
  Capacity <- MCCapacity
  StaticCost <- MCStaticCost
  VariableCost <- MCVariableCost
  Asks <- MCAsks
  Configs <- MCConfigs
  LearningStarts = {0, 3}
  Frozen <- MCFrozen
  FailStack <- MCFailStack
  MinMargin = 0
  Delta = 1
  Lags = {1, 2}
  Periods = 8
  EvaluationPeriods = 1
  Low = 0
  High = 2
  Demands = {0, 3}
  Strategy = "PAYASPTF"
  Offers = 4
  MaxPrice = 2
  MaxQuantity = 3
INVARIANTS
  ExperienceIsConsecutive
  RingHoldsLatest
  RolloutIsOnPolicy
  LearnersKeepSchedule
  InterventionExact
  ClearingIsExact
  ClearingIsMonotone
CHECK_DEADLOCK FALSE
