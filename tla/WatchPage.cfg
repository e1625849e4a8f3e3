\* Three periods, the last of them for evaluation; nobody presses Continue.
CONSTANTS
  N = 3
  Modes = {"ONLYRESULT"}
  Pages = {}
  EarlyRequests = FALSE
  Deletes = TRUE
  Crashes = FALSE
  a1 = a1
  a2 = a2
  Agents = {a1, a2}
  ProfitTables <- MCProfitTables
  InitialBudgets <- MCInitialBudgets
  Cent = 4
  EvaluationPeriods = 1
  CostEdits = TRUE
  NoOffer = NoOffer
SPECIFICATION FairWatchSpec
INVARIANT
  ChartIsTruth
PROPERTIES
  ProgressIsTrue
  PageSettles
\* The run and the page come to rest.
CHECK_DEADLOCK FALSE
