\* Three periods, two pages, and everything that may happen to a run.
CONSTANTS
  N = 3
  Modes = {"PERIODBYPERIOD", "ONLYRESULT"}
  Pages = {p1, p2}
  EarlyRequests = TRUE
  Deletes = TRUE
  Crashes = TRUE
SPECIFICATION FairSpec
INVARIANT RunIsOrderly
PROPERTIES
  EndIsKept
  RunEnds
\* The process ends and the pages have nothing to do.
CHECK_DEADLOCK FALSE
