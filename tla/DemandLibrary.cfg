SPECIFICATION MCSpec
CONSTANTS
  Stems = {"A", "a"}
  FoldCase <- MCFoldCase
  NAME_MAX_LENGTH = 2
  MaxCopy = 3
  Settings = {"flat", "peak"}
  Written = {"flat", "flat again", "peak", "invalid"}
  normalize <- MCNormalize
  ProfileIds = {1, 2}
  s1 = s1
  s2 = s2
  ScenarioIds = {s1, s2}
  RunIds = {r1}
  MaxEdits = 6
  NoRow = NoRow
  FileDemand = FileDemand
  NoLink = NoLink
  NoPage = NoPage
  Refused = Refused
  HOURS_PER_DAY = 24
  MAX_RAMP_HOURS = 12
  MAX_SEASON_TRANSITION_DAYS = 3
  MAX_SUMMER_END_PERIOD = 48
  Unit = 1000
  Rounding = 4
  Sine <- LinearSine
INVARIANTS
  DemandRoundTrip
  DrawsAreUsable
PROPERTIES DemandKept
SYMMETRY ScenarioSymmetry
CHECK_DEADLOCK FALSE
