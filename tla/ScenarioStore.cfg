SPECIFICATION Spec
SYMMETRY ScenarioSymmetry
CONSTANTS
  Stems = {"A", "a", "b"}
  Typed = {"A", "a"}
  FoldCase <- MCFoldCase
  NAME_MAX_LENGTH = 2
  MaxSuffix = 4
  Algorithms = {"PPO", "RANDOM"}
  Resources = {"r1", "r2"}
  ResourceRows <- MCRows
  allowed_energy_types <- MCAllowed
  Contents <- MCContents
  LibraryIds = {l1, l2}
  ScenarioIds = {s1, s2}
  RunIds = {g1}
  MaxAgents = 2
  MaxEdits = 3
  ForeignFiles <- MCFiles
  NoRow = NoRow
  NoParams = NoParams
  NoSource = NoSource
  AutoName = AutoName
  NoContent = NoContent
INVARIANTS TypeOK  
 
CHECK_DEADLOCK FALSE
