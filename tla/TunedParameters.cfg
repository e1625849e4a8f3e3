SPECIFICATION MCSpec
CONSTANTS
  Algorithms = {"PPO", "SAC"}
  Keys = {"lr", "batch"}
  Values = {1, 2}
  Published <- MCPublished
  ValidConfigs <- MCValid
  SearchKeys = {"lr"}
  OwnParams <- MCOwn
  Agents = {1, 2}
  Names = {"a", "b"}
  FoldCase <- MCFold
  FailStacks = {"off", "on"}
  MaxEdits = 2
  MaxStudies = 1
  NoRow = NoRow
  NoStudy = NoStudy
  One = 2
  Known = {"PPO", "MARKUP", "RANDOM"}
  Searchable = {"PPO", "MARKUP"}
  Baselines = {"MARKUP", "RANDOM"}
  Fields <- MCFields
  IntegerFields = {"rollout_length", "minibatch_size"}
  Defaults <- MCDefaults
  ValidFields <- MCValidFields
  LogCurve <- MCLogCurve
  SeedOf <- MCSeedOf
  SEED_UPPER = 9
  NotASeed = NotASeed
  Absent = Absent
  Invalid = Invalid
  Learners = {"SAC", "RDPG", "PPO"}
  OffPolicy = {"SAC", "RDPG"}
  Window <- MCWindow
  Class <- MCClass
  Unbounded = 1000
  Automatic = Automatic
  Rejected = Rejected
  NoLearner = NoLearner
  NoStored = NoStored
  Unit = 2
  FieldKinds <- MCKinds
  PublishedValues <- MCPublishedValues
  ClassAccepts <- MCClassAccepts
  NoDefault = NoDefault
  Wrong = Wrong
INVARIANTS
  
  StoredIsTrue
  
  StartIsCommon
  FormsAreFaithful

  
CHECK_DEADLOCK FALSE
