SPECIFICATION MCSpec
CONSTANTS
  Workers = {w1, w2}
  HeadNode = head
  UserPaths <- MCUserPaths
  MaxKills = 1
  N = 5
  Policies <- MCPolicies
  MaxRows = 9
  MaxBatch = 4
  MaxSequences = 3
  MaxLength = 5
  MaxHorizon = 2
  Length = 5
  MaxScore = 2
  Configs <- MCConfigs
  Order <- MCOrder
  Settings = {1, 2, 3}
  Initials <- MCInitials
  Space <- MCSpace
  Ranks = 4
  MaxRounds = 2
  Shapes <- MCShapes
  MaxSource = 3
  MaxSteps = 2
  Widths = {1, 2}
  BatchSize = 7
  Trials = {t1, t2, t3}
  MaxLosses = 2
  Calls = {c1, c2}
  Bases <- MCBases
  Requests <- MCRequests
  MaxMishaps = 1
  TrialNodes = {n1}
  Epochs <- MCEpochs
  CheckEvery = 2
  MaxAttempts = 4
  StudyRuns = {r1, r2, r3}
  RunNames = {x, y, z}
  RunPairs = {p1, p2}
  RunWidth = 2
  Chats = {chat}
  Posters = {"main", "callbacks"}
  MaxUpsets = 1
INVARIANTS
  SweepIsExact
  StreamEqualsWhole
  OnlyFirstScoresStray
  AlarmsAreEvents
  SearchIsLocallyBest
  ScaledByName
  BundleHoldsSource
  BuiltOnce
  RunsAloneIfAsked
  RootIsOwned
  UndisturbedGetsItsFiles
  ScoredByItsDetector
  RealFromScoredSynthetic
  DeletedIsArchived
  ToldAsItWent
PROPERTIES
  SubmitsToWholeCluster
  UserPathsKept
CHECK_DEADLOCK FALSE
