SPECIFICATION Spec
CONSTANTS
  flow = flow
  ome = ome
  ome_tsst = ome_tsst
  Names = {flow, ome, ome_tsst}
  Pairs = {ome}
  BaseName <- MCPlainNames
  Trials = {t1, t2}
  HpoSeeds = 2
  FullSeeds = 2
  MaxConcurrent = 2
  MaxFailures = 1
  Scores = {1, 2}
  Modes = {"ray", "local", "train"}
  OtherModels = TRUE
  None = None
  Torn = Torn
  StatusRow = StatusRow
  BlankRow = BlankRow
INVARIANTS
  CopiesAgree
  SearchPublishesBest
  ReportedIsLatest
PROPERTIES
  PairsAreReported
CHECK_DEADLOCK FALSE
