SPECIFICATION Spec
CONSTANTS
  flow = flow
  ome = ome
  ome_tsst = ome_tsst
  Names = {flow, ome, ome_tsst}
  Pairs = {ome, ome_tsst}
  BaseName <- MCVariantNames
  Trials = {t1}
  HpoSeeds = 1
  FullSeeds = 1
  MaxConcurrent = 2
  MaxFailures = 1
  Scores = {1, 2}
  Modes = {"ray"}
  OtherModels = FALSE
  None = None
  Torn = Torn
  StatusRow = StatusRow
  BlankRow = BlankRow
INVARIANTS
  ReportIsOwn
CHECK_DEADLOCK FALSE
