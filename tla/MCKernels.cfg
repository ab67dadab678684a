CONSTANTS
  None = None
  NumWarps = 2
  BlockM = 4
  BlockN = 2
  CopyRows = 1
  QLen = 8
  Starts = {0, 2}
  StageCounts = {1, 2, 3}
  Digits = 2
  NEG_INF <- MCNegInf
  HDim = 2
  IDim = 3
  ColumnBlock = 2
  ScoreRows <- MCScoreRows
  Fragments <- MCFragments
  Logits <- MCLogits
  Batches <- MCBatches
  Matrices <- MCMatrices
SPECIFICATION LaunchSpec
INVARIANTS
  BarrierAligned
  StageIsStable
  RowsAreCausal
  SoftmaxIsDirect
  RegisterViewsAgree
  RoutingIsTopK
  ExpertsAreApplied
  UnpackedIsNearest
  OperandsMeetTheirScales
PROPERTIES
  LaunchedRowsAreWritten
CHECK_DEADLOCK FALSE
