SPECIFICATION EngineSpec
CONSTANTS
  Writers = {w1, w2}
  BufferSize = 0
  MaxGroup = 2
  L0_CompactionTrigger = 1
  L0_SlowdownWritesTrigger = 1
  L0_StopWritesTrigger = 2
  MaxOps = 3
  MaxEvents = 2
  None = None

  MaxKey = 2
  MaxSeq = 4
  MaxSnapshots = 1
  NumLevels = 3
  MaxMemCompactLevel = 2
  kL0_CompactionTrigger = 2
  MaxBytesForLevel = 2
  MaxOutputFileSize = 9
  MaxGrandParentOverlap = 1
  ExpandedLimit = 9
  FlushInManual = FALSE
  NoFile = NoFile

  ScanKeys = {1, 3}
  Snap = 3
  MaxInserts = 1
  ShortKeys = TRUE
  Nil = Nil

  Inputs <- MCInputs
  Hi = 8
  W = 2
  Eight = 4
  LongLits = 2
  Copy1Lens = 2
  kBlockSize = 13
  kInputMarginBytes = 7
  kMaxIncrementCopyOverflow = 4
  SkipUnit = 2
  TableSize = 4
  PieceSizes = {1, 3, 20}
  BadBytes = {6, 30}
INVARIANTS  ReadsSnapshot NobodyForgotten  IteratorIsRight SnappyIsSound
SYMMETRY Symmetry
CHECK_DEADLOCK FALSE
