SPECIFICATION PartsSpec
CONSTANTS
  Field = {1, 2}
  Numbers = {2}
  Text = Text
  NoVal = NoVal
  Increments = {1}
  IntMax = 1
  ScanLimit = 1
  Clearers = {t1, t2}
  MaxSets = 3
  MaxFaults = 1

  Callers = {t1, t2}
  TableFields = {1, 2, 3}
  ZKeys = {1, 2, 3}
  Limits <- MCLimits
  MaxCalls = 2

  ListKeys = {1, 2, 3}
  kMaxHeight = 2
  Null = Null
  Junk = Junk

  Users = {u1, u2}
  Files = {1, 2, 3}
  Charges = {1, 2}
  capacity_ = 3
  MinBuckets = 1
  MaxHandles = 4
  Free = Free

  PoolClients = {c1, c2}
  Workers = {w1, w2}
  Jobs = {1, 2, 3}

  Openers = {t1, t2, t3}
  Placements <- MCPlacements
  FileThreads = {t1, t2, t3}
  mmap_limit = 1
  fd_limit = 1
  MaxItems = 4
  NoProcess = NoProcess

  kBlockSize = 6
  kHeaderSize = 2
  checksum_ = TRUE
  Lengths = {0, 1, 3, 9}
  MaxRecords = 3

  Base = 3
  UserKeys <- MCKeys
  MaxEntries = 4
  block_size = 3
  block_restart_interval = 2
  kFilterBase = 2
  DiskSizes = {1, 3}
  FilterBits = 8
  Probes = 2

  Words <- MCWords
  QueueSeqs = {255, 256}
  NumberBytes = 2
  SSDB_KEY_LEN_MAX = 3
  MaxThings = 3
  Offsets = {0, 7, 8, 17}

  GroupBits = 2
  Width32 = 5
  Width64 = 7
  FixedBytes32 = 1
  FixedBytes64 = 2
  kNumLevels = 7
  Slices <- MCSlices
  Edits <- MCEdits
  MaxOps = 3
INVARIANTS SizeIsCount  FacadeIsRight LockFreeReads CacheIsSound PoolIsSound EnvIsSound LogIsSound TableIsSound RowsAreSound RecordsAreWhole
PROPERTY ClearEnds
CHECK_DEADLOCK FALSE
