SPECIFICATION Spec
CONSTANTS
  Key = {k1, k2}
  BATCH_SIZE = 2
  Ttls = {0, 1, 2}
  Start = 4
  MaxTime = 6
  MaxRestarts = 1
  INT64_MAX = 99
  OldScale = 2
  OldScores = {}
  Overlap = TRUE
PROPERTY NoEarlyExpiry
