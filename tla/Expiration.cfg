SPECIFICATION MCFairSpec
CONSTANTS
  Key = {k1, k2, k3}
  BATCH_SIZE = 2
  Ttls = {0, 1, 2}
  Start = 4
  MaxTime = 6
  MaxRestarts = 1
  INT64_MAX = 99
  OldScale = 2
  OldScores = {3}
  Overlap = FALSE
INVARIANTS ListsAgree WakesInTime
PROPERTIES NoEarlyExpiry Expires
