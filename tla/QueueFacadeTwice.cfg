SPECIFICATION FSpec
CONSTANTS
  MaxItem = 3
  Item <- MCItem
  NoItem = NoItem
  QITEM_MIN_SEQ = 4
  QITEM_MAX_SEQ = 10
  QITEM_SEQ_INIT = 6
  Indexes = {}
  SeqPastEnd = FALSE
  Thread = {t1, t2}
  Counts = {2, 3}
INVARIANT PoppedOnce
