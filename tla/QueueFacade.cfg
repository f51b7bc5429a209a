SPECIFICATION FSpec
CONSTANTS
  MaxItem = 4
  Item <- MCItem
  NoItem = NoItem
  QITEM_MIN_SEQ = 4
  QITEM_MAX_SEQ = 10
  QITEM_SEQ_INIT = 6
  Indexes = {}
  SeqPastEnd = FALSE
  Thread = {t1, t2}
  Counts = {1, 2}
SYMMETRY Symmetry
INVARIANTS NothingLost Fifo
