SPECIFICATION Spec
CONSTANTS
  Item = {a, b}
  NoItem = NoItem
  QITEM_MIN_SEQ = 4
  QITEM_MAX_SEQ = 10
  QITEM_SEQ_INIT = 7
  Indexes <- MCIndexes
  SeqPastEnd = FALSE
INVARIANTS Consistent 
PROPERTY DequeSpec
