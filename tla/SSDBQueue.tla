----------------------------- MODULE SSDBQueue -----------------------------
(***************************************************************************)
(* One queue of SSDB (ssdb/ssdb/t_queue.{h,cpp}) as the rows it has in     *)
(* leveldb: the items under their sequence numbers, the rows QFRONT_SEQ    *)
(* and QBACK_SEQ with the sequence numbers of the two ends, and the size.  *)
(*                                                                         *)
(* Every modification runs under a Transaction (BinlogQueue::mutex) and    *)
(* ends in one WriteBatch, so it is one action here; a path that returns   *)
(* before commit, or whose Write fails, leaves every row alone.  A row     *)
(* that does not exist is read as 0 (qget_uint64, qsize) or NoItem.        *)
(***************************************************************************)
EXTENDS Integers, FiniteSets, Sequences

CONSTANTS
  Item,          \* what a queue holds
  NoItem,        \* a row that does not exist
  QITEM_MIN_SEQ, \* items live strictly between these two
  QITEM_MAX_SEQ,
  QITEM_SEQ_INIT,\* the first item of an empty queue
  Indexes,       \* arguments of qset and qget
  SeqPastEnd     \* does a caller of qset_by_seq pass front + size?

\* QFRONT_SEQ and QBACK_SEQ, 2 and 3, are below the items; 0 is no item.
ASSUME SeqAssumption ==
  /\ QITEM_MIN_SEQ \in Nat /\ QITEM_MAX_SEQ \in Nat /\ QITEM_SEQ_INIT \in Nat
  /\ 3 < QITEM_MIN_SEQ
  /\ QITEM_MIN_SEQ < QITEM_SEQ_INIT
  /\ QITEM_SEQ_INIT < QITEM_MAX_SEQ
ASSUME ItemAssumption == NoItem \notin Item
ASSUME IndexAssumption == Indexes \subseteq Int
ASSUME PastEndAssumption == SeqPastEnd \in BOOLEAN

VARIABLES
  items,      \* the item rows, by sequence number
  front,      \* the row QFRONT_SEQ
  back,       \* the row QBACK_SEQ
  size,       \* the row of encode_qsize_key
  ret         \* return code and item of the last operation

rows == <<items, front, back, size>>
vars == <<items, front, back, size, ret>>

Slot == 0 .. QITEM_MAX_SEQ

Result(code) == [code |-> code, item |-> {}]
Popped(i)    == [code |-> 1, item |-> {i}]

Return(code) == ret' = Result(code) /\ UNCHANGED rows

Put(seq, i) == items' = [items EXCEPT ![seq] = i]

-----------------------------------------------------------------------------
(* _qpush *)

InRange(seq) == QITEM_MIN_SEQ < seq /\ seq < QITEM_MAX_SEQ

\* Mutant: the size before the push is returned.
Grow_old == size' = size + 1 /\ ret' = Result(size)

\* incr_qsize(+1)
Grow == size' = size + 1 /\ ret' = Result(size + 1)

qpush_first(i) ==
  /\ Put(QITEM_SEQ_INIT, i)
  /\ front' = QITEM_SEQ_INIT
  /\ back' = QITEM_SEQ_INIT
  /\ Grow

qpush_front(i) ==
  \/ front = 0 /\ qpush_first(i)
  \/ /\ front # 0 /\ InRange(front - 1)
     /\ Put(front - 1, i)
     /\ front' = front - 1
     /\ UNCHANGED back
     /\ Grow
  \/ front # 0 /\ ~InRange(front - 1) /\ Return(-1)

qpush_back(i) ==
  \/ back = 0 /\ qpush_first(i)
  \/ /\ back # 0 /\ InRange(back + 1)
     /\ Put(back + 1, i)
     /\ back' = back + 1
     /\ UNCHANGED front
     /\ Grow
  \/ back # 0 /\ ~InRange(back + 1) /\ Return(-1)

(* _qpop *)

\* Mutant: the rows of the ends survive the last item.
Shrink_keep(f, b) == size' = size - 1 /\ front' = f /\ back' = b

\* incr_qsize(-1) and the row of the end that moves: the last item takes the
\* rows of both ends with it.
Shrink(f, b) ==
  IF size - 1 <= 0
    THEN size' = 0 /\ front' = 0 /\ back' = 0
    ELSE size' = size - 1 /\ front' = f /\ back' = b

qpop_at(seq, f, b) ==
  \/ (seq = 0 \/ items[seq] = NoItem) /\ Return(0)
  \/ /\ seq # 0 /\ items[seq] # NoItem
     /\ ret' = Popped(items[seq])
     /\ Put(seq, NoItem)
     /\ Shrink(f, b)

qpop_front == qpop_at(front, front + 1, back)
qpop_back  == qpop_at(back, front, back - 1)

(* qset, qset_by_seq *)

\* An index counts from the front, a negative one from the back.
EndOfIndex(x) == IF x >= 0 THEN front ELSE back
\* Mutant: -1 is not the last item.
SeqOfIndex_off(x) == IF x >= 0 THEN front + x ELSE back + x

SeqOfIndex(x) == IF x >= 0 THEN front + x ELSE back + x + 1

qset(x, i) ==
  \/ (x >= size \/ x < -size \/ EndOfIndex(x) = 0) /\ Return(0)
  \/ /\ x < size /\ x >= -size /\ EndOfIndex(x) # 0
     /\ Put(SeqOfIndex(x), i)
     /\ ret' = Result(1)
     /\ UNCHANGED <<front, back, size>>

\* The code accepts front <= seq <= front + size, one more than there are.
qset_by_seq(seq, i) ==
  \/ (seq < front \/ seq > front + size) /\ Return(0)
  \/ /\ front <= seq /\ seq <= front + size
     /\ seq = front + size => SeqPastEnd
     /\ Put(seq, i)
     /\ ret' = Result(1)
     /\ UNCHANGED <<front, back, size>>

(* The reads, as functions of the rows (no other operation interferes). *)

\* qget_by_seq; the rows QFRONT_SEQ and QBACK_SEQ are not items.
GetBySeq(seq) == IF seq \in Slot THEN items[seq] ELSE NoItem

qget(x) == IF EndOfIndex(x) = 0 THEN NoItem ELSE GetBySeq(SeqOfIndex(x))

\* qslice stops behind `end' or at the first row that is missing.
qslice(begin, end) ==
  LET seq_begin == SeqOfIndex(begin)
      seq_end   == SeqOfIndex(end)
      Present(n) == \A k \in 0 .. n-1 : GetBySeq(seq_begin + k) # NoItem
      Lens == {n \in 0 .. seq_end - seq_begin + 1 : Present(n)}
      len  == IF Lens = {} THEN 0 ELSE CHOOSE n \in Lens : \A m \in Lens : m <= n
  IN IF EndOfIndex(begin) = 0 \/ EndOfIndex(end) = 0 THEN <<>>
     ELSE [k \in 1 .. len |-> GetBySeq(seq_begin + k - 1)]

(* qfix: recompute the three rows from the items that are there. *)

ItemSeqs == {s \in QITEM_MIN_SEQ .. QITEM_MAX_SEQ : items[s] # NoItem}

qfix ==
  /\ \/ ItemSeqs = {} /\ size' = 0 /\ front' = 0 /\ back' = 0
     \/ \E lo, hi \in ItemSeqs :
          /\ \A s \in ItemSeqs : lo <= s /\ s <= hi
          /\ front' = lo
          /\ back' = hi
          /\ size' = Cardinality(ItemSeqs)
  /\ ret' = Result(0)
  /\ UNCHANGED items

\* A Write fails.
Fail == Return(-1)

-----------------------------------------------------------------------------
Init ==
  /\ items = [s \in Slot |-> NoItem]
  /\ front = 0 /\ back = 0 /\ size = 0
  /\ ret = Result(0)

Next ==
  \/ \E i \in Item : qpush_front(i) \/ qpush_back(i)
  \/ qpop_front \/ qpop_back
  \/ \E x \in Indexes, i \in Item : qset(x, i)
  \/ \E s \in Slot, i \in Item : qset_by_seq(s, i)
  \/ qfix
  \/ Fail

Spec == Init /\ [][Next]_vars

-----------------------------------------------------------------------------
\* Every row has its type.
TypeOK ==
  /\ items \in [Slot -> Item \cup {NoItem}]
  /\ front \in Slot
  /\ back \in Slot
  /\ size \in Nat
  /\ ret \in [code : Int, item : SUBSET Item]

\* The four kinds of rows agree: they are all missing, or the items are
\* exactly the ones from front to back and there are `size' of them.
Consistent ==
  \/ /\ front = 0 /\ back = 0 /\ size = 0
     /\ \A s \in Slot : items[s] = NoItem
  \/ /\ InRange(front) /\ InRange(back)
     /\ size >= 1 /\ size = back - front + 1
     /\ \A s \in Slot : items[s] # NoItem <=> front <= s /\ s <= back

\* The rows as the sequence they stand for.
Contents == [k \in 1 .. size |-> items[front + k - 1]]

\* The rows implement a double-ended queue, return codes included.
D == INSTANCE Deque WITH q <- Contents
DequeSpec == D!Spec

\* qget looks at one row and checks no bound: it still finds exactly the
\* items of the queue.
GetIsIndexing ==
  \A x \in Indexes :
    qget(x) = IF x >= 0 /\ x < size THEN Contents[x + 1]
              ELSE IF x < 0 /\ -x <= size THEN Contents[size + x + 1]
              ELSE NoItem

\* qslice mixes ends and stops at a missing row: it still returns the part
\* of the sequence between the two positions, or nothing when the first
\* position is outside.
SliceIsSubSeq ==
  \A b, e \in Indexes :
    LET first == IF b >= 0 THEN b + 1 ELSE size + b + 1
        last  == IF e >= 0 THEN e + 1 ELSE size + e + 1
    IN qslice(b, e) =
         IF first < 1 \/ first > size THEN <<>>
         ELSE SubSeq(Contents, first, IF last < size THEN last ELSE size)

\* What a caller reads by position is that part of the abstract sequence.
ReadsAreIndexing == GetIsIndexing /\ SliceIsSubSeq
=============================================================================
