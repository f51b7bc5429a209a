---------------------------- MODULE QueueProofs ----------------------------
(***************************************************************************)
(* The rows of a queue agree with each other, for every range of sequence  *)
(* numbers: the inductive invariant is TypeOK /\ Consistent itself, as     *)
(* long as no caller hands qset_by_seq the number behind the last item.    *)
(*                                                                         *)
(* With it the rows implement the double-ended queue of module Deque:      *)
(* every operation on consistent rows is the operation of the same name on *)
(* the sequence Contents, with the same return code and item; and qget and *)
(* qslice are indexing and SubSeq of that sequence.  None of this depends  *)
(* on the constants of QueueFacade.                                        *)
(*                                                                         *)
(* In the second part, threads that push, pop and clear through the loops  *)
(* of the facade lose no item and keep the order of the pushes, for any    *)
(* number of threads and items and whatever Writes fail.  The rows are     *)
(* looked at through Contents only: what a call does to it is known from   *)
(* the refinement.                                                         *)
(***************************************************************************)
EXTENDS QueueFacade, FiniteSetTheorems, SequenceTheorems, TLAPS

Inv == TypeOK /\ Consistent

LEMMA InitInv == Init => Inv
  BY SeqAssumption, ItemAssumption
  DEF Init, Inv, TypeOK, Consistent, Slot, Result

\* A path that returns without a commit, and a Write that fails.
LEMMA ReturnInv ==
  ASSUME Inv, NEW code \in Int, Return(code) PROVE Inv'
  BY DEF Inv, TypeOK, Consistent, Return, rows, Result, InRange

LEMMA PushInv ==
  ASSUME Inv, NEW i \in Item, qpush_front(i) \/ qpush_back(i) PROVE Inv'
  <1> USE SeqAssumption, ItemAssumption
  <1>1. CASE front = 0 /\ qpush_first(i)
    BY <1>1 DEF Inv, TypeOK, Consistent, qpush_first, Put, Grow, Result, Slot, InRange
  <1>2. CASE front # 0 /\ InRange(front - 1) /\ qpush_front(i)
    <2>1. /\ items' = [items EXCEPT ![front - 1] = i] /\ front' = front - 1
          /\ back' = back /\ size' = size + 1 /\ ret' = Result(size + 1)
      BY <1>2 DEF qpush_front, Put, Grow
    <2>2. TypeOK'
      BY <1>2, <2>1 DEF Inv, TypeOK, Result, Slot, InRange
    <2>3. Consistent'
      BY <1>2, <2>1 DEF Inv, TypeOK, Consistent, Slot, InRange
    <2> QED
      BY <2>2, <2>3 DEF Inv
  <1>3. CASE back # 0 /\ InRange(back + 1) /\ qpush_back(i)
    <2>1. /\ items' = [items EXCEPT ![back + 1] = i] /\ back' = back + 1
          /\ front' = front /\ size' = size + 1 /\ ret' = Result(size + 1)
      BY <1>3 DEF qpush_back, Put, Grow
    <2>2. TypeOK'
      BY <1>3, <2>1 DEF Inv, TypeOK, Result, Slot, InRange
    <2>3. Consistent'
      BY <1>3, <2>1 DEF Inv, TypeOK, Consistent, Slot, InRange
    <2> QED
      BY <2>2, <2>3 DEF Inv
  <1>4. CASE Return(-1)
    BY <1>4, ReturnInv
  <1> QED
    BY <1>1, <1>2, <1>3, <1>4 DEF Inv, Consistent, qpush_front, qpush_back, InRange

LEMMA PopInv ==
  ASSUME Inv, qpop_front \/ qpop_back PROVE Inv'
  <1> USE SeqAssumption, ItemAssumption
  <1>1. CASE Return(0)
    BY <1>1, ReturnInv
  <1>2. CASE ~Return(0) /\ qpop_front
    BY <1>2 DEF Inv, TypeOK, Consistent, qpop_front, qpop_at, Popped, Put, Shrink, Slot, InRange
  <1>3. CASE ~Return(0) /\ qpop_back
    BY <1>3 DEF Inv, TypeOK, Consistent, qpop_back, qpop_at, Popped, Put, Shrink, Slot, InRange
  <1> QED
    BY <1>1, <1>2, <1>3

\* Overwriting an item that is there disturbs nothing.
LEMMA OverwriteInv ==
  ASSUME Inv, NEW s \in Slot, front # 0, front <= s, s <= back, NEW i \in Item,
         Put(s, i), ret' = Result(1), UNCHANGED <<front, back, size>>
  PROVE  Inv'
  <1> USE SeqAssumption, ItemAssumption
  <1>1. items' = [items EXCEPT ![s] = i]
    BY DEF Put
  <1>2. TypeOK'
    BY <1>1 DEF Inv, TypeOK, Result
  <1>3. Consistent'
    BY <1>1 DEF Inv, TypeOK, Consistent, Slot, InRange
  <1> QED
    BY <1>2, <1>3 DEF Inv

LEMMA SetInv ==
  ASSUME Inv, NEW x \in Int, NEW i \in Item, qset(x, i) PROVE Inv'
  <1> USE SeqAssumption, ItemAssumption
  <1>1. CASE Return(0)
    BY <1>1, ReturnInv
  <1>2. CASE ~Return(0)
    <2>1. /\ Put(SeqOfIndex(x), i) /\ ret' = Result(1)
          /\ UNCHANGED <<front, back, size>>
          /\ x < size /\ x >= -size /\ EndOfIndex(x) # 0
      BY <1>2 DEF qset
    <2>2. /\ SeqOfIndex(x) \in Slot /\ front # 0
          /\ front <= SeqOfIndex(x) /\ SeqOfIndex(x) <= back
      BY <2>1 DEF Inv, TypeOK, Consistent, EndOfIndex, SeqOfIndex, Slot, InRange
    <2> QED
      BY <2>1, <2>2, OverwriteInv
  <1> QED
    BY <1>1, <1>2

LEMMA SetBySeqInv ==
  ASSUME SeqPastEnd = FALSE, Inv, NEW s \in Slot, NEW i \in Item, qset_by_seq(s, i)
  PROVE  Inv'
  <1> USE SeqAssumption, ItemAssumption
  <1>1. CASE Return(0)
    BY <1>1, ReturnInv
  <1>2. CASE ~Return(0)
    <2>1. /\ Put(s, i) /\ ret' = Result(1) /\ UNCHANGED <<front, back, size>>
          /\ front <= s /\ s <= front + size /\ s # front + size
      BY <1>2 DEF qset_by_seq
    <2>2. front # 0 /\ s <= back
      BY <2>1 DEF Inv, TypeOK, Consistent, Slot, InRange
    <2> QED
      BY <2>1, <2>2, OverwriteInv
  <1> QED
    BY <1>1, <1>2

\* On consistent rows qfix finds what is there.
LEMMA FixChangesNothing ==
  ASSUME Inv, qfix PROVE UNCHANGED rows
  <1> USE SeqAssumption, ItemAssumption
  <1>1. CASE front = 0
    <2>1. ItemSeqs = {}
      BY <1>1 DEF Inv, TypeOK, Consistent, ItemSeqs, Slot, InRange
    <2> QED
      BY <1>1, <2>1 DEF Inv, Consistent, qfix, rows, InRange
  <1>2. CASE front # 0
    <2>1. ItemSeqs = front .. back /\ front \in ItemSeqs /\ back \in ItemSeqs
      BY <1>2 DEF Inv, TypeOK, Consistent, ItemSeqs, Slot, InRange
    <2>2. Cardinality(front .. back) = size
      BY <1>2, FS_Interval DEF Inv, TypeOK, Consistent, Slot
    <2>3. PICK lo \in ItemSeqs, hi \in ItemSeqs :
            /\ \A s \in ItemSeqs : lo <= s /\ s <= hi
            /\ front' = lo /\ back' = hi /\ size' = Cardinality(ItemSeqs)
      BY <2>1 DEF qfix
    <2>4. lo = front /\ hi = back
      BY <2>1, <2>3 DEF Inv, TypeOK, Slot
    <2> QED
      BY <2>1, <2>2, <2>3, <2>4 DEF qfix, rows
  <1> QED
    BY <1>1, <1>2

LEMMA FixInv ==
  ASSUME Inv, qfix PROVE Inv'
  <1>1. UNCHANGED rows
    BY FixChangesNothing
  <1> QED
    BY <1>1 DEF Inv, TypeOK, Consistent, InRange, rows, qfix, Result

LEMMA NextInv ==
  ASSUME SeqPastEnd = FALSE, Inv, [Next]_vars PROVE Inv'
  <1>1. CASE \E i \in Item : qpush_front(i) \/ qpush_back(i)
    BY <1>1, PushInv
  <1>2. CASE qpop_front \/ qpop_back
    BY <1>2, PopInv
  <1>3. CASE \E x \in Indexes, i \in Item : qset(x, i)
    BY <1>3, SetInv, IndexAssumption
  <1>4. CASE \E s \in Slot, i \in Item : qset_by_seq(s, i)
    BY <1>4, SetBySeqInv
  <1>5. CASE qfix
    BY <1>5, FixInv
  <1>6. CASE Fail
    BY <1>6, ReturnInv DEF Fail
  <1>7. CASE UNCHANGED vars
    BY <1>7 DEF Inv, TypeOK, Consistent, InRange, vars
  <1> QED
    BY <1>1, <1>2, <1>3, <1>4, <1>5, <1>6, <1>7 DEF Next

\* The rows of a queue always have their types (t_queue.cpp: what _qpush,
\* _qpop, qset, qset_by_seq and qfix commit).
THEOREM QueueTypeOK ==
  ASSUME SeqPastEnd = FALSE PROVE Spec => []TypeOK
  <1>1. Init => Inv
    BY InitInv
  <1>2. Inv /\ [Next]_vars => Inv'
    BY NextInv
  <1>3. Inv => TypeOK
    BY DEF Inv
  <1> QED
    BY <1>1, <1>2, <1>3, PTL DEF Spec

\* Items, ends and size always agree, for every range of sequence numbers
\* and whatever sequence of operations is executed.
THEOREM QueueConsistent ==
  ASSUME SeqPastEnd = FALSE PROVE Spec => []Consistent
  <1>1. Init => Inv
    BY InitInv
  <1>2. Inv /\ [Next]_vars => Inv'
    BY NextInv
  <1>3. Inv => Consistent
    BY DEF Inv
  <1> QED
    BY <1>1, <1>2, <1>3, PTL DEF Spec

-----------------------------------------------------------------------------
(* The rows implement a deque *)

\* A stretch of the item rows, as a sequence.
LEMMA Stretch ==
  ASSUME NEW it, NEW f \in Int, NEW n \in Nat,
         \A k \in 1 .. n : it[f + k - 1] \in Item
  PROVE  LET q == [k \in 1 .. n |-> it[f + k - 1]]
         IN /\ q \in Seq(Item)
            /\ Len(q) = n
            /\ \A k \in 1 .. n : q[k] = it[f + k - 1]
  <1> DEFINE q == [k \in 1 .. n |-> it[f + k - 1]]
  <1>1. q \in [1 .. n -> Item]
    OBVIOUS
  <1>2. q \in Seq(Item)
    BY <1>1, SeqDef
  <1>3. Len(q) = n
    BY <1>1, <1>2, LenProperties
  <1> QED
    BY <1>2, <1>3

\* Consistent rows have an item at each position.
LEMMA Filled ==
  ASSUME NEW it \in [Slot -> Item \cup {NoItem}], NEW f \in Slot, NEW b \in Slot, NEW n \in Nat,
         \/ n = 0
         \/ n = b - f + 1 /\ \A s \in Slot : it[s] # NoItem <=> f <= s /\ s <= b,
         NEW k \in 1 .. n
  PROVE  it[f + k - 1] \in Item
  <1>1. f + k - 1 \in Slot /\ f <= f + k - 1 /\ f + k - 1 <= b /\ n # 0
    BY SeqAssumption DEF Slot
  <1>2. it[f + k - 1] # NoItem
    BY <1>1
  <1> QED
    BY <1>1, <1>2

LEMMA ContentsSeq ==
  ASSUME Inv
  PROVE  /\ Contents \in Seq(Item)
         /\ Len(Contents) = size
         /\ \A k \in 1 .. size : Contents[k] = items[front + k - 1]
  <1>1. \A k \in 1 .. size : items[front + k - 1] \in Item
    BY Filled DEF Inv, TypeOK, Consistent
  <1>2. front \in Int /\ size \in Nat
    BY SeqAssumption DEF Inv, TypeOK, Slot
  <1> HIDE DEF Inv
  <1> QED
    BY <1>1, <1>2, Stretch DEF Contents

\* The same of the next state.
LEMMA ContentsSeqNext ==
  ASSUME Inv'
  PROVE  /\ Contents' \in Seq(Item)
         /\ Len(Contents') = size'
         /\ \A k \in 1 .. size' : Contents'[k] = items'[front' + k - 1]
  <1>1. \A k \in 1 .. size' : items'[front' + k - 1] \in Item
    BY Filled DEF Inv, TypeOK, Consistent
  <1>2. front' \in Int /\ size' \in Nat
    BY SeqAssumption DEF Inv, TypeOK, Slot
  <1> HIDE DEF Inv
  <1> QED
    BY <1>1, <1>2, Stretch DEF Contents

LEMMA EmptyContents ==
  ASSUME Inv PROVE Contents = <<>> <=> size = 0
  BY ContentsSeq, EmptySeq DEF Inv, TypeOK

LEMMA InitRefines == Init => D!Init
  <1> SUFFICES ASSUME Init PROVE D!Init
    OBVIOUS
  <1>1. Contents = <<>>
    BY InitInv, EmptyContents DEF Init
  <1> QED
    BY <1>1 DEF Init, D!Init, Result, D!Result

LEMMA SameContents ==
  ASSUME UNCHANGED rows PROVE Contents' = Contents
  BY DEF rows, Contents

LEMMA FailRefines ==
  ASSUME Return(-1) PROVE D!Fail
  BY SameContents DEF Return, D!Fail, Result, D!Result

LEMMA PushBackRefines ==
  ASSUME Inv, Inv', NEW i \in Item, qpush_back(i) PROVE D!PushBack(i) \/ D!Fail
  <1> USE SeqAssumption, ItemAssumption
  <1>1. CASE Return(-1)
    BY <1>1, FailRefines
  <1>2. CASE ~Return(-1)
    <2>1. ret' = Result(size + 1) /\ size' = size + 1
      BY <1>2 DEF qpush_back, qpush_first, Grow
    <2>2. /\ \A k \in 1 .. size : items'[front' + k - 1] = items[front + k - 1]
          /\ items'[front' + (size + 1) - 1] = i
      <3>1. CASE back = 0
        <4>1. size = 0 /\ front' = QITEM_SEQ_INIT /\ items' = [items EXCEPT ![QITEM_SEQ_INIT] = i]
          BY <1>2, <3>1 DEF qpush_back, qpush_first, Put, Inv, Consistent, InRange
        <4> QED
          BY <4>1 DEF Inv, TypeOK, Slot
      <3>2. CASE back # 0
        <4>1. /\ items' = [items EXCEPT ![back + 1] = i] /\ front' = front
              /\ back + 1 \in Slot /\ size = back - front + 1 /\ front \in Nat /\ back \in Nat
          BY <1>2, <3>2 DEF qpush_back, Put, Inv, TypeOK, Consistent, InRange, Slot
        <4> QED
          BY <4>1 DEF Inv, TypeOK, Slot
      <3> QED
        BY <3>1, <3>2
    <2>4. size \in Nat
      BY DEF Inv, TypeOK
    <2>5. /\ Contents \in Seq(Item) /\ Len(Contents) = size
          /\ \A k \in 1 .. size : Contents[k] = items[front + k - 1]
      BY ContentsSeq
    <2>6. /\ Contents' \in Seq(Item) /\ Len(Contents') = size + 1
          /\ \A k \in 1 .. size + 1 : Contents'[k] = items'[front' + k - 1]
      BY <2>1, ContentsSeqNext
    <2>7. Contents' = Append(Contents, i)
      <3>1. /\ Append(Contents, i) \in Seq(Item)
            /\ Len(Append(Contents, i)) = size + 1
            /\ \A k \in 1 .. size + 1 :
                 Append(Contents, i)[k] = IF k <= size THEN Contents[k] ELSE i
        BY <2>4, <2>5, AppendProperties
      <3>2. \A k \in 1 .. size + 1 : Contents'[k] = Append(Contents, i)[k]
        BY <2>2, <2>4, <2>5, <2>6, <3>1
      <3> QED
        BY <2>6, <3>1, <3>2, SeqEqual
    <2> QED
      BY <2>1, <2>5, <2>7 DEF D!PushBack, Result, D!Result
  <1> QED
    BY <1>1, <1>2

LEMMA PushFrontRefines ==
  ASSUME Inv, Inv', NEW i \in Item, qpush_front(i) PROVE D!PushFront(i) \/ D!Fail
  <1> USE SeqAssumption, ItemAssumption
  <1>1. CASE Return(-1)
    BY <1>1, FailRefines
  <1>2. CASE ~Return(-1)
    <2>1. ret' = Result(size + 1) /\ size' = size + 1
      BY <1>2 DEF qpush_front, qpush_first, Grow
    <2>2. /\ items'[front'] = i
          /\ \A k \in 2 .. size + 1 : items'[front' + k - 1] = items[front + (k - 1) - 1]
      <3>1. CASE front = 0
        <4>1. size = 0 /\ front' = QITEM_SEQ_INIT /\ items' = [items EXCEPT ![QITEM_SEQ_INIT] = i]
          BY <1>2, <3>1 DEF qpush_front, qpush_first, Put, Inv, Consistent, InRange
        <4> QED
          BY <4>1 DEF Inv, TypeOK, Slot
      <3>2. CASE front # 0
        <4>1. /\ items' = [items EXCEPT ![front - 1] = i] /\ front' = front - 1
              /\ front - 1 \in Slot /\ size = back - front + 1 /\ front \in Nat /\ back \in Nat
              /\ back \in Slot
          BY <1>2, <3>2 DEF qpush_front, Put, Inv, TypeOK, Consistent, InRange, Slot
        <4>2. items'[front'] = i
          BY <4>1 DEF Inv, TypeOK
        <4>3. ASSUME NEW k \in 2 .. size + 1
              PROVE  items'[front' + k - 1] = items[front + (k - 1) - 1]
          <5>1. /\ front' + k - 1 = front + (k - 1) - 1
                /\ front + (k - 1) - 1 \in Slot /\ front + (k - 1) - 1 # front - 1
            BY <4>1 DEF Slot, Inv, TypeOK
          <5> QED
            BY <4>1, <5>1 DEF Inv, TypeOK
        <4> QED
          BY <4>2, <4>3
      <3> QED
        BY <3>1, <3>2
    <2>3. size \in Nat
      BY DEF Inv, TypeOK
    <2>4. /\ Contents \in Seq(Item) /\ Len(Contents) = size
          /\ \A k \in 1 .. size : Contents[k] = items[front + k - 1]
      BY ContentsSeq
    <2>5. /\ Contents' \in Seq(Item) /\ Len(Contents') = size + 1
          /\ \A k \in 1 .. size + 1 : Contents'[k] = items'[front' + k - 1]
      BY <2>1, ContentsSeqNext
    <2>6. <<i>> \in Seq(Item) /\ Len(<<i>>) = 1 /\ <<i>>[1] = i
      OBVIOUS
    <2>7. /\ <<i>> \o Contents \in Seq(Item)
          /\ Len(<<i>> \o Contents) = size + 1
          /\ \A k \in 1 .. size + 1 :
               (<<i>> \o Contents)[k] = IF k <= 1 THEN <<i>>[k] ELSE Contents[k - 1]
      <3> DEFINE s1 == <<i>>
      <3>1. s1 \in Seq(Item) /\ Len(s1) = 1
        BY <2>6
      <3> HIDE DEF s1
      <3>2. /\ s1 \o Contents \in Seq(Item)
            /\ Len(s1 \o Contents) = size + 1
            /\ \A k \in 1 .. size + 1 :
                 (s1 \o Contents)[k] = IF k <= 1 THEN s1[k] ELSE Contents[k - 1]
        <4>1. Len(s1) + Len(Contents) = size + 1
          BY <2>3, <2>4, <3>1
        <4>2. /\ s1 \o Contents \in Seq(Item)
              /\ Len(s1 \o Contents) = Len(s1) + Len(Contents)
              /\ \A k \in 1 .. Len(s1) + Len(Contents) : (s1 \o Contents)[k] =
                   IF k <= Len(s1) THEN s1[k] ELSE Contents[k - Len(s1)]
          <5> HIDE DEF Contents
          <5> QED
            BY <2>4, <3>1, ConcatProperties, Zenon
        <4>3. ASSUME NEW k \in 1 .. size + 1
              PROVE  (s1 \o Contents)[k] = IF k <= 1 THEN s1[k] ELSE Contents[k - 1]
          BY <3>1, <4>1, <4>2
        <4> QED
          BY <4>1, <4>2, <4>3
      <3> QED
        BY <3>2 DEF s1
    <2>8. \A k \in 1 .. size + 1 : Contents'[k] = (<<i>> \o Contents)[k]
      <3> SUFFICES ASSUME NEW k \in 1 .. size + 1
                   PROVE  Contents'[k] = (<<i>> \o Contents)[k]
        OBVIOUS
      <3> front' \in Int
        BY SeqAssumption DEF Inv, TypeOK, Slot
      <3>1. CASE k = 1
        BY <3>1, <2>2, <2>5, <2>6, <2>7
      <3>2. CASE k # 1
        <4>1. k \in 2 .. size + 1 /\ k - 1 \in 1 .. size /\ ~(k <= 1)
          BY <2>3, <3>2
        <4>2. Contents'[k] = items[front + (k - 1) - 1]
          BY <4>1, <2>2, <2>5
        <4>3. Contents[k - 1] = items[front + (k - 1) - 1]
          BY <4>1, <2>4
        <4>4. (<<i>> \o Contents)[k] = Contents[k - 1]
          BY <4>1, <2>7
        <4> QED
          BY <4>2, <4>3, <4>4
      <3> QED
        BY <3>1, <3>2
    <2>9. Contents' = <<i>> \o Contents
      BY <2>5, <2>7, <2>8, SeqEqual
    <2> QED
      BY <2>1, <2>4, <2>9 DEF D!PushFront, Result, D!Result
  <1> QED
    BY <1>1, <1>2

LEMMA PopFrontRefines ==
  ASSUME Inv, Inv', qpop_front PROVE D!PopFront \/ D!PopEmpty
  <1> USE SeqAssumption, ItemAssumption
  <1>1. size \in Nat
    BY DEF Inv, TypeOK
  <1>2. /\ Contents \in Seq(Item) /\ Len(Contents) = size
        /\ \A k \in 1 .. size : Contents[k] = items[front + k - 1]
    BY ContentsSeq
  <1>3. CASE size = 0
    <2>1. Return(0)
      BY <1>3 DEF qpop_front, qpop_at, Inv, Consistent, InRange
    <2> QED
      BY <1>3, <2>1, SameContents, EmptyContents DEF Return, D!PopEmpty, Result, D!Result
  <1>4. CASE size # 0
    <2>1. /\ InRange(front) /\ size = back - front + 1 /\ front \in Slot /\ back \in Slot
          /\ front # 0 /\ items[front] # NoItem
      BY <1>4 DEF Inv, TypeOK, Consistent, InRange, Slot
    <2>2. /\ ret' = Popped(items[front])
          /\ items' = [items EXCEPT ![front] = NoItem]
          /\ Shrink(front + 1, back)
      BY <2>1 DEF qpop_front, qpop_at, Put
    <2>3. size' = size - 1
      BY <1>1, <1>4, <2>2 DEF Shrink
    <2>4. /\ Contents' \in Seq(Item) /\ Len(Contents') = size - 1
          /\ \A k \in 1 .. size - 1 : Contents'[k] = items'[front' + k - 1]
      BY <2>3, ContentsSeqNext
    <2>5. Contents # <<>>
      BY <1>4, EmptyContents
    <2>6. /\ Tail(Contents) \in Seq(Item) /\ Len(Tail(Contents)) = size - 1
          /\ \A k \in 1 .. size - 1 : Tail(Contents)[k] = Contents[k + 1]
      BY <1>2, <2>5, HeadTailProperties
    <2>7. ASSUME NEW k \in 1 .. size - 1 PROVE Contents'[k] = Tail(Contents)[k]
      <3>1. front' = front + 1
        BY <1>1, <2>2 DEF Shrink
      <3>2. /\ front' + k - 1 = front + k /\ front + k \in Slot /\ front + k # front
            /\ k + 1 \in 1 .. size /\ front + (k + 1) - 1 = front + k
        BY <1>1, <2>1, <3>1 DEF Slot
      <3>3. items'[front + k] = items[front + k]
        BY <2>2, <3>2 DEF Inv, TypeOK
      <3>4. Contents[k + 1] = items[front + k]
        BY <1>2, <3>2
      <3> QED
        BY <2>4, <2>6, <3>2, <3>3, <3>4
    <2>8. Contents' = Tail(Contents)
      BY <2>4, <2>6, <2>7, SeqEqual
    <2>9. Head(Contents) = items[front]
      <3>1. Head(Contents) = Contents[1]
        BY <1>2
      <3>2. 1 \in 1 .. size /\ front + 1 - 1 = front
        BY <1>1, <1>4, <2>1 DEF Slot
      <3> QED
        BY <1>2, <3>1, <3>2
    <2> QED
      BY <2>2, <2>5, <2>8, <2>9 DEF D!PopFront, Popped, D!Popped
  <1> QED
    BY <1>3, <1>4

LEMMA PopBackRefines ==
  ASSUME Inv, Inv', qpop_back PROVE D!PopBack \/ D!PopEmpty
  <1> USE SeqAssumption, ItemAssumption
  <1>1. size \in Nat
    BY DEF Inv, TypeOK
  <1>2. /\ Contents \in Seq(Item) /\ Len(Contents) = size
        /\ \A k \in 1 .. size : Contents[k] = items[front + k - 1]
    BY ContentsSeq
  <1>3. CASE size = 0
    <2>1. Return(0)
      BY <1>3 DEF qpop_back, qpop_at, Inv, Consistent, InRange
    <2> QED
      BY <1>3, <2>1, SameContents, EmptyContents DEF Return, D!PopEmpty, Result, D!Result
  <1>4. CASE size # 0
    <2>1. /\ InRange(front) /\ size = back - front + 1 /\ front \in Slot /\ back \in Slot
          /\ back # 0 /\ items[back] # NoItem
      BY <1>4 DEF Inv, TypeOK, Consistent, InRange, Slot
    <2>2. /\ ret' = Popped(items[back])
          /\ items' = [items EXCEPT ![back] = NoItem]
          /\ Shrink(front, back - 1)
      BY <2>1 DEF qpop_back, qpop_at, Put
    <2>3. size' = size - 1
      BY <1>1, <1>4, <2>2 DEF Shrink
    <2>4. /\ Contents' \in Seq(Item) /\ Len(Contents') = size - 1
          /\ \A k \in 1 .. size - 1 : Contents'[k] = items'[front' + k - 1]
      BY <2>3, ContentsSeqNext
    <2>5. Contents # <<>>
      BY <1>4, EmptyContents
    <2>6. \A k \in 1 .. size : Contents[k] \in Item
      BY <1>2, ElementOfSeq
    <2>7. /\ SubSeq(Contents, 1, size - 1) \in Seq(Item)
          /\ Len(SubSeq(Contents, 1, size - 1)) = size - 1
          /\ \A k \in 1 .. size - 1 : SubSeq(Contents, 1, size - 1)[k] = Contents[k]
      BY <1>1, <1>2, <1>4
    <2>8. ASSUME NEW k \in 1 .. size - 1
          PROVE  Contents'[k] = SubSeq(Contents, 1, size - 1)[k]
      <3>1. front' = front
        BY <1>1, <2>2 DEF Shrink
      <3>2. front + k - 1 \in Slot /\ front + k - 1 # back /\ k \in 1 .. size
        BY <1>1, <2>1 DEF Slot
      <3>3. items'[front + k - 1] = items[front + k - 1]
        BY <2>2, <3>2 DEF Inv, TypeOK
      <3> QED
        BY <1>2, <2>4, <2>7, <3>1, <3>2, <3>3
    <2>9. Contents' = SubSeq(Contents, 1, size - 1)
      BY <2>4, <2>7, <2>8, SeqEqual
    <2>10. Contents[size] = items[back]
      <3>1. size \in 1 .. size /\ front + size - 1 = back
        BY <1>1, <1>4, <2>1 DEF Slot
      <3> QED
        BY <1>2, <3>1
    <2> QED
      BY <1>2, <2>2, <2>5, <2>9, <2>10 DEF D!PopBack, Popped, D!Popped
  <1> QED
    BY <1>3, <1>4

\* Overwriting row s is overwriting position s - front + 1.
LEMMA OverwriteRefines ==
  ASSUME Inv, Inv', NEW s \in Slot, front # 0, front <= s, s <= back, NEW i \in Item,
         Put(s, i), ret' = Result(1), UNCHANGED <<front, back, size>>
  PROVE  s - front + 1 \in 1 .. size /\ D!Write(s - front + 1, i)
  <1> USE SeqAssumption, ItemAssumption
  <1> DEFINE p == s - front + 1
  <1>1. /\ size \in Nat /\ front \in Nat /\ s \in Nat /\ p \in 1 .. size
        /\ size = back - front + 1 /\ back \in Slot
    BY DEF Inv, TypeOK, Consistent, InRange, Slot
  <1>2. /\ Contents \in Seq(Item) /\ Len(Contents) = size
        /\ \A k \in 1 .. size : Contents[k] = items[front + k - 1]
    BY ContentsSeq
  <1>3. /\ Contents' \in Seq(Item) /\ Len(Contents') = size
        /\ \A k \in 1 .. size : Contents'[k] = items'[front + k - 1]
    BY ContentsSeqNext
  <1> HIDE DEF p
  <1>4. /\ [Contents EXCEPT ![p] = i] \in Seq(Item)
        /\ Len([Contents EXCEPT ![p] = i]) = size
        /\ \A k \in 1 .. size :
             [Contents EXCEPT ![p] = i][k] = IF k = p THEN i ELSE Contents[k]
    BY <1>1, <1>2, ExceptSeq
  <1>5. ASSUME NEW k \in 1 .. size PROVE Contents'[k] = [Contents EXCEPT ![p] = i][k]
    <2>1. front + k - 1 \in Slot /\ (front + k - 1 = s <=> k = p)
      BY <1>1 DEF p, Slot
    <2>2. items'[front + k - 1] = IF k = p THEN i ELSE items[front + k - 1]
      BY <2>1 DEF Put, Inv, TypeOK
    <2> QED
      BY <1>2, <1>3, <1>4, <2>2
  <1>6. Contents' = [Contents EXCEPT ![p] = i]
    BY <1>3, <1>4, <1>5, SeqEqual
  <1> QED
    BY <1>1, <1>6 DEF p, D!Write, Result, D!Result

LEMMA SetRefines ==
  ASSUME Inv, Inv', NEW x \in Int, NEW i \in Item, qset(x, i) PROVE D!Set(x, i)
  <1> USE SeqAssumption, ItemAssumption
  <1>1. size \in Nat /\ Len(Contents) = size
    BY ContentsSeq DEF Inv, TypeOK
  <1>2. CASE x >= size \/ x < -size
    <2>1. Return(0) /\ x \notin (-size) .. (size - 1)
      BY <1>1, <1>2 DEF qset
    <2> QED
      BY <1>1, <2>1, SameContents DEF D!Set, Return, Result, D!Result
  <1>3. CASE x < size /\ x >= -size
    <2>1. /\ EndOfIndex(x) # 0 /\ front # 0 /\ SeqOfIndex(x) \in Slot
          /\ front <= SeqOfIndex(x) /\ SeqOfIndex(x) <= back
          /\ SeqOfIndex(x) - front + 1 = IF x >= 0 THEN x + 1 ELSE size + x + 1
      BY <1>3 DEF Inv, TypeOK, Consistent, EndOfIndex, SeqOfIndex, Slot, InRange
    <2>2. Put(SeqOfIndex(x), i) /\ ret' = Result(1) /\ UNCHANGED <<front, back, size>>
      BY <1>1, <1>3, <2>1 DEF qset
    <2>3. D!Write(IF x >= 0 THEN x + 1 ELSE size + x + 1, i)
      BY <2>1, <2>2, OverwriteRefines
    <2> QED
      BY <1>1, <1>3, <2>3 DEF D!Set
  <1> QED
    BY <1>1, <1>2, <1>3

LEMMA SetBySeqRefines ==
  ASSUME SeqPastEnd = FALSE, Inv, Inv', NEW s \in Slot, NEW i \in Item, qset_by_seq(s, i)
  PROVE  D!SetBySeq(i)
  <1> USE SeqAssumption, ItemAssumption
  <1>1. CASE Return(0)
    BY <1>1, SameContents DEF Return, D!SetBySeq, Result, D!Result
  <1>2. CASE ~Return(0)
    <2>1. /\ Put(s, i) /\ ret' = Result(1) /\ UNCHANGED <<front, back, size>>
          /\ front <= s /\ s <= front + size /\ s # front + size
      BY <1>2 DEF qset_by_seq
    <2>2. front # 0 /\ s <= back
      BY <2>1 DEF Inv, TypeOK, Consistent, Slot, InRange
    <2>3. s - front + 1 \in 1 .. size /\ D!Write(s - front + 1, i)
      BY <2>1, <2>2, OverwriteRefines
    <2>4. DOMAIN Contents = 1 .. size
      BY DEF Contents
    <2> QED
      BY <2>3, <2>4 DEF D!SetBySeq
  <1> QED
    BY <1>1, <1>2

LEMMA FixRefines ==
  ASSUME Inv, qfix PROVE D!Fix
  BY FixChangesNothing, SameContents DEF qfix, D!Fix, Result, D!Result

LEMMA NextRefines ==
  ASSUME SeqPastEnd = FALSE, Inv, Inv', [Next]_vars PROVE [D!Next]_(D!vars)
  <1>1. CASE \E i \in Item : qpush_front(i) \/ qpush_back(i)
    BY <1>1, PushFrontRefines, PushBackRefines DEF D!Next
  <1>2. CASE qpop_front \/ qpop_back
    BY <1>2, PopFrontRefines, PopBackRefines DEF D!Next
  <1>3. CASE \E x \in Indexes, i \in Item : qset(x, i)
    BY <1>3, SetRefines, IndexAssumption DEF D!Next
  <1>4. CASE \E s \in Slot, i \in Item : qset_by_seq(s, i)
    BY <1>4, SetBySeqRefines DEF D!Next
  <1>5. CASE qfix
    BY <1>5, FixRefines DEF D!Next
  <1>6. CASE Fail
    BY <1>6, FailRefines DEF Fail, D!Next
  <1>7. CASE UNCHANGED vars
    BY <1>7, SameContents DEF vars, rows, D!vars
  <1> QED
    BY <1>1, <1>2, <1>3, <1>4, <1>5, <1>6, <1>7 DEF Next

\* The code of t_queue.cpp implements a double-ended queue: for all sizes,
\* all ranges of sequence numbers and all sequences of operations.
THEOREM QueueIsDeque ==
  ASSUME SeqPastEnd = FALSE PROVE Spec => DequeSpec
  <1>1. Init => Inv
    BY InitInv
  <1>2. Inv /\ [Next]_vars => Inv'
    BY NextInv
  <1>3. Init => D!Init
    BY InitRefines
  <1>4. Inv /\ Inv' /\ [Next]_vars => [D!Next]_(D!vars)
    BY NextRefines
  <1> QED
    BY <1>1, <1>2, <1>3, <1>4, PTL DEF Spec, DequeSpec, D!Spec

-----------------------------------------------------------------------------
(* Reading by position.                                                    *)

\* A row exists exactly between the ends, whatever number is asked for.
LEMMA RowsBetween ==
  ASSUME Inv, front # 0, NEW s \in Int
  PROVE  /\ s < front \/ s > back => GetBySeq(s) = NoItem
         /\ front <= s /\ s <= back => GetBySeq(s) = Contents[s - front + 1] /\ GetBySeq(s) # NoItem
  <1>1. /\ size = back - front + 1 /\ front \in Nat /\ back \in Nat /\ front \in Slot /\ back \in Slot
        /\ \A n \in Slot : items[n] # NoItem <=> front <= n /\ n <= back
    BY SeqAssumption DEF Inv, TypeOK, Consistent, Slot
  <1>2. ASSUME front <= s, s <= back
        PROVE  GetBySeq(s) = Contents[s - front + 1] /\ GetBySeq(s) # NoItem
    <2>1. s \in Slot /\ items[s] # NoItem /\ GetBySeq(s) = items[s]
      BY <1>1, <1>2, SeqAssumption DEF Slot, GetBySeq
    <2>2. s - front + 1 \in 1 .. size /\ front + (s - front + 1) - 1 = s
      BY <1>1, <1>2
    <2> QED
      BY <2>1, <2>2, ContentsSeq
  <1>3. ASSUME s < front \/ s > back
        PROVE  GetBySeq(s) = NoItem
    BY <1>1, <1>3 DEF GetBySeq
  <1> QED
    BY <1>2, <1>3

LEMMA EmptyEnds ==
  ASSUME Inv PROVE /\ front = 0 <=> back = 0
                   /\ front = 0 <=> size = 0
                   /\ front # 0 => size = back - front + 1
                   /\ front \in Nat /\ back \in Nat /\ size \in Nat
  BY SeqAssumption DEF Inv, TypeOK, Consistent, InRange, Slot

LEMMA InvGetIsIndexing ==
  ASSUME Inv PROVE GetIsIndexing
  <1> SUFFICES ASSUME NEW x \in Int
               PROVE  qget(x) = IF x >= 0 /\ x < size THEN Contents[x + 1]
                                ELSE IF x < 0 /\ -x <= size THEN Contents[size + x + 1]
                                ELSE NoItem
    BY IndexAssumption DEF GetIsIndexing
  <1>1. CASE front = 0
    BY <1>1, EmptyEnds DEF qget, EndOfIndex
  <1>2. CASE front # 0
    <2>1. qget(x) = GetBySeq(SeqOfIndex(x)) /\ SeqOfIndex(x) \in Int
      BY <1>2, EmptyEnds DEF qget, EndOfIndex, SeqOfIndex
    <2>2. SeqOfIndex(x) - front + 1 = IF x >= 0 THEN x + 1 ELSE size + x + 1
      BY <1>2, EmptyEnds DEF SeqOfIndex
    <2> DEFINE s == SeqOfIndex(x)
    <2>3. front <= s /\ s <= back <=> \/ x >= 0 /\ x < size
                                      \/ x < 0 /\ -x <= size
      BY <1>2, <2>1, <2>2, EmptyEnds
    <2>4. s < front \/ s > back <=> ~(front <= s /\ s <= back)
      BY <2>1, EmptyEnds
    <2> HIDE DEF s
    <2>5. /\ s < front \/ s > back => GetBySeq(s) = NoItem
          /\ front <= s /\ s <= back => GetBySeq(s) = Contents[s - front + 1]
      BY <1>2, <2>1, RowsBetween DEF s
    <2> QED
      BY <2>1, <2>2, <2>3, <2>4, <2>5, EmptyEnds DEF s
  <1> QED
    BY <1>1, <1>2

\* The longest stretch of rows from sequence number b on that qslice finds,
\* when it may go up to e.
LEMMA SliceLength ==
  ASSUME Inv, front # 0, NEW b \in Int, NEW e \in Int, NEW L \in Nat,
         L = IF b < front \/ b > back \/ e < b THEN 0
             ELSE IF e <= back THEN e - b + 1 ELSE back - b + 1
  PROVE  LET Lens == {n \in 0 .. e - b + 1 : \A k \in 0 .. n-1 : GetBySeq(b + k) # NoItem}
         IN L = IF Lens = {} THEN 0 ELSE CHOOSE n \in Lens : \A m \in Lens : m <= n
  <1> DEFINE Lens == {n \in 0 .. e - b + 1 : \A k \in 0 .. n-1 : GetBySeq(b + k) # NoItem}
  <1>1. front \in Nat /\ back \in Nat
    BY EmptyEnds
  <1>2. CASE e - b + 1 < 0
    BY <1>1, <1>2
  <1>3. CASE e - b + 1 >= 0
    <2>1. L \in 0 .. e - b + 1
      BY <1>1, <1>3
    <2>2. ASSUME NEW k \in 0 .. L - 1 PROVE GetBySeq(b + k) # NoItem
      <3>1. b + k \in Int /\ front <= b + k /\ b + k <= back
        BY <1>1, <2>1
      <3> QED
        BY <3>1, RowsBetween
    <2>3. L \in Lens
      BY <2>1, <2>2
    <2>4. ASSUME NEW n \in Lens PROVE n <= L
      <3>1. CASE n <= L
        BY <3>1
      <3>2. CASE n > L
        <4>1. L \in 0 .. n - 1
          BY <2>1, <3>2
        <4>2. b + L \in Int /\ (b + L < front \/ b + L > back)
          BY <1>1, <2>1, <3>2
        <4>3. GetBySeq(b + L) = NoItem
          BY <4>2, RowsBetween
        <4> QED
          BY <4>1, <4>3
      <3> QED
        BY <2>1, <3>1, <3>2
    <2>5. \A n \in Lens : n \in Int
      OBVIOUS
    <2> HIDE DEF Lens
    <2>6. (CHOOSE n \in Lens : \A m \in Lens : m <= n) = L
      <3> DEFINE C == CHOOSE n \in Lens : \A m \in Lens : m <= n
      <3>1. C \in Lens /\ \A m \in Lens : m <= C
        BY <2>3, <2>4
      <3> HIDE DEF C
      <3>2. L <= C /\ C <= L /\ C \in Int
        BY <2>3, <2>4, <2>5, <3>1
      <3>3. C = L
        BY <3>2
      <3> QED
        BY <3>3 DEF C
    <2> QED
      BY <2>3, <2>6 DEF Lens
  <1> QED
    BY <1>2, <1>3

LEMMA InvSliceIsSubSeq ==
  ASSUME Inv PROVE SliceIsSubSeq
  <1> SUFFICES ASSUME NEW x \in Int, NEW y \in Int
               PROVE  LET first == IF x >= 0 THEN x + 1 ELSE size + x + 1
                          last  == IF y >= 0 THEN y + 1 ELSE size + y + 1
                      IN qslice(x, y) =
                           IF first < 1 \/ first > size THEN <<>>
                           ELSE SubSeq(Contents, first, IF last < size THEN last ELSE size)
    BY IndexAssumption DEF SliceIsSubSeq
  <1> DEFINE first == IF x >= 0 THEN x + 1 ELSE size + x + 1
             last  == IF y >= 0 THEN y + 1 ELSE size + y + 1
             upto  == IF last < size THEN last ELSE size
  <1>1. CASE front = 0
    BY <1>1, EmptyEnds DEF qslice, EndOfIndex
  <1>2. CASE front # 0
    <2> DEFINE b == SeqOfIndex(x)
               e == SeqOfIndex(y)
               L == IF b < front \/ b > back \/ e < b THEN 0
                    ELSE IF e <= back THEN e - b + 1 ELSE back - b + 1
    <2>1. /\ b \in Int /\ e \in Int /\ first \in Int /\ last \in Int /\ upto \in Int
          /\ b - front + 1 = first /\ e - front + 1 = last
      BY <1>2, EmptyEnds DEF SeqOfIndex
    <2>2. EndOfIndex(x) # 0 /\ EndOfIndex(y) # 0
      BY <1>2, EmptyEnds DEF EndOfIndex
    <2>3. L \in Nat
      BY <1>2, <2>1, EmptyEnds
    <2> HIDE DEF b, e
    <2>4. qslice(x, y) = [k \in 1 .. L |-> GetBySeq(b + k - 1)]
      BY <1>2, <2>1, <2>2, <2>3, SliceLength DEF qslice, b, e
    <2>5. CASE first < 1 \/ first > size
      <3>1. L = 0
        BY <1>2, <2>1, <2>5, EmptyEnds
      <3> QED
        BY <2>4, <2>5, <3>1
    <2>6. CASE ~(first < 1 \/ first > size)
      <3>1. /\ L = IF upto < first THEN 0 ELSE upto - first + 1
            /\ front <= b
        BY <1>2, <2>1, <2>6, EmptyEnds
      <3> DEFINE part == SubSeq(Contents, first, upto)
      <3>2. \A i \in first .. upto : Contents[i] \in Item
        <4> SUFFICES ASSUME NEW i \in first .. upto PROVE Contents[i] \in Item
          OBVIOUS
        <4>1. i \in 1 .. size
          BY <2>1, <2>6, EmptyEnds
        <4> HIDE DEF first, last, upto
        <4> QED
          BY <4>1, ContentsSeq, ElementOfSeq
      <3>3. /\ part \in Seq(Item) /\ Len(part) = IF first <= upto THEN upto - first + 1 ELSE 0
            /\ \A k \in 1 .. upto - first + 1 : part[k] = Contents[first + k - 1]
        BY <2>1, <3>2, SubSeqProperties
      <3>4. ASSUME NEW k \in 1 .. L PROVE GetBySeq(b + k - 1) = Contents[first + k - 1]
        <4>1. b + k - 1 \in Int /\ front <= b + k - 1 /\ b + k - 1 <= back
          BY <1>2, <2>1, <2>6, <3>1, EmptyEnds
        <4>2. (b + k - 1) - front + 1 = first + k - 1
          BY <1>2, <2>1, EmptyEnds
        <4> QED
          BY <1>2, <4>1, <4>2, RowsBetween
      <3>5. Len(part) = L /\ \A k \in 1 .. L : k \in 1 .. upto - first + 1
        BY <2>1, <3>1, <3>3
      <3> HIDE DEF part, L, first, last, upto
      <3>6. part = [k \in 1 .. L |-> part[k]]
        BY <3>3, <3>5, LenProperties
      <3>7. part = [k \in 1 .. L |-> GetBySeq(b + k - 1)]
        BY <3>3, <3>4, <3>5, <3>6
      <3> QED
        BY <2>4, <2>6, <3>7 DEF part, first, last, upto
    <2> QED
      BY <2>5, <2>6
  <1> QED
    BY <1>1, <1>2

\* qget and qslice read by position what the sequence has there, for every
\* index, negative ones and ones outside the queue included.
THEOREM QueueReadsAreIndexing ==
  ASSUME SeqPastEnd = FALSE PROVE Spec => []ReadsAreIndexing
  <1>1. Init => Inv
    BY InitInv
  <1>2. Inv /\ [Next]_vars => Inv'
    BY NextInv
  <1>3. Inv => ReadsAreIndexing
    BY InvGetIsIndexing, InvSliceIsSubSeq DEF ReadsAreIndexing
  <1> QED
    BY <1>1, <1>2, <1>3, PTL DEF Spec

(***************************************************************************)
(* The facade: threads in the loops of qPush, qPop and qClear.             *)
(***************************************************************************)

\* What left the queue, or was at least read by a pop.
Gone == handed \cup dropped

\* The queue holds the pushes in their order ...
Ascending ==
  /\ \A j \in 1 .. Len(Contents) : Contents[j] <= pushed
  /\ \A j, k \in 1 .. Len(Contents) : j < k => Contents[j] < Contents[k]

\* ... and nothing that is newer has left it.
GoneIsOlder ==
  \A i \in Gone : i <= pushed /\ \A j \in 1 .. Len(Contents) : i <= Contents[j]

\* Each item is somewhere, and in one place unless a pop failed.
Everywhere == \A i \in Item : i <= pushed <=> i \in Gone \/ \E j \in 1 .. Len(Contents) : Contents[j] = i
OnePlace ==
  ~failed => /\ \A j \in 1 .. Len(Contents) : Contents[j] \notin Gone
             /\ handed \cap dropped = {}

\* An array is in order and ends with `value', which a pop of an empty queue
\* may therefore add again.
ArraysInOrder ==
  \A t \in Thread :
    /\ \A j \in 1 .. Len(values[t]) :
         values[t][j] \in handed /\ value[t] # NoItem /\ values[t][j] <= value[t]
    /\ \A j, k \in 1 .. Len(values[t]) : j < k => values[t][j] <= values[t][k]
    /\ value[t] # NoItem => value[t] \in handed

FInv == Inv /\ FTypeOK /\ Ascending /\ GoneIsOlder /\ Everywhere /\ OnePlace /\ ArraysInOrder

-----------------------------------------------------------------------------
(* What the calls do to the contents.                                      *)

LEMMA ContentsFacts ==
  ASSUME Inv
  PROVE  /\ Contents \in Seq(Item) /\ Len(Contents) \in Nat /\ DOMAIN Contents = 1 .. Len(Contents)
         /\ Len(Contents) = size
         /\ \A k \in 1 .. Len(Contents) : Contents[k] \in Item
         /\ front = 0 <=> Len(Contents) = 0
         /\ front # 0 => items[front] = Contents[1]
  <1>1. /\ Contents \in Seq(Item) /\ Len(Contents) = size
        /\ \A k \in 1 .. size : Contents[k] = items[front + k - 1]
    BY ContentsSeq
  <1>2. Len(Contents) \in Nat /\ DOMAIN Contents = 1 .. Len(Contents)
    BY <1>1, LenProperties
  <1>3. \A k \in 1 .. Len(Contents) : Contents[k] \in Item
    BY <1>1, ElementOfSeq
  <1>4. /\ front = 0 <=> size = 0
        /\ front \in Nat /\ size \in Nat
    BY EmptyEnds
  <1>5. front # 0 => items[front] = Contents[1]
    BY <1>1, <1>4
  <1> QED
    BY <1>1, <1>2, <1>3, <1>4, <1>5

\* The contents grow by an item at the end.
Grown(i) ==
  /\ Len(Contents') = Len(Contents) + 1
  /\ \A k \in 1 .. Len(Contents) : Contents'[k] = Contents[k]
  /\ Contents'[Len(Contents) + 1] = i

\* The first item is gone.
Shifted ==
  /\ Len(Contents) > 0 /\ Len(Contents') = Len(Contents) - 1
  /\ \A k \in 1 .. Len(Contents') : Contents'[k] = Contents[k + 1]

LEMMA PushEffect ==
  ASSUME Inv, NEW i \in Item, qpush_back(i)
  PROVE  /\ Inv'
         /\ \/ Grown(i) /\ ret'.code # -1
            \/ Contents' = Contents /\ ret'.code = -1
  <1>1. Inv'
    BY PushInv
  <1>2. D!PushBack(i) \/ D!Fail
    BY <1>1, PushBackRefines
  <1>3. Contents \in Seq(Item) /\ Len(Contents) \in Nat
    BY ContentsFacts
  <1>4. CASE D!Fail
    BY <1>1, <1>4 DEF D!Fail, D!Result
  <1>5. CASE D!PushBack(i)
    <2>1. Contents' = Append(Contents, i) /\ ret'.code = Len(Contents) + 1
      BY <1>5 DEF D!PushBack, D!Result
    <2>2. Grown(i)
      BY <1>3, <2>1, AppendProperties DEF Grown
    <2> QED
      BY <1>1, <1>3, <2>1, <2>2
  <1> QED
    BY <1>2, <1>4, <1>5

LEMMA PopEffect ==
  ASSUME Inv, qpop_front
  PROVE  /\ Inv'
         /\ \/ front = 0 /\ Len(Contents) = 0 /\ Contents' = Contents /\ ret'.item = {}
            \/ front # 0 /\ Shifted /\ ret'.item = {Contents[1]}
  <1>1. Inv'
    BY PopInv
  <1>2. D!PopFront \/ D!PopEmpty
    BY <1>1, PopFrontRefines
  <1>3. /\ Contents \in Seq(Item) /\ Len(Contents) \in Nat
        /\ front = 0 <=> Len(Contents) = 0
    BY ContentsFacts
  <1>4. CASE D!PopEmpty
    BY <1>1, <1>3, <1>4, EmptySeq DEF D!PopEmpty, D!Result
  <1>5. CASE D!PopFront
    <2>1. Contents # <<>> /\ Contents' = Tail(Contents) /\ ret'.item = {Head(Contents)}
      BY <1>5 DEF D!PopFront, D!Popped
    <2>2. /\ Len(Contents) > 0 /\ Len(Contents') = Len(Contents) - 1
          /\ \A k \in 1 .. Len(Contents') : Contents'[k] = Contents[k + 1]
      BY <1>3, <2>1, HeadTailProperties, EmptySeq
    <2>3. Head(Contents) = Contents[1]
      BY <2>1
    <2>4. front # 0
      BY <1>3, <2>2
    <2>5. Shifted
      BY <2>2 DEF Shifted
    <2>6. ret'.item = {Contents[1]}
      BY <2>1, <2>3
    <2> QED
      BY <1>1, <2>4, <2>5, <2>6
  <1> QED
    BY <1>2, <1>4, <1>5

-----------------------------------------------------------------------------
(* The steps.                                                              *)

LEMMA FacadeInit == FInit => FInv
  <1> SUFFICES ASSUME FInit PROVE FInv
    OBVIOUS
  <1>1. Inv /\ Contents = <<>>
    BY InitInv, EmptyContents DEF FInit, Init
  <1>2. Len(Contents) = 0
    BY <1>1, EmptySeq
  <1>3. FTypeOK
    <2>1. values \in [Thread -> Seq(Item)]
      BY EmptySeq DEF FInit
    <2>2. /\ pc = [t \in Thread |-> "idle"] /\ todo = [t \in Thread |-> 0]
          /\ value = [t \in Thread |-> NoItem]
      BY DEF FInit
    <2>3. pc \in [Thread -> {"idle", "qPop", "qClear"}]
      BY <2>2
    <2>4. todo \in [Thread -> Nat]
      BY <2>2
    <2>5. value \in [Thread -> Item \cup {NoItem}]
      BY <2>2
    <2>6. pushed \in 0 .. MaxItem
      BY FacadeAssumption DEF FInit
    <2>7. dropped \subseteq Item /\ handed \subseteq Item /\ failed \in BOOLEAN
      BY DEF FInit
    <2> QED
      BY <1>1, <2>1, <2>3, <2>4, <2>5, <2>6, <2>7 DEF FTypeOK, Inv
  <1>4. Ascending /\ GoneIsOlder /\ Everywhere /\ OnePlace
    BY <1>2, FacadeAssumption DEF FInit, Ascending, GoneIsOlder, Everywhere, OnePlace, Gone
  <1>5. ArraysInOrder
    BY EmptySeq DEF FInit, ArraysInOrder
  <1> QED
    BY <1>1, <1>3, <1>4, <1>5 DEF FInv

\* A step that leaves the rows, the history and the arrays alone.
LEMMA FacadeLocal ==
  ASSUME FInv, UNCHANGED <<rows, history, value, values>>,
         TypeOK', pc' \in [Thread -> {"idle", "qPop", "qClear"}], todo' \in [Thread -> Nat]
  PROVE  FInv'
  <1>1. Inv'
    BY DEF FInv, Inv, Consistent, InRange, rows
  <1>2. Contents' = Contents
    BY DEF rows, Contents
  <1>3. FTypeOK'
    BY DEF FInv, FTypeOK, history
  <1>4. Ascending' /\ GoneIsOlder' /\ Everywhere' /\ OnePlace' /\ ArraysInOrder'
    BY <1>2 DEF FInv, Ascending, GoneIsOlder, Everywhere, OnePlace, ArraysInOrder, Gone, history
  <1> QED
    BY <1>1, <1>3, <1>4 DEF FInv

LEMMA FacadePush ==
  ASSUME FInv, NEW t \in Thread, qPush(t) PROVE FInv'
  <1>1. pushed + 1 \in Item /\ pushed \in Nat /\ pushed < MaxItem /\ MaxItem \in Nat /\ Item = 1 .. MaxItem
    BY FacadeAssumption DEF FInv, FTypeOK, qPush
  <1>2. qpush_back(pushed + 1)
    BY DEF qPush
  <1>3. /\ Inv'
        /\ \/ Grown(pushed + 1) /\ ret'.code # -1
           \/ Contents' = Contents /\ ret'.code = -1
    BY <1>1, <1>2, PushEffect DEF FInv
  <1>4. UNCHANGED <<dropped, handed, failed, local>>
    BY DEF qPush
  <1>5. CASE Contents' = Contents /\ ret'.code = -1
    <2>1. pushed' = pushed
      BY <1>5 DEF qPush
    <2>2. FTypeOK'
      BY <1>3, <1>4, <2>1 DEF FInv, FTypeOK, Inv, local
    <2>3. Ascending' /\ GoneIsOlder' /\ Everywhere' /\ OnePlace' /\ ArraysInOrder'
      BY <1>4, <1>5, <2>1
      DEF FInv, Ascending, GoneIsOlder, Everywhere, OnePlace, ArraysInOrder, Gone, local
    <2> QED
      BY <1>3, <2>2, <2>3 DEF FInv
  <1>6. CASE Grown(pushed + 1) /\ ret'.code # -1
    <2> DEFINE n == Len(Contents)
    <2>1. /\ n \in Nat /\ \A k \in 1 .. n : Contents[k] \in Item
          /\ Len(Contents') = n + 1 /\ Contents'[n + 1] = pushed + 1
          /\ \A k \in 1 .. n : Contents'[k] = Contents[k]
          /\ pushed' = pushed + 1
      BY <1>6, ContentsFacts DEF FInv, Grown, qPush
    <2>2. FTypeOK'
      BY <1>1, <1>3, <1>4, <2>1 DEF FInv, FTypeOK, Inv, local
    <2>3. Ascending'
      BY <1>1, <2>1 DEF FInv, Ascending
    <2>4. GoneIsOlder'
      <3>1. Gone' = Gone /\ \A i \in Gone : i \in Nat
        BY <1>1, <1>4 DEF Gone, FInv, FTypeOK
      <3> QED
        BY <1>1, <2>1, <3>1 DEF FInv, GoneIsOlder
    <2>5. Everywhere'
      <3>1. Gone' = Gone
        BY <1>4 DEF Gone
      <3>2. ASSUME NEW i \in Item, i <= pushed + 1
            PROVE  i \in Gone \/ \E j \in 1 .. n + 1 : Contents'[j] = i
        <4>1. CASE i = pushed + 1
          BY <2>1, <4>1
        <4>2. CASE i <= pushed
          BY <2>1, <4>2 DEF FInv, Everywhere
        <4> QED
          BY <1>1, <3>2, <4>1, <4>2
      <3>3. ASSUME NEW i \in Item, i \in Gone \/ \E j \in 1 .. n + 1 : Contents'[j] = i
            PROVE  i <= pushed + 1
        <4>1. CASE i \in Gone
          BY <1>1, <4>1 DEF FInv, Everywhere
        <4>2. CASE \E j \in 1 .. n + 1 : Contents'[j] = i
          BY <1>1, <2>1, <4>2 DEF FInv, Everywhere
        <4> QED
          BY <3>3, <4>1, <4>2
      <3> QED
        BY <2>1, <3>1, <3>2, <3>3 DEF Everywhere
    <2>6. OnePlace'
      <3>1. pushed + 1 \notin Gone
        BY <1>1 DEF FInv, GoneIsOlder
      <3> QED
        BY <1>1, <1>4, <2>1, <3>1 DEF FInv, OnePlace, Gone
    <2>7. ArraysInOrder'
      BY <1>4 DEF FInv, ArraysInOrder, local
    <2> QED
      BY <1>3, <2>2, <2>3, <2>4, <2>5, <2>6, <2>7 DEF FInv
  <1> QED
    BY <1>3, <1>5, <1>6

\* What a pop leaves behind is in order, and what it takes is not newer.
LEMMA ShiftedOrder ==
  ASSUME FInv, Shifted, pushed' = pushed, Gone' = Gone \cup {Contents[1]}
  PROVE  Ascending' /\ GoneIsOlder' /\ Everywhere'
  <1> DEFINE n == Len(Contents)
  <1>1. /\ n \in Nat /\ n > 0 /\ \A k \in 1 .. n : Contents[k] \in Item /\ Contents[k] \in Nat
        /\ Len(Contents') = n - 1 /\ \A k \in 1 .. n - 1 : Contents'[k] = Contents[k + 1]
        /\ pushed \in Nat
    BY ContentsFacts, FacadeAssumption DEF FInv, FTypeOK, Shifted
  <1>2. Ascending'
    <2>1. \A j \in 1 .. n - 1 : j + 1 \in 1 .. n /\ j + 1 \in Nat
      BY <1>1
    <2>2. ASSUME NEW j \in 1 .. n - 1 PROVE Contents'[j] <= pushed
      BY <1>1, <2>1 DEF FInv, Ascending
    <2>3. ASSUME NEW j \in 1 .. n - 1, NEW k \in 1 .. n - 1, j < k
          PROVE  Contents'[j] < Contents'[k]
      <3>1. j + 1 < k + 1
        BY <2>3
      <3>2. Contents[j + 1] < Contents[k + 1]
        BY <2>1, <3>1 DEF FInv, Ascending
      <3> QED
        BY <1>1, <3>2
    <2> QED
      BY <1>1, <2>2, <2>3 DEF Ascending
  <1>3. GoneIsOlder'
    <2>1. \A i \in Gone : i \in Nat
      BY FacadeAssumption DEF FInv, FTypeOK, Gone
    <2> QED
      BY <1>1, <2>1 DEF FInv, Ascending, GoneIsOlder
  <1>4. Everywhere'
    <2>1. ASSUME NEW i \in Item, \E j \in 1 .. n : Contents[j] = i
          PROVE  i = Contents[1] \/ \E j \in 1 .. n - 1 : Contents'[j] = i
      <3>1. PICK j \in 1 .. n : Contents[j] = i
        BY <2>1
      <3>2. CASE j = 1
        BY <3>1, <3>2
      <3>3. CASE j # 1
        <4>1. j - 1 \in 1 .. n - 1 /\ (j - 1) + 1 = j
          BY <1>1, <3>3
        <4>2. Contents'[j - 1] = Contents[j]
          BY <1>1, <4>1
        <4> QED
          BY <3>1, <4>1, <4>2
      <3> QED
        BY <3>2, <3>3
    <2>2. ASSUME NEW i \in Item, i = Contents[1] \/ \E j \in 1 .. n - 1 : Contents'[j] = i
          PROVE  \E j \in 1 .. n : Contents[j] = i
      BY <1>1, <2>2
    <2> QED
      BY <1>1, <2>1, <2>2 DEF FInv, Everywhere
  <1> QED
    BY <1>2, <1>3, <1>4

\* What a pop leaves behind was there before, and is not what it took.
LEMMA ShiftedRest ==
  ASSUME FInv, Shifted, NEW j \in 1 .. Len(Contents')
  PROVE  /\ Contents'[j] # Contents[1]
         /\ \E k \in 1 .. Len(Contents) : Contents'[j] = Contents[k]
  <1>1. Len(Contents) \in Nat /\ \A k \in 1 .. Len(Contents) : Contents[k] \in Nat
    BY ContentsFacts, FacadeAssumption DEF FInv
  <1>2. j + 1 \in 1 .. Len(Contents) /\ 1 \in 1 .. Len(Contents) /\ 1 < j + 1
    BY <1>1 DEF Shifted
  <1>3. Contents[1] < Contents[j + 1] /\ Contents'[j] = Contents[j + 1]
    BY <1>2 DEF FInv, Ascending, Shifted
  <1>4. Contents[1] # Contents[j + 1]
    BY <1>1, <1>2, <1>3
  <1> QED
    BY <1>2, <1>3, <1>4

\* An iteration of qPop that adds v to the array, or nothing when v is empty.
LEMMA Collected ==
  ASSUME FInv, NEW t \in Thread, NEW v \in Item \cup {NoItem}, Collect(t, v),
         v = NoItem => value[t] = NoItem,
         v # NoItem => \A j \in 1 .. Len(values[t]) : values[t][j] <= v
  PROVE  /\ ArraysInOrder'
         /\ handed' = handed \cup ({v} \ {NoItem})
         /\ pc' = pc /\ todo' \in [Thread -> Nat] /\ value' \in [Thread -> Item \cup {NoItem}]
         /\ values' \in [Thread -> Seq(Item)]
         /\ UNCHANGED <<pushed, dropped>>
  <1> DEFINE old == values[t]
             new == IF v = NoItem THEN old ELSE Append(old, v)
  <1>1. /\ Item = 1 .. MaxItem /\ MaxItem \in Nat /\ values \in [Thread -> Seq(Item)]
        /\ value \in [Thread -> Item \cup {NoItem}] /\ todo \in [Thread -> Nat] /\ todo[t] > 0
        /\ handed \subseteq Item /\ old \in Seq(Item) /\ NoItem \notin Item
    BY FacadeAssumption, ItemAssumption DEF FInv, FTypeOK, Collect
  <1>2. /\ todo' = [todo EXCEPT ![t] = @ - 1]
        /\ value' = [value EXCEPT ![t] = v]
        /\ values' = [values EXCEPT ![t] = new]
        /\ handed' = handed \cup ToSet(values'[t])
        /\ UNCHANGED <<pushed, dropped, pc>>
    BY DEF Collect
  <1>3. /\ todo' \in [Thread -> Nat] /\ value' \in [Thread -> Item \cup {NoItem}]
        /\ value'[t] = v /\ \A s \in Thread \ {t} : value'[s] = value[s]
    BY <1>1, <1>2
  <1>4. /\ Len(old) \in Nat /\ new \in Seq(Item)
        /\ \A j \in 1 .. Len(old) : new[j] = old[j] /\ old[j] \in handed /\ old[j] \in Item
        /\ v = NoItem => Len(old) = 0 /\ Len(new) = 0
        /\ v # NoItem => Len(new) = Len(old) + 1 /\ new[Len(old) + 1] = v
    <2>1. Len(old) \in Nat /\ \A j \in 1 .. Len(old) : old[j] \in handed /\ old[j] \in Item
      BY <1>1, LenProperties DEF FInv, ArraysInOrder
    <2>2. CASE v = NoItem
      <3>1. \A j \in 1 .. Len(old) : FALSE
        BY <2>2 DEF FInv, ArraysInOrder
      <3> QED
        BY <1>1, <2>1, <2>2, <3>1
    <2>3. CASE v # NoItem
      BY <1>1, <2>1, <2>3, AppendProperties
    <2> QED
      BY <2>1, <2>2, <2>3
  <1> HIDE DEF new
  <1>5. /\ values' \in [Thread -> Seq(Item)]
        /\ values'[t] = new /\ \A s \in Thread \ {t} : values'[s] = values[s]
    BY <1>1, <1>2, <1>4
  <1>6. handed' = handed \cup ({v} \ {NoItem})
    <2>1. DOMAIN new = 1 .. Len(new)
      BY <1>4, LenProperties
    <2>2. handed' = handed \cup {new[j] : j \in 1 .. Len(new)}
      BY <1>2, <1>5, <2>1 DEF ToSet
    <2>3. CASE v = NoItem
      BY <1>4, <2>2, <2>3
    <2>4. CASE v # NoItem
      <3>1. \A j \in 1 .. Len(new) : j \in 1 .. Len(old) \/ j = Len(old) + 1
        BY <1>4, <2>4
      <3>2. Len(old) + 1 \in 1 .. Len(new)
        BY <1>4, <2>4
      <3> QED
        BY <1>4, <2>2, <2>4, <3>1, <3>2
    <2> QED
      BY <2>3, <2>4
  <1>7. ArraysInOrder'
    <2> SUFFICES ASSUME NEW s \in Thread
                 PROVE  /\ \A j \in 1 .. Len(values'[s]) :
                             values'[s][j] \in handed' /\ value'[s] # NoItem /\ values'[s][j] <= value'[s]
                        /\ \A j, k \in 1 .. Len(values'[s]) : j < k => values'[s][j] <= values'[s][k]
                        /\ value'[s] # NoItem => value'[s] \in handed'
      BY DEF ArraysInOrder
    <2>1. CASE s # t
      <3>1. values'[s] = values[s] /\ value'[s] = value[s]
        BY <1>3, <1>5, <2>1
      <3> QED
        BY <1>6, <3>1 DEF FInv, ArraysInOrder
    <2>2. CASE s = t
      <3>1. values'[s] = new /\ value'[s] = v
        BY <1>3, <1>5, <2>2
      <3>2. CASE v = NoItem
        BY <1>4, <3>1, <3>2
      <3>3. CASE v # NoItem
        <4>1. v \in handed' /\ v \in Nat
          BY <1>1, <1>6, <3>3
        <4>2. \A j \in 1 .. Len(new) : j \in 1 .. Len(old) \/ j = Len(old) + 1
          BY <1>4, <3>3
        <4>3. \A j \in 1 .. Len(old) : new[j] <= v /\ new[j] \in handed' /\ new[j] \in Nat
          <5>1. \A j \in 1 .. Len(old) : old[j] <= v
            BY <3>3
          <5>2. \A i \in Item : i \in Nat
            BY <1>1
          <5>3. \A j \in 1 .. Len(old) : new[j] = old[j] /\ old[j] \in handed /\ old[j] \in Item
            BY <1>4
          <5> QED
            BY <1>6, <5>1, <5>2, <5>3
        <4>4. \A j, k \in 1 .. Len(old) : j < k => new[j] <= new[k]
          BY <1>4 DEF FInv, ArraysInOrder
        <4>5. new[Len(old) + 1] = v
          BY <1>4, <3>3
        <4>6. \A j \in 1 .. Len(new) : new[j] <= v /\ new[j] \in handed' /\ new[j] \in Nat
          BY <4>1, <4>2, <4>3, <4>5
        <4>7. \A j, k \in 1 .. Len(new) : j < k => new[j] <= new[k]
          <5> SUFFICES ASSUME NEW j \in 1 .. Len(new), NEW k \in 1 .. Len(new), j < k
                       PROVE  new[j] <= new[k]
            OBVIOUS
          <5>1. CASE k = Len(old) + 1
            BY <4>5, <4>6, <5>1
          <5>2. CASE k \in 1 .. Len(old)
            <6>1. j \in 1 .. Len(old)
              BY <1>4, <5>2
            <6> QED
              BY <4>4, <5>2, <6>1
          <5> QED
            BY <4>2, <5>1, <5>2
        <4> QED
          BY <3>1, <3>3, <4>1, <4>6, <4>7
      <3> QED
        BY <3>2, <3>3
    <2> QED
      BY <2>1, <2>2
  <1> QED
    BY <1>2, <1>3, <1>5, <1>6, <1>7

LEMMA FacadePop ==
  ASSUME FInv, NEW t \in Thread, PopOne(t) PROVE FInv'
  <1>1. /\ Item = 1 .. MaxItem /\ MaxItem \in Nat /\ value[t] \in Item \cup {NoItem}
        /\ handed \subseteq Item /\ dropped \subseteq Item /\ NoItem \notin Item
        /\ pushed \in 0 .. MaxItem /\ failed \in BOOLEAN
        /\ pc \in [Thread -> {"idle", "qPop", "qClear"}]
    BY FacadeAssumption, ItemAssumption DEF FInv, FTypeOK
  <1>2. /\ Inv'
        /\ \/ front = 0 /\ Len(Contents) = 0 /\ Contents' = Contents
           \/ front # 0 /\ Shifted
    BY PopEffect DEF FInv, PopOne
  <1>3. UNCHANGED failed
    BY DEF PopOne
  <1>4. CASE front = 0 /\ Len(Contents) = 0 /\ Contents' = Contents
    <2>1. Collect(t, value[t])
      BY <1>4 DEF PopOne
    <2>2. /\ value[t] # NoItem => value[t] \in handed
          /\ \A j \in 1 .. Len(values[t]) : values[t][j] <= value[t]
      BY DEF FInv, ArraysInOrder
    <2>3. /\ ArraysInOrder' /\ handed' = handed \cup ({value[t]} \ {NoItem})
          /\ pc' = pc /\ todo' \in [Thread -> Nat] /\ value' \in [Thread -> Item \cup {NoItem}]
          /\ values' \in [Thread -> Seq(Item)] /\ UNCHANGED <<pushed, dropped>>
      BY <1>1, <2>1, <2>2, Collected
    <2>4. handed' = handed
      BY <2>2, <2>3
    <2>5. FTypeOK'
      BY <1>1, <1>2, <1>3, <2>3, <2>4 DEF FTypeOK, Inv
    <2>6. Ascending' /\ GoneIsOlder' /\ Everywhere' /\ OnePlace'
      BY <1>3, <1>4, <2>3, <2>4 DEF FInv, Ascending, GoneIsOlder, Everywhere, OnePlace, Gone
    <2> QED
      BY <1>2, <2>3, <2>5, <2>6 DEF FInv
  <1>5. CASE front # 0 /\ Shifted
    <2> DEFINE v == Contents[1]
    <2>1. items[front] = v /\ v \in Item /\ Len(Contents) > 0 /\ Len(Contents) \in Nat
      BY <1>5, ContentsFacts DEF FInv, Shifted
    <2>2. Collect(t, v)
      BY <1>5, <2>1 DEF PopOne
    <2>3. \A i \in Gone : i <= v
      BY <2>1 DEF FInv, GoneIsOlder
    <2>4. \A j \in 1 .. Len(values[t]) : values[t][j] <= v
      BY <2>3 DEF FInv, ArraysInOrder, Gone
    <2> HIDE DEF v
    <2>5. /\ ArraysInOrder' /\ handed' = handed \cup ({v} \ {NoItem})
          /\ pc' = pc /\ todo' \in [Thread -> Nat] /\ value' \in [Thread -> Item \cup {NoItem}]
          /\ values' \in [Thread -> Seq(Item)] /\ UNCHANGED <<pushed, dropped>>
      BY <1>1, <2>1, <2>2, <2>4, Collected
    <2>6. handed' = handed \cup {v} /\ Gone' = Gone \cup {v}
      BY <1>1, <2>1, <2>5 DEF Gone
    <2>7. FTypeOK'
      BY <1>1, <1>2, <1>3, <2>1, <2>5, <2>6 DEF FTypeOK, Inv
    <2>8. Ascending' /\ GoneIsOlder' /\ Everywhere'
      BY <1>5, <2>5, <2>6, ShiftedOrder DEF v
    <2>9. OnePlace'
      <3> SUFFICES ASSUME ~failed
                   PROVE  /\ \A j \in 1 .. Len(Contents') : Contents'[j] \notin Gone'
                          /\ handed' \cap dropped' = {}
        BY <1>3 DEF OnePlace
      <3>1. /\ \A j \in 1 .. Len(Contents) : Contents[j] \notin Gone
            /\ handed \cap dropped = {}
        BY DEF FInv, OnePlace
      <3>2. v \notin dropped
        BY <2>1, <3>1 DEF v, Gone
      <3>3. \A j \in 1 .. Len(Contents') : Contents'[j] \notin Gone'
        BY <1>5, <2>6, <3>1, ShiftedRest DEF v
      <3> QED
        BY <2>5, <2>6, <3>1, <3>2, <3>3
    <2> QED
      BY <1>2, <2>5, <2>7, <2>8, <2>9 DEF FInv
  <1> QED
    BY <1>2, <1>4, <1>5

\* The Write failed: the item is in the array, and in the queue still.
LEMMA FacadePopFails ==
  ASSUME FInv, NEW t \in Thread, PopOneFails(t) PROVE FInv'
  <1> DEFINE v == Contents[1]
  <1>1. /\ Item = 1 .. MaxItem /\ MaxItem \in Nat /\ value[t] \in Item \cup {NoItem}
        /\ handed \subseteq Item /\ dropped \subseteq Item /\ NoItem \notin Item
        /\ pushed \in 0 .. MaxItem
        /\ pc \in [Thread -> {"idle", "qPop", "qClear"}]
    BY FacadeAssumption, ItemAssumption DEF FInv, FTypeOK
  <1>2. front # 0 /\ Fail /\ Collect(t, items[front]) /\ failed' = TRUE
    BY DEF PopOneFails
  <1>3. Inv' /\ Contents' = Contents
    <2>1. UNCHANGED rows /\ TypeOK'
      BY <1>2 DEF Fail, Return, Result, rows, FInv, Inv, TypeOK
    <2> QED
      BY <2>1 DEF FInv, Inv, Consistent, InRange, rows, Contents
  <1>4. /\ items[front] = v /\ v \in Item /\ Len(Contents) > 0 /\ Len(Contents) \in Nat
        /\ \A k \in 1 .. Len(Contents) : Contents[k] \in Item
    BY <1>2, ContentsFacts DEF FInv
  <1>5. \A i \in Gone : i <= v
    BY <1>4 DEF FInv, GoneIsOlder
  <1>6. \A j \in 1 .. Len(values[t]) : values[t][j] <= v
    BY <1>5 DEF FInv, ArraysInOrder, Gone
  <1>7. Collect(t, v)
    BY <1>2, <1>4
  <1>8. v <= pushed /\ \A k \in 1 .. Len(Contents) : v <= Contents[k]
    <2>1. v <= pushed
      BY <1>4 DEF FInv, Ascending
    <2>2. ASSUME NEW k \in 1 .. Len(Contents) PROVE v <= Contents[k]
      <3>1. CASE k = 1
        BY <1>1, <1>4, <3>1
      <3>2. CASE k # 1
        <4>1. 1 \in 1 .. Len(Contents) /\ 1 < k
          BY <1>4, <3>2
        <4>2. v < Contents[k]
          BY <4>1 DEF FInv, Ascending
        <4> QED
          BY <1>1, <1>4, <4>2
      <3> QED
        BY <3>1, <3>2
    <2> QED
      BY <2>1, <2>2
  <1>9. \E k \in 1 .. Len(Contents) : Contents[k] = v
    BY <1>4
  <1> HIDE DEF v
  <1>10. /\ ArraysInOrder' /\ handed' = handed \cup ({v} \ {NoItem})
         /\ pc' = pc /\ todo' \in [Thread -> Nat] /\ value' \in [Thread -> Item \cup {NoItem}]
         /\ values' \in [Thread -> Seq(Item)] /\ UNCHANGED <<pushed, dropped>>
    BY <1>1, <1>4, <1>6, <1>7, Collected
  <1>11. handed' = handed \cup {v} /\ Gone' = Gone \cup {v}
    BY <1>1, <1>4, <1>10 DEF Gone
  <1>12. FTypeOK'
    BY <1>1, <1>2, <1>3, <1>4, <1>10, <1>11 DEF FTypeOK, Inv
  <1>13. Ascending' /\ GoneIsOlder' /\ OnePlace'
    BY <1>2, <1>3, <1>8, <1>10, <1>11 DEF FInv, Ascending, GoneIsOlder, OnePlace
  <1>14. Everywhere'
    BY <1>3, <1>8, <1>9, <1>10, <1>11 DEF FInv, Everywhere
  <1> QED
    BY <1>3, <1>10, <1>12, <1>13, <1>14 DEF FInv

\* An iteration of qClear: what it takes is dropped.
LEMMA FacadeClear ==
  ASSUME FInv, NEW t \in Thread, ClearOne(t) PROVE FInv'
  <1>1. /\ Item = 1 .. MaxItem /\ MaxItem \in Nat /\ todo \in [Thread -> Nat] /\ todo[t] > 0
        /\ handed \subseteq Item /\ dropped \subseteq Item
        /\ pushed \in 0 .. MaxItem /\ failed \in BOOLEAN
    BY FacadeAssumption DEF FInv, FTypeOK, ClearOne
  <1>2. /\ todo' = [todo EXCEPT ![t] = @ - 1] /\ dropped' = dropped \cup ret'.item
        /\ UNCHANGED <<pushed, handed, failed, pc, value, values>>
    BY DEF ClearOne
  <1>3. /\ Inv'
        /\ \/ front = 0 /\ Len(Contents) = 0 /\ Contents' = Contents /\ ret'.item = {}
           \/ front # 0 /\ Shifted /\ ret'.item = {Contents[1]}
    BY PopEffect DEF FInv, ClearOne
  <1>4. todo' \in [Thread -> Nat]
    BY <1>1, <1>2
  <1>5. ArraysInOrder'
    BY <1>2 DEF FInv, ArraysInOrder
  <1>6. CASE Contents' = Contents /\ ret'.item = {}
    <2>1. dropped' = dropped
      BY <1>2, <1>6
    <2>2. FTypeOK'
      BY <1>2, <1>3, <1>4, <2>1 DEF FInv, FTypeOK, Inv
    <2>3. Ascending' /\ GoneIsOlder' /\ Everywhere' /\ OnePlace'
      BY <1>2, <1>6, <2>1 DEF FInv, Ascending, GoneIsOlder, Everywhere, OnePlace, Gone
    <2> QED
      BY <1>3, <1>5, <2>2, <2>3 DEF FInv
  <1>7. CASE Shifted /\ ret'.item = {Contents[1]}
    <2> DEFINE v == Contents[1]
    <2>1. v \in Item /\ Len(Contents) > 0 /\ Len(Contents) \in Nat
      BY <1>7, ContentsFacts DEF FInv, Shifted
    <2>2. dropped' = dropped \cup {v} /\ Gone' = Gone \cup {v}
      BY <1>2, <1>7 DEF Gone
    <2>3. FTypeOK'
      BY <1>1, <1>2, <1>3, <1>4, <2>1, <2>2 DEF FInv, FTypeOK, Inv
    <2>4. Ascending' /\ GoneIsOlder' /\ Everywhere'
      BY <1>2, <1>7, <2>2, ShiftedOrder
    <2>5. OnePlace'
      <3> SUFFICES ASSUME ~failed
                   PROVE  /\ \A j \in 1 .. Len(Contents') : Contents'[j] \notin Gone'
                          /\ handed' \cap dropped' = {}
        BY <1>2 DEF OnePlace
      <3>1. /\ \A j \in 1 .. Len(Contents) : Contents[j] \notin Gone
            /\ handed \cap dropped = {}
        BY DEF FInv, OnePlace
      <3>2. v \notin handed
        BY <2>1, <3>1 DEF Gone
      <3>3. \A j \in 1 .. Len(Contents') : Contents'[j] \notin Gone'
        BY <1>7, <2>2, <3>1, ShiftedRest
      <3> QED
        BY <1>2, <2>2, <3>1, <3>2, <3>3
    <2> QED
      BY <1>3, <1>5, <2>3, <2>4, <2>5 DEF FInv
  <1> QED
    BY <1>3, <1>6, <1>7

LEMMA FacadeClearFails ==
  ASSUME FInv, NEW t \in Thread, ClearOneFails(t) PROVE FInv'
  <1>1. /\ todo \in [Thread -> Nat] /\ todo[t] > 0
        /\ todo' = [todo EXCEPT ![t] = @ - 1] /\ failed' = TRUE /\ Fail
        /\ UNCHANGED <<pushed, dropped, handed, pc, value, values>>
    BY DEF FInv, FTypeOK, ClearOneFails
  <1>2. UNCHANGED rows /\ TypeOK'
    BY <1>1 DEF Fail, Return, Result, rows, FInv, Inv, TypeOK
  <1>3. Inv' /\ Contents' = Contents
    BY <1>2 DEF FInv, Inv, Consistent, InRange, rows, Contents
  <1>4. todo' \in [Thread -> Nat]
    BY <1>1
  <1>5. FTypeOK'
    BY <1>1, <1>2, <1>4 DEF FInv, FTypeOK
  <1>6. Ascending' /\ GoneIsOlder' /\ Everywhere' /\ OnePlace' /\ ArraysInOrder'
    BY <1>1, <1>3 DEF FInv, Ascending, GoneIsOlder, Everywhere, OnePlace, ArraysInOrder, Gone
  <1> QED
    BY <1>3, <1>5, <1>6 DEF FInv

\* qPop begins with an empty string and an empty array.
LEMMA FacadeBegin ==
  ASSUME FInv, NEW t \in Thread, NEW n \in Counts, qPop(t, n) PROVE FInv'
  <1>1. /\ pc \in [Thread -> {"idle", "qPop", "qClear"}] /\ todo \in [Thread -> Nat]
        /\ value \in [Thread -> Item \cup {NoItem}] /\ values \in [Thread -> Seq(Item)]
        /\ size \in Nat /\ n \in Nat
    BY FacadeAssumption, EmptyEnds DEF FInv, FTypeOK
  <1>2. /\ pc' = [pc EXCEPT ![t] = "qPop"] /\ todo' = [todo EXCEPT ![t] = Iterations(n)]
        /\ value' = [value EXCEPT ![t] = NoItem] /\ values' = [values EXCEPT ![t] = <<>>]
        /\ UNCHANGED <<vars, history>>
    BY DEF qPop
  <1>3. Inv' /\ Contents' = Contents
    BY <1>2 DEF FInv, Inv, TypeOK, Consistent, InRange, vars, Contents
  <1>4. /\ pc' \in [Thread -> {"idle", "qPop", "qClear"}] /\ todo' \in [Thread -> Nat]
        /\ value' \in [Thread -> Item \cup {NoItem}] /\ values' \in [Thread -> Seq(Item)]
    <2>1. Iterations(n) \in Nat
      BY <1>1 DEF Iterations
    <2> QED
      BY <1>1, <1>2, <2>1, EmptySeq
  <1>5. FTypeOK'
    BY <1>2, <1>3, <1>4 DEF FInv, FTypeOK, Inv, history
  <1>6. Ascending' /\ GoneIsOlder' /\ Everywhere' /\ OnePlace'
    BY <1>2, <1>3 DEF FInv, Ascending, GoneIsOlder, Everywhere, OnePlace, Gone, history
  <1>7. ArraysInOrder'
    <2> SUFFICES ASSUME NEW s \in Thread
                 PROVE  /\ \A j \in 1 .. Len(values'[s]) :
                             values'[s][j] \in handed' /\ value'[s] # NoItem /\ values'[s][j] <= value'[s]
                        /\ \A j, k \in 1 .. Len(values'[s]) : j < k => values'[s][j] <= values'[s][k]
                        /\ value'[s] # NoItem => value'[s] \in handed'
      BY DEF ArraysInOrder
    <2>1. CASE s = t
      <3>1. value'[s] = NoItem /\ Len(values'[s]) = 0
        BY <1>1, <1>2, <2>1, EmptySeq
      <3> QED
        BY <3>1
    <2>2. CASE s # t
      <3>1. value'[s] = value[s] /\ values'[s] = values[s] /\ handed' = handed
        BY <1>1, <1>2, <2>2 DEF history
      <3> QED
        BY <3>1 DEF FInv, ArraysInOrder
    <2> QED
      BY <2>1, <2>2
  <1> QED
    BY <1>3, <1>5, <1>6, <1>7 DEF FInv

LEMMA FacadeNext == FInv /\ [FNext]_fvars => FInv'
  <1> SUFFICES ASSUME FInv, [FNext]_fvars PROVE FInv'
    OBVIOUS
  <1>1. ASSUME NEW t \in Thread, qClear(t) PROVE FInv'
    <2>1. /\ pc' \in [Thread -> {"idle", "qPop", "qClear"}] /\ todo' \in [Thread -> Nat]
      BY <1>1, EmptyEnds DEF FInv, FTypeOK, qClear
    <2>2. TypeOK' /\ UNCHANGED <<rows, history, value, values>>
      BY <1>1 DEF qClear, FInv, Inv, TypeOK, vars, rows
    <2> QED
      BY <2>1, <2>2, FacadeLocal
  <1>2. ASSUME NEW t \in Thread, LoopEnd(t) PROVE FInv'
    <2>1. /\ pc' \in [Thread -> {"idle", "qPop", "qClear"}] /\ todo' \in [Thread -> Nat]
      BY <1>2 DEF FInv, FTypeOK, LoopEnd
    <2>2. TypeOK' /\ UNCHANGED <<rows, history, value, values>>
      BY <1>2 DEF LoopEnd, FInv, Inv, TypeOK, vars, rows
    <2> QED
      BY <2>1, <2>2, FacadeLocal
  <1>3. CASE UNCHANGED fvars
    <2>1. /\ pc' \in [Thread -> {"idle", "qPop", "qClear"}] /\ todo' \in [Thread -> Nat]
      BY <1>3 DEF FInv, FTypeOK, fvars, local
    <2>2. TypeOK' /\ UNCHANGED <<rows, history, value, values>>
      BY <1>3 DEF fvars, local, FInv, Inv, TypeOK, vars, rows
    <2> QED
      BY <2>1, <2>2, FacadeLocal
  <1>4. CASE FNext
    BY <1>1, <1>2, <1>4, FacadePush, FacadePop, FacadePopFails, FacadeClear, FacadeClearFails, FacadeBegin
    DEF FNext
  <1> QED
    BY <1>3, <1>4

LEMMA FacadeInvariant == FSpec => []FInv
  BY FacadeInit, FacadeNext, PTL DEF FSpec

-----------------------------------------------------------------------------
(* The queue of several threads.                                           *)

\* However the loops of qPop and qClear of any number of threads interleave
\* (each stops after as many pops as qsize answered, however many items are
\* left by then) and whatever Writes fail, every item that was pushed is in
\* the queue, or in an array of qPop, or was let go by qClear; and in only
\* one of the three unless a Write failed.
THEOREM FacadeNothingLost == FSpec => []NothingLost
  <1>1. FInv => NothingLost
    <2> SUFFICES ASSUME FInv PROVE Conserved
      BY DEF FInv, NothingLost
    <2>1. /\ Item = 1 .. MaxItem /\ MaxItem \in Nat /\ pushed \in 0 .. MaxItem
          /\ handed \subseteq Item /\ dropped \subseteq Item
          /\ \A k \in 1 .. Len(Contents) : Contents[k] \in Item
          /\ DOMAIN Contents = 1 .. Len(Contents)
      BY FacadeAssumption, ContentsFacts DEF FInv, FTypeOK
    <2>2. \A i : i \in ToSet(Contents) <=> \E j \in 1 .. Len(Contents) : Contents[j] = i
      BY <2>1 DEF ToSet
    <2>3. \A i : i \in 1 .. pushed <=> i \in Item /\ i <= pushed
      BY <2>1
    <2>4. ToSet(Contents) \subseteq Item
      BY <2>1, <2>2
    <2>5. 1 .. pushed = ToSet(Contents) \cup handed \cup dropped
      BY <2>1, <2>2, <2>3, <2>4 DEF FInv, Everywhere, Gone
    <2>6. ~failed => /\ ToSet(Contents) \cap (handed \cup dropped) = {}
                     /\ handed \cap dropped = {}
      BY <2>2 DEF FInv, OnePlace, Gone
    <2> QED
      BY <2>5, <2>6 DEF Conserved
  <1> QED
    BY <1>1, FacadeInvariant, PTL

\* What any thread took is not newer than anything that is left, and every
\* array is in the order of the pushes: qPop and qClear pop only from the
\* front, and a failed Write leaves the first item the first.
THEOREM FacadeFifo == FSpec => []Fifo
  <1>1. FInv => Fifo
    <2> SUFFICES ASSUME FInv PROVE Fifo
      OBVIOUS
    <2>1. DOMAIN Contents = 1 .. Len(Contents)
      BY ContentsFacts DEF FInv
    <2>2. \A t \in Thread : DOMAIN values[t] = 1 .. Len(values[t])
      BY LenProperties DEF FInv, FTypeOK
    <2>3. \A i \in handed \cup dropped, j \in ToSet(Contents) : i <= j
      BY <2>1 DEF FInv, GoneIsOlder, Gone, ToSet
    <2> QED
      BY <2>2, <2>3 DEF Fifo, FInv, ArraysInOrder
  <1> QED
    BY <1>1, FacadeInvariant, PTL
=============================================================================
