----------------------------- MODULE Iterators -----------------------------
(***************************************************************************)
(* The iterator of leveldb a scan uses: DBIter (db_iter.cc) over a         *)
(* MergingIterator (merger.cc) with two children, an iterator of the live  *)
(* memtable and a TwoLevelIterator (two_level_iterator.cc) over the blocks *)
(* of a table.  Every turn of the loops of DBIter is a step of its own, so *)
(* a writer may insert into the memtable between any two of them.  The     *)
(* memtable is a sorted set here; SkipList shows that it may be.           *)
(*                                                                         *)
(* An entry is [k, s, put]: user key, sequence number, value or deletion;  *)
(* the value written with sequence s is s.  A block is its entries and its *)
(* key in the index; an empty block is one that could not be read, for     *)
(* which BlockReader returns an iterator with nothing but an error.        *)
(***************************************************************************)
EXTENDS Integers, Sequences, FiniteSets, SequencesExt, FiniteSetsExt

CONSTANTS
  ScanKeys,      \* the user keys written before the iterator is made
  Snap,          \* sequence_ of the iterator: the writes before it
  MaxInserts,    \* bound: writes afterwards
  ShortKeys,     \* the index has shortened keys (a table) or largest keys (a level)
  Nil

VARIABLES
  mtab,          \* the memtable
  blocks,        \* the blocks of the table
  mi,            \* the merging iterator with its children
  di,            \* the DBIter
  goal           \* the key it should be at; whether it came all the way from the first

ivars == <<mtab, blocks, mi, di, goal>>

ASSUME ScanAssumption ==
  /\ ScanKeys \subseteq Nat \ {0} /\ ScanKeys # {} /\ IsFiniteSet(ScanKeys)
  /\ Snap \in Nat /\ MaxInserts \in Nat /\ ShortKeys \in BOOLEAN
ASSUME NilAssumption == Nil \notin [k : Nat, s : Nat, put : BOOLEAN]

Top == Snap + MaxInserts + 1
NoKey == Max(ScanKeys) + 2       \* behind all keys
Targets == Min(ScanKeys) .. Max(ScanKeys) + 1

-----------------------------------------------------------------------------
(* Sorted runs of entries *)

Before(a, b) == a.k < b.k \/ (a.k = b.k /\ a.s > b.s)
Least(S) == IF S = {} THEN Nil ELSE CHOOSE e \in S : \A x \in S \ {e} : Before(e, x)
Greatest(S) == IF S = {} THEN Nil ELSE CHOOSE e \in S : \A x \in S \ {e} : Before(x, e)
AtOrAfter(S, t) == Least({e \in S : ~Before(e, t)})
After(S, t) == Least({e \in S : Before(t, e)})
Ahead(S, t) == Greatest({e \in S : Before(e, t)})

-----------------------------------------------------------------------------
(* The children: 1 is the memtable's iterator, 2 the table's.  A child is  *)
(* [e, b, err]: the entry it is at, the block, an error met so far.        *)

Es(i) == IF i \in 1 .. Len(blocks) THEN blocks[i].es ELSE {}

\* SkipEmptyDataBlocksForward from entry e of block b; SetDataIterator keeps
\* the error of a block that is left.
SkipForward(b, e, err) ==
  LET N == {i \in b + 1 .. Len(blocks) : Es(i) # {}}
      to == Min(N \cup {Len(blocks) + 1})
      gone == \E i \in b .. to - 1 : i \in DOMAIN blocks /\ Es(i) = {}
  IN IF e # Nil \/ b > Len(blocks) THEN [e |-> e, b |-> b, err |-> err]
     ELSE [e |-> Least(Es(to)), b |-> to, err |-> err \/ gone]

SkipBackward(b, e, err) ==
  LET to == Max({i \in 1 .. b - 1 : Es(i) # {}} \cup {0})
      gone == \E i \in to + 1 .. b : i \in DOMAIN blocks /\ Es(i) = {}
  IN IF e # Nil \/ b < 1 THEN [e |-> e, b |-> b, err |-> err]
     ELSE [e |-> Greatest(Es(to)), b |-> to, err |-> err \/ gone]

\* Seek, SeekToFirst, SeekToLast, Next and Prev of both kinds of child.
ChildSeek(c, ch, t) ==
  IF c = 1 THEN [ch EXCEPT !.e = AtOrAfter(mtab, t)]
  ELSE LET b == Min({i \in DOMAIN blocks : ~Before(blocks[i].key, t)} \cup {Len(blocks) + 1})
       IN SkipForward(b, AtOrAfter(Es(b), t), ch.err)
SeekToFirst(c, ch) ==
  IF c = 1 THEN [ch EXCEPT !.e = Least(mtab)] ELSE SkipForward(1, Least(Es(1)), ch.err)
SeekToLast(c, ch) ==
  IF c = 1 THEN [ch EXCEPT !.e = Greatest(mtab)]
  ELSE SkipBackward(Len(blocks), Greatest(Es(Len(blocks))), ch.err)
StepForward(c, ch) ==
  IF c = 1 THEN [ch EXCEPT !.e = After(mtab, ch.e)] ELSE SkipForward(ch.b, After(Es(ch.b), ch.e), ch.err)
StepBack(c, ch) ==
  IF c = 1 THEN [ch EXCEPT !.e = Ahead(mtab, ch.e)] ELSE SkipBackward(ch.b, Ahead(Es(ch.b), ch.e), ch.err)

-----------------------------------------------------------------------------
(* MergingIterator: [ch, cur, fwd]; cur is 0 when it is not valid.         *)

Entry(m) == IF m.cur = 0 THEN Nil ELSE m.ch[m.cur].e

FindSmallest(ch) ==
  IF \A c \in 1 .. 2 : ch[c].e = Nil THEN 0
  ELSE CHOOSE c \in 1 .. 2 : ch[c].e = Least({ch[x].e : x \in {y \in 1 .. 2 : ch[y].e # Nil}})
FindLargest(ch) ==
  IF \A c \in 1 .. 2 : ch[c].e = Nil THEN 0
  ELSE CHOOSE c \in 1 .. 2 : ch[c].e = Greatest({ch[x].e : x \in {y \in 1 .. 2 : ch[y].e # Nil}})

SmallestChild(ch) == [ch |-> ch, cur |-> FindSmallest(ch), fwd |-> TRUE]
LargestChild(ch) == [ch |-> ch, cur |-> FindLargest(ch), fwd |-> FALSE]

MSeek(m, t) == SmallestChild([c \in 1 .. 2 |-> ChildSeek(c, m.ch[c], t)])
MSeekToFirst(m) == SmallestChild([c \in 1 .. 2 |-> SeekToFirst(c, m.ch[c])])
MSeekToLast(m) == LargestChild([c \in 1 .. 2 |-> SeekToLast(c, m.ch[c])])

\* When the direction changes the other children go behind the current key.
MNext(m) ==
  LET behind(c) ==
        LET x == ChildSeek(c, m.ch[c], Entry(m)) IN IF x.e = Entry(m) THEN StepForward(c, x) ELSE x
      ch == [c \in 1 .. 2 |-> IF m.fwd \/ c = m.cur THEN m.ch[c] ELSE behind(c)]
  IN SmallestChild([ch EXCEPT ![m.cur] = StepForward(m.cur, @)])

\* Mutant: a child with nothing at or behind the key stays at its end.
MPrev_end(m) ==
  LET before(c) ==
        LET x == ChildSeek(c, m.ch[c], Entry(m)) IN IF x.e # Nil THEN StepBack(c, x) ELSE x
      ch == [c \in 1 .. 2 |-> IF ~m.fwd \/ c = m.cur THEN m.ch[c] ELSE before(c)]
  IN LargestChild([ch EXCEPT ![m.cur] = StepBack(m.cur, @)])

\* ... or in front of it.
MPrev(m) ==
  LET before(c) ==
        LET x == ChildSeek(c, m.ch[c], Entry(m)) IN IF x.e # Nil THEN StepBack(c, x) ELSE SeekToLast(c, x)
      ch == [c \in 1 .. 2 |-> IF ~m.fwd \/ c = m.cur THEN m.ch[c] ELSE before(c)]
  IN LargestChild([ch EXCEPT ![m.cur] = StepBack(m.cur, @)])

-----------------------------------------------------------------------------
(* DBIter: [at, fwd, valid, key, val, skip, put]: where a call is, the     *)
(* direction, saved_key_ (0: empty) and saved_value_, skipping, value_type *)

Unset == [at |-> "idle", fwd |-> TRUE, valid |-> FALSE, key |-> 0, val |-> 0, skip |-> FALSE, put |-> FALSE]

Visible(e) == e.s <= Snap

\* Into the loop of FindNextUserEntry, if there is an entry.  (Seek leaves its
\* target in saved_key_, which nobody reads before it is set again.)
FindNext(m, d, key, skip) ==
  /\ mi' = m
  /\ di' = IF Entry(m) = Nil THEN [d EXCEPT !.fwd = TRUE, !.valid = FALSE, !.key = 0]
           ELSE [d EXCEPT !.fwd = TRUE, !.at = "next", !.key = key, !.skip = skip]

CallSeek(t) ==
  FindNext(MSeek(mi, [k |-> t, s |-> Snap, put |-> TRUE]), [di EXCEPT !.val = 0], 0, FALSE)
CallSeekToFirst == FindNext(MSeekToFirst(mi), [di EXCEPT !.val = 0], di.key, FALSE)
CallSeekToLast ==
  /\ mi' = MSeekToLast(mi)
  /\ di' = [di EXCEPT !.fwd = FALSE, !.val = 0, !.at = "prev", !.put = FALSE]

\* DBIter::Next: from the reverse direction step into the entries of the key.
CallNext ==
  /\ di.valid
  /\ IF di.fwd THEN FindNext(mi, di, Entry(mi).k, TRUE)
     ELSE FindNext(IF Entry(mi) = Nil THEN MSeekToFirst(mi) ELSE MNext(mi), di, di.key, TRUE)

\* DBIter::Prev: from the forward direction first scan to a smaller key.
CallPrev ==
  /\ di.valid
  /\ di' = IF di.fwd THEN [di EXCEPT !.at = "back", !.key = Entry(mi).k]
           ELSE [di EXCEPT !.at = "prev", !.put = FALSE]
  /\ mi' = mi

\* FindNextUserEntry goes on behind this entry.
Hides(d, e) == ~Visible(e) \/ ~e.put \/ (d.skip /\ e.k <= d.key)

FindNextUserEntry ==
  LET e == Entry(mi)
      d == IF Visible(e) /\ ~e.put THEN [di EXCEPT !.key = e.k, !.skip = TRUE] ELSE di
  IN /\ di.at = "next"
     /\ IF ~Hides(di, e)
        THEN di' = [di EXCEPT !.at = "idle", !.valid = TRUE, !.key = 0] /\ mi' = mi
        ELSE /\ mi' = MNext(mi)
             /\ di' = IF Entry(MNext(mi)) # Nil THEN d
                      ELSE [d EXCEPT !.at = "idle", !.valid = FALSE, !.key = 0]
     /\ UNCHANGED <<mtab, blocks, goal>>

ScanBack ==
  LET e == Entry(MPrev(mi)) IN
    /\ di.at = "back"
    /\ mi' = MPrev(mi)
    /\ di' = IF e = Nil THEN [di EXCEPT !.at = "idle", !.valid = FALSE, !.key = 0, !.val = 0]
             ELSE IF e.k < di.key THEN [di EXCEPT !.at = "prev", !.put = FALSE, !.fwd = FALSE] ELSE di
    /\ UNCHANGED <<mtab, blocks, goal>>

\* What FindPrevUserEntry keeps of an entry.
Saved(d, e) ==
  IF e.put THEN [d EXCEPT !.put = TRUE, !.key = e.k, !.val = e.s]
  ELSE [d EXCEPT !.put = FALSE, !.key = 0, !.val = 0]

FindPrevUserEntry ==
  LET e == Entry(mi) IN
    /\ di.at = "prev"
    /\ IF e = Nil \/ (Visible(e) /\ di.put /\ e.k < di.key)
       THEN /\ di' = IF di.put THEN [di EXCEPT !.at = "idle", !.valid = TRUE]
                     ELSE [di EXCEPT !.at = "idle", !.valid = FALSE, !.key = 0, !.val = 0, !.fwd = TRUE]
            /\ mi' = mi
       ELSE /\ di' = IF Visible(e) THEN Saved(di, e) ELSE di
            /\ mi' = MPrev(mi)
    /\ UNCHANGED <<mtab, blocks, goal>>

-----------------------------------------------------------------------------
(* Calls and the writer *)

\* What the iterator has to show: the keys whose newest readable entry up to
\* the snapshot is a value.
Readable == mtab \cup UNION {Es(i) : i \in DOMAIN blocks}
Newest(k) == AtOrAfter({e \in Readable : e.k = k}, [k |-> k, s |-> Snap])
ShownKeys == {k \in {e.k : e \in Readable} : Newest(k) # Nil /\ Newest(k).put}

Call ==
  /\ di.at = "idle"
  /\ \/ \E t \in Targets :
          CallSeek(t) /\ goal' = [key |-> Min({k \in ShownKeys : k >= t} \cup {NoKey}), all |-> FALSE]
     \/ CallSeekToFirst /\ goal' = [key |-> Min(ShownKeys \cup {NoKey}), all |-> ~mi.ch[2].err]
     \/ CallSeekToLast /\ goal' = [key |-> Max(ShownKeys \cup {0}), all |-> FALSE]
     \/ CallNext /\ goal' = [goal EXCEPT !.key = Min({k \in ShownKeys : k > @} \cup {NoKey})]
     \/ CallPrev /\ goal' = [key |-> Max({k \in ShownKeys : k < goal.key} \cup {0}), all |-> FALSE]
  /\ UNCHANGED <<mtab, blocks>>

\* Another thread writes; its sequence numbers are above the iterator's.
Insert(k) ==
  /\ Cardinality({e \in mtab : e.s > Snap}) < MaxInserts
  /\ mtab' = mtab \cup {[k |-> k, s |-> Max({e.s : e \in mtab} \cup {Snap}) + 1, put |-> TRUE]}
  /\ UNCHANGED <<blocks, mi, di, goal>>

IterNext ==
  \/ Call \/ FindNextUserEntry \/ ScanBack \/ FindPrevUserEntry
  \/ \E k \in ScanKeys : Insert(k)

-----------------------------------------------------------------------------
(* The database the iterator is made for *)

\* The key of a block in the index: its last entry's, or a shorter one up to
\* the next block (FindShortestSeparator, FindShortSuccessor).
IndexKey(last, next) ==
  IF ShortKeys /\ next > last.k + 1 THEN [k |-> last.k + 1, s |-> Top, put |-> TRUE] ELSE last

InRunOrder(S) ==
  [i \in 1 .. Cardinality(S) |-> CHOOSE e \in S : Cardinality({x \in S : Before(x, e)}) = i - 1]

\* A table of the entries es whose blocks end with the entries in `ends', block
\* `bad' of it unreadable.
Table(es, ends, bad) ==
  LET s == InRunOrder(ends) IN
    [i \in DOMAIN s |->
       [es |-> IF i = bad THEN {} ELSE {e \in es : ~Before(s[i], e) /\ (i > 1 => Before(s[i - 1], e))},
        key |-> IndexKey(s[i], IF i = Len(s) THEN NoKey ELSE After(es, s[i]).k)]]
Tables(es) ==
  {Table(es, ends, bad) : ends \in {E \in SUBSET es : Greatest(es) \in E}, bad \in 0 .. Cardinality(es)}

IterInit ==
  /\ \E w \in [1 .. Snap -> [k : ScanKeys, put : BOOLEAN]], flushed \in 1 .. Snap - 1 :
       LET e(s) == [k |-> w[s].k, s |-> s, put |-> w[s].put] IN
         /\ mtab = {e(s) : s \in flushed + 1 .. Snap}
         /\ blocks \in Tables({e(s) : s \in 1 .. flushed})
  /\ LET child == [e |-> Nil, b |-> 0, err |-> FALSE] IN
       mi = [ch |-> <<child, child>>, cur |-> 0, fwd |-> TRUE]
  /\ di = Unset /\ goal = [key |-> 0, all |-> FALSE]

-----------------------------------------------------------------------------
\* Between two calls the iterator is at the key it should be at and shows the
\* value of the snapshot, in any order of Seek, Next and Prev, whatever is
\* written into the memtable meanwhile and wherever the blocks of the table end.
IterIsRight ==
  di.at = "idle" =>
    /\ di.valid <=> goal.key \in ShownKeys
    /\ di.valid => /\ (IF di.fwd THEN Entry(mi).k ELSE di.key) = goal.key
                   /\ (IF di.fwd THEN Entry(mi).s ELSE di.val) = Newest(goal.key).s

\* A scan from the first key to the end that missed a block which could not be
\* read says so in its status.
ScanReportsErrors ==
  di.at = "idle" /\ goal.all /\ ~di.valid /\ (\E i \in DOMAIN blocks : Es(i) = {}) => mi.ch[2].err

\* An iterator shows what it should, or its status is an error.
IteratorIsRight == IterIsRight /\ ScanReportsErrors
=============================================================================
