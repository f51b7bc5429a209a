------------------------- MODULE BinlogQueueProofs -------------------------
(***************************************************************************)
(* The binlog for any number of clients and records.  First what holds     *)
(* whatever fails (types, the assertion of the cleaning thread, nothing    *)
(* ahead of last_seq), then NoHole, which needs that no deletion has       *)
(* failed and that the database is always opened with the same capacity.   *)
(***************************************************************************)
EXTENDS BinlogQueue, TLAPS

\* Without an object there is nothing in memory.
Down ==
  life = "down" =>
    /\ mutex = NoOne
    /\ pc[Cleaner] = "done"
    /\ \A c \in Client : pc[c] = "idle"

\* Who is inside a Transaction holds the mutex.
Lock == \A c \in Client : pc[c] \in {"txn", "flushdb"} <=> mutex = c

\* The batch of a transaction holds the records behind last_seq.
Txn ==
  \A c \in Client : pc[c] = "txn" =>
    /\ tran_seq >= last_seq
    /\ batch = last_seq + 1 .. tran_seq

\* Only the cleaning thread moves min_seq_, and last_seq only grows: what it
\* has read of them stays on the safe side.
Clean ==
  /\ pc[Cleaner] # "done" => Up
  /\ pc[Cleaner] = "range" => last_seq - min_seq_ >= capacity + Slack
  /\ pc[Cleaner] \in {"del_range", "advance"} =>
       min_seq_ <= dend[Cleaner] /\ dend[Cleaner] <= last_seq - capacity

\* A running del_range ends at or in front of last_seq.
Ranges ==
  \A t \in Thread : pc[t] = "del_range" =>
    dstart[t] <= dend[t] + 1 /\ dend[t] <= last_seq

SafeInv ==
  /\ TypeOK /\ AssertOrder /\ NoneAhead
  /\ Down /\ Lock /\ Txn /\ Clean /\ Ranges

\* Numbers that are missing between a record and `last' are older than the
\* records a restart looks at.
Gaps(last) ==
  \A s \in synclog : \A x \in s .. last : x \in synclog \/ x <= last - capacity

\* A flush finds no record that a restart had forgotten, and no running
\* del_range has left a record behind it.
Swept ==
  /\ \A c \in Client : pc[c] \in {"flush", "del_range"} =>
       \A s \in synclog : s >= min_seq_
  /\ \A t \in Thread : pc[t] = "del_range" =>
       \A s \in synclog : s >= min_seq_ => s >= dstart[t]
  /\ pc[Cleaner] = "advance" =>
       \A s \in synclog : s >= min_seq_ => s > dend[Cleaner]

\* The conclusion of NoHole.
NoGap == \A s \in synclog : s >= min_seq_ => s .. last_seq \subseteq synclog

\* A restart finds the same last_seq, unless the binlog is empty.
Anchored == synclog = {} \/ last_seq \in synclog

\* As long as no deletion has failed; without an object the last record
\* stands for last_seq.
HoleInv ==
  faults = 0 =>
    /\ Up => NoGap /\ Anchored /\ Gaps(last_seq) /\ Swept
    /\ life = "down" =>
         \A m \in synclog : (\A s \in synclog : s <= m) => Gaps(m)

(***************************************************************************)
(* What holds whatever fails.                                              *)
(***************************************************************************)

USE CapacityAssumption, SlackAssumption, DelBatchAssumption, BoundAssumption,
    ThreadAssumption

USE DEF SafeInv, TypeOK, AssertOrder, NoneAhead, Down, Lock,
        Txn, Clean, Ranges, Up, Thread, ClientPC, CleanerPC

\* A new database.
LEMMA InitSafe == Init => SafeInv
  <1> SUFFICES ASSUME Init PROVE SafeInv
    OBVIOUS
  <1>1. enabled \in BOOLEAN /\ thread_quit \in BOOLEAN
    BY Zenon DEF Init, NoObject
  <1>2. /\ pc \in [Thread -> ClientPC \cup CleanerPC]
        /\ \A c \in Client : pc[c] = "idle"
        /\ pc[Cleaner] = "done"
    BY DEF Init, NoObject
  <1>3. dstart \in [Thread -> 0..MaxSeq+1] /\ dend \in [Thread -> 0..MaxSeq]
    BY DEF Init, NoObject
  <1>4. synclog = {} /\ batch = {} /\ mutex = NoOne /\ life = "down"
        /\ capacity \in Capacities /\ faults = 0
        /\ last_seq = 0 /\ min_seq_ = 0 /\ tran_seq = 0
    BY DEF Init, NoObject
  <1>5. TypeOK
    BY <1>1, <1>2, <1>3, <1>4
  <1> QED
    BY <1>2, <1>4, <1>5

\* A restart: last_seq is the last record and min_seq_ is not above it.
LEMMA OpenSafe ==
  ASSUME SafeInv, NEW on \in BOOLEAN, NEW cap \in Capacities, Open(on, cap)
  PROVE  SafeInv'
  <1>1. PICK last \in 0..MaxSeq, m \in 0..MaxSeq :
          find_last(last) /\ OpenMin(last, cap, m) /\ last_seq' = last /\ min_seq_' = m
    BY DEF Open
  <1>2. \A s \in synclog : s <= last
    BY <1>1 DEF find_last
  <1>3. m <= last
    BY <1>1, <1>2 DEF OpenMin, find_next
  <1>4. TypeOK'
    <2>1. enabled' \in BOOLEAN /\ thread_quit' \in BOOLEAN
      BY Zenon DEF Open
    <2>2. /\ pc' \in [Thread -> ClientPC \cup CleanerPC]
          /\ \A c \in Client : pc'[c] \in ClientPC
          /\ pc'[Cleaner] \in CleanerPC
      BY DEF Open
    <2> QED
      BY <1>1, <2>1, <2>2 DEF Open, disk, range
  <1>5. \A c \in Client : pc'[c] = "idle"
    BY DEF Open
  <1>6. pc'[Cleaner] \in {"loop", "done"}
    BY DEF Open
  <1>7. life' = "open" /\ mutex' = NoOne /\ synclog' = synclog
    BY DEF Open, disk
  <1> QED
    BY <1>1, <1>2, <1>3, <1>4, <1>5, <1>6, <1>7

\* The end of the object, orderly or not.
LEMMA LoseSafe ==
  ASSUME SafeInv, LoseMemory, UNCHANGED <<disk, capacity>> PROVE SafeInv'
  <1>1. TypeOK'
    <2>1. enabled' \in BOOLEAN /\ thread_quit' \in BOOLEAN
      BY Zenon DEF LoseMemory
    <2>2. /\ pc' \in [Thread -> ClientPC \cup CleanerPC]
          /\ \A c \in Client : pc'[c] \in ClientPC
          /\ pc'[Cleaner] \in CleanerPC
      BY DEF LoseMemory
    <2>3. dstart' \in [Thread -> 0..MaxSeq+1] /\ dend' \in [Thread -> 0..MaxSeq]
      BY DEF LoseMemory
    <2> QED
      BY <2>1, <2>2, <2>3 DEF LoseMemory, disk
  <1>2. /\ \A c \in Client : pc'[c] = "idle"
        /\ pc'[Cleaner] = "done" /\ life' = "down" /\ mutex' = NoOne
    BY DEF LoseMemory
  <1> QED
    BY <1>1, <1>2

\* The destructor starts: it only asks the thread to quit.
LEMMA CloseSafe == ASSUME SafeInv, Close PROVE SafeInv'
  BY DEF Close, disk, queue, range

\* The mutex is free, so nobody else is in a Transaction.
LEMMA BeginSafe ==
  ASSUME SafeInv, NEW c \in Client, NEW l \in {"txn", "flushdb"}, begin(c, l)
  PROVE  SafeInv'
  BY DEF begin, Goto, disk, object, range

\* add_log numbers the records of the batch one after the other.
LEMMA AddLogSafe ==
  ASSUME SafeInv, NEW c \in Client, add_log(c) PROVE SafeInv'
  BY DEF add_log, disk, object, range

\* commit moves last_seq to the last record of the batch.
LEMMA CommitSafe ==
  ASSUME SafeInv, NEW c \in Client, commit(c) PROVE SafeInv'
  <1>1. /\ pc[c] = "txn" /\ mutex = c /\ pc' = [pc EXCEPT ![c] = "idle"]
        /\ synclog' = synclog \cup batch /\ last_seq' = tran_seq
        /\ tran_seq' = 0 /\ batch' = {} /\ mutex' = NoOne
        /\ UNCHANGED <<faults, min_seq_, enabled, capacity, life, thread_quit, dstart, dend>>
    BY DEF commit, rollback, Goto, object, range
  <1>2. tran_seq >= last_seq /\ batch = last_seq + 1 .. tran_seq
    BY <1>1
  <1>3. TypeOK'
    BY <1>1
  <1>4. AssertOrder' /\ NoneAhead' /\ Clean' /\ Ranges'
    BY <1>1, <1>2
  <1>5. Down' /\ Lock' /\ Txn'
    BY <1>1
  <1> QED
    BY <1>3, <1>4, <1>5

\* The Transaction ends without a commit.
LEMMA RollbackSafe ==
  ASSUME SafeInv, NEW c \in Client, NEW l \in {"idle", "flush"},
         pc[c] \in {"txn", "flushdb"}, rollback(c, l),
         synclog' \subseteq synclog, faults' \in 0..MaxFaults,
         UNCHANGED <<last_seq, min_seq_, object, range>>
  PROVE  SafeInv'
  BY DEF rollback, Goto, object, range

\* flushdb deletes one record under its Transaction.
LEMMA FlushDeleteSafe ==
  ASSUME SafeInv, NEW c \in Client, FlushDelete(c) PROVE SafeInv'
  BY DEF FlushDelete, queue, object, range

\* flush reads min_seq_ and last_seq without the mutex.
LEMMA FlushSafe ==
  ASSUME SafeInv, NEW c \in Client, flush(c) PROVE SafeInv'
  BY DEF flush, Goto, disk, queue, object

\* A batch of del_range, its end, and its failure.
LEMMA DelRangeSafe ==
  ASSUME SafeInv, NEW t \in Thread, DelRange(t) PROVE SafeInv'
  <1>1. CASE DelRangeWrite(t)
    <2>1. /\ pc[t] = "del_range" /\ dstart[t] <= dend[t]
          /\ synclog' \subseteq synclog
          /\ dstart' = [dstart EXCEPT ![t] = BatchEnd(t) + 1]
          /\ UNCHANGED <<faults, last_seq, min_seq_, tran_seq, batch, mutex, pc, dend>>
          /\ UNCHANGED <<enabled, capacity, life, thread_quit>>
      BY <1>1 DEF DelRangeWrite, queue, object
    <2>2. dstart[t] \in 0..MaxSeq+1 /\ dend[t] \in 0..MaxSeq
      OBVIOUS
    <2>3. BatchEnd(t) \in 0..MaxSeq /\ BatchEnd(t) <= dend[t]
      BY <2>1, <2>2 DEF BatchEnd
    <2>4. dstart' \in [Thread -> 0..MaxSeq+1]
      BY <2>1, <2>3
    <2>5. TypeOK'
      BY <2>1, <2>4
    <2>6. Ranges'
      BY <2>1, <2>3
    <2>7. AssertOrder' /\ NoneAhead' /\ Down' /\ Lock' /\ Txn' /\ Clean'
      BY <2>1
    <2> QED
      BY <2>5, <2>6, <2>7
  <1>2. CASE DelRangeReturn(t) \/ DelRangeFail(t)
    <2> DEFINE l == IF t = Cleaner THEN "advance" ELSE "idle"
    <2>1. /\ pc[t] = "del_range" /\ pc' = [pc EXCEPT ![t] = l]
          /\ dstart' = [dstart EXCEPT ![t] = 0]
          /\ dend' = IF t = Cleaner THEN dend ELSE [dend EXCEPT ![t] = 0]
          /\ faults' \in 0..MaxFaults
          /\ UNCHANGED <<synclog, last_seq, min_seq_, tran_seq, batch, mutex>>
          /\ UNCHANGED <<enabled, capacity, life, thread_quit>>
      <3>1. pc[t] = "del_range" /\ AfterDelRange(t)
        BY <1>2 DEF DelRangeReturn, DelRangeFail
      <3>2. faults' \in 0..MaxFaults
        BY <1>2 DEF DelRangeReturn, DelRangeFail
      <3> QED
        BY <3>1, <3>2 DEF AfterDelRange, Goto, queue, object
    <2>2. pc' \in [Thread -> ClientPC \cup CleanerPC]
          /\ (\A c \in Client : pc'[c] \in ClientPC) /\ pc'[Cleaner] \in CleanerPC
      BY <2>1
    <2>3. dstart' \in [Thread -> 0..MaxSeq+1] /\ dend' \in [Thread -> 0..MaxSeq]
      BY <2>1
    <2>4. TypeOK'
      BY <2>1, <2>2, <2>3
    <2>5. dend'[Cleaner] = dend[Cleaner]
      BY <2>1
    <2>6. Clean'
      BY <2>1, <2>5
    <2>7. \A u \in Thread : pc'[u] = "del_range" =>
             u # t /\ pc[u] = "del_range" /\ dstart'[u] = dstart[u] /\ dend'[u] = dend[u]
      BY <2>1
    <2>8. Ranges'
      BY <2>1, <2>7
    <2>9. Down' /\ Lock' /\ Txn'
      BY <2>1
    <2> QED
      BY <2>1, <2>4, <2>6, <2>8, <2>9
  <1> QED
    BY <1>1, <1>2 DEF DelRange

\* The cleaning thread: it never moves min_seq_ beyond last_seq.
LEMMA CleanerSafe == ASSUME SafeInv, CleanerStep PROVE SafeInv'
  <1>1. CASE CleanerQuit
    BY <1>1 DEF CleanerQuit, Goto, disk, queue, range
  <1>2. CASE CleanerTest
    BY <1>2 DEF CleanerTest, Goto, disk, queue, object, range
  <1>3. CASE CleanerRange
    BY <1>3 DEF CleanerRange, Goto, disk, queue, object
  <1>4. CASE CleanerAdvance
    <2>1. /\ pc[Cleaner] = "advance" /\ pc' = [pc EXCEPT ![Cleaner] = "loop"]
          /\ min_seq_' = dend[Cleaner] + 1
          /\ dend' = [dend EXCEPT ![Cleaner] = 0]
          /\ UNCHANGED <<synclog, faults, last_seq, tran_seq, batch, mutex, dstart>>
          /\ UNCHANGED <<enabled, capacity, life, thread_quit>>
      BY <1>4 DEF CleanerAdvance, Goto, disk, object
    <2>2. min_seq_' \in 0..MaxSeq /\ min_seq_' <= last_seq
      BY <2>1
    <2>3. TypeOK'
      BY <2>1, <2>2
    <2>4. AssertOrder' /\ NoneAhead' /\ Clean'
      BY <2>1, <2>2
    <2>5. Down' /\ Lock' /\ Txn' /\ Ranges'
      BY <2>1
    <2> QED
      BY <2>3, <2>4, <2>5
  <1> QED
    BY <1>1, <1>2, <1>3, <1>4 DEF CleanerStep

HIDE DEF SafeInv, TypeOK, AssertOrder, NoneAhead, Down, Lock,
         Txn, Clean, Ranges, Up, Thread, ClientPC, CleanerPC

\* Every step keeps the invariant.
LEMMA NextSafe == ASSUME SafeInv, [Next]_vars PROVE SafeInv'
  <1>1. CASE UNCHANGED vars
    BY <1>1 DEF vars, disk, queue, object, range, SafeInv, TypeOK, AssertOrder, NoneAhead,
                Down, Lock, Txn, Clean, Ranges, Up
  <1>2. ASSUME NEW on \in BOOLEAN, NEW cap \in Capacities, Open(on, cap) PROVE SafeInv'
    BY <1>2, OpenSafe
  <1>3. CASE Close \/ CloseFinish \/ Crash
    BY <1>3, CloseSafe, LoseSafe DEF CloseFinish, Crash
  <1>4. ASSUME NEW c \in Client, ClientStep(c) PROVE SafeInv'
    <2>1. CASE begin(c, "txn") \/ begin(c, "flushdb")
      BY <2>1, BeginSafe
    <2>2. CASE add_log(c) \/ commit(c) \/ FlushDelete(c) \/ flush(c)
      BY <2>2, AddLogSafe, CommitSafe, FlushDeleteSafe, FlushSafe
    <2>3. CASE GiveUp(c) \/ FlushUnlock(c) \/ FlushFail(c)
      <3>1. faults' \in 0..MaxFaults
        BY <2>3 DEF GiveUp, FlushUnlock, FlushFail, disk, SafeInv, TypeOK
      <3>2. /\ pc[c] \in {"txn", "flushdb"} /\ synclog' = synclog
            /\ UNCHANGED <<last_seq, min_seq_, object, range>>
            /\ rollback(c, "idle") \/ rollback(c, "flush")
        BY <2>3 DEF GiveUp, FlushUnlock, FlushFail, disk
      <3> QED
        BY <3>1, <3>2, RollbackSafe
    <2> QED
      BY <1>4, <2>1, <2>2, <2>3 DEF ClientStep
  <1>5. ASSUME NEW t \in Thread, DelRange(t) PROVE SafeInv'
    BY <1>5, DelRangeSafe
  <1>6. CASE CleanerStep
    BY <1>6, CleanerSafe
  <1> QED
    BY <1>1, <1>2, <1>3, <1>4, <1>5, <1>6 DEF Next

\* The counters are in order for any number of clients, whatever crashes and
\* whichever deletions fail: types, the assertion of the cleaning loop and
\* that no record is ahead of last_seq.
THEOREM BinlogSafe == Spec => []SafeInv
  BY InitSafe, NextSafe, PTL DEF Spec

\* Sequence numbers stay in their range.
THEOREM BinlogTypeOK == Spec => []TypeOK
  BY BinlogSafe, PTL DEF SafeInv

\* The assertion of log_clean_thread_func never fails, although the thread
\* evaluates it without the mutex.
THEOREM BinlogAssertOrder == Spec => []AssertOrder
  BY BinlogSafe, PTL DEF SafeInv

\* A commit never overwrites a record, not after a restart either.
THEOREM BinlogNoneAhead == Spec => []NoneAhead
  BY BinlogSafe, PTL DEF SafeInv

\* While no flushdb is running only records at least `capacity' old disappear.
THEOREM BinlogRetained == Spec => Retained
  <1> DEFINE A == Up /\ (\A c \in Client : pc[c] \notin {"flushdb", "del_range"})
                    => \A s \in synclog \ synclog' : s <= last_seq - capacity
  <1>1. ASSUME SafeInv, [Next]_vars PROVE [A]_vars
    <2>1. CASE synclog \subseteq synclog'
      BY <2>1
    <2>2. ASSUME NEW t \in Thread, DelRangeWrite(t) PROVE A
      <3>1. CASE t \in Client
        BY <2>2, <3>1 DEF DelRangeWrite
      <3>2. CASE t = Cleaner
        <4>1. /\ dend[t] \in Int /\ dstart[t] \in Int /\ last_seq \in Int /\ capacity \in Int
              /\ synclog \subseteq Int
          BY <1>1, CapacityAssumption, BoundAssumption DEF SafeInv, TypeOK
        <4>2. BatchEnd(t) <= dend[t] /\ BatchEnd(t) \in Int
          BY <4>1, DelBatchAssumption DEF BatchEnd
        <4>3. dend[t] <= last_seq - capacity
          BY <1>1, <2>2, <3>2 DEF DelRangeWrite, SafeInv, Clean
        <4>4. \A s \in synclog \ synclog' : s \in dstart[t] .. BatchEnd(t)
          BY <2>2 DEF DelRangeWrite
        <4> QED
          BY <4>1, <4>2, <4>3, <4>4
      <3> QED
        BY <3>1, <3>2 DEF Thread
    <2>3. ASSUME NEW c \in Client, FlushDelete(c) PROVE A
      BY <2>3 DEF FlushDelete
    <2>4. ASSUME NEW c \in Client, ClientStep(c) PROVE FlushDelete(c) \/ synclog \subseteq synclog'
      BY <2>4 DEF ClientStep, begin, add_log, commit, GiveUp, FlushUnlock, FlushFail, flush, disk
    <2>5. ASSUME NEW t \in Thread, DelRange(t) PROVE DelRangeWrite(t) \/ synclog \subseteq synclog'
      BY <2>5 DEF DelRange, DelRangeReturn, DelRangeFail, AfterDelRange
    <2>6. CleanerStep => synclog' = synclog
      BY DEF CleanerStep, CleanerQuit, CleanerTest, CleanerRange, CleanerAdvance, disk
    <2>7. Close \/ CloseFinish \/ Crash => synclog' = synclog
      BY DEF Close, CloseFinish, Crash, disk
    <2>8. \A on \in BOOLEAN, cap \in Capacities : Open(on, cap) => synclog' = synclog
      BY DEF Open, disk
    <2> HIDE DEF A
    <2> QED
      BY <1>1, <2>1, <2>2, <2>3, <2>4, <2>5, <2>6, <2>7, <2>8 DEF Next
  <1> QED
    BY <1>1, BinlogSafe, PTL DEF Spec, Retained

(***************************************************************************)
(* No hole.                                                                *)
(***************************************************************************)

\* The types the arithmetic below needs.
LEMMA Types ==
  ASSUME SafeInv
  PROVE  /\ synclog \subseteq 1..MaxSeq /\ synclog \subseteq Int
         /\ last_seq \in Int /\ min_seq_ \in Int /\ tran_seq \in Int
         /\ capacity \in Capacities /\ capacity \in Int /\ capacity > 0
         /\ \A t \in Thread : dstart[t] \in Int /\ dend[t] \in Int
         /\ pc \in [Thread -> ClientPC \cup CleanerPC]
         /\ Cleaner \in Thread /\ Client \subseteq Thread
  BY DEF SafeInv, TypeOK, Thread

\* Steps that neither delete nor commit.
LEMMA QuietHole ==
  ASSUME HoleInv, Up, Up', UNCHANGED <<synclog, faults, last_seq, min_seq_, capacity>>,
         faults = 0 /\ Swept => Swept'
  PROVE  HoleInv'
  BY DEF HoleInv, Up, NoGap, Anchored, Gaps

\* A thread goes where it is not deleting.
LEMMA QuietSwept ==
  ASSUME SafeInv, Swept, NEW t \in Thread,
         NEW l \in {"idle", "txn", "flushdb", "loop", "range", "done"},
         pc' = [pc EXCEPT ![t] = l], UNCHANGED <<synclog, min_seq_, dstart, dend>>
  PROVE  Swept'
  BY Types DEF Swept

\* A restart with the same capacity.
LEMMA OpenHole ==
  ASSUME SafeInv, HoleInv, \A a, b \in Capacities : a = b,
         NEW on \in BOOLEAN, NEW cap \in Capacities, Open(on, cap)
  PROVE  HoleInv'
  <1> SUFFICES ASSUME faults' = 0 PROVE NoGap' /\ Anchored' /\ Gaps(last_seq)' /\ Swept'
    BY DEF HoleInv, Open
  <1>1. PICK last \in 0..MaxSeq, m \in 0..MaxSeq :
          find_last(last) /\ OpenMin(last, cap, m) /\ last_seq' = last /\ min_seq_' = m
    BY DEF Open
  <1>2. synclog' = synclog /\ faults = 0 /\ life = "down" /\ capacity' = capacity /\ cap = capacity
    BY Types DEF Open, disk
  <1>3. synclog # {} => last \in synclog /\ Gaps(last)
    BY <1>1, <1>2 DEF find_last, HoleInv
  <1>4. ASSUME NEW s \in synclog, s >= m, NEW x \in s .. last PROVE x \in synclog
    <2> DEFINE low == IF last > cap THEN last - cap ELSE 0
    <2>1. x \in synclog \/ x <= last - cap
      BY <1>2, <1>3 DEF Gaps
    <2>2. m >= low
      BY <1>1, <1>2, Types DEF OpenMin, find_next
    <2>3. x <= last - cap => x = s
      BY <1>2, <1>4, <2>2, Types
    <2> QED
      BY <2>1, <2>3
  <1>5. NoGap' /\ Anchored'
    BY <1>1, <1>2, <1>3, <1>4 DEF NoGap, Anchored
  <1>6. Gaps(last_seq)'
    BY <1>1, <1>2, <1>3 DEF Gaps
  <1>7. Swept'
    <2>1. (\A c \in Client : pc'[c] = "idle") /\ pc'[Cleaner] \in {"loop", "done"}
      BY <1>2, Types, ThreadAssumption DEF Open, SafeInv, Down
    <2> QED
      BY <2>1 DEF Swept, Thread
  <1> QED
    BY <1>5, <1>6, <1>7

\* A crash: the last record is last_seq.
LEMMA LoseHole ==
  ASSUME SafeInv, HoleInv, Up, LoseMemory, UNCHANGED <<disk, capacity>> PROVE HoleInv'
  <1> SUFFICES ASSUME faults' = 0, NEW m \in synclog', \A s \in synclog' : s <= m
               PROVE  Gaps(m)'
    BY DEF HoleInv, LoseMemory, Up
  <1>1. synclog' = synclog /\ faults = 0 /\ capacity' = capacity
    BY DEF disk
  <1>2. last_seq = m
    BY <1>1, Types DEF HoleInv, Anchored, SafeInv, NoneAhead
  <1>3. Gaps(m)
    BY <1>1, <1>2 DEF HoleInv
  <1> QED
    BY <1>1, <1>3 DEF Gaps

\* New records join the last one, behind every running deletion.
LEMMA CommitHole ==
  ASSUME SafeInv, HoleInv, NEW c \in Client, commit(c) PROVE HoleInv'
  <1>1. /\ synclog' = synclog \cup batch /\ last_seq' = tran_seq /\ pc[c] = "txn"
        /\ pc' = [pc EXCEPT ![c] = "idle"]
        /\ UNCHANGED <<faults, min_seq_, capacity, life, dstart, dend>>
    BY DEF commit, rollback, Goto, object, range
  <1>2. batch = last_seq + 1 .. tran_seq /\ tran_seq >= last_seq
    BY <1>1 DEF SafeInv, Txn
  <1>3. Up /\ min_seq_ <= last_seq /\ \A s \in synclog : s <= last_seq
    BY <1>1 DEF SafeInv, Down, Up, TypeOK, AssertOrder, NoneAhead
  <1> SUFFICES ASSUME faults = 0 PROVE NoGap' /\ Anchored' /\ Gaps(last_seq)' /\ Swept'
    BY <1>1, <1>3 DEF HoleInv, Up
  <1>4. NoGap /\ Anchored /\ Gaps(last_seq) /\ Swept
    BY <1>3 DEF HoleInv
  <1>5. NoGap'
    BY <1>1, <1>2, <1>3, <1>4, Types DEF NoGap
  <1>6. Anchored'
    BY <1>1, <1>2, <1>4, Types DEF Anchored
  <1>7. Gaps(last_seq)'
    <2> SUFFICES ASSUME NEW s \in synclog', NEW x \in s .. tran_seq, x \notin synclog'
                 PROVE  x <= tran_seq - capacity
      BY <1>1 DEF Gaps
    <2>1. x <= last_seq /\ s \in synclog /\ x \in s .. last_seq
      BY <1>1, <1>2, Types
    <2> QED
      BY <1>1, <1>2, <1>4, <2>1, Types DEF Gaps
  <1>8. Swept'
    <2>1. \A s \in synclog' \ synclog : s >= last_seq + 1 /\ s \in Int
      BY <1>1, <1>2, Types
    <2>2. \A t \in Thread : pc'[t] = "del_range" => pc[t] = "del_range" /\ dstart[t] <= last_seq + 1
      BY <1>1, Types DEF SafeInv, Ranges
    <2>3. pc'[Cleaner] = "advance" => pc[Cleaner] = "advance" /\ dend[Cleaner] < last_seq
      BY <1>1, Types, ThreadAssumption DEF SafeInv, Clean
    <2>4. \A d \in Client : pc'[d] \in {"flush", "del_range"} => pc[d] = pc'[d]
      BY <1>1, Types
    <2>5. /\ \A d \in Client : pc'[d] \in {"flush", "del_range"} => \A s \in synclog' : s >= min_seq_
          /\ pc'[Cleaner] = "advance" => \A s \in synclog' : s >= min_seq_ => s > dend[Cleaner]
      BY <1>3, <1>4, <2>1, <2>3, <2>4, Types DEF Swept
    <2>6. \A t \in Thread : pc'[t] = "del_range" => \A s \in synclog' : s >= min_seq_ => s >= dstart[t]
      BY <1>4, <2>1, <2>2, Types DEF Swept
    <2> QED
      BY <1>1, <2>5, <2>6 DEF Swept
  <1> QED
    BY <1>5, <1>6, <1>7, <1>8

\* flushdb deletes the lowest record first.
LEMMA FlushDeleteHole ==
  ASSUME SafeInv, HoleInv, NEW c \in Client, FlushDelete(c) PROVE HoleInv'
  <1>1. /\ pc[c] = "flushdb"
        /\ UNCHANGED <<faults, last_seq, min_seq_, capacity, life, pc, dstart, dend>>
    BY DEF FlushDelete, queue, object, range
  <1>2. PICK w \in synclog : (\A s \in synclog : w <= s) /\ synclog' = synclog \ {w}
    BY Types DEF FlushDelete, find_next
  <1>3. Up /\ \A s \in synclog : s <= last_seq
    BY <1>1 DEF SafeInv, Down, Up, TypeOK, NoneAhead
  <1> SUFFICES ASSUME faults = 0 PROVE NoGap' /\ Anchored' /\ Gaps(last_seq)' /\ Swept'
    BY <1>1, <1>3 DEF HoleInv, Up
  <1>4. NoGap /\ Anchored /\ Gaps(last_seq) /\ Swept
    BY <1>3 DEF HoleInv
  <1>5. NoGap' /\ Gaps(last_seq)'
    BY <1>1, <1>2, <1>4, Types DEF NoGap, Gaps
  <1>6. Anchored'
    BY <1>1, <1>2, <1>3, <1>4, Types DEF Anchored
  <1>7. Swept'
    BY <1>1, <1>2, <1>4 DEF Swept
  <1> QED
    BY <1>5, <1>6, <1>7

\* A batch of del_range takes the lowest records behind min_seq_: those of a
\* flush are the lowest of all, those of the cleaning thread are old enough.
LEMMA DelRangeWriteHole ==
  ASSUME SafeInv, HoleInv, NEW t \in Thread, DelRangeWrite(t) PROVE HoleInv'
  <1> DEFINE e == BatchEnd(t)
  <1>1. /\ pc[t] = "del_range"
        /\ synclog' = synclog \ (dstart[t] .. e)
        /\ dstart' = [dstart EXCEPT ![t] = e + 1]
        /\ UNCHANGED <<faults, last_seq, min_seq_, capacity, life, pc, dend>>
    BY DEF DelRangeWrite, queue, object
  <1>2. e \in Int /\ e <= dend[t] /\ dend[t] <= last_seq
    BY <1>1, Types DEF BatchEnd, SafeInv, Ranges
  <1>3. Up /\ \A s \in synclog : s <= last_seq
    BY <1>1, ThreadAssumption DEF SafeInv, Down, Up, TypeOK, NoneAhead, Thread
  <1> HIDE DEF e
  <1> SUFFICES ASSUME faults = 0 PROVE NoGap' /\ Anchored' /\ Gaps(last_seq)' /\ Swept'
    BY <1>1, <1>3 DEF HoleInv, Up
  <1>4. NoGap /\ Anchored /\ Gaps(last_seq) /\ Swept
    BY <1>3 DEF HoleInv
  <1>5. \A s \in synclog : s >= min_seq_ => s >= dstart[t]
    BY <1>1, <1>4 DEF Swept
  <1>6. NoGap'
    BY <1>1, <1>2, <1>4, <1>5, Types DEF NoGap
  <1>7. Anchored' /\ Gaps(last_seq)'
    <2>1. CASE t \in Client
      <3>1. \A s \in synclog : s >= dstart[t]
        BY <1>1, <1>4, <1>5, <2>1 DEF Swept
      <3>2. \A s \in synclog' : s > e
        BY <1>1, <1>2, <3>1, Types
      <3>3. Anchored'
        BY <1>1, <1>2, <1>3, <1>4, <3>1, <3>2, Types DEF Anchored
      <3>4. Gaps(last_seq)'
        BY <1>1, <1>2, <1>4, <3>2, Types DEF Gaps
      <3> QED
        BY <3>3, <3>4
    <2>2. CASE t = Cleaner
      <3>1. e <= last_seq - capacity
        BY <1>1, <1>2, <2>2, Types DEF SafeInv, Clean
      <3>2. Anchored'
        BY <1>1, <1>2, <1>4, <3>1, Types DEF Anchored
      <3>3. Gaps(last_seq)'
        BY <1>1, <1>2, <1>4, <3>1, Types DEF Gaps
      <3> QED
        BY <3>2, <3>3
    <2> QED
      BY <2>1, <2>2 DEF Thread
  <1>8. Swept'
    <2>1. \A u \in Thread : u # t => dstart'[u] = dstart[u]
      BY <1>1, Types DEF SafeInv, TypeOK
    <2>2. dstart'[t] = e + 1
      BY <1>1 DEF SafeInv, TypeOK
    <2>3. \A s \in synclog' : s >= min_seq_ => s >= e + 1
      BY <1>1, <1>2, <1>5, Types
    <2> QED
      BY <1>1, <1>4, <2>1, <2>2, <2>3 DEF Swept
  <1> QED
    BY <1>6, <1>7, <1>8

\* del_range has deleted everything up to its end.
LEMMA DelRangeReturnHole ==
  ASSUME SafeInv, HoleInv, NEW t \in Thread, DelRangeReturn(t) PROVE HoleInv'
  <1>1. /\ pc[t] = "del_range" /\ dstart[t] > dend[t]
        /\ pc' = [pc EXCEPT ![t] = IF t = Cleaner THEN "advance" ELSE "idle"]
        /\ dstart' = [dstart EXCEPT ![t] = 0]
        /\ dend'[Cleaner] = dend[Cleaner]
        /\ UNCHANGED <<synclog, faults, last_seq, min_seq_, capacity, life>>
    BY Types, ThreadAssumption DEF DelRangeReturn, AfterDelRange, Goto, queue, object, SafeInv, TypeOK
  <1>2. Up /\ Up'
    BY <1>1, ThreadAssumption DEF SafeInv, Down, Up, TypeOK, Thread
  <1>3. ASSUME Swept PROVE Swept'
    <2>1. \A u \in Thread : pc'[u] = "del_range" => pc[u] = "del_range" /\ dstart'[u] = dstart[u]
      BY <1>1, Types DEF SafeInv, TypeOK
    <2>2. \A c \in Client : pc'[c] \in {"flush", "del_range"} => pc[c] = pc'[c]
      BY <1>1, Types, ThreadAssumption
    <2>3. pc'[Cleaner] = "advance" => \A s \in synclog : s >= min_seq_ => s > dend[Cleaner]
      BY <1>1, <1>3, Types DEF Swept
    <2> QED
      BY <1>1, <1>3, <2>1, <2>2, <2>3 DEF Swept
  <1> QED
    BY <1>1, <1>2, <1>3, QuietHole

\* flush and the cleaning thread start at min_seq_.
LEMMA RangeHole ==
  ASSUME SafeInv, HoleInv, NEW t \in Thread,
         (t \in Client /\ flush(t)) \/ (t = Cleaner /\ CleanerRange)
  PROVE  HoleInv'
  <1>1. /\ pc[t] \in {"flush", "range"} /\ (t \in Client => pc[t] = "flush")
        /\ pc' = [pc EXCEPT ![t] = "del_range"]
        /\ dstart' = [dstart EXCEPT ![t] = min_seq_]
        /\ UNCHANGED <<synclog, faults, last_seq, min_seq_, capacity, life>>
    BY ThreadAssumption DEF flush, CleanerRange, Goto, disk, queue, object
  <1>2. Up /\ Up'
    BY <1>1, ThreadAssumption DEF SafeInv, Down, Up, TypeOK, Thread
  <1>3. ASSUME Swept PROVE Swept'
    <2>1. \A u \in Thread : pc'[u] = "del_range" =>
            dstart'[u] = min_seq_ \/ (pc[u] = "del_range" /\ dstart'[u] = dstart[u])
      BY <1>1, Types DEF SafeInv, TypeOK
    <2>2. \A c \in Client : pc'[c] \in {"flush", "del_range"} => pc[c] \in {"flush", "del_range"}
      BY <1>1, Types
    <2>3. pc'[Cleaner] = "advance" => pc[Cleaner] = "advance" /\ dend'[Cleaner] = dend[Cleaner]
      <3>1. dend'[Cleaner] = dend[Cleaner] \/ t = Cleaner
        BY Types, ThreadAssumption DEF flush, SafeInv, TypeOK
      <3> QED
        BY <1>1, <3>1, Types
    <2> QED
      BY <1>1, <1>3, <2>1, <2>2, <2>3, Types DEF Swept
  <1> QED
    BY <1>1, <1>2, <1>3, QuietHole

\* min_seq_ moves on over deleted records only.
LEMMA AdvanceHole == ASSUME SafeInv, HoleInv, CleanerAdvance PROVE HoleInv'
  <1>1. /\ pc[Cleaner] = "advance" /\ pc' = [pc EXCEPT ![Cleaner] = "loop"]
        /\ min_seq_' = dend[Cleaner] + 1
        /\ UNCHANGED <<synclog, faults, last_seq, capacity, life, dstart>>
    BY DEF CleanerAdvance, Goto, disk, object
  <1>2. Up /\ min_seq_' >= min_seq_ /\ min_seq_' \in Int
    BY <1>1, Types DEF SafeInv, Clean
  <1> SUFFICES ASSUME faults = 0 PROVE NoGap' /\ Anchored' /\ Gaps(last_seq)' /\ Swept'
    BY <1>1, <1>2 DEF HoleInv, Up
  <1>3. NoGap /\ Anchored /\ Gaps(last_seq) /\ Swept
    BY <1>2 DEF HoleInv
  <1>4. NoGap' /\ Anchored' /\ Gaps(last_seq)'
    BY <1>1, <1>2, <1>3, Types DEF NoGap, Anchored, Gaps
  <1>5. Swept'
    <2>1. \A c \in Client : pc'[c] = pc[c]
      BY <1>1, Types, ThreadAssumption
    <2>2. \A u \in Thread : pc'[u] = "del_range" => pc[u] = "del_range"
      BY <1>1, Types
    <2>3. pc'[Cleaner] = "loop"
      BY <1>1, Types
    <2>4. \A s \in synclog : /\ s >= min_seq_ => s >= min_seq_'
                             /\ s >= min_seq_' => s >= min_seq_
      BY <1>1, <1>2, <1>3, Types DEF Swept
    <2> QED
      BY <1>1, <1>3, <2>1, <2>2, <2>3, <2>4 DEF Swept
  <1> QED
    BY <1>4, <1>5

\* Every step keeps the invariant; a failed deletion ends its claim.
LEMMA NextHole ==
  ASSUME SafeInv, HoleInv, \A a, b \in Capacities : a = b, [Next]_vars PROVE HoleInv'
  <1>1. CASE UNCHANGED vars
    BY <1>1 DEF vars, disk, queue, object, range, HoleInv, Up, NoGap, Anchored, Gaps, Swept
  <1>2. ASSUME NEW on \in BOOLEAN, NEW cap \in Capacities, Open(on, cap) PROVE HoleInv'
    BY <1>2, OpenHole
  <1>3. CASE CloseFinish \/ Crash
    BY <1>3, LoseHole DEF CloseFinish, Crash, Up
  <1>4. CASE Close
    <2>1. UNCHANGED <<synclog, faults, last_seq, min_seq_, capacity, pc, dstart, dend>>
      BY <1>4 DEF Close, disk, queue, range
    <2> QED
      BY <1>4, <2>1, QuietHole DEF Close, Up, Swept
  <1>5. ASSUME faults' = faults + 1 PROVE HoleInv'
    BY <1>5 DEF HoleInv, SafeInv, TypeOK
  <1>6. ASSUME NEW c \in Client, ClientStep(c) PROVE HoleInv'
    <2>1. ASSUME NEW l \in {"idle", "txn", "flushdb"}, pc[c] # "idle" \/ life = "open",
                 Goto(c, l), UNCHANGED <<disk, last_seq, min_seq_, object, range>>
          PROVE  HoleInv'
      <3>1. Up /\ Up'
        BY <2>1 DEF SafeInv, Down, Up, TypeOK, object
      <3>2. faults = 0 /\ Swept => Swept'
        BY <2>1, QuietSwept, Types DEF Goto, disk, range
      <3> QED
        BY <2>1, <3>1, <3>2, QuietHole DEF disk, object
    <2>2. CASE begin(c, "txn") \/ begin(c, "flushdb")
      BY <2>1, <2>2 DEF begin
    <2>3. CASE add_log(c)
      <3>1. pc' = [pc EXCEPT ![c] = "txn"]
        BY <2>3, Types DEF add_log
      <3> QED
        BY <2>1, <2>3, <3>1 DEF add_log, Goto
    <2>4. CASE GiveUp(c)
      BY <2>1, <2>4 DEF GiveUp, rollback
    <2>5. CASE FlushUnlock(c)
      <3>1. Up /\ Up' /\ UNCHANGED <<synclog, faults, last_seq, min_seq_, capacity>> /\ synclog = {}
        BY <2>5 DEF FlushUnlock, SafeInv, Down, Up, TypeOK, disk, object
      <3>2. Swept'
        BY <3>1 DEF Swept
      <3> QED
        BY <3>1, <3>2, QuietHole
    <2>6. CASE FlushFail(c)
      BY <1>5, <2>6 DEF FlushFail
    <2>7. CASE commit(c) \/ FlushDelete(c)
      BY <2>7, CommitHole, FlushDeleteHole
    <2>8. CASE flush(c)
      <3>1. c \in Thread
        BY DEF Thread
      <3> QED
        BY <2>8, <3>1, RangeHole
    <2> QED
      BY <1>6, <2>2, <2>3, <2>4, <2>5, <2>6, <2>7, <2>8 DEF ClientStep
  <1>7. ASSUME NEW t \in Thread, DelRange(t) PROVE HoleInv'
    BY <1>5, <1>7, DelRangeWriteHole, DelRangeReturnHole DEF DelRange, DelRangeFail
  <1>8. CASE CleanerStep
    <2>1. CASE CleanerQuit \/ CleanerTest
      <3>1. \E l \in {"range", "done"} : pc' = [pc EXCEPT ![Cleaner] = l]
        BY <2>1 DEF CleanerQuit, CleanerTest, Goto
      <3>2. /\ UNCHANGED <<synclog, faults, last_seq, min_seq_, capacity, life, dstart, dend>>
            /\ pc[Cleaner] = "loop"
        BY <2>1 DEF CleanerQuit, CleanerTest, disk, queue, object, range
      <3>3. Up /\ Up'
        BY <3>2 DEF SafeInv, Clean, Up
      <3>4. Swept => Swept'
        BY <3>1, <3>2, QuietSwept, Types
      <3> QED
        BY <3>2, <3>3, <3>4, QuietHole
    <2>2. CASE CleanerRange
      BY <2>2, RangeHole, Types
    <2>3. CASE CleanerAdvance
      BY <2>3, AdvanceHole
    <2> QED
      BY <1>8, <2>1, <2>2, <2>3 DEF CleanerStep
  <1> QED
    BY <1>1, <1>2, <1>3, <1>4, <1>6, <1>7, <1>8 DEF Next

\* From the first record at or after min_seq_ on there is no hole, however the
\* clients, flushdb, the cleaning thread, crashes and restarts interleave, as
\* long as no deletion fails and every restart uses the same capacity.
THEOREM BinlogNoHole ==
  ASSUME \A a, b \in Capacities : a = b
  PROVE  Spec => []NoHole
  <1>1. Init => HoleInv
    BY DEF Init, NoObject, HoleInv, Up
  <1>2. SafeInv /\ HoleInv /\ [Next]_vars => HoleInv'
    BY NextHole
  <1>3. HoleInv => NoHole
    BY DEF HoleInv, NoHole, NoGap
  <1> QED
    BY <1>1, <1>2, <1>3, BinlogSafe, PTL DEF Spec
=============================================================================
