---------------------------- MODULE BinlogQueue ----------------------------
(***************************************************************************)
(* The binlog of SSDB: class BinlogQueue and class Transaction of          *)
(* ssdb/ssdb/binlog.{h,cpp}, together with SSDBImpl::flushdb, which drives *)
(* it.  The binlog records live in leveldb under their sequence numbers;   *)
(* the object keeps min_seq_ and last_seq in memory and a cleaning thread  *)
(* trims the oldest records.  Clients and flushdb serialise on `mutex',    *)
(* the cleaning thread and BinlogQueue::flush read the counters without    *)
(* holding it.                                                             *)
(*                                                                         *)
(* A record is represented by its sequence number; what it says (type,     *)
(* command, key) and the data rows written in the same WriteBatch do not   *)
(* influence the queue.  leveldb is external here: a Write is one atomic   *)
(* step that either happens or fails.  A crash is a crash of the process:  *)
(* everything written survives, everything in memory is lost.              *)
(***************************************************************************)
EXTENDS Integers

CONSTANTS
  Client,      \* threads that call the SSDBImpl operations
  Cleaner,     \* the thread of log_clean_thread_func
  NoOne,       \* the mutex is free
  Capacities,  \* values of the option replication.binlog.capacity
  Slack,       \* log_clean_thread_func waits for capacity + Slack (10000)
  DelBatch,    \* records per batch of del_range (1000)
  MaxSeq,      \* bound: no sequence number above MaxSeq is allocated
  MaxFaults    \* bound: how many deletions of records may fail

ASSUME CapacityAssumption == Capacities \subseteq Nat \ {0}
ASSUME SlackAssumption == Slack \in Nat
ASSUME DelBatchAssumption == DelBatch \in Nat \ {0}
ASSUME BoundAssumption == MaxSeq \in Nat /\ MaxFaults \in Nat
ASSUME ThreadAssumption == Cleaner \notin Client /\ NoOne \notin Client \cup {Cleaner}

VARIABLES
  synclog,     \* sequence numbers of the records in leveldb
  faults,      \* history: deletions of records that failed
  last_seq,    \* BinlogQueue::last_seq
  min_seq_,    \* BinlogQueue::min_seq_
  tran_seq,    \* BinlogQueue::tran_seq
  batch,       \* the records put into BinlogQueue::batch
  mutex,       \* holder of BinlogQueue::mutex
  enabled,     \* option replication.binlog of this incarnation
  capacity,    \* BinlogQueue::capacity
  life,        \* the object: "down", "open" or "closing"
  thread_quit, \* BinlogQueue::thread_quit
  pc,          \* where each thread is
  dstart,      \* local `start' of a running del_range
  dend         \* its `end'

Thread == Client \cup {Cleaner}

disk    == <<synclog, faults>>
queue   == <<last_seq, min_seq_, tran_seq, batch>>
object  == <<enabled, capacity, life, thread_quit>>
range   == <<dstart, dend>>
vars    == <<disk, queue, mutex, object, pc, range>>

Goto(t, l) == pc' = [pc EXCEPT ![t] = l]

Up == life \in {"open", "closing"}

(***************************************************************************)
(* Opening, closing and crashing.                                          *)
(***************************************************************************)

\* No object: nothing in memory, no thread.
NoObject ==
  /\ last_seq = 0 /\ min_seq_ = 0 /\ tran_seq = 0 /\ batch = {}
  /\ mutex = NoOne
  /\ enabled = FALSE /\ life = "down" /\ thread_quit = FALSE
  /\ pc = [t \in Thread |-> IF t = Cleaner THEN "done" ELSE "idle"]
  /\ dstart = [t \in Thread |-> 0] /\ dend = [t \in Thread |-> 0]

LoseMemory ==
  /\ last_seq' = 0 /\ min_seq_' = 0 /\ tran_seq' = 0 /\ batch' = {}
  /\ mutex' = NoOne
  /\ enabled' = FALSE /\ life' = "down" /\ thread_quit' = FALSE
  /\ pc' = [t \in Thread |-> IF t = Cleaner THEN "done" ELSE "idle"]
  /\ dstart' = [t \in Thread |-> 0] /\ dend' = [t \in Thread |-> 0]

\* find_last: seek behind the last possible record, then one step back; 0
\* if there is no record.
find_last(m) ==
  \/ synclog = {} /\ m = 0
  \/ m \in synclog /\ \A s \in synclog : s <= m

\* find_next(n): the first record at or after n; the empty set if none.
find_next(n) ==
  {s \in synclog : s >= n /\ \A t \in synclog : t >= n => s <= t}

\* min_seq_ as the constructor computes it.
OpenMin(last, cap, m) ==
  LET low == IF last > cap THEN last - cap ELSE 0
  IN IF find_next(low) = {} THEN m = low ELSE m \in find_next(low)

Open(on, cap) ==
  /\ life = "down"
  /\ \E last, m \in 0..MaxSeq :
       /\ find_last(last)
       /\ OpenMin(last, cap, m)
       /\ last_seq' = last
       /\ min_seq_' = m
  /\ tran_seq' = 0
  /\ batch' = {}
  /\ mutex' = NoOne
  /\ enabled' = on
  /\ capacity' = cap
  /\ life' = "open"
  /\ thread_quit' = FALSE
  /\ pc' = [pc EXCEPT ![Cleaner] = IF on THEN "loop" ELSE "done"]
  /\ UNCHANGED <<disk, range>>

\* ~BinlogQueue runs when no client is inside the object: it raises
\* thread_quit and waits for the thread to lower it, at most one second.
Close ==
  /\ life = "open"
  /\ \A c \in Client : pc[c] = "idle"
  /\ life' = "closing"
  /\ thread_quit' = enabled
  /\ UNCHANGED <<disk, queue, mutex, enabled, capacity, pc, range>>

\* The wait ends because the thread answered, or because time is up; then
\* the mutex is taken, db is set to NULL and the memory is released.  What a
\* thread that is still running does after that is undefined: the program
\* may go on only once it is gone, and otherwise is taken to crash.
CloseFinish ==
  /\ life = "closing"
  /\ mutex = NoOne
  /\ LoseMemory
  /\ UNCHANGED <<disk, capacity>>

\* The process dies.
Crash ==
  /\ Up
  /\ LoseMemory
  /\ UNCHANGED <<disk, capacity>>

(***************************************************************************)
(* A transaction of a client: class Transaction around begin, add_log and  *)
(* commit.                                                                 *)
(***************************************************************************)

\* The constructor of Transaction: lock and begin.
begin(c, l) ==
  /\ life = "open" /\ pc[c] = "idle" /\ mutex = NoOne
  /\ mutex' = c
  /\ tran_seq' = last_seq
  /\ batch' = {}
  /\ Goto(c, l)
  /\ UNCHANGED <<disk, last_seq, min_seq_, object, range>>

add_log(c) ==
  /\ pc[c] = "txn"
  /\ enabled
  /\ tran_seq < MaxSeq
  /\ tran_seq' = tran_seq + 1
  /\ batch' = batch \cup {tran_seq + 1}
  /\ UNCHANGED <<disk, last_seq, min_seq_, mutex, object, pc, range>>

\* The destructor of Transaction: rollback and unlock.  The records left in
\* the batch are dead until begin clears them.
rollback(c, l) ==
  /\ tran_seq' = 0
  /\ batch' = {}
  /\ mutex' = NoOne
  /\ Goto(c, l)

\* Mutant: last_seq is not advanced.
commit_stale(c) ==
  /\ pc[c] = "txn"
  /\ synclog' = synclog \cup batch
  /\ rollback(c, "idle")
  /\ UNCHANGED <<faults, last_seq, min_seq_, object, range>>

\* commit succeeds; the Transaction ends.
commit(c) ==
  /\ pc[c] = "txn"
  /\ synclog' = synclog \cup batch
  /\ last_seq' = tran_seq
  /\ rollback(c, "idle")
  /\ UNCHANGED <<faults, min_seq_, object, range>>

\* The Write of commit fails, or the operation returns before it commits.
GiveUp(c) ==
  /\ pc[c] = "txn"
  /\ rollback(c, "idle")
  /\ UNCHANGED <<disk, last_seq, min_seq_, object, range>>

(***************************************************************************)
(* del_range(start, end): batches of deletions, the mutex taken for each.  *)
(***************************************************************************)

BatchEnd(t) ==
  IF dend[t] < dstart[t] + DelBatch - 1 THEN dend[t] ELSE dstart[t] + DelBatch - 1

\* Mutant: the loop over the records counts `start' once more than it deletes.
DelRangeWrite_skip(t) ==
  /\ pc[t] = "del_range"
  /\ dstart[t] <= dend[t]
  /\ mutex = NoOne
  /\ synclog' = synclog \ (dstart[t] .. BatchEnd(t))
  /\ dstart' = [dstart EXCEPT ![t] = BatchEnd(t) + 2]
  /\ UNCHANGED <<faults, queue, mutex, object, pc, dend>>

DelRangeWrite(t) ==
  /\ pc[t] = "del_range"
  /\ dstart[t] <= dend[t]
  /\ mutex = NoOne
  /\ synclog' = synclog \ (dstart[t] .. BatchEnd(t))
  /\ dstart' = [dstart EXCEPT ![t] = BatchEnd(t) + 1]
  /\ UNCHANGED <<faults, queue, mutex, object, pc, dend>>

\* Both callers ignore whether del_range succeeded; its locals are gone, but
\* the cleaning thread still uses `end'.
AfterDelRange(t) ==
  /\ Goto(t, IF t = Cleaner THEN "advance" ELSE "idle")
  /\ dstart' = [dstart EXCEPT ![t] = 0]
  /\ dend' = IF t = Cleaner THEN dend ELSE [dend EXCEPT ![t] = 0]
  /\ UNCHANGED <<synclog, queue, mutex, object>>

DelRangeReturn(t) ==
  /\ pc[t] = "del_range"
  /\ dstart[t] > dend[t]
  /\ AfterDelRange(t)
  /\ UNCHANGED faults

\* The Write fails.
DelRangeFail(t) ==
  /\ pc[t] = "del_range"
  /\ dstart[t] <= dend[t]
  /\ mutex = NoOne
  /\ faults < MaxFaults
  /\ faults' = faults + 1
  /\ AfterDelRange(t)

(***************************************************************************)
(* SSDBImpl::flushdb: under a Transaction every key is deleted one by one, *)
(* lowest first; BinlogQueue::flush then runs without the mutex.           *)
(***************************************************************************)

FlushDelete(c) ==
  /\ pc[c] = "flushdb"
  /\ \E s \in find_next(0) : synclog' = synclog \ {s}
  /\ UNCHANGED <<faults, queue, mutex, object, pc, range>>

\* Nothing is left; the Transaction ends.
FlushUnlock(c) ==
  /\ pc[c] = "flushdb"
  /\ synclog = {}
  /\ rollback(c, "flush")
  /\ UNCHANGED <<disk, last_seq, min_seq_, object, range>>

\* A Delete fails; the Transaction ends all the same.
FlushFail(c) ==
  /\ pc[c] = "flushdb"
  /\ faults < MaxFaults
  /\ faults' = faults + 1
  /\ rollback(c, "flush")
  /\ UNCHANGED <<synclog, last_seq, min_seq_, object, range>>

flush(c) ==
  /\ pc[c] = "flush"
  /\ dstart' = [dstart EXCEPT ![c] = min_seq_]
  /\ dend' = [dend EXCEPT ![c] = last_seq]
  /\ Goto(c, "del_range")
  /\ UNCHANGED <<disk, queue, mutex, object>>

(***************************************************************************)
(* log_clean_thread_func.  Its reads of the shared counters are not        *)
(* protected; the sleep when there is nothing to clean changes nothing.    *)
(***************************************************************************)

CleanerQuit ==
  /\ pc[Cleaner] = "loop"
  /\ thread_quit
  /\ thread_quit' = FALSE
  /\ Goto(Cleaner, "done")
  /\ UNCHANGED <<disk, queue, mutex, enabled, capacity, life, range>>

\* Mutant: off by one, strictly longer than capacity + Slack.
CleanerTest_strict ==
  /\ pc[Cleaner] = "loop"
  /\ ~thread_quit
  /\ last_seq - min_seq_ > capacity + Slack
  /\ Goto(Cleaner, "range")
  /\ UNCHANGED <<disk, queue, mutex, object, range>>

CleanerTest ==
  /\ pc[Cleaner] = "loop"
  /\ ~thread_quit
  /\ last_seq - min_seq_ >= capacity + Slack
  /\ Goto(Cleaner, "range")
  /\ UNCHANGED <<disk, queue, mutex, object, range>>

\* Mutant: off by one, capacity - 1 records are left.
CleanerRange_greedy ==
  /\ pc[Cleaner] = "range"
  /\ dstart' = [dstart EXCEPT ![Cleaner] = min_seq_]
  /\ dend' = [dend EXCEPT ![Cleaner] = last_seq - capacity + 1]
  /\ Goto(Cleaner, "del_range")
  /\ UNCHANGED <<disk, queue, mutex, object>>

CleanerRange ==
  /\ pc[Cleaner] = "range"
  /\ dstart' = [dstart EXCEPT ![Cleaner] = min_seq_]
  /\ dend' = [dend EXCEPT ![Cleaner] = last_seq - capacity]
  /\ Goto(Cleaner, "del_range")
  /\ UNCHANGED <<disk, queue, mutex, object>>

\* Mutant: min_seq_ taken from the current last_seq.
CleanerAdvance_last ==
  /\ pc[Cleaner] = "advance"
  /\ min_seq_' = last_seq + 1
  /\ dend' = [dend EXCEPT ![Cleaner] = 0]
  /\ Goto(Cleaner, "loop")
  /\ UNCHANGED <<disk, last_seq, tran_seq, batch, mutex, object, dstart>>

CleanerAdvance ==
  /\ pc[Cleaner] = "advance"
  /\ min_seq_' = dend[Cleaner] + 1
  /\ dend' = [dend EXCEPT ![Cleaner] = 0]
  /\ Goto(Cleaner, "loop")
  /\ UNCHANGED <<disk, last_seq, tran_seq, batch, mutex, object, dstart>>

-----------------------------------------------------------------------------
\* A new database: nothing written, nothing running.
Init ==
  /\ synclog = {} /\ faults = 0
  /\ capacity \in Capacities
  /\ NoObject

ClientStep(c) ==
  \/ begin(c, "txn") \/ add_log(c) \/ commit(c) \/ GiveUp(c)
  \/ begin(c, "flushdb") \/ FlushDelete(c) \/ FlushUnlock(c) \/ FlushFail(c)
  \/ flush(c)

DelRange(t) == DelRangeWrite(t) \/ DelRangeReturn(t) \/ DelRangeFail(t)

CleanerStep == CleanerQuit \/ CleanerTest \/ CleanerRange \/ CleanerAdvance

Next ==
  \/ \E on \in BOOLEAN, cap \in Capacities : Open(on, cap)
  \/ Close \/ CloseFinish \/ Crash
  \/ \E c \in Client : ClientStep(c)
  \/ \E t \in Thread : DelRange(t)
  \/ CleanerStep

Spec == Init /\ [][Next]_vars

\* The threads are scheduled; an operation that holds the mutex finishes; and
\* the cleaning thread gets the mutex if it is free over and over again.
Fairness ==
  /\ WF_vars(CleanerStep)
  /\ SF_vars(DelRangeWrite(Cleaner))
  /\ WF_vars(DelRangeReturn(Cleaner))
  /\ \A c \in Client : WF_vars(commit(c) \/ FlushDelete(c) \/ FlushUnlock(c))

FairSpec == Spec /\ Fairness

-----------------------------------------------------------------------------
ClientPC  == {"idle", "txn", "flushdb", "flush", "del_range"}
CleanerPC == {"loop", "range", "del_range", "advance", "done"}

\* Every field has its type, and the sequence numbers stay below the bound.
TypeOK ==
  /\ synclog \subseteq 1..MaxSeq
  /\ faults \in 0..MaxFaults
  /\ last_seq \in 0..MaxSeq
  /\ min_seq_ \in 0..MaxSeq
  /\ tran_seq \in 0..MaxSeq
  /\ batch \subseteq 1..MaxSeq
  /\ mutex \in Client \cup {NoOne}
  /\ enabled \in BOOLEAN
  /\ capacity \in Capacities
  /\ life \in {"down", "open", "closing"}
  /\ thread_quit \in BOOLEAN
  /\ pc \in [Thread -> ClientPC \cup CleanerPC]
  /\ \A c \in Client : pc[c] \in ClientPC
  /\ pc[Cleaner] \in CleanerPC
  /\ dstart \in [Thread -> 0..MaxSeq+1]
  /\ dend \in [Thread -> 0..MaxSeq]

\* The assertion at the head of the cleaning loop: last_seq >= min_seq_, at
\* every moment, because the thread evaluates it without the mutex.
AssertOrder == Up => last_seq >= min_seq_

\* What min_seq() and max_seq() promise a reader of the binlog: from the
\* first record at or after min_seq_ on there is no hole up to last_seq.
\* It survives crashes and restarts with the same capacity as long as no
\* deletion of records has failed: the cleaning thread and flushdb ignore a
\* failed del_range, and that followed by a crash inside flush leaves a hole.
NoHole ==
  Up /\ faults = 0 =>
    \A s \in synclog : s >= min_seq_ => s..last_seq \subseteq synclog

\* No record is ahead of last_seq, so the next commit overwrites none.
NoneAhead == Up => \A s \in synclog : s <= last_seq

\* The cleaning thread leaves the newest `capacity' records alone: a record
\* that disappears while no flushdb is running is at least capacity old.
Retained ==
  [][Up /\ (\A c \in Client : pc[c] \notin {"flushdb", "del_range"})
       => \A s \in synclog \ synclog' : s <= last_seq - capacity]_vars

\* The queue does not grow for ever: when it is capacity + Slack long, the
\* cleaning thread eventually moves min_seq_ on (or the object is gone).
TrimProgress ==
  \A m \in 0..MaxSeq :
    (life = "open" /\ min_seq_ = m /\ last_seq - m >= capacity + Slack)
      ~> (life # "open" \/ min_seq_ > m)
=============================================================================
