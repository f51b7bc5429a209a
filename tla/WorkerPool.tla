----------------------------- MODULE WorkerPool -----------------------------
(***************************************************************************)
(* The threads' toolbox of util/thread.h: Queue (mutex and condition       *)
(* variable), SelectableQueue (mutex and pipe) and the WorkerPool that     *)
(* joins them: clients push jobs, workers take one, process it and push    *)
(* the result, one reader collects results.  stop cancels the workers,     *)
(* which die at their next cancellation point: pthread_cond_wait, after it *)
(* has taken the mutex again, or write, with the mutex of the results.     *)
(***************************************************************************)
EXTENDS Integers, Sequences, FiniteSets, SequencesExt, FiniteSetsExt

CONSTANTS
  PoolClients, Workers,
  Jobs           \* bound: jobs pushed; each is pushed once

ASSUME PoolAssumption ==
  0 \notin Jobs /\ 0 \notin Workers /\ IsFiniteSet(Workers) /\ Workers # {}

VARIABLES
  todo,          \* the jobs no client has pushed yet
  jobs,          \* Queue::items of the jobs
  jmutex,        \* the worker that died with the mutex of the jobs, or 0
  results,       \* SelectableQueue::items of the results
  rmutex,        \* the worker that has the mutex of the results, or 0
  pipe,          \* bytes in the pipe
  signals,       \* pushes that have unlocked and not yet signalled
  worker,        \* each worker: where it is, its job
  reader,        \* the reader: between the pipe and the mutex?
  out,           \* the jobs the reader has returned
  stopped        \* stop was called

wpvars == <<todo, jobs, jmutex, results, rmutex, pipe, signals, worker, reader, out, stopped>>

PoolInit ==
  /\ todo = Jobs /\ jobs = <<>> /\ jmutex = 0 /\ results = <<>> /\ rmutex = 0 /\ pipe = 0 /\ signals = {}
  /\ worker = [w \in Workers |-> [at |-> "pop", job |-> 0]]
  /\ reader = "read" /\ out = <<>> /\ stopped = FALSE

Goto(w, at) == worker' = [worker EXCEPT ![w].at = at]

-----------------------------------------------------------------------------
(* Queue *)

\* Mutant: nobody is told.
QueuePush_silent(c, j) ==
  /\ jmutex = 0 /\ c \notin signals /\ todo' = todo \ {j}
  /\ jobs' = Append(jobs, j)
  /\ UNCHANGED <<jmutex, results, rmutex, pipe, signals, worker, reader, out, stopped>>

\* Queue::push up to the unlock.
QueuePush(c, j) ==
  /\ jmutex = 0 /\ c \notin signals /\ todo' = todo \ {j}
  /\ jobs' = Append(jobs, j)
  /\ signals' = signals \cup {c}
  /\ UNCHANGED <<jmutex, results, rmutex, pipe, worker, reader, out, stopped>>

\* pthread_cond_signal: one waiting worker goes on, if there is one.
QueueSignal(c) ==
  /\ c \in signals /\ signals' = signals \ {c}
  /\ LET W == {w \in Workers : worker[w].at = "wait"} IN
       \/ \E w \in W : Goto(w, "pop")
       \/ W = {} /\ UNCHANGED worker
  /\ UNCHANGED <<todo, jobs, jmutex, results, rmutex, pipe, reader, out, stopped>>

\* Queue::pop with the mutex: wait, or take the first job.
QueuePop(w) ==
  /\ worker[w].at = "pop" /\ jmutex = 0
  /\ IF jobs = <<>> THEN Goto(w, "wait") /\ UNCHANGED jobs
     ELSE /\ worker' = [worker EXCEPT ![w] = [at |-> "proc", job |-> Head(jobs)]]
          /\ jobs' = Tail(jobs)
  /\ UNCHANGED <<todo, jmutex, results, rmutex, pipe, signals, reader, out, stopped>>

\* pthread_cond_wait may return without a signal.
SpuriousWake(w) ==
  /\ worker[w].at = "wait" /\ Goto(w, "pop")
  /\ UNCHANGED <<todo, jobs, jmutex, results, rmutex, pipe, signals, reader, out, stopped>>

-----------------------------------------------------------------------------
(* SelectableQueue *)

Proc(w) ==
  /\ worker[w].at = "proc" /\ Goto(w, "push")
  /\ UNCHANGED <<todo, jobs, jmutex, results, rmutex, pipe, signals, reader, out, stopped>>

\* SelectableQueue::push takes the mutex and adds the item ...
ResultPush(w) ==
  /\ worker[w].at = "push" /\ rmutex = 0
  /\ rmutex' = w
  /\ results' = Append(results, worker[w].job)
  /\ worker' = [worker EXCEPT ![w] = [at |-> "write", job |-> 0]]
  /\ UNCHANGED <<todo, jobs, jmutex, pipe, signals, reader, out, stopped>>

\* ... then writes a byte and unlocks.
ResultWrite(w) ==
  /\ worker[w].at = "write"
  /\ pipe' = pipe + 1 /\ rmutex' = 0 /\ Goto(w, "pop")
  /\ UNCHANGED <<todo, jobs, jmutex, results, signals, reader, out, stopped>>

\* SelectableQueue::pop reads a byte ...
ResultRead ==
  /\ reader = "read" /\ pipe > 0
  /\ pipe' = pipe - 1 /\ reader' = "lock"
  /\ UNCHANGED <<todo, jobs, jmutex, results, rmutex, signals, worker, out, stopped>>

\* ... and takes the mutex and the item, which must be there.
ResultPop ==
  /\ reader = "lock" /\ rmutex = 0
  /\ IF results = <<>> THEN reader' = "error" /\ UNCHANGED <<results, out>>
     ELSE reader' = "read" /\ results' = Tail(results) /\ out' = Append(out, Head(results))
  /\ UNCHANGED <<todo, jobs, jmutex, rmutex, pipe, signals, worker, stopped>>

-----------------------------------------------------------------------------
(* WorkerPool::stop *)

Stop ==
  /\ ~stopped /\ stopped' = TRUE
  /\ UNCHANGED <<todo, jobs, jmutex, results, rmutex, pipe, signals, worker, reader, out>>

\* A cancelled worker dies in pthread_cond_wait, and keeps the mutex ...
DieWaiting(w) ==
  /\ stopped /\ worker[w].at = "wait" /\ jmutex = 0
  /\ jmutex' = w /\ Goto(w, "dead")
  /\ UNCHANGED <<todo, jobs, results, rmutex, pipe, signals, reader, out, stopped>>

\* ... or in write.
DieWriting(w) ==
  /\ stopped /\ worker[w].at = "write" /\ Goto(w, "dead")
  /\ UNCHANGED <<todo, jobs, jmutex, results, rmutex, pipe, signals, reader, out, stopped>>

PoolNext ==
  \/ \E c \in PoolClients : QueueSignal(c) \/ \E j \in todo : QueuePush(c, j)
  \/ \E w \in Workers :
       \/ QueuePop(w) \/ SpuriousWake(w) \/ Proc(w) \/ ResultPush(w) \/ ResultWrite(w)
       \/ DieWaiting(w) \/ DieWriting(w)
  \/ ResultRead \/ ResultPop \/ Stop

-----------------------------------------------------------------------------
\* Every job a client has pushed is in exactly one place: waiting, with one
\* worker, among the results or returned.  Every byte in the pipe has its
\* result, so a reader that has read one never finds the queue empty; a stop
\* included.
JobsConserved ==
  LET busy == {w \in Workers : worker[w].job # 0}
      all == jobs \o results \o out \o [i \in 1 .. Cardinality(busy) |-> worker[SetToSeq(busy)[i]].job]
  IN /\ IsInjective(all) /\ ToSet(all) = Jobs \ todo
     /\ pipe + (IF reader = "lock" THEN 1 ELSE 0) <= Len(results)

\* Nobody sleeps while there is work: when a job is waiting, a worker is awake
\* or a push is about to signal, as long as the pool is not stopped.
NobodySleeps ==
  ~stopped /\ jobs # <<>> => signals # {} \/ \E w \in Workers : worker[w].at # "wait"

\* No job is lost, done twice or left lying while workers sleep.
PoolIsSound == JobsConserved /\ NobodySleeps
=============================================================================
