------------------------------ MODULE PosixEnv ------------------------------
(***************************************************************************)
(* The environment leveldb runs in (env_posix.cc): the lock of a database  *)
(* directory, the limits on open table files, and the queue of the         *)
(* background thread.  The three share nothing; `area' says which one a    *)
(* behaviour is about.                                                     *)
(***************************************************************************)
EXTENDS Integers, Sequences, FiniteSets

CONSTANTS
  Openers,                   \* threads that open a database
  Placements,                \* functions: the process each of them belongs to
  FileThreads,               \* threads of one process that open table files
  mmap_limit, fd_limit,      \* initial values of the two Limiters
  MaxItems,                  \* bound: calls of Schedule
  NoProcess

\* Every process has one opener, or one process has all of them.
ASSUME PlacementAssumption ==
  \A p \in Placements :
    /\ DOMAIN p = Openers /\ \A t \in Openers : p[t] # NoProcess
    /\ \/ \A s, t \in Openers : p[s] = p[t] => s = t
       \/ \A s, t \in Openers : p[s] = p[t]

ASSUME LimiterAssumption ==
  mmap_limit \in Nat /\ fd_limit \in Nat /\ IsFiniteSet(FileThreads)

VARIABLES
  area,
  lk,            \* the LOCK file: locked_files_ per process, fcntl's owner, the threads
  fl,            \* the Limiters and the files each thread has open
  bg             \* queue_, bgsignal_ and the background thread

pevars == <<area, lk, fl, bg>>

-----------------------------------------------------------------------------
(* LockFile and UnlockFile of one file *)

LockInit(placement) ==
  [table |-> {}, owner |-> NoProcess, pc |-> [t \in Openers |-> "idle"], process |-> placement]

ProcessOf(t) == lk.process[t]

\* external: closing any descriptor of a file ends the process's fcntl lock.
ClosedBy(l, p) == IF l.owner = p THEN NoProcess ELSE l.owner

\* Open the file and enter it into locked_files_; someone in the process may
\* have it already.
LockInsert(t) ==
  LET p == ProcessOf(t) IN
    /\ lk.pc[t] = "idle"
    /\ lk' = IF p \in lk.table THEN [lk EXCEPT !.owner = ClosedBy(lk, p)]
             ELSE [lk EXCEPT !.table = @ \cup {p}, !.pc[t] = "fcntl"]

\* Mutant: the result of fcntl is not looked at.
LockFcntl_ignored(t) ==
  LET p == ProcessOf(t) IN
    /\ lk.pc[t] = "fcntl"
    /\ lk' = [lk EXCEPT !.owner = IF @ = NoProcess THEN p ELSE @, !.pc[t] = "held"]

\* LockOrUnlock(fd, true), and what follows when another process has the lock.
LockFcntl(t) ==
  LET p == ProcessOf(t) IN
    /\ lk.pc[t] = "fcntl"
    /\ lk' = IF lk.owner \in {NoProcess, p} THEN [lk EXCEPT !.owner = p, !.pc[t] = "held"]
             ELSE [lk EXCEPT !.pc[t] = "refused"]

LockRefused(t) ==
  /\ lk.pc[t] = "refused"
  /\ lk' = [lk EXCEPT !.table = @ \ {ProcessOf(t)}, !.pc[t] = "idle"]

\* UnlockFile: fcntl, locked_files_, close.
Unlock(t) ==
  /\ lk.pc[t] = "held"
  /\ lk' = [lk EXCEPT !.owner = IF @ = ProcessOf(t) THEN NoProcess ELSE @, !.pc[t] = "remove"]
UnlockRemove(t) ==
  /\ lk.pc[t] = "remove"
  /\ lk' = [lk EXCEPT !.table = @ \ {ProcessOf(t)}, !.pc[t] = "close"]
UnlockClose(t) ==
  /\ lk.pc[t] = "close"
  /\ lk' = [lk EXCEPT !.owner = ClosedBy(lk, ProcessOf(t)), !.pc[t] = "idle"]

LockStep(t) ==
  LockInsert(t) \/ LockFcntl(t) \/ LockRefused(t) \/ Unlock(t) \/ UnlockRemove(t) \/ UnlockClose(t)

-----------------------------------------------------------------------------
(* NewRandomAccessFile and the files it returns *)

FilesInit ==
  [mmaps |-> mmap_limit, fds |-> fd_limit, pc |-> [t \in FileThreads |-> "closed"]]

\* Acquire looks first without the mutex.
Peeked(t, limiter, yes, no) ==
  fl' = [fl EXCEPT !.pc[t] = IF fl[limiter] <= 0 THEN no ELSE yes]

\* Acquire under the mutex.
Acquire(t, limiter, yes, no) ==
  fl' = IF fl[limiter] <= 0 THEN [fl EXCEPT !.pc[t] = no]
        ELSE [fl EXCEPT ![limiter] = @ - 1, !.pc[t] = yes]

\* The size of the file is asked for and the file is mapped; both may fail.
MapFile(t) ==
  /\ fl.pc[t] = "map"
  /\ \/ fl' = [fl EXCEPT !.pc[t] = "mapped"]
     \/ fl' = [fl EXCEPT !.pc[t] = "closed", !.mmaps = @ + 1]

OpenFile(t) ==
  \/ fl.pc[t] = "closed" /\ Peeked(t, "mmaps", "mmap", "fdpeek")
  \/ fl.pc[t] = "mmap" /\ Acquire(t, "mmaps", "map", "fdpeek")
  \/ MapFile(t)
  \/ fl.pc[t] = "fdpeek" /\ Peeked(t, "fds", "fd", "temporary")
  \/ fl.pc[t] = "fd" /\ Acquire(t, "fds", "kept", "temporary")

\* The destructors.
CloseFile(t) ==
  \/ fl.pc[t] = "mapped" /\ fl' = [fl EXCEPT !.pc[t] = "closed", !.mmaps = @ + 1]
  \/ fl.pc[t] = "kept" /\ fl' = [fl EXCEPT !.pc[t] = "closed", !.fds = @ + 1]
  \/ fl.pc[t] = "temporary" /\ fl' = [fl EXCEPT !.pc[t] = "closed"]

-----------------------------------------------------------------------------
(* Schedule and BGThread *)

QueueInit == [started |-> FALSE, queue_ |-> <<>>, n |-> 0, signalled |-> FALSE, thread |-> "none", ran |-> <<>>]

\* Start the thread once, signal if the queue is empty, append.
Schedule(b) ==
  [b EXCEPT !.started = TRUE, !.thread = IF b.started THEN @ ELSE "ready", !.n = @ + 1,
            !.signalled = @ \/ (b.queue_ = <<>> /\ b.thread = "waiting"), !.queue_ = Append(@, b.n + 1)]

\* The thread takes the mutex, or it is woken and tests the queue again;
\* pthread_cond_wait may also return without a signal.
BGThread ==
  /\ bg.thread \in {"ready", "waiting"}
  /\ bg' = IF bg.queue_ = <<>> THEN [bg EXCEPT !.thread = "waiting", !.signalled = FALSE]
           ELSE [bg EXCEPT !.thread = "running", !.signalled = FALSE,
                           !.ran = Append(@, Head(bg.queue_)), !.queue_ = Tail(@)]

BGDone ==
  /\ bg.thread = "running"
  /\ bg' = [bg EXCEPT !.thread = "ready"]

-----------------------------------------------------------------------------
PosixInit ==
  /\ area \in {"lock", "files", "queue"}
  /\ \E placement \in Placements : lk = LockInit(placement)
  /\ fl = FilesInit /\ bg = QueueInit

PosixNext ==
  /\ UNCHANGED area
  /\ \/ area = "lock" /\ (\E t \in Openers : LockStep(t)) /\ UNCHANGED <<fl, bg>>
     \/ area = "files" /\ (\E t \in FileThreads : OpenFile(t) \/ CloseFile(t)) /\ UNCHANGED <<lk, bg>>
     \/ area = "queue" /\ bg.n < MaxItems /\ bg' = Schedule(bg) /\ UNCHANGED <<lk, fl>>
     \/ area = "queue" /\ (BGThread \/ BGDone) /\ UNCHANGED <<lk, fl>>

-----------------------------------------------------------------------------
\* A database is never open twice: neither in two processes nor in two threads
\* of one.  LockFile has a table of its own besides fcntl, which does nothing
\* inside a process.  (Not so when both happen: a second thread of the process
\* that has the lock closes its descriptor, which ends the lock.)
LockExclusive ==
  \A s, t \in Openers : lk.pc[s] = "held" /\ lk.pc[t] = "held" => s = t

\* Every Limiter counts what is in use, also when mapping a file fails, and
\* never lets in more than its limit although it is first read without the mutex.
LimitsKept ==
  LET Using(S) == Cardinality({t \in FileThreads : fl.pc[t] \in S}) IN
    /\ fl.mmaps >= 0 /\ fl.mmaps + Using({"map", "mapped"}) = mmap_limit
    /\ fl.fds >= 0 /\ fl.fds + Using({"kept"}) = fd_limit

\* The background thread does what was scheduled, once and in order, and never
\* waits without a signal on its way while there is something to do.
NothingUnsignalled ==
  /\ bg.ran \o bg.queue_ = [i \in 1 .. bg.n |-> i]
  /\ bg.queue_ # <<>> => bg.thread # "none" /\ (bg.thread = "waiting" => bg.signalled)

\* What the threads of a process share through the environment is safe.
EnvIsSound == LockExclusive /\ LimitsKept /\ NothingUnsignalled
=============================================================================
