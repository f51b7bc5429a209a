---------------------------- MODULE QueueFacade ----------------------------
(***************************************************************************)
(* Several threads of an application on one queue through the Objective-C  *)
(* facade (SSDB+Extension.mm: qPush, qPop, qClear).  Each SSDBImpl         *)
(* operation that modifies is atomic, the facade's loops are not.  Items   *)
(* are numbered in the order they are pushed, so they can be told apart,   *)
(* and none is empty (the facade drops an item of length 0).               *)
(***************************************************************************)
EXTENDS SSDBQueue, SequencesExt

CONSTANTS
  Thread,      \* threads of the application
  Counts,      \* the argument `count' of qPop
  MaxItem      \* bound: items 1..MaxItem are pushed

ASSUME FacadeAssumption ==
  /\ Counts \subseteq Nat
  /\ MaxItem \in Nat
  /\ Item = 1 .. MaxItem

VARIABLES
  pushed,      \* history: the number of items pushed
  dropped,     \* history: the items that qClear popped and let go
  handed,      \* history: the items that qPop put into an array
  failed,      \* history: the Write of some pop has failed
  pc,          \* what each thread is doing
  todo,        \* iterations left in its loop
  value,       \* the local string `value'; NoItem while it is empty
  values       \* the array qPop is filling or has returned

local == <<pc, todo, value, values>>
history == <<pushed, dropped, handed, failed>>
fvars == <<vars, history, local>>

\* A loop's bound from the qsize read before it; NSUInteger MIN.
Iterations(count) == IF count < size THEN count ELSE size

\* Mutant: qPush at the wrong end.
qPush_front(t) ==
  /\ pc[t] = "idle" /\ pushed < MaxItem
  /\ qpush_front(pushed + 1)
  /\ pushed' = IF ret'.code = -1 THEN pushed ELSE pushed + 1
  /\ UNCHANGED <<dropped, handed, failed, local>>

qPush(t) ==
  /\ pc[t] = "idle" /\ pushed < MaxItem
  /\ qpush_back(pushed + 1)
  /\ pushed' = IF ret'.code = -1 THEN pushed ELSE pushed + 1
  /\ UNCHANGED <<dropped, handed, failed, local>>

\* qPop with offset 0: read the size, then pop that often.
qPop(t, count) ==
  /\ pc[t] = "idle"
  /\ pc' = [pc EXCEPT ![t] = "qPop"]
  /\ todo' = [todo EXCEPT ![t] = Iterations(count)]
  /\ value' = [value EXCEPT ![t] = NoItem]
  /\ values' = [values EXCEPT ![t] = <<>>]
  /\ UNCHANGED <<vars, history>>

\* qClear: read the size, pop that often, keep nothing.
qClear(t) ==
  /\ pc[t] = "idle"
  /\ pc' = [pc EXCEPT ![t] = "qClear"]
  /\ todo' = [todo EXCEPT ![t] = size]
  /\ UNCHANGED <<vars, history, value, values>>

\* Mutant: `value' is added before the pop has filled it.
Collect_late(t, v) ==
  /\ pc[t] = "qPop" /\ todo[t] > 0
  /\ todo' = [todo EXCEPT ![t] = @ - 1]
  /\ value' = [value EXCEPT ![t] = v]
  /\ values' = [values EXCEPT ![t] = IF value[t] = NoItem THEN @ ELSE Append(@, value[t])]
  /\ handed' = handed \cup ToSet(values'[t])
  /\ UNCHANGED <<pushed, dropped, pc>>

\* An iteration of qPop: whatever the pop answered, a `value' that is not
\* empty is added to the array.
Collect(t, v) ==
  /\ pc[t] = "qPop" /\ todo[t] > 0
  /\ todo' = [todo EXCEPT ![t] = @ - 1]
  /\ value' = [value EXCEPT ![t] = v]
  /\ values' = [values EXCEPT ![t] = IF v = NoItem THEN @ ELSE Append(@, v)]
  /\ handed' = handed \cup ToSet(values'[t])
  /\ UNCHANGED <<pushed, dropped, pc>>

\* qpop_front leaves `value' alone when it answers 0.
PopOne(t) ==
  /\ qpop_front
  /\ Collect(t, IF front = 0 THEN value[t] ELSE items[front])
  /\ UNCHANGED failed

ClearOne(t) ==
  /\ pc[t] = "qClear" /\ todo[t] > 0
  /\ qpop_front
  /\ todo' = [todo EXCEPT ![t] = @ - 1]
  /\ dropped' = dropped \cup ret'.item
  /\ UNCHANGED <<pushed, handed, failed, pc, value, values>>

LoopEnd(t) ==
  /\ pc[t] \in {"qPop", "qClear"} /\ todo[t] = 0
  /\ pc' = [pc EXCEPT ![t] = "idle"]
  /\ UNCHANGED <<vars, history, todo, value, values>>

\* The Write of a pop fails after the item was read into `value'; nobody
\* looks at the return code -1.
PopOneFails(t) ==
  /\ front # 0
  /\ Fail
  /\ Collect(t, items[front])
  /\ failed' = TRUE

ClearOneFails(t) ==
  /\ pc[t] = "qClear" /\ todo[t] > 0 /\ front # 0
  /\ Fail
  /\ todo' = [todo EXCEPT ![t] = @ - 1]
  /\ failed' = TRUE
  /\ UNCHANGED <<pushed, dropped, handed, pc, value, values>>

-----------------------------------------------------------------------------
FInit ==
  /\ Init
  /\ pushed = 0 /\ dropped = {} /\ handed = {} /\ failed = FALSE
  /\ pc = [t \in Thread |-> "idle"]
  /\ todo = [t \in Thread |-> 0]
  /\ value = [t \in Thread |-> NoItem]
  /\ values = [t \in Thread |-> <<>>]

FNext ==
  \E t \in Thread :
    \/ qPush(t) \/ qClear(t) \/ PopOne(t) \/ PopOneFails(t)
    \/ ClearOne(t) \/ ClearOneFails(t) \/ LoopEnd(t)
    \/ \E n \in Counts : qPop(t, n)

FSpec == FInit /\ [][FNext]_fvars

-----------------------------------------------------------------------------
\* Every variable has its type.
FTypeOK ==
  /\ TypeOK
  /\ pushed \in 0 .. MaxItem /\ dropped \subseteq Item /\ handed \subseteq Item
  /\ failed \in BOOLEAN
  /\ pc \in [Thread -> {"idle", "qPop", "qClear"}]
  /\ todo \in [Thread -> Nat]
  /\ value \in [Thread -> Item \cup {NoItem}]
  /\ values \in [Thread -> Seq(Item)]

\* No item is lost: whatever the threads do, each pushed item is still in
\* the queue, or in an array that qPop filled, or was cleared; and unless a
\* Write failed, it is in only one of these places.
Conserved ==
  /\ 1 .. pushed = ToSet(Contents) \cup handed \cup dropped
  /\ ~failed => /\ ToSet(Contents) \cap (handed \cup dropped) = {}
                /\ handed \cap dropped = {}

\* So the threads account for every item, with locals of the right types.
NothingLost == FTypeOK /\ Conserved

\* First in, first out across the threads: what was taken is not newer than
\* what is left, and every array is in the order of the pushes.
Fifo ==
  /\ \A i \in handed \cup dropped, j \in ToSet(Contents) : i <= j
  /\ \A t \in Thread : \A j, k \in DOMAIN values[t] : j < k => values[t][j] <= values[t][k]

\* "@return 0: empty queue, 1: item popped": every entry of an array is the
\* result of a pop of its own, so no item occurs twice.
PoppedOnce ==
  ~failed => \A t \in Thread : \A j, k \in DOMAIN values[t] :
               j # k => values[t][j] # values[t][k]
=============================================================================
