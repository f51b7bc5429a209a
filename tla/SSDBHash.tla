------------------------------ MODULE SSDBHash ------------------------------
(***************************************************************************)
(* Hashes: ssdb/ssdb/t_hash.cpp.  A hash is a row HASH per field and a row *)
(* HSIZE with the number of fields.  hset, hdel and hincr are Transactions *)
(* and atomic; hclear is a loop of scans and hdel calls that other threads *)
(* interleave with.  A Get may fail with an I/O error, which hset and hdel *)
(* take for "found".  Fields are numbers in their byte order; values are   *)
(* numbers, as decimal strings of any length, or Text.                     *)
(***************************************************************************)
EXTENDS Int64, FiniteSets

CONSTANTS
  Field,
  Numbers,     \* decimal strings that callers store
  Text,        \* a value that is no number
  NoVal,       \* a field without a row
  Increments,
  ScanLimit,   \* fields per scan of hclear (1000)
  Clearers,    \* threads that call hclear
  MaxSets,     \* bound: how many fields are added
  MaxFaults    \* bound: how many reads and writes may fail

ASSUME FieldAssumption == Field \subseteq Nat /\ IsFiniteSet(Field)
ASSUME ValueAssumption ==
  /\ IntMax \in Nat
  /\ Numbers \subseteq Int /\ Increments \subseteq -(IntMax + 1) .. IntMax
  /\ Text \notin Int /\ NoVal \notin Int \cup {Text}
ASSUME LimitAssumption == ScanLimit \in Nat \ {0} /\ MaxFaults \in Nat /\ MaxSets \in Nat

VARIABLES
  hashRow,     \* the rows HASH: the value of each field
  hsizeRow,    \* the row HSIZE; 0 if there is none
  faults,      \* history: failed reads and writes
  pc,          \* hclear of each thread: "out", "scan" or "del"
  snap,        \* the fields its iterator has yet to return
  num,         \* its local `num'
  answer,      \* how the last hclear of the thread ended: "none", "ok", "error"
  empty,       \* history: the hash was empty at some moment since its call
  sets         \* history: how often hset and hincr were called

rows  == <<hashRow, hsizeRow>>
clear == <<pc, snap, num, answer>>
vars  == <<rows, faults, clear, empty, sets>>

Fields == {f \in Field : hashRow[f] # NoVal}

hsize == IF hsizeRow < 0 THEN 0 ELSE hsizeRow

\* incr_hsize; a failed read is -1 and is added to like any other number.
incr_hsize(incr, readFails) ==
  hsizeRow' = (IF readFails THEN -1 ELSE hsize) + incr

Fault == faults' = faults + 1 /\ faults' <= MaxFaults

Note == empty' = [t \in Clearers |-> empty[t] \/ \A f \in Field : hashRow'[f] = NoVal]

\* Mutant: a value that did not change is stored as a new field.
hset_one_same(f, v, getFails, sizeFails) ==
  /\ hashRow' = [hashRow EXCEPT ![f] = v]
  /\ IF ~getFails /\ (hashRow[f] = NoVal \/ hashRow[f] = v)
       THEN incr_hsize(1, sizeFails)
       ELSE UNCHANGED hsizeRow

\* hset_one, and incr_hsize for a new field; a failed read means not new.
hset_one(f, v, getFails, sizeFails) ==
  /\ hashRow' = [hashRow EXCEPT ![f] = v]
  /\ IF ~getFails /\ hashRow[f] = NoVal
       THEN incr_hsize(1, sizeFails)
       ELSE UNCHANGED hsizeRow

\* hdel_one, and incr_hsize; a failed read means found.
hdel_one(f, getFails, sizeFails) ==
  IF getFails \/ hashRow[f] # NoVal
    THEN hashRow' = [hashRow EXCEPT ![f] = NoVal] /\ incr_hsize(-1, sizeFails)
    ELSE UNCHANGED rows

Called == sets < MaxSets /\ sets' = sets + 1

hset(f, v) ==
  /\ Called
  /\ \/ hset_one(f, v, FALSE, FALSE) /\ UNCHANGED faults
     \/ Fault /\ hset_one(f, v, TRUE, FALSE)
     \/ Fault /\ hset_one(f, v, FALSE, TRUE)
  /\ Note
  /\ UNCHANGED clear

\* A value that is no number is refused (0); a number beyond int64_t is not.
hincr(f, by) ==
  LET new == IF hashRow[f] = NoVal THEN by ELSE AddInt64(str_to_int64(hashRow[f]), by)
  IN /\ Called
     /\ hashRow[f] # Text
     /\ \/ hset_one(f, new, FALSE, FALSE) /\ UNCHANGED faults
        \/ Fault /\ hset_one(f, new, TRUE, FALSE)
        \/ Fault /\ hset_one(f, new, FALSE, TRUE)
     /\ Note
     /\ UNCHANGED clear

\* hdel of a caller or of hclear.
hdel_txn(f) ==
  /\ \/ hdel_one(f, FALSE, FALSE) /\ UNCHANGED faults
     \/ Fault /\ hdel_one(f, TRUE, FALSE)
     \/ Fault /\ hdel_one(f, FALSE, TRUE)
  /\ Note
  /\ UNCHANGED sets

hdel(f) == hdel_txn(f) /\ UNCHANGED clear

-----------------------------------------------------------------------------
(* hclear *)

ClearCall(t) ==
  /\ pc[t] = "out"
  /\ pc' = [pc EXCEPT ![t] = "scan"]
  /\ answer' = [answer EXCEPT ![t] = "none"]
  /\ empty' = [empty EXCEPT ![t] = Fields = {}]
  /\ UNCHANGED <<rows, faults, snap, num, sets>>

\* hscan from the first field: the iterator is a snapshot.
ClearScan(t) ==
  /\ pc[t] = "scan"
  /\ pc' = [pc EXCEPT ![t] = "del"]
  /\ snap' = [snap EXCEPT ![t] =
                {f \in Fields : Cardinality({g \in Fields : g < f}) < ScanLimit}]
  /\ num' = [num EXCEPT ![t] = 0]
  /\ UNCHANGED <<rows, faults, answer, empty, sets>>

First(S) == CHOOSE f \in S : \A g \in S : f <= g

\* One hdel of the inner loop, counted even when the field is gone already.
ClearDel(t) ==
  /\ pc[t] = "del" /\ snap[t] # {}
  /\ hdel_txn(First(snap[t]))
  /\ snap' = [snap EXCEPT ![t] = @ \ {First(@)}]
  /\ num' = [num EXCEPT ![t] = @ + 1]
  /\ UNCHANGED <<pc, answer>>

\* hdel answers -1 and hclear returns 0.
ClearFail(t) ==
  /\ pc[t] = "del" /\ snap[t] # {}
  /\ Fault
  /\ pc' = [pc EXCEPT ![t] = "out"]
  /\ snap' = [snap EXCEPT ![t] = {}]
  /\ num' = [num EXCEPT ![t] = 0]
  /\ answer' = [answer EXCEPT ![t] = "error"]
  /\ UNCHANGED <<rows, empty, sets>>

\* Mutants: one scan only,
ClearNext_once(t) ==
  /\ pc[t] = "del" /\ snap[t] = {}
  /\ pc' = [pc EXCEPT ![t] = "out"]
  /\ answer' = [answer EXCEPT ![t] = "ok"]
  /\ num' = [num EXCEPT ![t] = 0]
  /\ UNCHANGED <<rows, faults, snap, empty, sets>>

\* and no end of the loop.
ClearNext_forever(t) ==
  /\ pc[t] = "del" /\ snap[t] = {}
  /\ pc' = [pc EXCEPT ![t] = "scan"]
  /\ num' = [num EXCEPT ![t] = 0]
  /\ UNCHANGED <<rows, faults, snap, answer, empty, sets>>

\* The end of a scan: another one, unless this one found nothing.
ClearNext(t) ==
  /\ pc[t] = "del" /\ snap[t] = {}
  /\ pc' = [pc EXCEPT ![t] = IF num[t] = 0 THEN "out" ELSE "scan"]
  /\ answer' = [answer EXCEPT ![t] = IF num[t] = 0 THEN "ok" ELSE @]
  /\ num' = [num EXCEPT ![t] = 0]
  /\ UNCHANGED <<rows, faults, snap, empty, sets>>

-----------------------------------------------------------------------------
Init ==
  /\ hashRow = [f \in Field |-> NoVal] /\ hsizeRow = 0
  /\ faults = 0 /\ sets = 0
  /\ pc = [t \in Clearers |-> "out"]
  /\ snap = [t \in Clearers |-> {}]
  /\ num = [t \in Clearers |-> 0]
  /\ answer = [t \in Clearers |-> "none"]
  /\ empty = [t \in Clearers |-> TRUE]

hclear(t) == ClearScan(t) \/ ClearDel(t) \/ ClearFail(t) \/ ClearNext(t)

Next ==
  \/ \E f \in Field :
       \/ \E v \in Numbers \cup {Text} : hset(f, v)
       \/ \E by \in Increments : hincr(f, by)
       \/ hdel(f)
  \/ \E t \in Clearers : ClearCall(t) \/ hclear(t)

Spec == Init /\ [][Next]_vars

\* The threads inside hclear are scheduled.
FairSpec == Spec /\ \A t \in Clearers : WF_vars(hclear(t))

-----------------------------------------------------------------------------
\* Every variable has its type; hincr leaves a number of type int64_t.
TypeOK ==
  /\ hashRow \in [Field -> Numbers \cup Int64 \cup {Text, NoVal}]
  /\ hsizeRow \in Int
  /\ faults \in 0 .. MaxFaults /\ sets \in 0 .. MaxSets
  /\ pc \in [Clearers -> {"out", "scan", "del"}]
  /\ snap \in [Clearers -> SUBSET Field]
  /\ num \in [Clearers -> 0 .. ScanLimit]
  /\ answer \in [Clearers -> {"none", "ok", "error"}]
  /\ empty \in [Clearers -> BOOLEAN]

\* The stored size is the number of fields, with any number of threads that
\* set, delete and clear, as long as nothing failed: an hdel of hclear that
\* finds its field gone must not count it twice.
SizeIsCount == faults = 0 => hsizeRow = Cardinality(Fields)

\* An hclear that ends without an error has seen the hash empty: between its
\* call and its return there was a moment without a field, whatever the other
\* threads were adding.
ClearEmpties == \A t \in Clearers : answer[t] = "ok" => empty[t]

\* hclear ends when the other threads add only finitely many fields.
ClearEnds == \A t \in Clearers : pc[t] # "out" ~> pc[t] = "out"
=============================================================================
