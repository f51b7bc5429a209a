------------------------------- MODULE SSDBKV -------------------------------
(***************************************************************************)
(* The key-value operations, ssdb/ssdb/t_kv.cpp, as threads run them: a    *)
(* Transaction locks the mutex of the binlog and clears the one batch that *)
(* all threads share, reads go to the database directly, Put and Delete    *)
(* fill the batch, commit writes it, and the end of the Transaction, which *)
(* does not clear the batch, unlocks.  Any read and any write may fail.    *)
(* The log records of a batch are the subject of BinlogQueue.              *)
(***************************************************************************)
EXTENDS KVData

CONSTANT NoClient

ASSUME ClientAssumption == NoClient \notin Clients

VARIABLES
  kv,          \* the rows KV
  req,         \* the operation each client is in, with its arguments
  ans,         \* what it will return; `val' is what a 1 hands out
  pc,          \* "out", "start", "read", "put", "commit", "done"
  found,       \* its local `found' or `ret': what get answered
  old,         \* its local `tmp', `val' or `old': the value that get read
  mutex,       \* who holds binlogs->mutex
  batch        \* binlogs->batch

locals == <<pc, found, old>>
vars   == <<kv, req, ans, locals, mutex, batch>>

Op(c)  == req[c].op
Key(c) == req[c].pairs[1].key
Val(c) == req[c].pairs[1].val

ReadFirst == {"setnx", "getset", "incr"}

Goto(c, label) == pc' = [pc EXCEPT ![c] = label]

\* `return ret' in the body: what is left is the end of the Transaction.
Answers(c, ret, val) ==
  /\ ans' = [ans EXCEPT ![c] = [ret |-> ret, val |-> val]]
  /\ Goto(c, "done")

Call(c) ==
  /\ pc[c] = "out"
  /\ \E r \in Requests : req' = [req EXCEPT ![c] = r]
  /\ Goto(c, "start")
  /\ UNCHANGED <<kv, ans, found, old, mutex, batch>>

\* The checks in front of the Transaction.
NoEmpty == {"set", "setnx", "getset"}
NoTooLong == NoEmpty \cup {"del", "incr"}
Checked(c) ==
  ~(Op(c) \in NoEmpty /\ Key(c) = Empty) /\ ~(Op(c) \in NoTooLong /\ Key(c) = TooLong)

Refuse(c) ==
  /\ pc[c] = "start" /\ ~Checked(c)
  /\ Answers(c, IF Key(c) = Empty THEN 0 ELSE -1, NoVal)
  /\ UNCHANGED <<kv, req, found, old, mutex, batch>>

\* Mutants: what is left of an earlier batch stays,
begin_keep(c) ==
  /\ pc[c] = "start" /\ Op(c) # "get" /\ Checked(c)
  /\ mutex = NoClient /\ mutex' = c
  /\ Goto(c, IF Op(c) \in ReadFirst THEN "read" ELSE "put")
  /\ UNCHANGED <<kv, req, ans, found, old, batch>>

\* and no Transaction around incr.
begin_not_incr(c) ==
  /\ pc[c] = "start" /\ Op(c) # "get" /\ Checked(c)
  /\ \/ Op(c) = "incr" /\ UNCHANGED <<mutex, batch>>
     \/ Op(c) # "incr" /\ mutex = NoClient /\ mutex' = c /\ batch' = <<>>
  /\ Goto(c, IF Op(c) \in ReadFirst THEN "read" ELSE "put")
  /\ UNCHANGED <<kv, req, ans, found, old>>

\* Transaction trans(binlogs): lock the mutex and clear the batch.
begin(c) ==
  /\ pc[c] = "start" /\ Op(c) # "get" /\ Checked(c)
  /\ mutex = NoClient /\ mutex' = c
  /\ batch' = <<>>
  /\ Goto(c, IF Op(c) \in ReadFirst THEN "read" ELSE "put")
  /\ UNCHANGED <<kv, req, ans, found, old>>

\* The return code of get, which an I/O error may turn into -1.
Found(k) == IF kv[k] = NoVal THEN 0 ELSE 1

\* get as an operation of its own: no Transaction.
get(c) ==
  /\ pc[c] = "start" /\ Op(c) = "get"
  /\ \E f \in {Found(Key(c)), -1} : Answers(c, f, IF f = 1 THEN kv[Key(c)] ELSE NoVal)
  /\ UNCHANGED <<kv, req, found, old, mutex, batch>>

\* setnx goes on after "not found" only, incr unless the read failed or the
\* value is no number, getset always.
GoesOn(c, f) ==
  \/ Op(c) = "setnx" /\ f = 0
  \/ Op(c) = "incr" /\ f # -1 /\ kv[Key(c)] # Text
  \/ Op(c) = "getset"

\* Mutant: a failed read starts the operation again.
read_retry(c) ==
  /\ pc[c] = "read"
  /\ \/ /\ GoesOn(c, Found(Key(c)))
        /\ found' = [found EXCEPT ![c] = Found(Key(c))]
        /\ old' = [old EXCEPT ![c] = kv[Key(c)]]
        /\ Goto(c, "put") /\ UNCHANGED mutex
     \/ Goto(c, "start") /\ mutex' = NoClient /\ UNCHANGED <<found, old>>
  /\ UNCHANGED <<kv, req, ans, batch>>

\* get inside a Transaction.
read(c) ==
  /\ pc[c] = "read"
  /\ \E f \in {Found(Key(c)), -1} :
       \/ /\ GoesOn(c, f)
          /\ found' = [found EXCEPT ![c] = f]
          /\ old' = [old EXCEPT ![c] = IF f = 1 THEN kv[Key(c)] ELSE NoVal]
          /\ Goto(c, "put")
          /\ UNCHANGED ans
       \/ /\ ~GoesOn(c, f)
          /\ Answers(c, IF Op(c) = "incr" /\ f = -1 THEN -1 ELSE 0, NoVal)
          /\ UNCHANGED <<found, old>>
  /\ UNCHANGED <<kv, req, mutex, batch>>

NewVal(c) ==
  IF found[c] = 0 THEN Val(c) ELSE AddInt64(str_to_int64(old[c]), Val(c))

\* The calls of Put and Delete an operation makes.
Pairs(c) ==
  IF Op(c) = "incr" THEN <<[key |-> Key(c), val |-> NewVal(c)]>> ELSE req[c].pairs

BadPairs(c) ==
  IF Op(c) = "multi_set" THEN {i \in DOMAIN req[c].pairs : req[c].pairs[i].key \notin Keys}
  ELSE {}

put(c) ==
  /\ pc[c] = "put" /\ BadPairs(c) = {}
  /\ batch' = batch \o Pairs(c)
  /\ Goto(c, "commit")
  /\ UNCHANGED <<kv, req, ans, found, old, mutex>>

\* multi_set returns at the first bad key; the pairs in front of it are in
\* the batch.
put_bad(c) ==
  /\ pc[c] = "put"
  /\ \E i \in BadPairs(c) :
       /\ \A j \in BadPairs(c) : i <= j
       /\ batch' = batch \o SubSeq(req[c].pairs, 1, i - 1)
  /\ Answers(c, 0, NoVal)
  /\ UNCHANGED <<kv, req, found, old, mutex>>

\* The operation's return code after a commit.
Result(c) ==
  CASE Op(c) = "getset" -> found[c]
    [] Op(c) \in {"multi_set", "multi_del"} -> Len(req[c].pairs)
    [] OTHER -> 1

HandsOut(c) ==
  CASE Op(c) = "getset" -> old[c]
    [] Op(c) = "incr" -> NewVal(c)
    [] OTHER -> NoVal

commit(c) ==
  /\ pc[c] = "commit"
  /\ kv' = Apply(kv, batch)
  /\ Answers(c, Result(c), HandsOut(c))
  /\ UNCHANGED <<req, found, old, mutex, batch>>

commit_fail(c) ==
  /\ pc[c] = "commit"
  /\ Answers(c, -1, NoVal)
  /\ UNCHANGED <<kv, req, found, old, mutex, batch>>

\* ~Transaction, if there is one, and the return to the caller.
return(c) ==
  /\ pc[c] = "done"
  /\ mutex' = IF mutex = c THEN NoClient ELSE mutex
  /\ req' = [req EXCEPT ![c] = NoReq]
  /\ ans' = [ans EXCEPT ![c] = NoAns]
  /\ found' = [found EXCEPT ![c] = 0] /\ old' = [old EXCEPT ![c] = NoVal]
  /\ Goto(c, "out")
  /\ UNCHANGED <<kv, batch>>

-----------------------------------------------------------------------------
Init ==
  /\ kv = [k \in AnyKey |-> NoVal]
  /\ req = [c \in Clients |-> NoReq]
  /\ ans = [c \in Clients |-> NoAns]
  /\ pc = [c \in Clients |-> "out"]
  /\ found = [c \in Clients |-> 0]
  /\ old = [c \in Clients |-> NoVal]
  /\ mutex = NoClient
  /\ batch = <<>>

Body(c) ==
  \/ Refuse(c) \/ get(c) \/ read(c) \/ put(c) \/ put_bad(c)
  \/ commit(c) \/ commit_fail(c) \/ return(c)

Next == \E c \in Clients : Call(c) \/ begin(c) \/ Body(c)

Spec == Init /\ [][Next]_vars

\* A thread inside an operation is scheduled, and gets the mutex if it is
\* free again and again.
FairSpec == Spec /\ \A c \in Clients : WF_vars(Body(c)) /\ SF_vars(begin(c))

-----------------------------------------------------------------------------
\* Every variable has its type: incr leaves a number of type int64_t.
TypeOK ==
  /\ kv \in [AnyKey -> Values \cup {NoVal}]
  /\ req \in [Clients -> Requests \cup {NoReq}]
  /\ ans \in [Clients -> Answer \cup {NoAns}]
  /\ pc \in [Clients -> {"out", "start", "read", "put", "commit", "done"}]
  /\ found \in [Clients -> {-1, 0, 1}]
  /\ old \in [Clients -> Values \cup {NoVal}]
  /\ mutex \in Clients \cup {NoClient}
  /\ batch \in Seq([key : AnyKey, val : Values \cup {NoVal}])

\* What setnx, getset and incr have read is still what is stored when they
\* commit: no update of another thread is lost.
ReadIsCurrent ==
  \A c \in Clients :
    pc[c] \in {"put", "commit"} /\ Op(c) \in ReadFirst /\ found[c] # -1
      => kv[Key(c)] = old[c]

KV == INSTANCE KVStore

\* The operations are atomic: every call takes effect at one moment, a failed
\* or refused one leaves nothing behind, not in a later batch either.
KVSpec == KV!Spec

\* Every call returns: no early return leaves the mutex locked.
CallReturns == \A c \in Clients : pc[c] # "out" ~> pc[c] = "out"
=============================================================================
