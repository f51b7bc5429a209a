------------------------------ MODULE KVStore -------------------------------
(***************************************************************************)
(* What the key-value operations of SSDBImpl promise to threads that call  *)
(* them at the same time: every call takes effect at one moment between    *)
(* its beginning and its end, and its answer fits what was stored then.    *)
(***************************************************************************)
EXTENDS KVData

VARIABLES
  kv,          \* the stored value of each key
  req,         \* the call each client is in
  ans          \* its answer, once it is decided

vars == <<kv, req, ans>>

\* n is x + by in int64_t.
IsSum(n, x, by) ==
  n \in Int64 /\ n - (str_to_int64(x) + by) \in {-2 * (IntMax + 1), 0, 2 * (IntMax + 1)}

-----------------------------------------------------------------------------
(* The outcomes of request r: store s becomes t and the answer is a.       *)

Write(r, s, t, a) ==
  /\ r.op \in {"set", "del", "multi_set", "multi_del"}
  /\ r.op \in {"set", "multi_set"} => \A i \in DOMAIN r.pairs : r.pairs[i].key \in Keys
  /\ t = Apply(s, r.pairs) /\ a.ret = Len(r.pairs)

\* No pair of a multi_set is stored if one of its keys is bad; the empty key
\* is refused by some of the operations.
Refused(r, s, t, a) ==
  /\ \/ r.op = "multi_set" /\ \E i \in DOMAIN r.pairs : r.pairs[i].key \notin Keys
     \/ r.op \in {"set", "setnx", "getset"} /\ r.pairs[1].key = Empty
  /\ t = s /\ a.ret = 0

\* 0 without an effect also when the read failed.
SetNX(r, s, t, a) ==
  /\ r.op = "setnx"
  /\ \/ s[r.pairs[1].key] = NoVal /\ t = Apply(s, r.pairs) /\ a.ret = 1
     \/ t = s /\ a.ret = 0

\* The old value is the one that was replaced; -1 with an effect when the
\* read failed.
GetSet(r, s, t, a) ==
  /\ r.op = "getset" /\ r.pairs[1].key \in Keys
  /\ t = Apply(s, r.pairs)
  /\ \/ s[r.pairs[1].key] = NoVal /\ a.ret = 0
     \/ s[r.pairs[1].key] # NoVal /\ a.ret = 1 /\ a.val = s[r.pairs[1].key]
     \/ a.ret = -1

Incr(r, s, t, a) ==
  /\ r.op = "incr"
  /\ LET k == r.pairs[1].key
         by == r.pairs[1].val
     IN \/ s[k] = Text /\ t = s /\ a.ret = 0
        \/ /\ \/ s[k] = NoVal /\ a.val = by
              \/ s[k] \in Int /\ IsSum(a.val, s[k], by)
           /\ t = [s EXCEPT ![k] = a.val] /\ a.ret = 1

Get(r, s, t, a) ==
  /\ r.op = "get" /\ t = s
  /\ \/ s[r.pairs[1].key] = NoVal /\ a.ret = 0
     \/ s[r.pairs[1].key] # NoVal /\ a.ret = 1 /\ a.val = s[r.pairs[1].key]

Failed(r, s, t, a) == t = s /\ a.ret = -1

Outcome(r, s, t, a) ==
  \/ Write(r, s, t, a) \/ Refused(r, s, t, a) \/ Failed(r, s, t, a)
  \/ SetNX(r, s, t, a) \/ GetSet(r, s, t, a) \/ Incr(r, s, t, a) \/ Get(r, s, t, a)

-----------------------------------------------------------------------------
Init ==
  /\ kv = [k \in AnyKey |-> NoVal]
  /\ req = [c \in Clients |-> NoReq]
  /\ ans = [c \in Clients |-> NoAns]

Call(c) ==
  /\ req[c] = NoReq
  /\ \E r \in Requests : req' = [req EXCEPT ![c] = r]
  /\ UNCHANGED <<kv, ans>>

Do(c) ==
  /\ req[c] # NoReq /\ ans[c] = NoAns
  /\ \E a \in Answer : Outcome(req[c], kv, kv', a) /\ ans' = [ans EXCEPT ![c] = a]
  /\ UNCHANGED req

Return(c) ==
  /\ ans[c] # NoAns
  /\ req' = [req EXCEPT ![c] = NoReq]
  /\ ans' = [ans EXCEPT ![c] = NoAns]
  /\ UNCHANGED kv

Next == \E c \in Clients : Call(c) \/ Do(c) \/ Return(c)

Spec == Init /\ [][Next]_vars
=============================================================================
