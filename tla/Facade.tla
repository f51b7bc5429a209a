------------------------------- MODULE Facade -------------------------------
(***************************************************************************)
(* The Objective-C interface to keys, hashes and sorted sets (SSDB.mm and  *)
(* the parts of SSDB+Extension.mm that QueueFacade does not have): values  *)
(* go in and out in four formats, whole hashes are read with an iterator   *)
(* over a snapshot, and hMSet and zClear are loops of single calls.        *)
(*                                                                         *)
(* A stored value is its format: "none" is no value, "empty" no byte,      *)
(* "text" and "json" are UTF-8, only "json" parses as JSON, "coding" is an *)
(* archive and no UTF-8.  A reader answers nil, a value, or raises.        *)
(* Argument checks of classes are left out: a call that fails one calls  *)
(* nothing.                                                                *)
(***************************************************************************)
EXTENDS Integers, Sequences, SequencesExt, FiniteSetsExt

CONSTANTS
  Callers,                   \* threads of the application
  TableFields,               \* a set of naturals: the keys of a hash, in order
  ZKeys,                     \* the keys of a sorted set
  Limits,                    \* arguments `limit', -1 for all
  MaxCalls                   \* bound: calls that write

VARIABLES
  topic,         \* what a behaviour is about: the key, the hash or the sorted set
  kv,            \* the value of a key
  hash,          \* the values of the fields of a hash
  zmembers,      \* the keys in the sorted set
  call,          \* what each thread is doing
  calls

fvars == <<topic, kv, hash, zmembers, call, calls>>

Stored == {"empty", "text", "json", "coding"}
nil == "nil"
raises == "raises"

-----------------------------------------------------------------------------
(* Formats: external, what the Foundation classes do with the bytes *)

\* [NSString stringWithUTF8String:] and initWithData:encoding:
AsString(v) == IF v = "coding" THEN nil ELSE v
\* [NSJSONSerialization JSONObjectWithData:]
AsJson(v) == IF v = "json" THEN v ELSE nil
\* [NSKeyedUnarchiver unarchiveObjectWithData:]
AsCoding(v) == IF v = "coding" THEN v ELSE raises
AsData(v) == v
Read(kind, v) ==
  CASE kind = "string" -> AsString(v) [] kind = "json" -> AsJson(v)
    [] kind = "coding" -> AsCoding(v) [] kind = "data" -> AsData(v)
Kinds == {"string", "json", "coding", "data"}

-----------------------------------------------------------------------------
(* Single keys *)

\* get: a pair of the BOOL and the data.
get_data(v) == [ok |-> TRUE, data |-> IF v = "none" THEN nil ELSE v]
get_string(v) ==
  LET g == get_data(v) IN [g EXCEPT !.data = IF @ # nil THEN AsString(@) ELSE nil]

\* The value accessors look at the length only; a string is never nil.
dataValueForKey(v) == IF v \in {"none", "empty"} THEN nil ELSE v
ValueForKey(kind, v) ==
  IF dataValueForKey(v) = nil THEN (IF kind = "string" THEN "empty" ELSE nil) ELSE Read(kind, v)

\* hGetData, hGetString, hGetJson, hGetCoding.
hGet(kind, v) ==
  IF v \in {"none", "empty"} THEN (IF kind = "string" THEN "empty" ELSE nil) ELSE Read(kind, v)

-----------------------------------------------------------------------------
(* Scans.  A row is a field with its value.                                *)

Ordered(S) == SetToSortSeq(S, <)
Limited(s, limit) == IF limit < 0 THEN s ELSE SubSeq(s, 1, Min({limit, Len(s)}))
hscan(h, limit) == Limited(Ordered({f \in TableFields : h[f] # "none"}), limit)
hrscan(h, limit) == Limited(Reverse(Ordered({f \in TableFields : h[f] # "none"})), limit)

\* The loops skip rows without a value; the first round finds none at all.
Shown(h, rows) == SelectSeq(rows, LAMBDA f : h[f] # "empty")

\* hGetAllData and its sisters: a dictionary, in which nil is no entry.
hGetAll(kind, h) ==
  [f \in {g \in ToSet(Shown(h, hscan(h, -1))) : Read(kind, h[g]) # nil} |-> Read(kind, h[f])]

\* The rows of hGetStringSortedKey and hGetStringSortedValue with `ascending':
\* a backward scan is turned round again.
Page(h, limit, ascending) ==
  IF ascending THEN Shown(h, hscan(h, limit)) ELSE Reverse(Shown(h, hrscan(h, limit)))

\* The same with `descending'.
PageDescending(h, limit, descending) ==
  IF descending THEN Shown(h, hrscan(h, limit)) ELSE Reverse(Shown(h, hscan(h, limit)))

\* An array cannot hold nil.
Values(h, rows) ==
  IF \E i \in DOMAIN rows : AsString(h[rows[i]]) = nil THEN <<raises>>
  ELSE [i \in DOMAIN rows |-> AsString(h[rows[i]])]

hGetFirstKey(h, ascending) ==
  LET rows == Shown(h, IF ascending THEN hscan(h, 1) ELSE hrscan(h, 1)) IN
    IF rows = <<>> THEN 0 ELSE rows[1]

-----------------------------------------------------------------------------
(* Writing.  The return codes of SSDBImpl are not looked at, and any write *)
(* may fail.                                                               *)

Idle == [op |-> "none", todo |-> {}, val |-> nil, others |-> {}]

\* The threads in a loop over the same things see that others changed x.
Noticed(c, t, op, x) ==
  [u \in Callers |-> IF u # t /\ c[u].op = op THEN [c[u] EXCEPT !.others = @ \cup {x}] ELSE c[u]]

\* set and del of a key; nil deletes it.
SetValue(t, v) ==
  /\ calls < MaxCalls /\ call[t] = Idle
  /\ kv' \in {kv, v}
  /\ calls' = calls + 1
  /\ UNCHANGED <<topic, hash, zmembers, call>>

\* hSet and hDel.
HashOne(t, f, v) ==
  /\ calls < MaxCalls /\ call[t] = Idle
  /\ hash' \in {hash, [hash EXCEPT ![f] = v]}
  /\ call' = Noticed(call, t, "hMSet", f)
  /\ calls' = calls + 1
  /\ UNCHANGED <<topic, kv, zmembers>>

\* hMSet: one hSet after the other, in the order of the dictionary.
hMSet(t, v) ==
  /\ calls < MaxCalls /\ call[t] = Idle
  /\ call' = [call EXCEPT ![t] = [Idle EXCEPT !.op = "hMSet", !.todo = TableFields, !.val = v]]
  /\ calls' = calls + 1
  /\ UNCHANGED <<topic, kv, hash, zmembers>>
hMSetOne(t, f) ==
  /\ call[t].op = "hMSet" /\ f \in call[t].todo
  /\ \/ /\ hash' = [hash EXCEPT ![f] = call[t].val]
        /\ call' = [Noticed(call, t, "hMSet", f) EXCEPT ![t].todo = @ \ {f}]
     \/ /\ hash' = hash
        /\ call' = [call EXCEPT ![t].todo = @ \ {f}, ![t].others = @ \cup {f}]
  /\ UNCHANGED <<topic, kv, zmembers, calls>>

\* zSet and zdel of one key.
ZOne(t, k, on) ==
  /\ calls < MaxCalls /\ call[t] = Idle
  /\ zmembers' \in {zmembers, IF on THEN zmembers \cup {k} ELSE zmembers \ {k}}
  /\ call' = IF on THEN Noticed(call, t, "zClear", k) ELSE call
  /\ calls' = calls + 1
  /\ UNCHANGED <<topic, kv, hash>>

\* zClear: zdel for every key of a snapshot; their scores decide the order.
zClear(t) ==
  /\ calls < MaxCalls /\ call[t] = Idle
  /\ call' = [call EXCEPT ![t] = [Idle EXCEPT !.op = "zClear", !.todo = zmembers]]
  /\ calls' = calls + 1
  /\ UNCHANGED <<topic, kv, hash, zmembers>>

\* Mutant: the loop ends when a key has gone already.
zClearOne_stop(t, k) ==
  /\ call[t].op = "zClear" /\ k \in call[t].todo
  /\ \/ /\ zmembers' = zmembers \ {k}
        /\ call' = [call EXCEPT ![t].todo = IF k \in zmembers THEN @ \ {k} ELSE {}]
     \/ /\ zmembers' = zmembers
        /\ call' = [call EXCEPT ![t].todo = @ \ {k}, ![t].others = @ \cup {k}]
  /\ UNCHANGED <<topic, kv, hash, calls>>

zClearOne(t, k) ==
  /\ call[t].op = "zClear" /\ k \in call[t].todo
  /\ \/ /\ zmembers' = zmembers \ {k}
        /\ call' = [call EXCEPT ![t].todo = @ \ {k}]
     \/ /\ zmembers' = zmembers
        /\ call' = [call EXCEPT ![t].todo = @ \ {k}, ![t].others = @ \cup {k}]
  /\ UNCHANGED <<topic, kv, hash, calls>>

BulkEnd(t) ==
  /\ call[t].op # "none" /\ call[t].todo = {}
  /\ call' = [call EXCEPT ![t] = Idle]
  /\ UNCHANGED <<topic, kv, hash, zmembers, calls>>

FacadeInit ==
  /\ topic \in {"key", "hash", "zset"}
  /\ kv = "none"
  /\ hash \in IF topic = "hash" THEN [TableFields -> Stored \cup {"none"}] ELSE {[f \in TableFields |-> "none"]}
  /\ zmembers \in IF topic = "zset" THEN SUBSET ZKeys ELSE {{}}
  /\ call = [t \in Callers |-> Idle]
  /\ calls = 0

FacadeNext ==
  \E t \in Callers :
    \/ topic = "key" /\ \E v \in Stored \cup {"none"} : SetValue(t, v)
    \/ topic = "hash" /\ \E f \in TableFields :
         (\E v \in Stored \cup {"none"} : HashOne(t, f, v)) \/ hMSetOne(t, f)
    \/ topic = "hash" /\ hMSet(t, "text")
    \/ topic = "zset" /\ zClear(t)
    \/ topic = "zset" /\ \E k \in ZKeys : zClearOne(t, k) \/ \E on \in BOOLEAN : ZOne(t, k, on)
    \/ BulkEnd(t)

-----------------------------------------------------------------------------
\* The ways to read the same thing agree: get and the value accessors differ
\* only on a value without bytes, and a whole hash read in some format has the
\* fields, and for them the values, that reading them one by one gives.
ReadersAgree ==
  /\ get_data(kv).data \in {dataValueForKey(kv), "empty"}
  /\ kv # "none" /\ get_string(kv).data # nil => ValueForKey("string", kv) = get_string(kv).data
  /\ \A kind \in Kinds :
       LET all == hGetAll(kind, hash) IN
         \A f \in TableFields :
           IF hGet(kind, hash[f]) \in {nil, "empty"} THEN f \notin DOMAIN all
           ELSE f \in DOMAIN all /\ all[f] = hGet(kind, hash[f])

\* A page is always in the order of the keys (or of their reverse), keys and
\* values match, and as long as no value is empty a page has the first or the
\* last `limit' keys of the hash and the first key begins it.
PagesAgree ==
  LET all == hscan(hash, -1)
      full == \A f \in TableFields : hash[f] # "empty"
  IN \A n \in Limits :
       LET up == Page(hash, n, TRUE)
           down == Page(hash, n, FALSE)
       IN /\ \A p \in {up, down} : \A i \in 1 .. Len(p) - 1 : p[i] < p[i + 1]
          /\ PageDescending(hash, n, TRUE) = Reverse(down) /\ PageDescending(hash, n, FALSE) = Reverse(up)
          /\ Values(hash, up) # <<raises>> => Len(Values(hash, up)) = Len(up)
          /\ full /\ n >= 0 => IsPrefix(up, all) /\ IsSuffix(down, all)
                               /\ Len(up) = Min({n, Len(all)}) /\ Len(down) = Len(up)
          /\ full /\ n # 0 /\ all # <<>> =>
               hGetFirstKey(hash, TRUE) = up[1] /\ hGetFirstKey(hash, FALSE) = down[Len(down)]

\* When a loop of single calls has ended, what it was to change has changed,
\* unless a call failed or another thread has written there meanwhile.
BulkIsDone ==
  \A t \in Callers : call[t].todo = {} =>
  /\ call[t].op = "zClear" => zmembers \subseteq call[t].others
  /\ call[t].op = "hMSet" => \A f \in TableFields \ call[t].others : hash[f] = call[t].val

\* The facade's readers agree with each other and its loops do what they say.
FacadeIsRight == ReadersAgree /\ PagesAgree /\ BulkIsDone
=============================================================================
