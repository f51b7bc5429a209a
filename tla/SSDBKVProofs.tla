---------------------------- MODULE SSDBKVProofs ----------------------------
(***************************************************************************)
(* The key-value operations are atomic for any number of threads, any keys *)
(* and any requests: SSDBKV implements KVStore.  The argument: a thread    *)
(* between the begin and the end of a Transaction holds the mutex, so      *)
(* what it has read stays what is stored and the batch it commits holds    *)
(* its own writes and nothing else.                                        *)
(*                                                                         *)
(* In the second part, which is independent of the first, the threads read *)
(* from tables on disk and share the cache of those that are open: its     *)
(* counts are right, whatever the threads and the charges.                 *)
(***************************************************************************)
EXTENDS SSDBKV, LRUCache, FiniteSetTheorems, SequenceTheorems, WellFoundedInduction, TLAPS

Pair == [key : AnyKey, val : Values \cup {NoVal}]

\* A non-empty set of positions has a last one.
LEMMA LastExists ==
  ASSUME NEW n \in Nat, NEW W \in SUBSET (1 .. n), W # {}
  PROVE  \E i \in W : \A j \in W : j <= i
  <1>1. \A i \in W : i \in Nat /\ n - i \in Nat
    OBVIOUS
  <1> DEFINE R == OpToRel(<, Nat)
  <1>2. \A x, y \in Nat : x < y => <<x, y>> \in R
    BY DEF OpToRel
  <1>3. IsWellFoundedOn(R, Nat)
    BY NatLessThanWellFounded
  <1> HIDE DEF R
  <1> DEFINE T == {n - i : i \in W}
  <1>4. T \subseteq Nat
    BY <1>1
  <1>5. T # {}
    OBVIOUS
  <1>6. \E x \in T : \A y \in T : ~(<<y, x>> \in R)
    <2> HIDE DEF T
    <2> QED
      BY <1>3, <1>4, <1>5, WFMin, Zenon
  <1>7. PICK i \in W : \A j \in W : ~(<<n - j, n - i>> \in R)
    BY <1>6, Zenon
  <1>8. ASSUME NEW j \in W PROVE j <= i
    <2>1. ~(n - j < n - i)
      BY <1>1, <1>2, <1>7, Zenon
    <2> QED
      BY <1>1, <2>1
  <1> QED
    BY <1>8

\* A batch of legal pairs leaves a legal store.
LEMMA ApplyType ==
  ASSUME NEW s \in [AnyKey -> Values \cup {NoVal}], NEW b \in Seq(Pair)
  PROVE  Apply(s, b) \in [AnyKey -> Values \cup {NoVal}]
  <1> SUFFICES ASSUME NEW k \in AnyKey
               PROVE  Apply(s, b)[k] \in Values \cup {NoVal}
    BY DEF Apply
  <1> DEFINE writes == {i \in DOMAIN b : b[i].key = k}
             last == CHOOSE i \in writes : \A j \in writes : j <= i
  <1>1. CASE writes = {}
    BY <1>1 DEF Apply
  <1>2. CASE writes # {}
    <2>1. DOMAIN b = 1 .. Len(b) /\ Len(b) \in Nat
      OBVIOUS
    <2>2. \E i \in writes : \A j \in writes : j <= i
      <3> DEFINE n == Len(b)
      <3>1. n \in Nat /\ writes \in SUBSET (1 .. n)
        BY <2>1
      <3> HIDE DEF n, writes
      <3> QED
        BY <1>2, <3>1, LastExists
    <2>3. last \in writes
      BY <2>2
    <2>4. b[last] \in Pair
      BY <2>3
    <2> QED
      BY <1>2, <2>4 DEF Apply, Pair
  <1> QED
    BY <1>1, <1>2

\* One pair changes one key.
LEMMA ApplyOne ==
  ASSUME NEW s \in [AnyKey -> Values \cup {NoVal}], NEW k \in AnyKey, NEW v
  PROVE  Apply(s, <<[key |-> k, val |-> v]>>) = [s EXCEPT ![k] = v]
  <1> DEFINE b == <<[key |-> k, val |-> v]>>
             W(x) == {i \in DOMAIN b : b[i].key = x}
  <1>1. DOMAIN b = {1} /\ b[1].key = k /\ b[1].val = v
    OBVIOUS
  <1>2. W(k) = {1}
    BY <1>1
  <1>3. (CHOOSE i \in W(k) : \A j \in W(k) : j <= i) = 1
    BY <1>2
  <1>4. \A x \in AnyKey : x # k => W(x) = {}
    BY <1>1
  <1>5. Apply(s, b) = [x \in AnyKey |->
          IF W(x) = {} THEN s[x] ELSE b[CHOOSE i \in W(x) : \A j \in W(x) : j <= i].val]
    BY DEF Apply
  <1> HIDE DEF W, b
  <1>6. \A x \in AnyKey : Apply(s, b)[x] = IF x = k THEN v ELSE s[x]
    BY <1>1, <1>2, <1>3, <1>4, <1>5
  <1>7. Apply(s, b) = [s EXCEPT ![k] = v]
    BY <1>5, <1>6
  <1> QED
    BY <1>7 DEF b

\* int64_t addition stays in its range and is right up to the width.
LEMMA SumInRange ==
  ASSUME NEW x \in Int, NEW y \in Int64
  PROVE  /\ AddInt64(str_to_int64(x), y) \in Int64
         /\ KV!IsSum(AddInt64(str_to_int64(x), y), x, y)
  BY ValueAssumption DEF AddInt64, str_to_int64, Int64, KV!IsSum, KV!str_to_int64, KV!Int64

-----------------------------------------------------------------------------
InTxn(c) == pc[c] \in {"read", "put", "commit"}

\* Who is between the begin and the end of a Transaction holds the mutex.
Exclusive == \A c \in Clients : InTxn(c) => mutex = c

\* A client has a request from its call to its return, and an answer at the
\* end of it.
Phases ==
  \A c \in Clients :
    /\ pc[c] = "out" <=> req[c] = NoReq
    /\ pc[c] = "done" <=> ans[c] # NoAns
    /\ InTxn(c) => Op(c) # "get" /\ Checked(c)
    /\ pc[c] = "read" => Op(c) \in ReadFirst
    /\ pc[c] = "commit" => BadPairs(c) = {}

\* What was read is what is stored, and an operation that went on after its
\* read may do so.
Current ==
  \A c \in Clients :
    pc[c] \in {"put", "commit"} /\ Op(c) \in ReadFirst =>
      /\ GoesOn(c, found[c])
      /\ found[c] # -1 => kv[Key(c)] = old[c] /\ found[c] = Found(Key(c))

\* The batch holds the writes of the thread that is about to commit.
OwnBatch ==
  \A c \in Clients :
    /\ pc[c] \in {"read", "put"} => batch = <<>>
    /\ pc[c] = "commit" => batch = Pairs(c)

Inv == TypeOK /\ Exclusive /\ Phases /\ Current /\ OwnBatch

\* The initial state.
LEMMA InvInit == Init => Inv
  BY AnswerAssumption, RequestAssumption, EmptySeq
  DEF Init, Inv, TypeOK, Exclusive, Phases, Current, OwnBatch, InTxn, Pair

\* What a client in an operation asked for.
LEMMA RequestType ==
  ASSUME Inv, NEW c \in Clients, pc[c] # "out"
  PROVE  /\ req[c] \in Requests /\ Op(c) \in Ops
         /\ req[c].pairs \in Seq(Pair)
         /\ Op(c) \in Single =>
              /\ Key(c) \in AnyKey /\ Val(c) \in Values \cup {NoVal}
              /\ req[c].pairs = <<[key |-> Key(c), val |-> Val(c)]>>
         /\ Op(c) = "incr" => Val(c) \in Int64
         /\ Op(c) \in ReadFirst \cup {"set"} => Val(c) # NoVal
  <1>1. req[c] \in Requests
    BY DEF Inv, TypeOK, Phases
  <1> DEFINE r == req[c]
  <1>2. /\ r \in [op : Ops, pairs : Seq(Pair)]
        /\ r.op \in Single => Len(r.pairs) = 1
        /\ r.op = "incr" => r.pairs[1].val \in Int64
        /\ r.op \notin {"del", "multi_del", "get"} => \A i \in DOMAIN r.pairs : r.pairs[i].val # NoVal
    BY <1>1, RequestAssumption DEF Pair
  <1> HIDE DEF r
  <1>3. r.op \in Ops /\ r.pairs \in Seq(Pair)
    BY <1>2
  <1>4. ASSUME r.op \in Single
        PROVE  /\ r.pairs[1] \in Pair
               /\ r.pairs = <<r.pairs[1]>>
               /\ r.pairs[1] = [key |-> r.pairs[1].key, val |-> r.pairs[1].val]
    <2>1. Len(r.pairs) = 1
      BY <1>2, <1>4
    <2>2. r.pairs[1] \in Pair
      BY <1>3, <2>1
    <2>3. r.pairs = <<r.pairs[1]>>
      BY <1>3, <2>1
    <2> QED
      BY <2>2, <2>3 DEF Pair
  <1>5. Op(c) = r.op /\ Key(c) = r.pairs[1].key /\ Val(c) = r.pairs[1].val /\ req[c].pairs = r.pairs
    BY DEF Op, Key, Val, r
  <1>6. Op(c) \in Single =>
          /\ Key(c) \in AnyKey /\ Val(c) \in Values \cup {NoVal}
          /\ req[c].pairs = <<[key |-> Key(c), val |-> Val(c)]>>
    BY <1>4, <1>5 DEF Pair
  <1>7. Op(c) \in ReadFirst \cup {"set"} => Val(c) # NoVal
    <2>1. r.op \in ReadFirst \cup {"set"} => 1 \in DOMAIN r.pairs
      BY <1>2, <1>3 DEF ReadFirst, Single, Ops
    <2> QED
      BY <1>2, <1>5, <2>1 DEF ReadFirst
  <1> QED
    BY <1>1, <1>2, <1>3, <1>5, <1>6, <1>7

\* The pairs an operation puts into the batch are legal, and incr's value is
\* the right one.
LEMMA PairsType ==
  ASSUME Inv, NEW c \in Clients, pc[c] \in {"put", "commit"}
  PROVE  /\ Pairs(c) \in Seq(Pair)
         /\ Op(c) = "incr" =>
              /\ NewVal(c) \in Int64
              /\ Pairs(c) = <<[key |-> Key(c), val |-> NewVal(c)]>>
              /\ \/ kv[Key(c)] = NoVal /\ NewVal(c) = Val(c)
                 \/ kv[Key(c)] \in Int /\ KV!IsSum(NewVal(c), kv[Key(c)], Val(c))
  <1>1. CASE Op(c) # "incr"
    BY <1>1, RequestType DEF Pairs
  <1>2. CASE Op(c) = "incr"
    <2>1. /\ Key(c) \in AnyKey /\ Val(c) \in Int64
          /\ kv[Key(c)] \in Values \cup {NoVal} /\ found[c] \in {-1, 0, 1}
      BY <1>2, RequestType DEF Inv, TypeOK, Single, Ops
    <2>2. /\ found[c] # -1 /\ kv[Key(c)] # Text
          /\ kv[Key(c)] = old[c] /\ found[c] = Found(Key(c))
      BY <1>2 DEF Inv, Current, GoesOn, ReadFirst
    <2>3. CASE kv[Key(c)] = NoVal
      <3>1. NewVal(c) = Val(c)
        BY <2>2, <2>3 DEF NewVal, Found
      <3> QED
        BY <1>2, <2>1, <2>3, <3>1 DEF Pairs, Pair, Values
    <2>4. CASE kv[Key(c)] # NoVal
      <3>1. kv[Key(c)] \in Int
        <4>1. kv[Key(c)] \in Numbers \cup Int64
          BY <2>1, <2>2, <2>4, Zenon DEF Values
        <4>2. Int64 \subseteq Int
          BY ValueAssumption DEF Int64
        <4> QED
          BY <4>1, <4>2, ValueAssumption
      <3>2. NewVal(c) = AddInt64(str_to_int64(kv[Key(c)]), Val(c))
        BY <2>2, <2>4 DEF NewVal, Found
      <3>3. NewVal(c) \in Int64 /\ KV!IsSum(NewVal(c), kv[Key(c)], Val(c))
        BY <2>1, <3>1, <3>2, SumInRange
      <3> QED
        BY <1>2, <2>1, <3>1, <3>3 DEF Pairs, Pair, Values
    <2> QED
      BY <2>3, <2>4
  <1> QED
    BY <1>1, <1>2

LEMMA AnswerType ==
  ASSUME NEW ret \in {-1, 0, 1} \cup {Len(r.pairs) : r \in Requests},
         NEW val \in Values \cup {NoVal}
  PROVE  [ret |-> ret, val |-> val] \in Answer /\ [ret |-> ret, val |-> val] # NoAns
  <1>1. [ret |-> ret, val |-> val] \in Answer
    BY DEF Answer
  <1> QED
    BY <1>1, AnswerAssumption

-----------------------------------------------------------------------------
(* One lemma per action: it preserves the invariant.                       *)

LEMMA InvCall ==
  ASSUME Inv, NEW c \in Clients, Call(c)
  PROVE  Inv'
  <1> USE DEF Inv, Call, Goto
  <1>1. TypeOK'
    BY DEF TypeOK
  <1>2. PICK r \in Requests : req' = [req EXCEPT ![c] = r]
    OBVIOUS
  <1>3. pc' = [pc EXCEPT ![c] = "start"] /\ pc[c] = "out" /\ UNCHANGED <<kv, ans, found, old, mutex, batch>>
    OBVIOUS
  <1>4. req'[c] = r /\ r # NoReq /\ pc'[c] = "start" /\ \A d \in Clients \ {c} : req'[d] = req[d] /\ pc'[d] = pc[d]
    BY <1>2, <1>3, RequestAssumption DEF TypeOK
  <1>5. Exclusive'
    BY <1>3, <1>4 DEF Exclusive, InTxn
  <1>6. Phases'
    BY <1>3, <1>4 DEF Phases, InTxn, Op, Key, Checked, BadPairs
  <1>7. Current'
    BY <1>3, <1>4 DEF Current, GoesOn, Found, Op, Key
  <1>8. OwnBatch'
    BY <1>3, <1>4 DEF OwnBatch, Pairs, NewVal, Op, Key, Val
  <1> QED
    BY <1>1, <1>5, <1>6, <1>7, <1>8

\* A step that only decides the answer of client c, which may leave a batch.
LEMMA InvAnswers ==
  ASSUME Inv, NEW c \in Clients, NEW ret, NEW val,
         [ret |-> ret, val |-> val] \in Answer \ {NoAns},
         pc[c] \notin {"out", "done"},
         Answers(c, ret, val),
         batch' \in Seq(Pair),
         batch' # batch => InTxn(c),
         UNCHANGED <<kv, req, found, old, mutex>>
  PROVE  Inv'
  <1> USE DEF Inv, Answers, Goto
  <1>1. TypeOK'
    BY DEF TypeOK, Pair
  <1>2. pc'[c] = "done" /\ \A d \in Clients \ {c} : pc'[d] = pc[d] /\ ans'[d] = ans[d]
    BY DEF TypeOK
  <1>3. ans'[c] # NoAns
    BY DEF TypeOK
  <1>4. Exclusive'
    BY <1>2 DEF Exclusive, InTxn
  <1>5. Phases'
    BY <1>2, <1>3 DEF Phases, InTxn, Op, Key, Checked, BadPairs
  <1>6. Current'
    BY <1>2 DEF Current, GoesOn, Found, Op, Key
  <1>7. OwnBatch'
    <2> SUFFICES ASSUME NEW d \in Clients
                 PROVE  /\ pc'[d] \in {"read", "put"} => batch' = <<>>
                        /\ pc'[d] = "commit" => batch' = Pairs(d)'
      BY DEF OwnBatch
    <2>1. d # c /\ pc'[d] \in {"read", "put", "commit"} => batch' = batch
      BY <1>2 DEF Exclusive, InTxn
    <2> QED
      BY <1>2, <2>1 DEF OwnBatch, Pairs, NewVal, Op, Key, Val
  <1> QED
    BY <1>1, <1>4, <1>5, <1>6, <1>7

LEMMA InvRefuse ==
  ASSUME Inv, NEW c \in Clients, Refuse(c)
  PROVE  Inv'
  <1> DEFINE ret == IF Key(c) = Empty THEN 0 ELSE -1
  <1>1. [ret |-> ret, val |-> NoVal] \in Answer \ {NoAns}
    BY AnswerType
  <1>2. Answers(c, ret, NoVal) /\ pc[c] = "start" /\ UNCHANGED <<kv, req, found, old, mutex, batch>>
    BY DEF Refuse
  <1>3. batch' \in Seq(Pair) /\ batch' = batch
    BY <1>2 DEF Inv, TypeOK, Pair
  <1> HIDE DEF ret
  <1> QED
    BY <1>1, <1>2, <1>3, InvAnswers

LEMMA InvGet ==
  ASSUME Inv, NEW c \in Clients, get(c)
  PROVE  Inv'
  <1>1. PICK f \in {Found(Key(c)), -1} : Answers(c, f, IF f = 1 THEN kv[Key(c)] ELSE NoVal)
    BY DEF get
  <1> DEFINE val == IF f = 1 THEN kv[Key(c)] ELSE NoVal
  <1>2. pc[c] = "start" /\ Op(c) = "get" /\ UNCHANGED <<kv, req, found, old, mutex, batch>>
    BY DEF get
  <1>3. Key(c) \in AnyKey
    BY <1>2, RequestType DEF Single, Ops
  <1>4. val \in Values \cup {NoVal} /\ f \in {-1, 0, 1}
    BY <1>3 DEF Inv, TypeOK, Found
  <1>5. [ret |-> f, val |-> val] \in Answer \ {NoAns}
    BY <1>4, AnswerType
  <1>6. batch' \in Seq(Pair) /\ batch' = batch
    BY <1>2 DEF Inv, TypeOK, Pair
  <1>7. Answers(c, f, val)
    BY <1>1
  <1> HIDE DEF val
  <1> QED
    BY <1>2, <1>5, <1>6, <1>7, InvAnswers

\* Nobody else is in a Transaction when the mutex is free.
LEMMA InvBegin ==
  ASSUME Inv, NEW c \in Clients, begin(c)
  PROVE  Inv'
  <1> USE DEF Inv
  <1>1. /\ pc[c] = "start" /\ mutex = NoClient /\ mutex' = c /\ batch' = <<>>
        /\ pc' = [pc EXCEPT ![c] = IF Op(c) \in ReadFirst THEN "read" ELSE "put"]
        /\ UNCHANGED <<kv, req, ans, found, old>>
        /\ Op(c) # "get" /\ Checked(c)
    BY DEF begin, Goto
  <1>2. TypeOK'
    BY <1>1, EmptySeq DEF TypeOK
  <1>3. pc'[c] \in {"read", "put"} /\ (pc'[c] = "read" <=> Op(c) \in ReadFirst) /\ \A d \in Clients \ {c} : pc'[d] = pc[d]
    BY <1>1 DEF TypeOK
  <1>4. \A d \in Clients : ~InTxn(d)
    BY <1>1, ClientAssumption DEF Exclusive
  <1>5. Exclusive'
    BY <1>1, <1>3, <1>4 DEF Exclusive, InTxn
  <1>6. Phases'
    BY <1>1, <1>3 DEF Phases, InTxn, Op, Key, Checked, BadPairs
  <1>7. Current'
    BY <1>1, <1>3, <1>4 DEF Current, InTxn, Op
  <1>8. OwnBatch'
    BY <1>1, <1>3, <1>4 DEF OwnBatch, InTxn
  <1> QED
    BY <1>2, <1>5, <1>6, <1>7, <1>8

LEMMA InvRead ==
  ASSUME Inv, NEW c \in Clients, read(c)
  PROVE  Inv'
  <1>1. pc[c] = "read" /\ UNCHANGED <<kv, req, mutex, batch>>
    BY DEF read
  <1>2. Op(c) \in ReadFirst /\ Key(c) \in AnyKey
    BY <1>1, RequestType DEF Inv, Phases, ReadFirst, Single, Ops
  <1>3. PICK f \in {Found(Key(c)), -1} :
          \/ /\ GoesOn(c, f)
             /\ found' = [found EXCEPT ![c] = f]
             /\ old' = [old EXCEPT ![c] = IF f = 1 THEN kv[Key(c)] ELSE NoVal]
             /\ Goto(c, "put")
             /\ UNCHANGED ans
          \/ /\ ~GoesOn(c, f)
             /\ Answers(c, IF Op(c) = "incr" /\ f = -1 THEN -1 ELSE 0, NoVal)
             /\ UNCHANGED <<found, old>>
    BY DEF read
  <1>4. CASE ~GoesOn(c, f)
    <2> DEFINE ret == IF Op(c) = "incr" /\ f = -1 THEN -1 ELSE 0
    <2>1. [ret |-> ret, val |-> NoVal] \in Answer \ {NoAns}
      BY AnswerType
    <2>2. Answers(c, ret, NoVal) /\ UNCHANGED <<found, old>>
      BY <1>3, <1>4
    <2>3. batch' \in Seq(Pair) /\ batch' = batch
      BY <1>1 DEF Inv, TypeOK, Pair
    <2> HIDE DEF ret
    <2> QED
      BY <1>1, <2>1, <2>2, <2>3, InvAnswers
  <1>5. CASE GoesOn(c, f)
    <2> USE DEF Inv
    <2>1. /\ found' = [found EXCEPT ![c] = f]
          /\ old' = [old EXCEPT ![c] = IF f = 1 THEN kv[Key(c)] ELSE NoVal]
          /\ pc' = [pc EXCEPT ![c] = "put"]
          /\ UNCHANGED ans
      BY <1>3, <1>5 DEF Goto
    <2>2. f \in {-1, 0, 1} /\ kv[Key(c)] \in Values \cup {NoVal}
      BY <1>2 DEF Found, TypeOK
    <2>3. TypeOK'
      BY <1>1, <2>1, <2>2 DEF TypeOK
    <2>4. /\ pc'[c] = "put" /\ found'[c] = f /\ old'[c] = IF f = 1 THEN kv[Key(c)] ELSE NoVal
          /\ \A d \in Clients \ {c} : pc'[d] = pc[d] /\ found'[d] = found[d] /\ old'[d] = old[d]
      BY <2>1 DEF TypeOK
    <2>5. mutex = c
      BY <1>1 DEF Exclusive, InTxn
    <2>6. \A d \in Clients \ {c} : ~InTxn(d) /\ ~InTxn(d)'
      BY <2>4, <2>5 DEF Exclusive, InTxn
    <2>7. Exclusive'
      BY <1>1, <2>4, <2>5, <2>6 DEF Exclusive
    <2>8. Phases'
      BY <1>1, <2>1, <2>4 DEF Phases, InTxn, Op, Key, Checked, BadPairs
    <2>9. Current'
      <3>1. GoesOn(c, found[c])' /\ (f # -1 => kv[Key(c)] = old'[c] /\ f = Found(Key(c)))
        BY <1>1, <1>5, <2>2, <2>4 DEF GoesOn, Op, Key, Found
      <3>2. Key(c)' = Key(c) /\ Found(Key(c))' = Found(Key(c)) /\ kv' = kv
        BY <1>1 DEF Key, Found
      <3> QED
        BY <2>4, <2>6, <3>1, <3>2 DEF Current, InTxn
    <2>10. OwnBatch'
      <3>1. batch' = <<>>
        BY <1>1, <1>2 DEF OwnBatch
      <3> QED
        BY <2>4, <2>6, <3>1 DEF OwnBatch, InTxn
    <2> QED
      BY <2>3, <2>7, <2>8, <2>9, <2>10
  <1> QED
    BY <1>4, <1>5

LEMMA InvPut ==
  ASSUME Inv, NEW c \in Clients, put(c)
  PROVE  Inv'
  <1> USE DEF Inv
  <1>1. /\ pc[c] = "put" /\ BadPairs(c) = {} /\ pc' = [pc EXCEPT ![c] = "commit"]
        /\ batch' = batch \o Pairs(c)
        /\ UNCHANGED <<kv, req, ans, found, old, mutex>>
    BY DEF put, Goto
  <1>2. Pairs(c) \in Seq(Pair) /\ batch = <<>>
    BY <1>1, PairsType DEF OwnBatch
  <1>3. batch' = Pairs(c)
    BY <1>1, <1>2, ConcatEmptySeq
  <1>4. TypeOK'
    BY <1>1, <1>2, <1>3 DEF TypeOK, Pair
  <1>5. pc'[c] = "commit" /\ \A d \in Clients \ {c} : pc'[d] = pc[d]
    BY <1>1 DEF TypeOK
  <1>6. mutex = c /\ \A d \in Clients \ {c} : ~InTxn(d) /\ ~InTxn(d)'
    BY <1>1, <1>5 DEF Exclusive, InTxn
  <1>7. Exclusive'
    BY <1>1, <1>6 DEF Exclusive
  <1>8. Phases'
    BY <1>1, <1>5 DEF Phases, InTxn, Op, Key, Checked, BadPairs
  <1>9. Current'
    BY <1>1, <1>5 DEF Current, GoesOn, Found, Op, Key
  <1>10. OwnBatch'
    <2>1. Pairs(c)' = Pairs(c)
      BY <1>1 DEF Pairs, NewVal, Op, Key, Val
    <2> QED
      BY <1>3, <1>5, <1>6, <2>1 DEF OwnBatch, InTxn
  <1> QED
    BY <1>4, <1>7, <1>8, <1>9, <1>10

LEMMA InvPutBad ==
  ASSUME Inv, NEW c \in Clients, put_bad(c)
  PROVE  Inv'
  <1>1. pc[c] = "put" /\ Answers(c, 0, NoVal) /\ UNCHANGED <<kv, req, found, old, mutex>>
    BY DEF put_bad
  <1>2. PICK i \in BadPairs(c) : batch' = batch \o SubSeq(req[c].pairs, 1, i - 1)
    BY DEF put_bad
  <1> DEFINE p == req[c].pairs
  <1>3. p \in Seq(Pair) /\ i \in DOMAIN p
    BY <1>1, <1>2, RequestType DEF BadPairs
  <1> HIDE DEF p
  <1>4. SubSeq(p, 1, i - 1) \in Seq(Pair)
    BY <1>3, SubSeqProperties
  <1>5. batch' \in Seq(Pair)
    BY <1>2, <1>4, ConcatProperties DEF Inv, TypeOK, Pair, p
  <1>6. [ret |-> 0, val |-> NoVal] \in Answer \ {NoAns}
    BY AnswerType
  <1> QED
    BY <1>1, <1>5, <1>6, InvAnswers DEF InTxn

\* The answer of a commit is legal.
LEMMA CommitAnswer ==
  ASSUME Inv, NEW c \in Clients, pc[c] = "commit"
  PROVE  [ret |-> Result(c), val |-> HandsOut(c)] \in Answer \ {NoAns}
  <1>1. Result(c) \in {-1, 0, 1} \cup {Len(r.pairs) : r \in Requests}
    <2>1. Len(req[c].pairs) \in {Len(r.pairs) : r \in Requests}
      BY RequestType
    <2>2. found[c] \in {-1, 0, 1}
      BY DEF Inv, TypeOK
    <2> QED
      BY <2>1, <2>2 DEF Result
  <1>2. HandsOut(c) \in Values \cup {NoVal}
    <2>1. Op(c) = "incr" => NewVal(c) \in Values
      BY PairsType DEF Values
    <2>2. old[c] \in Values \cup {NoVal}
      BY DEF Inv, TypeOK
    <2> QED
      BY <2>1, <2>2 DEF HandsOut
  <1> QED
    BY <1>1, <1>2, AnswerType

LEMMA InvCommit ==
  ASSUME Inv, NEW c \in Clients, commit(c)
  PROVE  Inv'
  <1> USE DEF Inv
  <1>1. /\ pc[c] = "commit" /\ kv' = Apply(kv, batch)
        /\ pc' = [pc EXCEPT ![c] = "done"]
        /\ ans' = [ans EXCEPT ![c] = [ret |-> Result(c), val |-> HandsOut(c)]]
        /\ UNCHANGED <<req, found, old, mutex, batch>>
    BY DEF commit, Answers, Goto
  <1>4. [ret |-> Result(c), val |-> HandsOut(c)] \in Answer \ {NoAns}
    BY <1>1, CommitAnswer
  <1>5. kv' \in [AnyKey -> Values \cup {NoVal}]
    BY <1>1, ApplyType DEF TypeOK, Pair
  <1>6. TypeOK'
    BY <1>1, <1>4, <1>5 DEF TypeOK
  <1>7. /\ pc'[c] = "done" /\ ans'[c] # NoAns
        /\ \A d \in Clients \ {c} : pc'[d] = pc[d] /\ ans'[d] = ans[d]
    BY <1>1, <1>4 DEF TypeOK
  <1>8. \A d \in Clients : ~InTxn(d)'
    BY <1>1, <1>7 DEF Exclusive, InTxn
  <1>9. Phases'
    BY <1>1, <1>7, <1>8 DEF Phases, InTxn
  <1> QED
    BY <1>6, <1>8, <1>9 DEF Exclusive, Current, OwnBatch, InTxn

LEMMA InvCommitFail ==
  ASSUME Inv, NEW c \in Clients, commit_fail(c)
  PROVE  Inv'
  <1>1. pc[c] = "commit" /\ Answers(c, -1, NoVal) /\ UNCHANGED <<kv, req, found, old, mutex, batch>>
    BY DEF commit_fail
  <1>2. [ret |-> -1, val |-> NoVal] \in Answer \ {NoAns}
    BY AnswerType
  <1>3. batch' \in Seq(Pair) /\ batch' = batch
    BY <1>1 DEF Inv, TypeOK, Pair
  <1> QED
    BY <1>1, <1>2, <1>3, InvAnswers

LEMMA InvReturn ==
  ASSUME Inv, NEW c \in Clients, return(c)
  PROVE  Inv'
  <1> USE DEF Inv
  <1>1. /\ pc[c] = "done" /\ mutex' = (IF mutex = c THEN NoClient ELSE mutex)
        /\ req' = [req EXCEPT ![c] = NoReq] /\ ans' = [ans EXCEPT ![c] = NoAns]
        /\ found' = [found EXCEPT ![c] = 0] /\ old' = [old EXCEPT ![c] = NoVal]
        /\ pc' = [pc EXCEPT ![c] = "out"]
        /\ UNCHANGED <<kv, batch>>
    BY DEF return, Goto
  <1>2. TypeOK'
    BY <1>1 DEF TypeOK
  <1>3. /\ pc'[c] = "out" /\ req'[c] = NoReq /\ ans'[c] = NoAns
        /\ \A d \in Clients \ {c} :
             /\ pc'[d] = pc[d] /\ req'[d] = req[d] /\ ans'[d] = ans[d]
             /\ found'[d] = found[d] /\ old'[d] = old[d]
    BY <1>1 DEF TypeOK
  <1>4. Exclusive'
    BY <1>1, <1>3 DEF Exclusive, InTxn
  <1>5. Phases'
    BY <1>3 DEF Phases, InTxn, Op, Key, Checked, BadPairs
  <1>6. Current'
    BY <1>1, <1>3 DEF Current, GoesOn, Found, Op, Key
  <1>7. OwnBatch'
    BY <1>1, <1>3 DEF OwnBatch, Pairs, NewVal, Op, Key, Val
  <1> QED
    BY <1>2, <1>4, <1>5, <1>6, <1>7

LEMMA InvNext == Inv /\ [Next]_vars => Inv'
  <1> SUFFICES ASSUME Inv, [Next]_vars PROVE Inv'
    OBVIOUS
  <1>1. CASE UNCHANGED vars
    BY <1>1 DEF vars, locals, Inv, TypeOK, Exclusive, Phases, Current, OwnBatch, InTxn,
       Op, Key, Val, Checked, BadPairs, GoesOn, Found, Pairs, NewVal
  <1>2. ASSUME NEW c \in Clients, Call(c) \/ begin(c) \/ Body(c) PROVE Inv'
    BY <1>2, InvCall, InvBegin, InvRefuse, InvGet, InvRead, InvPut, InvPutBad, InvCommit,
       InvCommitFail, InvReturn DEF Body
  <1> QED
    BY <1>1, <1>2 DEF Next

\* The inductive invariant holds.
THEOREM KVInv == Spec => []Inv
  BY InvInit, InvNext, PTL DEF Spec

\* Values, locals, the mutex and the batch keep their types, for any number of
\* clients and any requests.
THEOREM KVTypeOK == Spec => []TypeOK
  <1>1. Inv => TypeOK
    BY DEF Inv
  <1> QED
    BY <1>1, KVInv, PTL

\* What setnx, getset and incr have read under the mutex is still stored when
\* they commit (t_kv.cpp).
THEOREM KVReadIsCurrent == Spec => []ReadIsCurrent
  <1>1. Inv => ReadIsCurrent
    BY DEF Inv, Current, ReadIsCurrent
  <1> QED
    BY <1>1, KVInv, PTL

-----------------------------------------------------------------------------
(* Refinement: every step is a call, an outcome or a return of KVStore, or *)
(* changes nothing there.                                                  *)

LEMMA SameApply == \A s, p : KV!Apply(s, p) = Apply(s, p)
  BY DEF KV!Apply, Apply, KV!AnyKey, AnyKey

LEMMA SameAnswer == KV!Answer = Answer
  BY DEF KV!Answer, Answer, KV!Values, Values, KV!Int64, Int64

\* A step that decides an answer which is an outcome is the abstract step.
LEMMA DecideIsDo ==
  ASSUME Inv, NEW c \in Clients, NEW ret, NEW val,
         pc[c] \notin {"out", "done"},
         [ret |-> ret, val |-> val] \in Answer,
         ans' = [ans EXCEPT ![c] = [ret |-> ret, val |-> val]],
         UNCHANGED req,
         KV!Outcome(req[c], kv, kv', [ret |-> ret, val |-> val])
  PROVE  KV!Next
  <1>1. req[c] # NoReq /\ ans[c] = NoAns
    BY DEF Inv, Phases
  <1>2. KV!Do(c)
    BY <1>1, SameAnswer DEF KV!Do
  <1> QED
    BY <1>2 DEF KV!Next

LEMMA RefuseIsDo ==
  ASSUME Inv, NEW c \in Clients, Refuse(c)
  PROVE  KV!Next
  <1> DEFINE ret == IF Key(c) = Empty THEN 0 ELSE -1
             a == [ret |-> ret, val |-> NoVal]
  <1>1. /\ pc[c] = "start" /\ ~Checked(c) /\ ans' = [ans EXCEPT ![c] = a]
        /\ UNCHANGED <<kv, req>>
    BY DEF Refuse, Answers
  <1>2. a \in Answer
    BY AnswerType
  <1>3. KV!Outcome(req[c], kv, kv', a)
    <2>1. CASE Key(c) = Empty
      <3>1. Op(c) \in {"set", "setnx", "getset"} /\ ret = 0
        BY <1>1, <2>1, KeyAssumption DEF Checked, NoEmpty
      <3>2. KV!Refused(req[c], kv, kv', a)
        BY <1>1, <2>1, <3>1 DEF KV!Refused, Op, Key
      <3> QED
        BY <3>2 DEF KV!Outcome
    <2>2. CASE Key(c) # Empty
      <3>1. KV!Failed(req[c], kv, kv', a)
        BY <1>1, <2>2 DEF KV!Failed
      <3> QED
        BY <3>1 DEF KV!Outcome
    <2> QED
      BY <2>1, <2>2
  <1> HIDE DEF ret
  <1> QED
    BY <1>1, <1>2, <1>3, DecideIsDo

LEMMA GetIsDo ==
  ASSUME Inv, NEW c \in Clients, get(c)
  PROVE  KV!Next
  <1>1. PICK f \in {Found(Key(c)), -1} : Answers(c, f, IF f = 1 THEN kv[Key(c)] ELSE NoVal)
    BY DEF get
  <1> DEFINE val == IF f = 1 THEN kv[Key(c)] ELSE NoVal
             a == [ret |-> f, val |-> val]
  <1>2. pc[c] = "start" /\ Op(c) = "get" /\ UNCHANGED <<kv, req>> /\ ans' = [ans EXCEPT ![c] = a]
    BY <1>1 DEF get, Answers
  <1>3. Key(c) \in AnyKey
    BY <1>2, RequestType DEF Single, Ops
  <1>4. val \in Values \cup {NoVal} /\ f \in {-1, 0, 1}
    BY <1>3 DEF Inv, TypeOK, Found
  <1>5. a \in Answer
    BY <1>4, AnswerType
  <1>6. KV!Outcome(req[c], kv, kv', a)
    <2>1. CASE f = -1
      BY <1>2, <2>1 DEF KV!Outcome, KV!Failed
    <2>2. CASE f # -1
      <3>1. KV!Get(req[c], kv, kv', a)
        BY <1>2, <2>2 DEF KV!Get, Found, Op, Key
      <3> QED
        BY <3>1 DEF KV!Outcome
    <2> QED
      BY <2>1, <2>2
  <1> HIDE DEF val
  <1> QED
    BY <1>2, <1>5, <1>6, DecideIsDo

\* A read that ends its operation: setnx of a key that is there or cannot be
\* read, incr of a value that is no number or cannot be read.
LEMMA ReadIsDo ==
  ASSUME Inv, NEW c \in Clients, read(c)
  PROVE  KV!Next \/ UNCHANGED <<kv, req, ans>>
  <1>1. pc[c] = "read" /\ UNCHANGED <<kv, req>>
    BY DEF read
  <1>2. Op(c) \in ReadFirst /\ Key(c) \in AnyKey
    BY <1>1, RequestType DEF Inv, Phases, ReadFirst, Single, Ops
  <1>3. PICK f \in {Found(Key(c)), -1} :
          \/ UNCHANGED ans
          \/ /\ ~GoesOn(c, f)
             /\ Answers(c, IF Op(c) = "incr" /\ f = -1 THEN -1 ELSE 0, NoVal)
    BY DEF read
  <1>4. CASE UNCHANGED ans
    BY <1>1, <1>4
  <1>5. CASE /\ ~GoesOn(c, f)
             /\ Answers(c, IF Op(c) = "incr" /\ f = -1 THEN -1 ELSE 0, NoVal)
    <2> DEFINE ret == IF Op(c) = "incr" /\ f = -1 THEN -1 ELSE 0
               a == [ret |-> ret, val |-> NoVal]
    <2>1. ans' = [ans EXCEPT ![c] = a]
      BY <1>5 DEF Answers
    <2>2. a \in Answer
      BY AnswerType
    <2>3. KV!Outcome(req[c], kv, kv', a)
      <3>1. CASE Op(c) = "incr" /\ f = -1
        BY <1>1, <3>1 DEF KV!Outcome, KV!Failed
      <3>2. CASE Op(c) = "incr" /\ f # -1
        <4>1. kv[Key(c)] = Text /\ ret = 0
          BY <1>5, <3>2 DEF GoesOn
        <4>2. KV!Incr(req[c], kv, kv', a)
          BY <1>1, <3>2, <4>1 DEF KV!Incr, Op, Key
        <4> QED
          BY <4>2 DEF KV!Outcome
      <3>3. CASE Op(c) = "setnx"
        BY <1>1, <3>3 DEF KV!Outcome, KV!SetNX, Op
      <3> QED
        BY <1>2, <1>5, <3>1, <3>2, <3>3 DEF ReadFirst, GoesOn
    <2> HIDE DEF ret
    <2> QED
      BY <1>1, <2>1, <2>2, <2>3, DecideIsDo
  <1> QED
    BY <1>3, <1>4, <1>5

LEMMA PutBadIsDo ==
  ASSUME Inv, NEW c \in Clients, put_bad(c)
  PROVE  KV!Next
  <1> DEFINE a == [ret |-> 0, val |-> NoVal]
  <1>1. pc[c] = "put" /\ UNCHANGED <<kv, req>> /\ ans' = [ans EXCEPT ![c] = a] /\ BadPairs(c) # {}
    BY DEF put_bad, Answers
  <1>2. a \in Answer
    BY AnswerType
  <1>3. KV!Refused(req[c], kv, kv', a)
    BY <1>1 DEF KV!Refused, BadPairs, Op
  <1> QED
    BY <1>1, <1>2, <1>3, DecideIsDo DEF KV!Outcome

LEMMA CommitFailIsDo ==
  ASSUME Inv, NEW c \in Clients, commit_fail(c)
  PROVE  KV!Next
  <1> DEFINE a == [ret |-> -1, val |-> NoVal]
  <1>1. pc[c] = "commit" /\ UNCHANGED <<kv, req>> /\ ans' = [ans EXCEPT ![c] = a]
    BY DEF commit_fail, Answers
  <1>2. a \in Answer
    BY AnswerType
  <1>3. KV!Failed(req[c], kv, kv', a)
    BY <1>1 DEF KV!Failed
  <1> QED
    BY <1>1, <1>2, <1>3, DecideIsDo DEF KV!Outcome

\* A commit writes the client's own pairs on top of what it has read.
LEMMA CommitIsDo ==
  ASSUME Inv, NEW c \in Clients, commit(c)
  PROVE  KV!Next
  <1> DEFINE a == [ret |-> Result(c), val |-> HandsOut(c)]
  <1>1. /\ pc[c] = "commit" /\ kv' = Apply(kv, Pairs(c))
        /\ ans' = [ans EXCEPT ![c] = a] /\ UNCHANGED req
    BY DEF commit, Answers, Inv, OwnBatch
  <1>2. a \in Answer
    BY <1>1, CommitAnswer
  <1>3. Op(c) \in Ops /\ Op(c) # "get" /\ Checked(c) /\ BadPairs(c) = {} /\ req[c].pairs \in Seq(Pair)
    BY <1>1, RequestType DEF Inv, Phases, InTxn
  <1>4. KV!Outcome(req[c], kv, kv', a)
    <2>1. CASE Op(c) \in {"set", "del", "multi_set", "multi_del"}
      <3>1. Pairs(c) = req[c].pairs /\ a.ret = Len(req[c].pairs)
        <4>1. Op(c) \in {"set", "del"} => Len(req[c].pairs) = 1
          BY <1>1, RequestType, RequestAssumption DEF Op, Single, Ops
        <4> QED
          BY <2>1, <4>1 DEF Pairs, Result
      <3>2. Op(c) = "multi_set" => \A i \in DOMAIN req[c].pairs : req[c].pairs[i].key \in Keys
        BY <1>3 DEF BadPairs
      <3>3. Op(c) = "set" => \A i \in DOMAIN req[c].pairs : req[c].pairs[i].key \in Keys
        <4> SUFFICES ASSUME Op(c) = "set" PROVE \A i \in DOMAIN req[c].pairs : req[c].pairs[i].key \in Keys
          OBVIOUS
        <4>1. Key(c) \in Keys
          BY <1>1, <1>3, RequestType DEF Checked, NoEmpty, NoTooLong, AnyKey, Single, Ops
        <4>2. Len(req[c].pairs) = 1
          BY <1>1, RequestType, RequestAssumption DEF Op, Single, Ops
        <4> QED
          BY <1>3, <4>1, <4>2 DEF Key
      <3>4. KV!Write(req[c], kv, kv', a)
        BY <1>1, <2>1, <3>1, <3>2, <3>3, SameApply DEF KV!Write, Op
      <3> QED
        BY <3>4 DEF KV!Outcome
    <2>2. CASE Op(c) = "setnx"
      <3>1. kv[Key(c)] = NoVal
        BY <1>1, <2>2 DEF Inv, Current, GoesOn, ReadFirst, Found
      <3>2. Pairs(c) = req[c].pairs /\ a.ret = 1
        BY <2>2 DEF Pairs, Result
      <3>3. KV!SetNX(req[c], kv, kv', a)
        BY <1>1, <2>2, <3>1, <3>2, SameApply DEF KV!SetNX, Op, Key
      <3> QED
        BY <3>3 DEF KV!Outcome
    <2>3. CASE Op(c) = "getset"
      <3>1. found[c] # -1 => kv[Key(c)] = old[c] /\ found[c] = Found(Key(c))
        BY <1>1, <2>3 DEF Inv, Current, ReadFirst
      <3>2. Pairs(c) = req[c].pairs /\ a.ret = found[c] /\ a.val = old[c]
        BY <2>3 DEF Pairs, Result, HandsOut
      <3>3. Key(c) \in Keys
        BY <1>1, <1>3, <2>3, RequestType DEF Checked, NoEmpty, NoTooLong, AnyKey, Single, Ops
      <3>4. KV!GetSet(req[c], kv, kv', a)
        BY <1>1, <2>3, <3>1, <3>2, <3>3, SameApply DEF KV!GetSet, Op, Key, Found
      <3> QED
        BY <3>4 DEF KV!Outcome
    <2>4. CASE Op(c) = "incr"
      <3>1. Key(c) \in AnyKey
        BY <1>1, <2>4, RequestType DEF Single, Ops
      <3>2. /\ Pairs(c) = <<[key |-> Key(c), val |-> NewVal(c)]>>
            /\ \/ kv[Key(c)] = NoVal /\ NewVal(c) = Val(c)
               \/ kv[Key(c)] \in Int /\ KV!IsSum(NewVal(c), kv[Key(c)], Val(c))
        BY <1>1, <2>4, PairsType
      <3>3. a.ret = 1 /\ a.val = NewVal(c)
        BY <2>4 DEF Result, HandsOut
      <3>4. kv' = [kv EXCEPT ![Key(c)] = NewVal(c)]
        BY <1>1, <3>1, <3>2, ApplyOne DEF Inv, TypeOK
      <3> HIDE DEF a
      <3>5. KV!Incr(req[c], kv, kv', a)
        BY <2>4, <3>2, <3>3, <3>4 DEF KV!Incr, Op, Key, Val
      <3> QED
        BY <3>5 DEF KV!Outcome
    <2> QED
      BY <1>3, <2>1, <2>2, <2>3, <2>4 DEF Ops
  <1> HIDE DEF a
  <1> QED
    BY <1>1, <1>2, <1>4, DecideIsDo DEF a

LEMMA StepRefines == Inv /\ [Next]_vars => [KV!Next]_(KV!vars)
  <1> SUFFICES ASSUME Inv, [Next]_vars PROVE KV!Next \/ UNCHANGED <<kv, req, ans>>
    BY DEF KV!vars
  <1>1. CASE UNCHANGED vars
    BY <1>1 DEF vars
  <1>2. ASSUME NEW c \in Clients, Call(c) \/ begin(c) \/ Body(c)
        PROVE  KV!Next \/ UNCHANGED <<kv, req, ans>>
    <2>1. CASE Call(c)
      <3>1. KV!Call(c)
        BY <2>1 DEF KV!Call, Call, Inv, Phases
      <3> QED
        BY <3>1 DEF KV!Next
    <2>2. CASE begin(c) \/ put(c)
      BY <2>2 DEF begin, put
    <2>3. CASE return(c)
      <3>1. KV!Return(c)
        BY <2>3 DEF KV!Return, return, Inv, Phases
      <3> QED
        BY <3>1 DEF KV!Next
    <2> QED
      BY <1>2, <2>1, <2>2, <2>3, RefuseIsDo, GetIsDo, ReadIsDo, PutBadIsDo, CommitIsDo,
         CommitFailIsDo DEF Body
  <1> QED
    BY <1>1, <1>2 DEF Next

\* The key-value operations of t_kv.cpp are atomic: threads that run them
\* step by step behave as if every call happened at one moment, with an
\* answer that fits what was stored then; a call that failed or was refused
\* changes nothing, not through the batch it left behind either.
THEOREM KVIsAtomic == Spec => KVSpec
  <1>1. Init => KV!Init
    BY DEF Init, KV!Init, KV!AnyKey, AnyKey
  <1> QED
    BY <1>1, KVInv, StepRefines, PTL DEF Spec, KVSpec, KV!Spec

-----------------------------------------------------------------------------
(* The cache of open tables: every handle is in its place and counted.     *)

LRUCacheSpec == LRUCacheInit /\ [][LRUCacheNext]_lcvars

LRUHandle == [key : Files, refs : Nat \ {0}, in_cache : BOOLEAN, charge : Charges]

CacheType(c) ==
  /\ DOMAIN c = {"h", "list_", "elems_", "lru_", "in_use_", "usage_"}
  /\ c.h \in [Handles -> LRUHandle \cup {Free}]
  /\ c.lru_ \in Seq(Handles) /\ c.in_use_ \in SUBSET Handles
  /\ c.elems_ \in Nat /\ c.usage_ \in Nat

Cached(c) == {e \in Handles : c.h[e] # Free /\ c.h[e].in_cache}

\* The hash table contains the entries T: each is in the bucket of its key, once,
\* and no two have the same key.
HoldsInTable(c, T) ==
  /\ length_(c) \in Nat \ {0} /\ DOMAIN c.list_ = 0 .. length_(c) - 1
  /\ T \subseteq Cached(c)
  /\ \A x, y \in T : c.h[x].key = c.h[y].key => x = y
  /\ \A b \in DOMAIN c.list_ :
       /\ c.list_[b] \in Seq(T)
       /\ IsInjective(c.list_[b])
       /\ ToSet(c.list_[b]) = {e \in T : Bucket(c, c.h[e].key) = b}
  /\ c.elems_ = Cardinality(T)

Total(c, S) == MapThenSumSet(LAMBDA e : c.h[e].charge, S)

\* With n[e] references of clients to a handle: the counts and the two lists.
CountsAgree(c, n) ==
  /\ \A e \in Handles :
       IF c.h[e] = Free THEN n[e] = 0 ELSE c.h[e].refs = n[e] + (IF c.h[e].in_cache THEN 1 ELSE 0)
  /\ ToSet(c.lru_) = {e \in Cached(c) : n[e] = 0}
  /\ IsInjective(c.lru_)
  /\ c.in_use_ = {e \in Cached(c) : n[e] > 0}
  /\ c.usage_ = Total(c, Cached(c))

\* A finite set has a minimal element of any strict order.
LEMMA MinimalExists ==
  ASSUME NEW S, IsFiniteSet(S), S # {}, NEW R,
         \A x \in S : <<x, x>> \notin R,
         \A x, y, z \in S : <<x, y>> \in R /\ <<y, z>> \in R => <<x, z>> \in R
  PROVE  \E e \in S : \A x \in S : <<x, e>> \notin R
  <1> DEFINE Lower(e) == {x \in S : <<x, e>> \in R}
             L == OpToRel(<, Nat)
  <1>1. ASSUME NEW e \in S PROVE IsFiniteSet(Lower(e)) /\ Cardinality(Lower(e)) \in Nat
    BY FS_Subset, FS_CardinalityType
  <1>2. PICK count : count = [e \in S |-> Cardinality(Lower(e))]
    OBVIOUS
  <1>3. count \in [S -> Nat] /\ \A e \in S : count[e] = Cardinality(Lower(e))
    BY <1>1, <1>2
  <1> DEFINE N == {count[e] : e \in S}
  <1>4. N \subseteq Nat /\ N # {}
    BY <1>3
  <1>5. \A x, y \in Nat : x < y => <<x, y>> \in L
    BY DEF OpToRel
  <1>6. IsWellFoundedOn(L, Nat)
    BY NatLessThanWellFounded
  <1>7. PICK n \in N : \A m \in N : <<m, n>> \notin L
    <2> HIDE DEF N, L
    <2> QED
      BY <1>4, <1>6, WFMin, Zenon
  <1>8. PICK e \in S : n = count[e]
    OBVIOUS
  <1>9. ASSUME NEW x \in S, <<x, e>> \in R PROVE FALSE
    <2>1. Lower(x) \subseteq Lower(e) /\ x \in Lower(e) /\ x \notin Lower(x)
      BY <1>9
    <2>2. count[x] < count[e]
      <3>1. Cardinality(Lower(x)) <= Cardinality(Lower(e)) /\ (Cardinality(Lower(x)) = Cardinality(Lower(e)) => Lower(x) = Lower(e))
        BY <1>1, <2>1, FS_Subset
      <3>2. count[x] <= count[e] /\ count[x] # count[e]
        BY <1>3, <2>1, <3>1
      <3>3. count[x] \in Nat /\ count[e] \in Nat
        BY <1>3
      <3> QED
        BY <3>2, <3>3
    <2>3. count[x] \in N /\ count[x] \in Nat /\ count[e] \in Nat
      BY <1>3
    <2> QED
      BY <1>5, <1>7, <1>8, <2>2, <2>3
  <1> QED
    BY <1>9

\* A finite set of numbers has a least and a greatest one.
LEMMA MinMaxOf ==
  ASSUME NEW S \in SUBSET Int, IsFiniteSet(S), S # {}
  PROVE  /\ Min(S) \in S /\ \A x \in S : Min(S) <= x
         /\ Max(S) \in S /\ \A x \in S : Max(S) >= x
  <1> DEFINE R == {p \in S \X S : p[1] < p[2]}
             Q == {p \in S \X S : p[1] > p[2]}
  <1>1. \E e \in S : \A x \in S : <<x, e>> \notin R
    <2>1. \A x \in S : <<x, x>> \notin R
      OBVIOUS
    <2>2. \A x, y, z \in S : <<x, y>> \in R /\ <<y, z>> \in R => <<x, z>> \in R
      OBVIOUS
    <2> HIDE DEF R
    <2> QED
      BY <2>1, <2>2, MinimalExists
  <1>2. \E e \in S : \A x \in S : <<x, e>> \notin Q
    <2>1. \A x \in S : <<x, x>> \notin Q
      OBVIOUS
    <2>2. \A x, y, z \in S : <<x, y>> \in Q /\ <<y, z>> \in Q => <<x, z>> \in Q
      OBVIOUS
    <2> HIDE DEF Q
    <2> QED
      BY <2>1, <2>2, MinimalExists
  <1>3. \E e \in S : \A x \in S : e <= x
    <2>1. PICK e \in S : \A x \in S : <<x, e>> \notin R
      BY <1>1
    <2>2. ASSUME NEW x \in S PROVE e <= x
      <3>1. <<x, e>> \notin R
        BY <2>1
      <3>2. ~(x < e) /\ x \in Int /\ e \in Int
        BY <3>1
      <3> QED
        BY <3>2
    <2> QED
      BY <2>2
  <1>4. \E e \in S : \A x \in S : e >= x
    <2>1. PICK e \in S : \A x \in S : <<x, e>> \notin Q
      BY <1>2
    <2>2. ASSUME NEW x \in S PROVE e >= x
      <3>1. <<x, e>> \notin Q
        BY <2>1
      <3>2. ~(x > e) /\ x \in Int /\ e \in Int
        BY <3>1
      <3> QED
        BY <3>2
    <2> QED
      BY <2>2
  <1> QED
    BY <1>3, <1>4 DEF Min, Max

-----------------------------------------------------------------------------
(* Sequences without repetitions, and choices by recursion *)

\* The sequence of the elements of S in the strict order R.
RankedBy(S, R) == [i \in 1 .. Cardinality(S) |-> CHOOSE e \in S : Cardinality({x \in S : <<x, e>> \in R}) = i - 1]

\* It has them all, each once.
LEMMA Ranked ==
  ASSUME NEW S, IsFiniteSet(S), NEW R,
         \A x \in S : <<x, x>> \notin R,
         \A x, y, z \in S : <<x, y>> \in R /\ <<y, z>> \in R => <<x, z>> \in R,
         \A x, y \in S : x # y => <<x, y>> \in R \/ <<y, x>> \in R,
         NEW s, s = RankedBy(S, R)
  PROVE  /\ s \in Seq(S) /\ IsInjective(s) /\ ToSet(s) = S /\ Len(s) = Cardinality(S)
         /\ \A i, j \in DOMAIN s : i < j => <<s[i], s[j]>> \in R
  <1> DEFINE Lower(e) == {x \in S : <<x, e>> \in R}
             n == Cardinality(S)
  <1>0. n \in Nat
    BY FS_CardinalityType
  <1>1. ASSUME NEW e \in S PROVE IsFiniteSet(Lower(e)) /\ Cardinality(Lower(e)) \in 0 .. n - 1
    <2>1. Lower(e) \subseteq S /\ e \notin Lower(e)
      OBVIOUS
    <2>2. IsFiniteSet(Lower(e)) /\ Cardinality(Lower(e)) <= n /\ (Cardinality(Lower(e)) = n => Lower(e) = S)
      BY <2>1, FS_Subset
    <2>3. Cardinality(Lower(e)) \in Nat /\ Cardinality(Lower(e)) # n
      BY <2>1, <2>2, FS_CardinalityType
    <2> QED
      BY <1>0, <2>2, <2>3
  <1>2. PICK rank : rank = [e \in S |-> Cardinality(Lower(e))]
    OBVIOUS
  <1>3. rank \in [S -> 0 .. n - 1] /\ \A e \in S : rank[e] = Cardinality(Lower(e))
    BY <1>1, <1>2
  <1>4. ASSUME NEW e \in S, NEW f \in S, <<e, f>> \in R PROVE rank[e] < rank[f]
    <2>1. Lower(e) \subseteq Lower(f) /\ e \in Lower(f) /\ e \notin Lower(e)
      BY <1>4
    <2>2. Cardinality(Lower(e)) <= Cardinality(Lower(f)) /\ (Cardinality(Lower(e)) = Cardinality(Lower(f)) => Lower(e) = Lower(f))
      BY <1>1, <2>1, FS_Subset
    <2>3. rank[e] <= rank[f] /\ rank[e] # rank[f]
      BY <1>3, <2>1, <2>2
    <2>4. rank[e] \in Int /\ rank[f] \in Int
      BY <1>3
    <2> QED
      BY <2>3, <2>4
  <1>5. \A e, f \in S : e # f => <<e, f>> \in R \/ <<f, e>> \in R
    OBVIOUS
  <1>6. rank \in Injection(S, 0 .. n - 1)
    <2>1. ASSUME NEW e \in S, NEW f \in S, rank[e] = rank[f] PROVE e = f
      <3>1. rank[e] \in Int /\ rank[f] \in Int
        BY <1>3
      <3>2. CASE <<e, f>> \in R
        BY <1>4, <2>1, <3>1, <3>2
      <3>3. CASE <<f, e>> \in R
        BY <1>4, <2>1, <3>1, <3>3
      <3> QED
        BY <1>5, <3>2, <3>3
    <2> QED
      BY <1>3, <2>1 DEF Injection, IsInjective
  <1>7. rank \in Surjection(S, 0 .. n - 1)
    <2>1. IsFiniteSet(0 .. n - 1) /\ Cardinality(0 .. n - 1) = n
      <3> HIDE DEF n
      <3>1. 0 \in Int /\ n - 1 \in Int
        BY <1>0
      <3>2. IsFiniteSet(0 .. n - 1) /\ Cardinality(0 .. n - 1) = IF 0 > n - 1 THEN 0 ELSE (n - 1) - 0 + 1
        BY <3>1, FS_Interval
      <3> QED
        BY <1>0, <3>2
    <2> QED
      BY <1>6, <2>1, FS_Injection
  <1>8. \A m \in 0 .. n - 1 : \E e \in S : rank[e] = m
    BY <1>7 DEF Surjection
  <1>9. s = [i \in 1 .. n |-> CHOOSE e \in S : Cardinality(Lower(e)) = i - 1]
    BY DEF RankedBy
  <1> HIDE DEF n
  <1>10. ASSUME NEW i \in 1 .. n PROVE s[i] \in S /\ rank[s[i]] = i - 1
    <2>1. i - 1 \in 0 .. n - 1
      BY <1>0
    <2>2. \E e \in S : Cardinality(Lower(e)) = i - 1
      BY <1>3, <1>8, <2>1
    <2>3. s[i] = CHOOSE e \in S : Cardinality(Lower(e)) = i - 1
      BY <1>9
    <2> HIDE DEF Lower
    <2>4. s[i] \in S /\ Cardinality(Lower(s[i])) = i - 1
      BY <2>2, <2>3
    <2> QED
      BY <1>3, <2>4
  <1>11. s \in [1 .. n -> S]
    BY <1>9, <1>10
  <1>12. s \in Seq(S) /\ Len(s) = n /\ DOMAIN s = 1 .. n
    <2>1. s \in Seq(S)
      BY <1>0, <1>11, SeqDef
    <2> QED
      BY <1>0, <1>11, <2>1, LenProperties
  <1>13. ASSUME NEW i \in 1 .. n, NEW j \in 1 .. n, i < j PROVE <<s[i], s[j]>> \in R
    <2>1. s[i] \in S /\ s[j] \in S /\ rank[s[i]] = i - 1 /\ rank[s[j]] = j - 1
      BY <1>10
    <2>2. i \in Int /\ j \in Int /\ ~(j - 1 < i - 1) /\ i - 1 # j - 1
      BY <1>0, <1>13
    <2>3. s[i] # s[j] /\ ~(rank[s[j]] < rank[s[i]])
      BY <2>1, <2>2
    <2> QED
      BY <1>4, <1>5, <2>1, <2>3
  <1>14. IsInjective(s)
    <2> SUFFICES ASSUME NEW i \in 1 .. n, NEW j \in 1 .. n, s[i] = s[j] PROVE i = j
      BY <1>12 DEF IsInjective
    <2>1. i - 1 = j - 1 /\ i \in Int /\ j \in Int
      BY <1>0, <1>10
    <2> QED
      BY <2>1
  <1>15. ASSUME NEW e \in S PROVE e \in ToSet(s)
    <2>1. rank[e] \in 0 .. n - 1 /\ rank[e] + 1 \in 1 .. n
      BY <1>0, <1>3
    <2>2. PICK i \in 1 .. n : i = rank[e] + 1
      BY <2>1
    <2>3. rank[s[i]] = rank[e] /\ s[i] \in S
      BY <1>0, <1>10, <2>1, <2>2
    <2>4. s[i] = e
      BY <1>6, <2>3 DEF Injection, IsInjective
    <2> QED
      BY <1>12, <2>4 DEF ToSet
  <1> QED
    BY <1>10, <1>12, <1>13, <1>14, <1>15 DEF ToSet, n

\* One place of a sequence is taken out.
LEMMA RemoveAtIs ==
  ASSUME NEW S, NEW s \in Seq(S), IsInjective(s), NEW i \in DOMAIN s
  PROVE  RemoveAt(s, i) \in Seq(S) /\ IsInjective(RemoveAt(s, i)) /\ ToSet(RemoveAt(s, i)) = ToSet(s) \ {s[i]}
  <1> DEFINE r == RemoveAt(s, i)
             a == SubSeq(s, 1, i - 1)
             b == SubSeq(s, i + 1, Len(s))
  <1>1. Len(s) \in Nat /\ DOMAIN s = 1 .. Len(s) /\ i \in 1 .. Len(s) /\ \A j \in 1 .. Len(s) : s[j] \in S
    BY LenProperties, ElementOfSeq
  <1>2. a \in Seq(S) /\ Len(a) = i - 1 /\ \A j \in 1 .. i - 1 : a[j] = s[j]
    <2>1. \A j \in 1 .. i - 1 : s[j] \in S
      BY <1>1
    <2>2. /\ a \in Seq(S) /\ Len(a) = (IF 1 <= i - 1 THEN i - 1 - 1 + 1 ELSE 0)
          /\ \A j \in 1 .. (i - 1) - 1 + 1 : a[j] = s[1 + j - 1]
      BY <1>1, <2>1, SubSeqProperties
    <2>3. Len(a) = i - 1
      BY <1>1, <2>2
    <2>4. ASSUME NEW j \in 1 .. i - 1 PROVE a[j] = s[j]
      <3>1. j \in 1 .. (i - 1) - 1 + 1 /\ 1 + j - 1 = j
        BY <1>1
      <3> QED
        BY <2>2, <3>1
    <2> QED
      BY <2>2, <2>3, <2>4
  <1>3. b \in Seq(S) /\ Len(b) = Len(s) - i /\ \A j \in 1 .. Len(s) - i : b[j] = s[i + j]
    <2>1. \A j \in i + 1 .. Len(s) : s[j] \in S
      BY <1>1
    <2>2. /\ b \in Seq(S) /\ Len(b) = (IF i + 1 <= Len(s) THEN Len(s) - (i + 1) + 1 ELSE 0)
          /\ \A j \in 1 .. Len(s) - (i + 1) + 1 : b[j] = s[(i + 1) + j - 1]
      BY <1>1, <2>1, SubSeqProperties
    <2>3. Len(b) = Len(s) - i
      BY <1>1, <2>2
    <2>4. ASSUME NEW j \in 1 .. Len(s) - i PROVE b[j] = s[i + j]
      <3>1. j \in 1 .. Len(s) - (i + 1) + 1 /\ (i + 1) + j - 1 = i + j
        BY <1>1
      <3> QED
        BY <2>2, <3>1
    <2> QED
      BY <2>2, <2>3, <2>4
  <1>4. r = a \o b
    BY DEF RemoveAt
  <1> HIDE DEF a, b, r
  <1>5. r \in Seq(S) /\ Len(r) = Len(a) + Len(b) /\ \A j \in 1 .. Len(a) + Len(b) : r[j] = IF j <= Len(a) THEN a[j] ELSE b[j - Len(a)]
    BY <1>2, <1>3, <1>4, ConcatProperties
  <1>6. Len(r) = Len(s) - 1 /\ DOMAIN r = 1 .. Len(s) - 1
    <2>1. Len(r) = Len(s) - 1
      BY <1>1, <1>2, <1>3, <1>5
    <2> QED
      BY <1>5, <2>1, LenProperties
  <1>7. ASSUME NEW j \in 1 .. Len(s) - 1 PROVE r[j] = IF j < i THEN s[j] ELSE s[j + 1]
    <2>1. j \in 1 .. Len(a) + Len(b) /\ j \in Int
      BY <1>1, <1>2, <1>3
    <2>2. CASE j < i
      <3>1. j <= Len(a) /\ j \in 1 .. i - 1
        BY <1>1, <1>2, <2>1, <2>2
      <3> QED
        BY <1>2, <1>5, <2>1, <2>2, <3>1
    <2>3. CASE ~(j < i)
      <3>1. ~(j <= Len(a)) /\ j - Len(a) \in 1 .. Len(s) - i /\ i + (j - Len(a)) = j + 1
        BY <1>1, <1>2, <2>1, <2>3
      <3> QED
        BY <1>3, <1>5, <2>1, <2>3, <3>1
    <2> QED
      BY <2>2, <2>3
  <1> DEFINE from(j) == IF j < i THEN j ELSE j + 1
  <1>8. ASSUME NEW j \in 1 .. Len(s) - 1 PROVE from(j) \in 1 .. Len(s) /\ from(j) # i /\ r[j] = s[from(j)]
    BY <1>1, <1>7
  <1>9. IsInjective(r)
    <2> SUFFICES ASSUME NEW j \in 1 .. Len(s) - 1, NEW k \in 1 .. Len(s) - 1, r[j] = r[k] PROVE j = k
      BY <1>6 DEF IsInjective
    <2>1. from(j) = from(k)
      BY <1>1, <1>8 DEF IsInjective
    <2> QED
      BY <1>1, <2>1
  <1>10. ToSet(r) \subseteq ToSet(s) \ {s[i]}
    <2> SUFFICES ASSUME NEW j \in 1 .. Len(s) - 1 PROVE r[j] \in ToSet(s) \ {s[i]}
      BY <1>6 DEF ToSet
    <2> QED
      BY <1>1, <1>8 DEF ToSet, IsInjective
  <1>11. ToSet(s) \ {s[i]} \subseteq ToSet(r)
    <2> SUFFICES ASSUME NEW k \in 1 .. Len(s), k # i PROVE s[k] \in ToSet(r)
      BY <1>1 DEF ToSet
    <2>1. PICK j : j = IF k < i THEN k ELSE k - 1
      OBVIOUS
    <2>2. j \in 1 .. Len(s) - 1 /\ from(j) = k
      BY <1>1, <2>1
    <2> QED
      BY <1>6, <1>8, <2>2 DEF ToSet
  <1> QED
    BY <1>5, <1>9, <1>10, <1>11 DEF r

\* Unlinking an element, if it is there.
LEMMA RemoveFirstIs ==
  ASSUME NEW S, NEW s \in Seq(S), IsInjective(s), NEW e
  PROVE  LET r == RemoveFirst(s, e) IN r \in Seq(S) /\ IsInjective(r) /\ ToSet(r) = ToSet(s) \ {e}
  <1>1. Len(s) \in Nat /\ DOMAIN s = 1 .. Len(s)
    BY LenProperties
  <1> DEFINE I == {i \in 1 .. Len(s) : s[i] = e}
  <1>2. CASE I = {}
    <2>1. RemoveFirst(s, e) = s /\ e \notin ToSet(s)
      BY <1>1, <1>2 DEF RemoveFirst, ToSet
    <2> QED
      BY <2>1
  <1>3. CASE I # {}
    <2>0. IsFiniteSet(1 .. Len(s)) /\ I \subseteq 1 .. Len(s)
      BY <1>1, FS_Interval
    <2>1. I \in SUBSET Int /\ IsFiniteSet(I)
      BY <1>1, <2>0, FS_Subset
    <2>2. Min(I) \in I
      BY <1>3, <2>1, MinMaxOf
    <2>3. RemoveFirst(s, e) = RemoveAt(s, Min(I))
      BY <1>3 DEF RemoveFirst, SelectInSeq
    <2>4. Min(I) \in DOMAIN s /\ s[Min(I)] = e
      BY <1>1, <2>2
    <2> HIDE DEF I
    <2> QED
      BY <2>3, <2>4, RemoveAtIs
  <1> QED
    BY <1>2, <1>3

\* An element is appended.
LEMMA AppendIs ==
  ASSUME NEW S, NEW s \in Seq(S), IsInjective(s), NEW e \in S, e \notin ToSet(s)
  PROVE  LET r == Append(s, e) IN r \in Seq(S) /\ IsInjective(r) /\ ToSet(r) = ToSet(s) \cup {e}
  <1> DEFINE r == Append(s, e)
  <1>1. Len(s) \in Nat /\ DOMAIN s = 1 .. Len(s)
    BY LenProperties
  <1>2. r \in Seq(S) /\ Len(r) = Len(s) + 1 /\ (\A i \in 1 .. Len(s) : r[i] = s[i]) /\ r[Len(s) + 1] = e
    BY AppendProperties
  <1> HIDE DEF r
  <1>3. DOMAIN r = 1 .. Len(s) + 1
    BY <1>2, LenProperties
  <1>4. \A i \in 1 .. Len(s) + 1 : i \in 1 .. Len(s) \/ i = Len(s) + 1
    BY <1>1
  <1>5. \A i \in 1 .. Len(s) : s[i] # e /\ i \in 1 .. Len(s) + 1 /\ i # Len(s) + 1
    BY <1>1 DEF ToSet
  <1>6. IsInjective(r)
    <2> SUFFICES ASSUME NEW i \in 1 .. Len(s) + 1, NEW j \in 1 .. Len(s) + 1, r[i] = r[j] PROVE i = j
      BY <1>3 DEF IsInjective
    <2> QED
      BY <1>1, <1>2, <1>4, <1>5 DEF IsInjective
  <1>7. ToSet(r) = ToSet(s) \cup {e}
    <2>1. \A x \in ToSet(r) : x \in ToSet(s) \cup {e}
      BY <1>1, <1>2, <1>3, <1>4 DEF ToSet
    <2>2. \A x \in ToSet(s) : x \in ToSet(r)
      BY <1>1, <1>2, <1>3, <1>5 DEF ToSet
    <2>3. e \in ToSet(r)
      <3>1. Len(s) + 1 \in 1 .. Len(s) + 1
        BY <1>1
      <3> QED
        BY <1>2, <1>3, <3>1 DEF ToSet
    <2> QED
      BY <2>1, <2>2, <2>3
  <1> QED
    BY <1>2, <1>6, <1>7 DEF r

Fits(S, s, e, p) == s \in Seq(S) /\ IsInjective(s) /\ e \in S /\ e \notin ToSet(s) /\ p \in DOMAIN s

Replaced(s, p, e) == [s EXCEPT ![p] = e]

\* An element takes the place of another one.
LEMMA ReplaceIs ==
  ASSUME NEW S, NEW s, NEW e, NEW p, Fits(S, s, e, p)
  PROVE  LET r == Replaced(s, p, e) IN
           r \in Seq(S) /\ IsInjective(r) /\ ToSet(r) = (ToSet(s) \ {s[p]}) \cup {e}
  <1> DEFINE r == [s EXCEPT ![p] = e]
  <1>0. s \in Seq(S) /\ IsInjective(s) /\ e \in S /\ e \notin ToSet(s) /\ p \in DOMAIN s
    BY DEF Fits
  <1>1. Len(s) \in Nat /\ DOMAIN s = 1 .. Len(s)
    BY <1>0, LenProperties
  <1>2. r \in Seq(S)
    BY <1>0, <1>1, ExceptSeq
  <1>3. DOMAIN r = DOMAIN s /\ r[p] = e /\ \A i \in DOMAIN s : i # p => r[i] = s[i]
    BY <1>0
  <1>4. \A i \in DOMAIN s : s[i] # e
    BY <1>0 DEF ToSet
  <1> HIDE DEF r
  <1>5. IsInjective(r)
    BY <1>0, <1>3, <1>4 DEF IsInjective
  <1>6. ToSet(r) = (ToSet(s) \ {s[p]}) \cup {e}
    BY <1>0, <1>3, <1>4 DEF ToSet, IsInjective
  <1> QED
    BY <1>2, <1>5, <1>6 DEF r, Replaced

\* A set of finite sets has a member that includes no other member.
LEMMA LeastSet ==
  ASSUME NEW D, IsFiniteSet(D), NEW B \in SUBSET SUBSET D, B # {}
  PROVE  \E s \in B : \A t \in SUBSET s : t # s => t \notin B
  <1> DEFINE R == {p \in B \X B : p[1] \subseteq p[2] /\ p[1] # p[2]}
  <1>1. IsFiniteSet(B)
    <2>1. IsFiniteSet(SUBSET D)
      BY FS_SUBSET
    <2> QED
      BY <2>1, FS_Subset
  <1>2. \A x \in B : <<x, x>> \notin R
    OBVIOUS
  <1>3. \A x, y, z \in B : <<x, y>> \in R /\ <<y, z>> \in R => <<x, z>> \in R
    <2> SUFFICES ASSUME NEW x \in B, NEW y \in B, NEW z \in B, <<x, y>> \in R, <<y, z>> \in R PROVE <<x, z>> \in R
      OBVIOUS
    <2>1. x \subseteq y /\ x # y /\ y \subseteq z /\ y # z
      OBVIOUS
    <2>2. x \subseteq z /\ x # z
      BY <2>1
    <2> QED
      BY <2>2
  <1>4. PICK s \in B : \A x \in B : <<x, s>> \notin R
    <2> HIDE DEF R
    <2> QED
      BY <1>1, <1>2, <1>3, MinimalExists
  <1>5. \A t \in SUBSET s : t # s => t \notin B
    <2> SUFFICES ASSUME NEW t \in SUBSET s, t # s, t \in B PROVE FALSE
      OBVIOUS
    <2>1. <<t, s>> \in R
      OBVIOUS
    <2> QED
      BY <1>4, <2>1
  <1> QED
    BY <1>5

\* What holds at 0 and at the successor of every number where it holds, holds
\* everywhere.
LEMMA Counting ==
  ASSUME NEW P \in SUBSET Nat, 0 \in P, \A k \in P : k + 1 \in P
  PROVE  P = Nat
  <1> SUFFICES ASSUME Nat \ P # {} PROVE FALSE
    OBVIOUS
  <1> DEFINE L == OpToRel(<, Nat)
             N == Nat \ P
  <1>1. \A x, y \in Nat : x < y => <<x, y>> \in L
    BY DEF OpToRel
  <1>2. IsWellFoundedOn(L, Nat)
    BY NatLessThanWellFounded
  <1>3. PICK n \in N : \A m \in N : <<m, n>> \notin L
    <2>1. N \subseteq Nat /\ N # {}
      OBVIOUS
    <2> HIDE DEF N, L
    <2> QED
      BY <1>2, <2>1, WFMin, Zenon
  <1>4. n # 0 /\ n \in Nat
    OBVIOUS
  <1>5. n - 1 \in Nat /\ n - 1 < n /\ (n - 1) + 1 = n
    BY <1>4
  <1>6. n - 1 \in P
    BY <1>1, <1>3, <1>4, <1>5
  <1> QED
    BY <1>5, <1>6

-----------------------------------------------------------------------------
(* The sum of the charges *)

SumTurn(c, f, s) ==
  IF s = {} THEN 0 ELSE c.h[CHOOSE x \in s : TRUE].charge + f[s \ {CHOOSE x \in s : TRUE}]

SumsUp(c, f, D) == \A s \in SUBSET D : f[s] = SumTurn(c, f, s)

\* The recursion has a solution ...
LEMMA SumExists ==
  ASSUME NEW c, NEW D, IsFiniteSet(D)
  PROVE  \E f : f = [s \in SUBSET D |-> SumTurn(c, f, s)]
  <1> DEFINE Solves(f, k) == f = [s \in SUBSET D |-> f[s]] /\ \A s \in SUBSET D : Cardinality(s) <= k => f[s] = SumTurn(c, f, s)
             P == {k \in Nat : \E f : Solves(f, k)}
  <1>0. \A s \in SUBSET D : IsFiniteSet(s) /\ Cardinality(s) \in Nat /\ (Cardinality(s) = 0 <=> s = {})
    BY FS_Subset, FS_CardinalityType, FS_EmptySet
  <1>1. 0 \in P
    <2>1. PICK f : f = [s \in SUBSET D |-> 0]
      OBVIOUS
    <2>2. ASSUME NEW s \in SUBSET D, Cardinality(s) <= 0 PROVE f[s] = SumTurn(c, f, s)
      <3>1. s = {}
        BY <1>0, <2>2
      <3> QED
        BY <2>1, <3>1 DEF SumTurn
    <2> QED
      BY <2>1, <2>2
  <1>2. ASSUME NEW k \in P PROVE k + 1 \in P
    <2>1. PICK f : Solves(f, k)
      <3> HIDE DEF Solves
      <3> QED
        OBVIOUS
    <2>2. PICK g : g = [s \in SUBSET D |-> SumTurn(c, f, s)]
      OBVIOUS
    <2>3. ASSUME NEW s \in SUBSET D, Cardinality(s) <= k + 1 PROVE g[s] = SumTurn(c, g, s)
      <3>1. CASE s = {}
        BY <2>2, <3>1 DEF SumTurn
      <3>2. CASE s # {}
        <4>1. PICK x : x = CHOOSE y \in s : TRUE
          OBVIOUS
        <4>2. x \in s
          BY <3>2, <4>1
        <4>3. s \ {x} \in SUBSET D /\ Cardinality(s \ {x}) <= k
          <5>1. Cardinality(s \ {x}) = Cardinality(s) - 1
            BY <1>0, <4>2, FS_RemoveElement
          <5> QED
            BY <1>0, <2>3, <5>1
        <4>4. g[s \ {x}] = f[s \ {x}]
          BY <2>1, <2>2, <4>3
        <4>5. g[s] = c.h[x].charge + f[s \ {x}]
          BY <2>2, <3>2, <4>1 DEF SumTurn
        <4> QED
          BY <3>2, <4>1, <4>4, <4>5 DEF SumTurn
      <3> QED
        BY <3>1, <3>2
    <2>4. g = [s \in SUBSET D |-> g[s]]
      BY <2>2
    <2>5. k + 1 \in Nat
      OBVIOUS
    <2>6. Solves(g, k + 1)
      BY <2>3, <2>4
    <2> HIDE DEF Solves
    <2> QED
      BY <2>5, <2>6
  <1>3. Cardinality(D) \in P
    <2>1. P \in SUBSET Nat
      OBVIOUS
    <2> HIDE DEF P
    <2> QED
      BY <1>0, <1>1, <1>2, <2>1, Counting
  <1>4. PICK f : Solves(f, Cardinality(D))
    BY <1>3
  <1>5. \A s \in SUBSET D : f[s] = SumTurn(c, f, s)
    BY <1>4, FS_Subset
  <1>6. f = [s \in SUBSET D |-> SumTurn(c, f, s)]
    BY <1>4, <1>5
  <1> QED
    BY <1>6

\* ... and only one.
LEMMA SumUnique ==
  ASSUME NEW c, NEW D, IsFiniteSet(D), NEW f, NEW g, NEW E, D \subseteq E,
         SumsUp(c, f, D), SumsUp(c, g, E)
  PROVE  \A s \in SUBSET D : f[s] = g[s]
  <1> DEFINE B == {s \in SUBSET D : f[s] # g[s]}
  <1> SUFFICES ASSUME B # {} PROVE FALSE
    OBVIOUS
  <1>1. PICK s \in B : \A t \in SUBSET s : t # s => t \notin B
    <2>1. B \in SUBSET SUBSET D
      OBVIOUS
    <2> HIDE DEF B
    <2> QED
      BY <2>1, LeastSet
  <1>2. s \in SUBSET D /\ s \in SUBSET E /\ f[s] = SumTurn(c, f, s) /\ g[s] = SumTurn(c, g, s)
    BY DEF SumsUp
  <1>3. CASE s = {}
    BY <1>2, <1>3 DEF SumTurn
  <1>4. CASE s # {}
    <2>1. PICK x : x = CHOOSE y \in s : TRUE
      OBVIOUS
    <2>2. x \in s
      BY <1>4, <2>1
    <2>3. f[s \ {x}] = g[s \ {x}]
      BY <1>1, <1>2, <2>2
    <2>4. f[s] = c.h[x].charge + f[s \ {x}] /\ g[s] = c.h[x].charge + g[s \ {x}]
      BY <1>2, <1>4, <2>1 DEF SumTurn
    <2> QED
      BY <1>1, <2>3, <2>4
  <1> QED
    BY <1>3, <1>4

\* So the sum is the charge of some element and the sum of the others.
LEMMA TotalTurn ==
  ASSUME NEW c, NEW S, IsFiniteSet(S)
  PROVE  /\ Total(c, {}) = 0
         /\ S # {} => \E x \in S : Total(c, S) = c.h[x].charge + Total(c, S \ {x})
  <1> DEFINE iter(D) == CHOOSE f : f = [s \in SUBSET D |-> SumTurn(c, f, s)]
  <1>1. \A D : Total(c, D) = iter(D)[D]
    BY DEF Total, MapThenSumSet, MapThenFoldSet, SumTurn
  <1>2. ASSUME NEW D, IsFiniteSet(D) PROVE SumsUp(c, iter(D), D)
    <2>1. PICK f : f = iter(D)
      OBVIOUS
    <2>2. f = [s \in SUBSET D |-> SumTurn(c, f, s)]
      BY <1>2, <2>1, SumExists
    <2> QED
      BY <2>1, <2>2 DEF SumsUp
  <1> HIDE DEF iter
  <1>3. Total(c, {}) = 0
    <2>1. IsFiniteSet({}) /\ {} \in SUBSET {}
      BY FS_EmptySet
    <2> QED
      BY <1>1, <1>2, <2>1 DEF SumsUp, SumTurn
  <1>4. ASSUME S # {} PROVE \E x \in S : Total(c, S) = c.h[x].charge + Total(c, S \ {x})
    <2>1. PICK x : x = CHOOSE y \in S : TRUE
      OBVIOUS
    <2>2. x \in S
      BY <1>4, <2>1
    <2>3. Total(c, S) = c.h[x].charge + iter(S)[S \ {x}]
      BY <1>1, <1>2, <1>4, <2>1 DEF SumsUp, SumTurn
    <2>4. iter(S \ {x})[S \ {x}] = iter(S)[S \ {x}]
      <3>1. IsFiniteSet(S \ {x}) /\ S \ {x} \subseteq S
        BY FS_Subset
      <3>2. PICK f : f = iter(S \ {x})
        OBVIOUS
      <3>3. PICK g : g = iter(S)
        OBVIOUS
      <3>4. SumsUp(c, f, S \ {x}) /\ SumsUp(c, g, S)
        BY <1>2, <3>1, <3>2, <3>3
      <3>5. \A s \in SUBSET (S \ {x}) : f[s] = g[s]
        BY <3>1, <3>4, SumUnique
      <3> QED
        BY <3>2, <3>3, <3>5
    <2> QED
      BY <1>1, <2>2, <2>3, <2>4
  <1> QED
    BY <1>3, <1>4

Charged(c, D, m) == IsFiniteSet(D) /\ \A e \in D : c.h[e].charge \in 0 .. m

\* Every element may be the one, and the sum is a number below a bound.
LEMMA TotalIs ==
  ASSUME NEW c, NEW D, NEW m \in Nat, Charged(c, D, m)
  PROVE  \A S \in SUBSET D :
           /\ Total(c, S) \in Nat /\ Total(c, S) <= Cardinality(S) * m
           /\ \A e \in S : Total(c, S) = c.h[e].charge + Total(c, S \ {e})
  <1> DEFINE Right(S) == /\ Total(c, S) \in Nat /\ Total(c, S) <= Cardinality(S) * m
                         /\ \A e \in S : Total(c, S) = c.h[e].charge + Total(c, S \ {e})
             B == {S \in SUBSET D : ~Right(S)}
  <1>0. IsFiniteSet(D) /\ \A e \in D : c.h[e].charge \in 0 .. m
    BY DEF Charged
  <1> SUFFICES ASSUME B # {} PROVE FALSE
    OBVIOUS
  <1>1. PICK S \in B : \A t \in SUBSET S : t # S => t \notin B
    <2>1. B \in SUBSET SUBSET D
      OBVIOUS
    <2> HIDE DEF B
    <2> QED
      BY <1>0, <2>1, LeastSet
  <1>2. S \in SUBSET D /\ IsFiniteSet(S) /\ Cardinality(S) \in Nat
    BY <1>0, FS_Subset, FS_CardinalityType
  <1>3. \A e \in S : Right(S \ {e}) /\ S \ {e} \in SUBSET D
    BY <1>1, <1>2
  <1>4. \A e \in S : c.h[e].charge \in 0 .. m
    BY <1>0, <1>2
  <1>5. CASE S = {}
    <2>1. Total(c, S) = 0 /\ Cardinality(S) = 0
      BY <1>5, TotalTurn, FS_EmptySet
    <2>2. 0 <= 0 * m /\ 0 \in Nat
      OBVIOUS
    <2>3. Right(S)
      BY <1>5, <2>1, <2>2
    <2> QED
      BY <1>1, <2>3
  <1>6. CASE S # {}
    <2>1. PICK x \in S : Total(c, S) = c.h[x].charge + Total(c, S \ {x})
      BY <1>2, <1>6, TotalTurn
    <2>2. Total(c, S \ {x}) \in Nat /\ c.h[x].charge \in Nat /\ c.h[x].charge <= m
      <3>1. c.h[x].charge \in 0 .. m
        BY <1>4
      <3>2. Right(S \ {x})
        BY <1>3
      <3>3. Total(c, S \ {x}) \in Nat
        BY <3>2
      <3> QED
        BY <3>1, <3>3
    <2>3. Total(c, S) \in Nat
      BY <2>1, <2>2
    <2>4. Total(c, S) <= Cardinality(S) * m
      <3>1. Cardinality(S \ {x}) = Cardinality(S) - 1 /\ Total(c, S \ {x}) <= Cardinality(S \ {x}) * m
        BY <1>2, <1>3, FS_RemoveElement
      <3>2. PICK k \in Nat : k = Cardinality(S)
        BY <1>2
      <3>3. (k - 1) * m + m = k * m
        OBVIOUS
      <3>4. (k - 1) * m \in Int /\ k * m \in Int
        OBVIOUS
      <3> QED
        BY <2>1, <2>2, <3>1, <3>2, <3>3, <3>4
    <2>5. ASSUME NEW e \in S PROVE Total(c, S) = c.h[e].charge + Total(c, S \ {e})
      <3>1. CASE e = x
        BY <2>1, <3>1
      <3>2. CASE e # x
        <4>1. Total(c, S \ {x}) = c.h[e].charge + Total(c, (S \ {x}) \ {e})
          BY <1>3, <3>2
        <4>2. Total(c, S \ {e}) = c.h[x].charge + Total(c, (S \ {e}) \ {x})
          BY <1>3, <3>2
        <4>3. (S \ {x}) \ {e} = (S \ {e}) \ {x}
          OBVIOUS
        <4>4. Right((S \ {x}) \ {e})
          <5>1. (S \ {x}) \ {e} \in SUBSET S /\ (S \ {x}) \ {e} # S /\ (S \ {x}) \ {e} \in SUBSET D
            BY <1>2
          <5> HIDE DEF Right
          <5> QED
            BY <1>1, <5>1
        <4>5. PICK r : r = Total(c, (S \ {x}) \ {e})
          OBVIOUS
        <4>6. r \in Nat /\ c.h[e].charge \in Nat
          <5>1. c.h[e].charge \in 0 .. m
            BY <1>4
          <5> QED
            BY <4>4, <4>5, <5>1
        <4>7. Total(c, S) = c.h[x].charge + (c.h[e].charge + r)
          BY <2>1, <4>1, <4>5
        <4>8. Total(c, S \ {e}) = c.h[x].charge + r
          BY <4>2, <4>3, <4>5
        <4> QED
          BY <2>2, <4>6, <4>7, <4>8
      <3> QED
        BY <3>1, <3>2
    <2> QED
      BY <1>1, <2>3, <2>4, <2>5
  <1> QED
    BY <1>5, <1>6

\* The sum looks at nothing but the charges of its elements.
LEMMA TotalSame ==
  ASSUME NEW c, NEW d, NEW S, IsFiniteSet(S), \A e \in S : d.h[e].charge = c.h[e].charge
  PROVE  Total(d, S) = Total(c, S)
  <1>1. PICK f : f = [s \in SUBSET S |-> SumTurn(c, f, s)]
    BY SumExists
  <1>2. \A s \in SUBSET S : s # {} => (CHOOSE x \in s : TRUE) \in S
    OBVIOUS
  <1>3. SumsUp(d, f, S)
    <2> SUFFICES ASSUME NEW s \in SUBSET S PROVE f[s] = SumTurn(d, f, s)
      BY DEF SumsUp
    <2>1. f[s] = SumTurn(c, f, s)
      BY <1>1
    <2> QED
      BY <1>2, <2>1 DEF SumTurn
  <1>4. ASSUME NEW a, SumsUp(a, f, S) PROVE Total(a, S) = f[S]
    <2> DEFINE iter == CHOOSE g : g = [s \in SUBSET S |-> SumTurn(a, g, s)]
    <2>1. Total(a, S) = iter[S]
      BY DEF Total, MapThenSumSet, MapThenFoldSet, SumTurn
    <2>2. iter = [s \in SUBSET S |-> SumTurn(a, iter, s)]
      BY SumExists
    <2>3. PICK g : g = iter
      OBVIOUS
    <2>4. SumsUp(a, g, S)
      BY <2>2, <2>3 DEF SumsUp
    <2> HIDE DEF iter
    <2>5. \A s \in SUBSET S : f[s] = g[s]
      BY <1>4, <2>4, SumUnique
    <2> QED
      BY <2>1, <2>3, <2>5
  <1>5. SumsUp(c, f, S)
    BY <1>1 DEF SumsUp
  <1>6. Total(c, S) = f[S] /\ Total(d, S) = f[S]
    BY <1>3, <1>4, <1>5
  <1> QED
    BY <1>6

\* A sequence of elements of a set is one of that set.
LEMMA SeqInto ==
  ASSUME NEW S, NEW s \in Seq(S), NEW A, ToSet(s) \subseteq A
  PROVE  s \in Seq(A)
  <1>1. Len(s) \in Nat /\ s \in [1 .. Len(s) -> S] /\ DOMAIN s = 1 .. Len(s)
    BY LenProperties
  <1>2. \A i \in 1 .. Len(s) : s[i] \in ToSet(s)
    BY <1>1 DEF ToSet
  <1>3. s \in [1 .. Len(s) -> A]
    BY <1>1, <1>2
  <1> QED
    BY <1>1, <1>3, SeqDef

-----------------------------------------------------------------------------
(* The hash table *)

\* A key has a bucket.
LEMMA ModIs == ASSUME NEW a \in Nat, NEW n \in Nat \ {0} PROVE a % n \in 0 .. n - 1
  OBVIOUS

\* The handles are finitely many, and those in the cache have their fields.
LEMMA CachedFacts ==
  ASSUME NEW c, CacheType(c)
  PROVE  /\ IsFiniteSet(Handles) /\ Handles \subseteq Nat /\ 0 \notin Handles
         /\ IsFiniteSet(Cached(c)) /\ Cached(c) \subseteq Handles
         /\ \A e \in Handles : c.h[e] # Free => c.h[e] \in LRUHandle
         /\ \A e \in Handles : c.h[e] # Free =>
              /\ c.h[e].key \in Nat /\ c.h[e].key \in Files /\ c.h[e].refs \in Nat \ {0}
              /\ c.h[e].in_cache \in BOOLEAN /\ c.h[e].charge \in Charges /\ c.h[e].charge \in Nat
         /\ \A e \in Cached(c) : c.h[e] # Free /\ c.h[e].in_cache
  <1>1. IsFiniteSet(Handles) /\ Handles \subseteq Nat /\ 0 \notin Handles
    BY CacheAssumption, FS_Interval DEF Handles
  <1>2. Cached(c) \subseteq Handles /\ IsFiniteSet(Cached(c))
    BY <1>1, FS_Subset DEF Cached
  <1>3. \A e \in Handles : c.h[e] # Free => c.h[e] \in LRUHandle
    BY DEF CacheType
  <1>4. \A v \in LRUHandle : /\ v.key \in Nat /\ v.key \in Files /\ v.refs \in Nat \ {0}
                             /\ v.in_cache \in BOOLEAN /\ v.charge \in Charges /\ v.charge \in Nat
    BY CacheAssumption DEF LRUHandle
  <1> QED
    BY <1>1, <1>2, <1>3, <1>4 DEF Cached

\* The marker of a handle that is not allocated is no handle's data.
LEMMA HandleIsNotFree == Free \notin LRUHandle
  <1> SUFFICES ASSUME Free \in LRUHandle PROVE FALSE
    OBVIOUS
  <1>1. LRUHandle \subseteq [key : Nat, refs : Nat, in_cache : BOOLEAN, charge : Nat]
    BY CacheAssumption DEF LRUHandle
  <1> QED
    BY <1>1, FreeAssumption

\* FindPointer finds the key, or the end of its bucket.
LEMMA FindPointerIs ==
  ASSUME NEW c, CacheType(c), NEW T, HoldsInTable(c, T), NEW key \in Nat,
         NEW b, b = Bucket(c, key), NEW p, p = FindPointer(c, key), NEW e, e = TableLookup(c, key)
  PROVE  /\ b \in DOMAIN c.list_
         /\ \/ p = Len(c.list_[b]) + 1 /\ e = 0 /\ \A x \in T : c.h[x].key # key
            \/ p \in DOMAIN c.list_[b] /\ c.list_[b][p] = e /\ e \in T /\ c.h[e].key = key
  <1>1. b \in DOMAIN c.list_ /\ b = key % length_(c)
    BY ModIs DEF HoldsInTable, Bucket
  <1>2. PICK s : s = c.list_[b]
    OBVIOUS
  <1>3. s \in Seq(T) /\ ToSet(s) = {x \in T : Bucket(c, c.h[x].key) = b}
    BY <1>1, <1>2 DEF HoldsInTable
  <1>4. Len(s) \in Nat /\ DOMAIN s = 1 .. Len(s) /\ \A i \in 1 .. Len(s) : s[i] \in T
    BY <1>3, LenProperties, ElementOfSeq
  <1> DEFINE I == {i \in 1 .. Len(s) : c.h[s[i]].key = key}
  <1>5. p = LET i == IF I # {} THEN Min(I) ELSE 0 IN IF i = 0 THEN Len(s) + 1 ELSE i
    <2>1. PICK t : t = c.list_[Bucket(c, key)]
      OBVIOUS
    <2>2. p = LET i == SelectInSeq(t, LAMBDA x : c.h[x].key = key) IN IF i = 0 THEN Len(t) + 1 ELSE i
      BY <2>1 DEF FindPointer
    <2>3. t = s
      BY <1>2, <2>1
    <2> QED
      BY <2>2, <2>3 DEF SelectInSeq
  <1>6. e = IF p > Len(s) THEN 0 ELSE s[p]
    BY <1>2 DEF TableLookup, Bucket
  <1>7. CASE I = {}
    <2>1. p = Len(s) + 1
      BY <1>5, <1>7
    <2>2. e = 0
      BY <1>4, <1>6, <2>1
    <2>3. ASSUME NEW x \in T, c.h[x].key = key PROVE FALSE
      <3>1. x \in ToSet(s)
        BY <1>3, <2>3
      <3>2. PICK i \in DOMAIN s : s[i] = x
        BY <3>1 DEF ToSet
      <3> QED
        BY <1>4, <1>7, <2>3, <3>2
    <2> QED
      BY <1>1, <1>2, <2>1, <2>2, <2>3
  <1>8. CASE I # {}
    <2>0. IsFiniteSet(1 .. Len(s)) /\ I \subseteq 1 .. Len(s)
      BY <1>4, FS_Interval
    <2>1. I \in SUBSET Int /\ IsFiniteSet(I)
      BY <1>4, <2>0, FS_Subset
    <2>2. Min(I) \in I
      BY <1>8, <2>1, MinMaxOf
    <2>3. Min(I) \in 1 .. Len(s) /\ c.h[s[Min(I)]].key = key
      BY <2>2
    <2> HIDE DEF I
    <2>4. p = Min(I)
      BY <1>4, <1>5, <1>8, <2>3
    <2>5. e = s[p]
      BY <1>4, <1>6, <2>3, <2>4
    <2> QED
      BY <1>1, <1>2, <1>4, <2>3, <2>4, <2>5
  <1> QED
    BY <1>7, <1>8

\* Lookup finds the entry of the key, whatever the order of its bucket.
LEMMA LookupIs ==
  ASSUME NEW c, CacheType(c), NEW T, HoldsInTable(c, T), NEW key \in Nat
  PROVE  /\ TableLookup(c, key) = 0 => \A x \in T : c.h[x].key # key
         /\ TableLookup(c, key) # 0 => TableLookup(c, key) \in T /\ c.h[TableLookup(c, key)].key = key
         /\ \A x \in T : c.h[x].key = key => TableLookup(c, key) = x
  <1>1. 0 \notin T
    BY CachedFacts DEF HoldsInTable
  <1>2. PICK e : e = TableLookup(c, key)
    OBVIOUS
  <1>3. \/ e = 0 /\ \A x \in T : c.h[x].key # key
        \/ e \in T /\ c.h[e].key = key
    BY <1>2, FindPointerIs
  <1> QED
    BY <1>1, <1>2, <1>3 DEF HoldsInTable

\* What does not touch the table leaves it as it is.
LEMMA TableSame ==
  ASSUME NEW c, NEW d, NEW T, HoldsInTable(c, T), d.list_ = c.list_, d.elems_ = c.elems_,
         T \subseteq Cached(d), \A x \in T : d.h[x].key = c.h[x].key
  PROVE  HoldsInTable(d, T)
  <1>1. length_(d) = length_(c) /\ \A x \in T : Bucket(d, d.h[x].key) = Bucket(c, c.h[x].key)
    BY DEF length_, Bucket
  <1>2. \A b : {x \in T : Bucket(d, d.h[x].key) = b} = {x \in T : Bucket(c, c.h[x].key) = b}
    BY <1>1
  <1> HIDE DEF length_
  <1> QED
    BY <1>1, <1>2 DEF HoldsInTable

OnlyTable(c, d) ==
  /\ DOMAIN d = DOMAIN c /\ d.h = c.h /\ d.lru_ = c.lru_ /\ d.in_use_ = c.in_use_ /\ d.usage_ = c.usage_

\* HandleTable::Remove takes the entry of the key out.
LEMMA TableRemoveIs ==
  ASSUME NEW c, CacheType(c), NEW T, HoldsInTable(c, T), NEW key \in Nat, NEW e, e = TableLookup(c, key),
         NEW d, d = TableRemove(c, key)
  PROVE  OnlyTable(c, d) /\ HoldsInTable(d, T \ {e})
  <1>1. CASE e = 0
    <2>1. d = c
      BY <1>1 DEF TableRemove
    <2>2. T \ {e} = T
      BY <1>1, CachedFacts DEF HoldsInTable
    <2> QED
      BY <2>1, <2>2 DEF OnlyTable
  <1>2. CASE e # 0
    <2>1. PICK b : b = Bucket(c, key)
      OBVIOUS
    <2>2. PICK p : p = FindPointer(c, key)
      OBVIOUS
    <2>3. b \in DOMAIN c.list_ /\ p \in DOMAIN c.list_[b] /\ c.list_[b][p] = e /\ e \in T /\ c.h[e].key = key
      BY <1>2, <2>1, <2>2, FindPointerIs
    <2>4. PICK s : s = RemoveAt(c.list_[b], p)
      OBVIOUS
    <2>5. d = [c EXCEPT !.list_[b] = s, !.elems_ = @ - 1]
      BY <1>2, <2>1, <2>2, <2>4 DEF TableRemove
    <2>6. OnlyTable(c, d) /\ d.elems_ = c.elems_ - 1 /\ d.list_ = [c.list_ EXCEPT ![b] = s]
      BY <2>5 DEF CacheType, OnlyTable
    <2>7. s \in Seq(T) /\ IsInjective(s) /\ ToSet(s) = ToSet(c.list_[b]) \ {e}
      BY <2>3, <2>4, RemoveAtIs DEF HoldsInTable
    <2>8. DOMAIN d.list_ = DOMAIN c.list_ /\ length_(d) = length_(c)
      BY <2>6 DEF length_
    <2>9. Cached(d) = Cached(c) /\ \A x : Bucket(d, d.h[x].key) = Bucket(c, c.h[x].key)
      BY <2>6, <2>8 DEF Cached, Bucket, OnlyTable
    <2>10. ASSUME NEW a \in DOMAIN d.list_
           PROVE  /\ d.list_[a] \in Seq(T \ {e}) /\ IsInjective(d.list_[a])
                  /\ ToSet(d.list_[a]) = {x \in T \ {e} : Bucket(d, d.h[x].key) = a}
      <3>1. ToSet(c.list_[a]) = {x \in T : Bucket(c, c.h[x].key) = a} /\ c.list_[a] \in Seq(T) /\ IsInjective(c.list_[a])
        BY <2>8 DEF HoldsInTable
      <3>2. Bucket(c, c.h[e].key) = b
        BY <2>1, <2>3
      <3>3. d.list_[a] \in Seq(T) /\ IsInjective(d.list_[a]) /\ ToSet(d.list_[a]) = ToSet(c.list_[a]) \ {e}
        <4>1. CASE a = b
          BY <2>3, <2>6, <2>7, <4>1
        <4>2. CASE a # b
          <5>1. d.list_[a] = c.list_[a]
            BY <2>6, <2>8, <4>2
          <5>2. e \notin ToSet(c.list_[a])
            BY <3>1, <3>2, <4>2
          <5> QED
            BY <3>1, <5>1, <5>2
        <4> QED
          BY <4>1, <4>2
      <3>4. d.list_[a] \in Seq(T \ {e})
        <4>1. ToSet(d.list_[a]) \subseteq T \ {e}
          BY <3>1, <3>3
        <4> QED
          BY <3>3, <4>1, SeqInto
      <3> QED
        BY <2>9, <3>1, <3>3, <3>4
    <2>11. d.elems_ = Cardinality(T \ {e})
      <3>1. IsFiniteSet(T) /\ c.elems_ = Cardinality(T)
        BY CachedFacts, FS_Subset DEF HoldsInTable
      <3> QED
        BY <2>3, <2>6, <3>1, FS_RemoveElement
    <2>12. /\ length_(d) \in Nat \ {0} /\ DOMAIN d.list_ = 0 .. length_(d) - 1 /\ T \ {e} \subseteq Cached(d)
           /\ \A x, y \in T \ {e} : d.h[x].key = d.h[y].key => x = y
      BY <2>6, <2>8, <2>9 DEF HoldsInTable, OnlyTable
    <2> QED
      BY <2>6, <2>10, <2>11, <2>12 DEF HoldsInTable
  <1> QED
    BY <1>1, <1>2

\* Resize keeps the entries.
LEMMA ResizeIs ==
  ASSUME NEW c, CacheType(c), NEW T, HoldsInTable(c, T), NEW d, d = Resize(c)
  PROVE  OnlyTable(c, d) /\ HoldsInTable(d, T)
  <1>0. /\ T \subseteq Handles /\ IsFiniteSet(T) /\ T \subseteq Cached(c)
        /\ \A x \in T : c.h[x].key \in Nat
    BY CachedFacts, FS_Subset DEF HoldsInTable
  <1>1. PICK n : n = 2 * length_(c)
    OBVIOUS
  <1>2. n \in Nat \ {0} /\ length_(c) \in Nat \ {0} /\ DOMAIN c.list_ = 0 .. length_(c) - 1
    BY <1>1 DEF HoldsInTable
  <1> DEFINE bkt(x) == Bucket(c, c.h[x].key)
             place(x) == FindPointer(c, c.h[x].key)
             part(b) == {e \in T : c.h[e].key % n = b}
             R == {p \in T \X T : VisitedAfter(c, p[1], p[2])}
  <1>3. ASSUME NEW x \in T
        PROVE  /\ bkt(x) \in DOMAIN c.list_ /\ bkt(x) \in Int
               /\ place(x) \in DOMAIN c.list_[bkt(x)] /\ place(x) \in Int /\ c.list_[bkt(x)][place(x)] = x
    <2>1. TableLookup(c, c.h[x].key) = x /\ c.h[x].key \in Nat /\ x # 0
      BY <1>0, LookupIs, CachedFacts
    <2>2. bkt(x) \in DOMAIN c.list_ /\ place(x) \in DOMAIN c.list_[bkt(x)] /\ c.list_[bkt(x)][place(x)] = x
      BY <2>1, FindPointerIs
    <2>3. DOMAIN c.list_[bkt(x)] = 1 .. Len(c.list_[bkt(x)])
      BY <2>2, LenProperties DEF HoldsInTable
    <2> HIDE DEF bkt, place
    <2>4. bkt(x) \in Int /\ place(x) \in Int
      BY <1>2, <2>2, <2>3
    <2> QED
      BY <2>2, <2>4
  <1>4. UNION {ToSet(c.list_[a]) : a \in DOMAIN c.list_} = T
    <2>1. \A a \in DOMAIN c.list_ : ToSet(c.list_[a]) \subseteq T
      BY DEF HoldsInTable
    <2>2. ASSUME NEW x \in T PROVE x \in ToSet(c.list_[bkt(x)]) /\ bkt(x) \in DOMAIN c.list_
      BY <1>3 DEF ToSet
    <2> HIDE DEF bkt
    <2> QED
      BY <2>1, <2>2
  <1>5. /\ \A x, y \in T : <<x, y>> \in R <=> bkt(x) > bkt(y) \/ (bkt(x) = bkt(y) /\ place(x) > place(y))
    BY DEF VisitedAfter
  <1> HIDE DEF R, bkt, place
  <1>6. /\ \A x \in T : <<x, x>> \notin R
        /\ \A x, y \in T : x # y => <<x, y>> \in R \/ <<y, x>> \in R
    <2>1. ASSUME NEW x \in T PROVE <<x, x>> \notin R
      BY <1>3, <1>5
    <2>2. ASSUME NEW x \in T, NEW y \in T, x # y PROVE <<x, y>> \in R \/ <<y, x>> \in R
      <3>1. bkt(x) # bkt(y) \/ place(x) # place(y)
        BY <1>3, <2>2
      <3>2. bkt(x) \in Int /\ bkt(y) \in Int /\ place(x) \in Int /\ place(y) \in Int
        BY <1>3
      <3> QED
        BY <1>5, <3>1, <3>2
    <2> QED
      BY <2>1, <2>2
  <1>7. \A x, y, z \in T : <<x, y>> \in R /\ <<y, z>> \in R => <<x, z>> \in R
    <2> SUFFICES ASSUME NEW x \in T, NEW y \in T, NEW z \in T, <<x, y>> \in R, <<y, z>> \in R PROVE <<x, z>> \in R
      OBVIOUS
    <2>1. /\ bkt(x) \in Int /\ bkt(y) \in Int /\ bkt(z) \in Int
          /\ place(x) \in Int /\ place(y) \in Int /\ place(z) \in Int
      BY <1>3
    <2> QED
      BY <1>5, <2>1
  <1>8. PICK filled : filled = [b \in 0 .. n - 1 |-> RankedBy(part(b), R)]
    OBVIOUS
  <1>9. d = [c EXCEPT !.list_ = filled]
    <2>1. \A b : {e \in UNION {ToSet(c.list_[a]) : a \in DOMAIN c.list_} : c.h[e].key % n = b} = part(b)
      BY <1>4
    <2>2. \A b : \A e \in part(b) : {x \in part(b) : VisitedAfter(c, x, e)} = {x \in part(b) : <<x, e>> \in R}
      BY DEF R
    <2> DEFINE was(b) == {e \in UNION {ToSet(c.list_[a]) : a \in DOMAIN c.list_} : c.h[e].key % n = b}
               seq(S) == [i \in 1 .. Cardinality(S) |->
                            CHOOSE e \in S : Cardinality({x \in S : VisitedAfter(c, x, e)}) = i - 1]
    <2>3. d = [c EXCEPT !.list_ = [b \in 0 .. n - 1 |-> seq(was(b))]]
      BY <1>1 DEF Resize
    <2>4. ASSUME NEW b \in 0 .. n - 1 PROVE seq(was(b)) = RankedBy(part(b), R)
      <3>1. was(b) = part(b)
        BY <2>1
      <3>2. PICK S : S = part(b)
        OBVIOUS
      <3>3. S \subseteq T /\ \A e \in S : {x \in S : VisitedAfter(c, x, e)} = {x \in S : <<x, e>> \in R}
        BY <2>2, <3>2
      <3>4. ASSUME NEW i \in 1 .. Cardinality(S)
            PROVE  (CHOOSE e \in S : Cardinality({x \in S : VisitedAfter(c, x, e)}) = i - 1)
                     = (CHOOSE e \in S : Cardinality({x \in S : <<x, e>> \in R}) = i - 1)
        <4>1. \A e : (e \in S /\ Cardinality({x \in S : VisitedAfter(c, x, e)}) = i - 1)
                     <=> (e \in S /\ Cardinality({x \in S : <<x, e>> \in R}) = i - 1)
          BY <3>3
        <4> QED
          BY <4>1
      <3>5. seq(S) = RankedBy(S, R)
        <4> DEFINE left(i) == CHOOSE e \in S : Cardinality({x \in S : VisitedAfter(c, x, e)}) = i - 1
                   right(i) == CHOOSE e \in S : Cardinality({x \in S : <<x, e>> \in R}) = i - 1
        <4>1. seq(S) = [i \in 1 .. Cardinality(S) |-> left(i)] /\ RankedBy(S, R) = [i \in 1 .. Cardinality(S) |-> right(i)]
          BY DEF RankedBy
        <4>2. \A i \in 1 .. Cardinality(S) : left(i) = right(i)
          BY <3>4
        <4> HIDE DEF left, right, seq
        <4> QED
          BY <4>1, <4>2
      <3> HIDE DEF seq, was, part
      <3> QED
        BY <3>1, <3>2, <3>5
    <2> HIDE DEF seq, was, part
    <2> QED
      BY <1>8, <2>3, <2>4
  <1>10. OnlyTable(c, d) /\ d.elems_ = c.elems_ /\ d.list_ = filled
    BY <1>9 DEF CacheType, OnlyTable
  <1>11. DOMAIN filled = 0 .. n - 1 /\ length_(d) = n
    <2>1. DOMAIN filled = 0 .. n - 1
      BY <1>8
    <2>2. Cardinality(0 .. n - 1) = n
      <3>1. 0 \in Int /\ n - 1 \in Int
        BY <1>2
      <3>2. Cardinality(0 .. n - 1) = IF 0 > n - 1 THEN 0 ELSE (n - 1) - 0 + 1
        BY <3>1, FS_Interval
      <3> QED
        BY <1>2, <3>2
    <2> QED
      BY <1>10, <2>1, <2>2 DEF length_
  <1>12. ASSUME NEW b \in 0 .. n - 1
         PROVE  filled[b] \in Seq(T) /\ IsInjective(filled[b]) /\ ToSet(filled[b]) = part(b)
    <2>1. PICK S : S = part(b)
      OBVIOUS
    <2>2. S \subseteq T /\ IsFiniteSet(S)
      BY <1>0, <2>1, FS_Subset
    <2>3. PICK s : s = RankedBy(S, R)
      OBVIOUS
    <2>4. filled[b] = s
      BY <1>8, <2>1, <2>3
    <2>5. /\ \A x \in S : <<x, x>> \notin R
          /\ \A x, y, z \in S : <<x, y>> \in R /\ <<y, z>> \in R => <<x, z>> \in R
          /\ \A x, y \in S : x # y => <<x, y>> \in R \/ <<y, x>> \in R
      BY <1>6, <1>7, <2>2
    <2>6. s \in Seq(S) /\ IsInjective(s) /\ ToSet(s) = S
      BY <2>2, <2>3, <2>5, Ranked
    <2> HIDE DEF part
    <2>7. s \in Seq(T)
      BY <2>2, <2>6, SeqMonotonic
    <2> QED
      BY <2>1, <2>4, <2>6, <2>7
  <1>13. ASSUME NEW b \in 0 .. n - 1 PROVE part(b) = {x \in T : Bucket(d, d.h[x].key) = b}
    BY <1>10, <1>11 DEF Bucket, OnlyTable
  <1> HIDE DEF part
  <1>14. /\ length_(d) \in Nat \ {0} /\ DOMAIN d.list_ = 0 .. length_(d) - 1
         /\ T \subseteq Cached(d) /\ \A x, y \in T : d.h[x].key = d.h[y].key => x = y
    BY <1>2, <1>10, <1>11 DEF HoldsInTable, OnlyTable, Cached
  <1>15. d.elems_ = Cardinality(T)
    BY <1>10 DEF HoldsInTable
  <1>16. ASSUME NEW b \in DOMAIN d.list_
         PROVE  /\ d.list_[b] \in Seq(T) /\ IsInjective(d.list_[b])
                /\ ToSet(d.list_[b]) = {x \in T : Bucket(d, d.h[x].key) = b}
    BY <1>10, <1>11, <1>12, <1>13
  <1> QED
    BY <1>10, <1>14, <1>15, <1>16 DEF HoldsInTable

\* HandleTable::Insert puts an entry in, in the place of one with its key.
LEMMA TableInsertIs ==
  ASSUME NEW c, CacheType(c), NEW T, HoldsInTable(c, T), NEW e \in Cached(c), e \notin T,
         NEW was, was = TableLookup(c, c.h[e].key), NEW d, d = TableInsert(c, e)
  PROVE  OnlyTable(c, d) /\ HoldsInTable(d, (T \ {was}) \cup {e})
  <1>0. /\ T \subseteq Handles /\ IsFiniteSet(T) /\ T \subseteq Cached(c) /\ c.h[e].key \in Nat
        /\ 0 \notin T /\ Cardinality(T) \in Nat /\ c.elems_ = Cardinality(T)
    <2>1. T \subseteq Cached(c) /\ c.elems_ = Cardinality(T)
      BY DEF HoldsInTable
    <2>2. IsFiniteSet(T)
      BY <2>1, CachedFacts, FS_Subset
    <2> QED
      BY <2>1, <2>2, CachedFacts, FS_CardinalityType
  <1>1. PICK key : key = c.h[e].key
    OBVIOUS
  <1>2. PICK b : b = Bucket(c, key)
    OBVIOUS
  <1>3. PICK p : p = FindPointer(c, key)
    OBVIOUS
  <1> DEFINE t == c.list_[b]
             U == (T \ {was}) \cup {e}
  <1>4. /\ b \in DOMAIN c.list_
        /\ \/ p = Len(t) + 1 /\ was = 0 /\ \A x \in T : c.h[x].key # key
           \/ p \in DOMAIN t /\ t[p] = was /\ was \in T /\ c.h[was].key = key
    BY <1>0, <1>1, <1>2, <1>3, FindPointerIs
  <1>5. t \in Seq(T) /\ IsInjective(t) /\ ToSet(t) = {x \in T : Bucket(c, c.h[x].key) = b} /\ e \notin ToSet(t)
    BY <1>4 DEF HoldsInTable
  <1> DEFINE s == IF was = 0 THEN Append(t, e) ELSE [t EXCEPT ![p] = e]
             d1 == [c EXCEPT !.list_[b] = s, !.elems_ = @ + (IF was = 0 THEN 1 ELSE 0)]
  <1>6. d = IF was = 0 /\ d1.elems_ > length_(d1) THEN Resize(d1) ELSE d1
    BY <1>1, <1>2, <1>3 DEF TableInsert
  <1>7. s \in Seq(T \cup {e}) /\ IsInjective(s) /\ ToSet(s) = (ToSet(t) \ {was}) \cup {e}
    <2>1. t \in Seq(T \cup {e}) /\ e \in T \cup {e}
      BY <1>5, SeqMonotonic
    <2> HIDE DEF t
    <2>2. CASE was = 0
      <3>1. s = Append(t, e) /\ ToSet(t) \ {was} = ToSet(t)
        BY <1>0, <1>5, <2>2
      <3> HIDE DEF s
      <3> QED
        BY <1>5, <2>1, <3>1, AppendIs
    <2>3. CASE was # 0
      <3>1. PICK X : X = T \cup {e}
        OBVIOUS
      <3>2. PICK t1 : t1 = t
        OBVIOUS
      <3>3. PICK r : r = Replaced(t1, p, e)
        OBVIOUS
      <3>4. p \in DOMAIN t1 /\ t1[p] = was
        BY <1>4, <2>3, <3>2 DEF t
      <3>5. Fits(X, t1, e, p)
        BY <1>5, <2>1, <3>1, <3>2, <3>4 DEF Fits
      <3>6. r \in Seq(X) /\ IsInjective(r) /\ ToSet(r) = (ToSet(t1) \ {t1[p]}) \cup {e}
        BY <3>3, <3>5, ReplaceIs
      <3>7. s = r
        BY <2>3, <3>2, <3>3 DEF Replaced
      <3> HIDE DEF s
      <3> QED
        BY <3>1, <3>2, <3>4, <3>6, <3>7
    <2> QED
      BY <2>2, <2>3
  <1> HIDE DEF s
  <1>8. OnlyTable(c, d1) /\ d1.elems_ = c.elems_ + (IF was = 0 THEN 1 ELSE 0) /\ d1.list_ = [c.list_ EXCEPT ![b] = s]
    BY DEF CacheType, OnlyTable
  <1> HIDE DEF d1, t
  <1>9. DOMAIN d1.list_ = DOMAIN c.list_ /\ length_(d1) = length_(c)
    BY <1>8 DEF length_
  <1>10. Cached(d1) = Cached(c) /\ \A x : Bucket(d1, d1.h[x].key) = Bucket(c, c.h[x].key)
    BY <1>8, <1>9 DEF Cached, Bucket, OnlyTable
  <1>11. Bucket(c, c.h[e].key) = b /\ (was # 0 => was \in T /\ Bucket(c, c.h[was].key) = b)
    BY <1>1, <1>2, <1>4
  <1>12. ASSUME NEW a \in DOMAIN d1.list_
         PROVE  /\ d1.list_[a] \in Seq(U) /\ IsInjective(d1.list_[a])
                /\ ToSet(d1.list_[a]) = {x \in U : Bucket(d1, d1.h[x].key) = a}
    <2>1. ToSet(c.list_[a]) = {x \in T : Bucket(c, c.h[x].key) = a} /\ c.list_[a] \in Seq(T) /\ IsInjective(c.list_[a])
      BY <1>9 DEF HoldsInTable
    <2>2. CASE a = b
      <3>1. d1.list_[a] = s
        BY <1>4, <1>8, <2>2
      <3>2. ToSet(s) = {x \in U : Bucket(c, c.h[x].key) = a}
        BY <1>5, <1>7, <1>11, <2>2
      <3> QED
        BY <1>7, <1>10, <3>1, <3>2, SeqInto
    <2>3. CASE a # b
      <3>1. d1.list_[a] = c.list_[a]
        BY <1>8, <1>9, <2>3
      <3>2. e \notin ToSet(c.list_[a]) /\ was \notin ToSet(c.list_[a])
        BY <1>0, <1>11, <2>1, <2>3
      <3>3. ToSet(c.list_[a]) = {x \in U : Bucket(c, c.h[x].key) = a}
        BY <1>11, <2>1, <2>3, <3>2
      <3> QED
        BY <1>10, <2>1, <3>1, <3>3, SeqInto
    <2> QED
      BY <2>2, <2>3
  <1>13. d1.elems_ = Cardinality(U) /\ d1.elems_ \in Nat
    <2>1. CASE was = 0
      <3>1. U = T \cup {e}
        BY <1>0, <2>1
      <3>2. Cardinality(U) = Cardinality(T) + 1
        BY <1>0, <3>1, FS_AddElement
      <3> QED
        BY <1>0, <1>8, <2>1, <3>2
    <2>2. CASE was # 0
      <3>1. was \in T /\ e \notin T \ {was}
        BY <1>4, <2>2
      <3>2. IsFiniteSet(T \ {was}) /\ Cardinality(T \ {was}) = Cardinality(T) - 1
        BY <1>0, <3>1, FS_RemoveElement
      <3>3. Cardinality(U) = Cardinality(T \ {was}) + 1
        BY <3>1, <3>2, FS_AddElement
      <3> QED
        BY <1>0, <1>8, <2>2, <3>2, <3>3
    <2> QED
      BY <2>1, <2>2
  <1>14. /\ length_(d1) \in Nat \ {0} /\ DOMAIN d1.list_ = 0 .. length_(d1) - 1 /\ U \subseteq Cached(d1)
         /\ \A x, y \in U : d1.h[x].key = d1.h[y].key => x = y
    <2>1. length_(d1) \in Nat \ {0} /\ DOMAIN d1.list_ = 0 .. length_(d1) - 1 /\ U \subseteq Cached(d1)
      BY <1>0, <1>9, <1>10 DEF HoldsInTable
    <2>2. \A x \in T \ {was} : c.h[x].key # c.h[e].key
      BY <1>1, <1>4 DEF HoldsInTable
    <2>3. \A x, y \in U : c.h[x].key = c.h[y].key => x = y
      BY <2>2 DEF HoldsInTable
    <2> QED
      BY <1>8, <2>1, <2>3 DEF OnlyTable
  <1> HIDE DEF U
  <1>15. HoldsInTable(d1, U)
    BY <1>12, <1>13, <1>14 DEF HoldsInTable
  <1>16. CacheType(d1)
    BY <1>8, <1>13 DEF CacheType, OnlyTable
  <1>17. OnlyTable(d1, Resize(d1)) /\ HoldsInTable(Resize(d1), U)
    BY <1>15, <1>16, ResizeIs
  <1>18. OnlyTable(c, d) /\ HoldsInTable(d, U)
    BY <1>6, <1>8, <1>15, <1>17 DEF OnlyTable
  <1> QED
    BY <1>18 DEF U

-----------------------------------------------------------------------------
(* Reference counts and the two lists *)

\* The clients' references: n[e] of them to a handle.
Good(c, T, n) == CacheType(c) /\ HoldsInTable(c, T) /\ CountsAgree(c, n)

\* Unlinking from a list keeps it a list.
LEMMA LruWithout ==
  ASSUME NEW s, s \in Seq(Handles), IsInjective(s), NEW e, NEW r, r = RemoveFirst(s, e)
  PROVE  r \in Seq(Handles) /\ IsInjective(r) /\ ToSet(r) = ToSet(s) \ {e}
  BY RemoveFirstIs

\* The charges are numbers, so the sum is.
LEMMA UsageIs ==
  ASSUME NEW c, CacheType(c), NEW S \in SUBSET Cached(c)
  PROVE  /\ Total(c, S) \in Nat /\ \A e \in S : Total(c, S) = c.h[e].charge + Total(c, S \ {e})
         /\ Total(c, S) <= Cardinality(S) * Max(Charges)
  <1>1. Charges \in SUBSET Int /\ Max(Charges) \in Charges /\ \A x \in Charges : Max(Charges) >= x
    BY CacheAssumption, MinMaxOf
  <1>2. Max(Charges) \in Nat
    BY <1>1, CacheAssumption
  <1>3. \A e \in Cached(c) : c.h[e].charge \in 0 .. Max(Charges)
    <2> SUFFICES ASSUME NEW e \in Cached(c) PROVE c.h[e].charge \in 0 .. Max(Charges)
      OBVIOUS
    <2>1. c.h[e].charge \in Charges /\ c.h[e].charge \in Nat
      BY CachedFacts
    <2> QED
      BY <1>1, <1>2, <2>1
  <1>4. PICK mx \in Nat : mx = Max(Charges)
    BY <1>2
  <1>5. PICK D : D = Cached(c)
    OBVIOUS
  <1>6. Charged(c, D, mx)
    BY <1>2, <1>3, <1>4, <1>5, CachedFacts DEF Charged
  <1>7. S \in SUBSET D
    BY <1>5
  <1>8. /\ Total(c, S) \in Nat /\ Total(c, S) <= Cardinality(S) * mx
        /\ \A e \in S : Total(c, S) = c.h[e].charge + Total(c, S \ {e})
    BY <1>6, <1>7, TotalIs
  <1> QED
    BY <1>4, <1>8

References(n, e, k) == [n EXCEPT ![e] = k]

\* A client refers to an entry of the cache once more.
LEMMA RefIs ==
  ASSUME NEW c, NEW n \in [Handles -> Nat], Good(c, Cached(c), n), NEW e \in Cached(c),
         NEW d, d = Ref(c, e), NEW m, m = References(n, e, n[e] + 1)
  PROVE  Good(d, Cached(d), m) /\ d.usage_ = c.usage_
  <1>0. CacheType(c) /\ HoldsInTable(c, Cached(c)) /\ CountsAgree(c, n)
    BY DEF Good
  <1>1. /\ e \in Handles /\ c.h[e] # Free /\ c.h[e].in_cache /\ c.h[e] \in LRUHandle
        /\ c.h[e].refs = n[e] + 1 /\ n[e] \in Nat
    BY <1>0, CachedFacts DEF CountsAgree
  <1>2. (c.h[e].refs = 1 /\ c.h[e].in_cache) <=> n[e] = 0
    BY <1>1
  <1>3. PICK v : v = [c.h[e] EXCEPT !.refs = @ + 1]
    OBVIOUS
  <1>4. v \in LRUHandle /\ v.refs = n[e] + 2 /\ v.key = c.h[e].key /\ v.in_cache /\ v.charge = c.h[e].charge
    BY <1>1, <1>3 DEF LRUHandle
  <1>5. PICK lru : lru = IF n[e] = 0 THEN RemoveFirst(c.lru_, e) ELSE c.lru_
    OBVIOUS
  <1>6. PICK used : used = c.in_use_ \cup {e}
    OBVIOUS
  <1>7. e \in Cached(c) /\ (n[e] # 0 => e \in c.in_use_)
    BY <1>0, <1>1 DEF CountsAgree
  <1>8. /\ DOMAIN d = DOMAIN c /\ d.h = [c.h EXCEPT ![e] = v] /\ d.list_ = c.list_ /\ d.elems_ = c.elems_
        /\ d.lru_ = lru /\ d.in_use_ = used /\ d.usage_ = c.usage_
    <2>1. CASE n[e] = 0
      <3>1. d = [[c EXCEPT !.lru_ = lru, !.in_use_ = used] EXCEPT !.h[e].refs = @ + 1]
        BY <1>2, <1>5, <1>6, <2>1 DEF Ref
      <3> QED
        BY <1>0, <1>3, <3>1 DEF CacheType
    <2>2. CASE n[e] # 0
      <3>1. d = [c EXCEPT !.h[e].refs = @ + 1]
        BY <1>2, <2>2 DEF Ref
      <3>2. used = c.in_use_ /\ lru = c.lru_
        BY <1>5, <1>6, <1>7, <2>2
      <3> QED
        BY <1>0, <1>3, <3>1, <3>2 DEF CacheType
    <2> QED
      BY <2>1, <2>2
  <1>9. /\ d.h[e] = v /\ v # Free /\ \A x \in Handles : x # e => d.h[x] = c.h[x]
        /\ d.h \in [Handles -> LRUHandle \cup {Free}]
    <2>1. v # Free
      BY <1>4, HandleIsNotFree
    <2> QED
      BY <1>0, <1>1, <1>4, <1>8, <2>1 DEF CacheType
  <1>10. Cached(d) = Cached(c) /\ \A x \in Cached(c) : d.h[x].key = c.h[x].key /\ d.h[x].charge = c.h[x].charge
    BY <1>1, <1>4, <1>9 DEF Cached
  <1>11. lru \in Seq(Handles) /\ IsInjective(lru) /\ ToSet(lru) = {x \in Cached(c) : n[x] = 0} \ {e}
    <2>1. CASE n[e] = 0
      <3>1. PICK s : s = c.lru_
        OBVIOUS
      <3>2. s \in Seq(Handles) /\ IsInjective(s) /\ ToSet(s) = {x \in Cached(c) : n[x] = 0}
        BY <1>0, <3>1 DEF CacheType, CountsAgree
      <3>3. lru = RemoveFirst(s, e)
        BY <1>5, <2>1, <3>1
      <3>4. lru \in Seq(Handles) /\ IsInjective(lru) /\ ToSet(lru) = ToSet(s) \ {e}
        BY <3>2, <3>3, LruWithout
      <3> QED
        BY <3>2, <3>4
    <2>2. CASE n[e] # 0
      BY <1>0, <1>5, <2>2 DEF CacheType, CountsAgree
    <2> QED
      BY <2>1, <2>2
  <1>12. m \in [Handles -> Nat] /\ m[e] = n[e] + 1 /\ \A x \in Handles : x # e => m[x] = n[x]
    BY <1>1 DEF References
  <1>13. CacheType(d)
    BY <1>0, <1>1, <1>6, <1>8, <1>9, <1>11 DEF CacheType
  <1>14. HoldsInTable(d, Cached(d))
    <2>1. PICK T : T = Cached(c)
      OBVIOUS
    <2>2. HoldsInTable(c, T) /\ d.list_ = c.list_ /\ d.elems_ = c.elems_
      BY <1>0, <1>8, <2>1
    <2>3. T \subseteq Cached(d) /\ \A x \in T : d.h[x].key = c.h[x].key
      BY <1>10, <2>1
    <2>4. HoldsInTable(d, T)
      BY <2>2, <2>3, TableSame
    <2> QED
      BY <1>10, <2>1, <2>4
  <1>15. CountsAgree(d, m)
    <2>1. ASSUME NEW x \in Handles
          PROVE  IF d.h[x] = Free THEN m[x] = 0 ELSE d.h[x].refs = m[x] + (IF d.h[x].in_cache THEN 1 ELSE 0)
      <3>1. CASE x = e
        BY <1>1, <1>4, <1>9, <1>12, <3>1
      <3>2. CASE x # e
        BY <1>0, <1>9, <1>12, <3>2 DEF CountsAgree
      <3> QED
        BY <3>1, <3>2
    <2>2. Cached(c) \subseteq Handles
      BY DEF Cached
    <2>3. ToSet(d.lru_) = {x \in Cached(d) : m[x] = 0} /\ IsInjective(d.lru_)
      BY <1>1, <1>8, <1>10, <1>11, <1>12, <2>2
    <2>4. d.in_use_ = {x \in Cached(d) : m[x] > 0}
      <3>1. c.in_use_ = {x \in Cached(c) : n[x] > 0}
        BY <1>0 DEF CountsAgree
      <3> QED
        BY <1>1, <1>6, <1>7, <1>8, <1>10, <1>12, <2>2, <3>1
    <2>5. d.usage_ = Total(d, Cached(d))
      <3>1. Total(d, Cached(c)) = Total(c, Cached(c))
        BY <1>0, <1>10, CachedFacts, TotalSame
      <3> QED
        BY <1>0, <1>8, <1>10, <3>1 DEF CountsAgree
    <2> QED
      BY <2>1, <2>3, <2>4, <2>5 DEF CountsAgree
  <1> QED
    BY <1>8, <1>13, <1>14, <1>15 DEF Good

Steps(c, d, e, v) ==
  DOMAIN d = DOMAIN c /\ d.h = [c.h EXCEPT ![e] = v] /\ d.list_ = c.list_ /\ d.elems_ = c.elems_

ListsFit(d, m) ==
  /\ d.lru_ \in Seq(Handles) /\ IsInjective(d.lru_) /\ ToSet(d.lru_) = {x \in Cached(d) : m[x] = 0}
  /\ d.in_use_ = {x \in Cached(d) : m[x] > 0}

RefsFit(v, k) == IF v = Free THEN k = 0 ELSE v.refs = k + (IF v.in_cache THEN 1 ELSE 0)

\* One handle changes; the hash table does not.
LEMMA HandleChanges ==
  ASSUME NEW c, NEW T, NEW n, n \in [Handles -> Nat], Good(c, T, n), NEW e, e \in Handles,
         NEW v, v \in LRUHandle \cup {Free}, NEW k, k \in Nat, NEW d, Steps(c, d, e, v),
         ListsFit(d, References(n, e, k)), d.usage_ \in Nat, d.usage_ = Total(d, Cached(d)), RefsFit(v, k),
         e \in T => v # Free /\ v.in_cache /\ v.key = c.h[e].key
  PROVE  Good(d, T, References(n, e, k)) /\ References(n, e, k) \in [Handles -> Nat]
  <1>0. CacheType(c) /\ HoldsInTable(c, T) /\ CountsAgree(c, n)
    BY DEF Good
  <1>1. PICK m : m = References(n, e, k)
    OBVIOUS
  <1>2. m \in [Handles -> Nat] /\ m[e] = k /\ \A x \in Handles : x # e => m[x] = n[x]
    BY <1>1 DEF References
  <1>3. c.h \in [Handles -> LRUHandle \cup {Free}] /\ DOMAIN c = {"h", "list_", "elems_", "lru_", "in_use_", "usage_"}
    BY <1>0 DEF CacheType
  <1>4. /\ DOMAIN d = {"h", "list_", "elems_", "lru_", "in_use_", "usage_"} /\ d.list_ = c.list_ /\ d.elems_ = c.elems_
        /\ d.h[e] = v /\ \A x \in Handles : x # e => d.h[x] = c.h[x]
        /\ d.h \in [Handles -> LRUHandle \cup {Free}]
    BY <1>3 DEF Steps
  <1>5. HoldsInTable(d, T)
    <2>1. T \subseteq Cached(c) /\ Cached(c) \subseteq Handles
      BY <1>0 DEF HoldsInTable, Cached
    <2>2. \A x \in T : d.h[x].key = c.h[x].key
      BY <1>4, <2>1
    <2>3. T \subseteq Cached(d)
      BY <1>4, <2>1 DEF Cached
    <2> QED
      BY <1>0, <1>4, <2>2, <2>3, TableSame
  <1>6. d.lru_ \in Seq(Handles) /\ d.in_use_ \in SUBSET Handles
    BY DEF ListsFit, Cached
  <1>7. CacheType(d)
    BY <1>0, <1>4, <1>6 DEF CacheType
  <1>8. ASSUME NEW x \in Handles
        PROVE  IF d.h[x] = Free THEN m[x] = 0 ELSE d.h[x].refs = m[x] + (IF d.h[x].in_cache THEN 1 ELSE 0)
    <2>1. CASE x = e
      BY <1>2, <1>4, <2>1 DEF RefsFit
    <2>2. CASE x # e
      BY <1>0, <1>2, <1>4, <2>2 DEF CountsAgree
    <2> QED
      BY <2>1, <2>2
  <1>9. CountsAgree(d, m)
    BY <1>1, <1>8 DEF CountsAgree, ListsFit
  <1> QED
    BY <1>1, <1>2, <1>5, <1>7, <1>9 DEF Good

\* A client gives its reference back: the last one frees the handle or puts the
\* entry of the cache at the end of the LRU list.
LEMMA UnrefIs ==
  ASSUME NEW c, NEW T, NEW n, n \in [Handles -> Nat], Good(c, T, n), NEW e, e \in Handles, n[e] > 0,
         NEW d, d = Unref(c, e)
  PROVE  /\ Good(d, T, References(n, e, n[e] - 1)) /\ References(n, e, n[e] - 1) \in [Handles -> Nat]
         /\ d.usage_ = c.usage_ /\ Cached(d) = Cached(c)
         /\ \A x \in Cached(c) : d.h[x].key = c.h[x].key /\ d.h[x].charge = c.h[x].charge
  <1>0. CacheType(c) /\ HoldsInTable(c, T) /\ CountsAgree(c, n) /\ n[e] \in Nat
    BY DEF Good
  <1>1. /\ c.h[e] # Free /\ c.h[e] \in LRUHandle /\ c.h[e].in_cache \in BOOLEAN
        /\ c.h[e].refs = n[e] + (IF c.h[e].in_cache THEN 1 ELSE 0)
    BY <1>0, CachedFacts DEF CountsAgree
  <1>2. PICK r : r = c.h[e].refs - 1
    OBVIOUS
  <1>3. r = n[e] - 1 + (IF c.h[e].in_cache THEN 1 ELSE 0) /\ r \in Nat /\ n[e] - 1 \in Nat
    BY <1>0, <1>1, <1>2
  <1>4. PICK v : v = IF r = 0 THEN Free ELSE [c.h[e] EXCEPT !.refs = r]
    OBVIOUS
  <1>5. /\ v \in LRUHandle \cup {Free} /\ RefsFit(v, n[e] - 1) /\ (r = 0 => v = Free /\ ~c.h[e].in_cache)
        /\ r # 0 => v # Free /\ v.key = c.h[e].key /\ v.in_cache = c.h[e].in_cache /\ v.charge = c.h[e].charge
    <2>1. CASE r = 0
      BY <1>3, <1>4, <2>1 DEF RefsFit
    <2>2. CASE r # 0
      <3>1. v = [c.h[e] EXCEPT !.refs = r]
        BY <1>4, <2>2
      <3>2. /\ v \in LRUHandle /\ v.key = c.h[e].key /\ v.in_cache = c.h[e].in_cache /\ v.charge = c.h[e].charge
            /\ v.refs = r
        BY <1>1, <1>3, <2>2, <3>1 DEF LRUHandle
      <3>3. v # Free
        BY <3>2, HandleIsNotFree
      <3> QED
        BY <1>3, <2>2, <3>2, <3>3 DEF RefsFit
    <2> QED
      BY <2>1, <2>2
  <1>6. PICK moved \in BOOLEAN : moved <=> (r = 1 /\ c.h[e].in_cache)
    OBVIOUS
  <1>7. PICK lru : lru = IF moved THEN Append(c.lru_, e) ELSE c.lru_
    OBVIOUS
  <1>8. PICK used : used = IF moved THEN c.in_use_ \ {e} ELSE c.in_use_
    OBVIOUS
  <1>9. Steps(c, d, e, v) /\ d.usage_ = c.usage_ /\ d.lru_ = lru /\ d.in_use_ = used
    <2>1. CASE r = 0
      <3>1. d = [c EXCEPT !.h[e] = Free] /\ ~moved
        BY <1>2, <1>5, <1>6, <2>1 DEF Unref
      <3> QED
        BY <1>0, <1>5, <1>7, <1>8, <2>1, <3>1 DEF CacheType, Steps
    <2>2. CASE r # 0 /\ moved
      <3>1. d = [c EXCEPT !.h[e].refs = r, !.in_use_ = @ \ {e}, !.lru_ = Append(@, e)]
        BY <1>2, <1>6, <2>2 DEF Unref
      <3> QED
        BY <1>0, <1>4, <1>7, <1>8, <2>2, <3>1 DEF CacheType, Steps
    <2>3. CASE r # 0 /\ ~moved
      <3>1. d = [c EXCEPT !.h[e].refs = r]
        BY <1>2, <1>6, <2>3 DEF Unref
      <3> QED
        BY <1>0, <1>4, <1>7, <1>8, <2>3, <3>1 DEF CacheType, Steps
    <2> QED
      BY <2>1, <2>2, <2>3
  <1>10. d.h[e] = v /\ \A x \in Handles : x # e => d.h[x] = c.h[x]
    BY <1>0, <1>9 DEF CacheType, Steps
  <1>11. Cached(d) = Cached(c) /\ \A x \in Cached(c) : d.h[x].key = c.h[x].key /\ d.h[x].charge = c.h[x].charge
    BY <1>1, <1>5, <1>10 DEF Cached
  <1>12. PICK m : m = References(n, e, n[e] - 1)
    OBVIOUS
  <1>13. m[e] = n[e] - 1 /\ \A x \in Handles : x # e => m[x] = n[x]
    BY <1>12 DEF References
  <1>14. moved <=> e \in Cached(c) /\ m[e] = 0
    <2>1. e \in Cached(c) <=> c.h[e].in_cache
      BY <1>1 DEF Cached
    <2>2. CASE c.h[e].in_cache
      <3>1. r = n[e]
        BY <1>0, <1>3, <2>2
      <3>2. moved <=> n[e] = 1
        BY <1>6, <2>2, <3>1
      <3>3. n[e] = 1 <=> m[e] = 0
        BY <1>0, <1>13
      <3> QED
        BY <2>1, <2>2, <3>2, <3>3
    <2>3. CASE ~c.h[e].in_cache
      BY <1>6, <2>1, <2>3
    <2> QED
      BY <2>2, <2>3
  <1>15. ListsFit(d, m)
    <2>1. c.lru_ \in Seq(Handles) /\ IsInjective(c.lru_) /\ ToSet(c.lru_) = {x \in Cached(c) : n[x] = 0}
      BY <1>0 DEF CacheType, CountsAgree
    <2>2. c.in_use_ = {x \in Cached(c) : n[x] > 0}
      BY <1>0 DEF CountsAgree
    <2>3. Cached(c) \subseteq Handles
      BY DEF Cached
    <2>4. CASE moved
      <3>1. e \notin ToSet(c.lru_)
        BY <2>1
      <3>2. lru \in Seq(Handles) /\ IsInjective(lru) /\ ToSet(lru) = ToSet(c.lru_) \cup {e}
        BY <1>7, <2>1, <2>4, <3>1, AppendIs
      <3>3. ToSet(lru) = {x \in Cached(c) : m[x] = 0}
        BY <1>13, <1>14, <2>1, <2>3, <2>4, <3>2
      <3>4. used = {x \in Cached(c) : m[x] > 0}
        BY <1>8, <1>13, <1>14, <2>2, <2>3, <2>4
      <3> QED
        BY <1>9, <1>11, <3>2, <3>3, <3>4 DEF ListsFit
    <2>5. CASE ~moved
      <3>1. ToSet(c.lru_) = {x \in Cached(c) : m[x] = 0}
        BY <1>13, <1>14, <2>1, <2>3, <2>5
      <3>2. used = {x \in Cached(c) : m[x] > 0}
        BY <1>0, <1>3, <1>8, <1>13, <1>14, <2>2, <2>3, <2>5
      <3> QED
        BY <1>7, <1>9, <1>11, <2>1, <2>5, <3>1, <3>2 DEF ListsFit
    <2> QED
      BY <2>4, <2>5
  <1>16. d.usage_ \in Nat /\ d.usage_ = Total(d, Cached(d))
    <2>1. Total(d, Cached(c)) = Total(c, Cached(c))
      BY <1>0, <1>11, CachedFacts, TotalSame
    <2> QED
      BY <1>0, <1>9, <1>11, <2>1 DEF CountsAgree, CacheType
  <1>17. e \in T => v # Free /\ v.in_cache /\ v.key = c.h[e].key
    <2>1. e \in T => c.h[e].in_cache
      BY <1>0 DEF HoldsInTable, Cached
    <2> QED
      BY <1>5, <2>1
  <1>18. PICK k : k = n[e] - 1
    OBVIOUS
  <1>19. k \in Nat /\ RefsFit(v, k) /\ m = References(n, e, k)
    BY <1>3, <1>5, <1>12, <1>18
  <1>20. ListsFit(d, References(n, e, k))
    BY <1>15, <1>19
  <1>21. Good(d, T, References(n, e, k)) /\ References(n, e, k) \in [Handles -> Nat]
    BY <1>5, <1>9, <1>16, <1>17, <1>19, <1>20, HandleChanges
  <1> QED
    BY <1>9, <1>11, <1>18, <1>21

\* A change of the hash table leaves the counts alone.
LEMMA OnlyTableGood ==
  ASSUME NEW c, NEW T, NEW n, Good(c, T, n), NEW d, OnlyTable(c, d), NEW U, HoldsInTable(d, U), d.elems_ \in Nat
  PROVE  Good(d, U, n) /\ Cached(d) = Cached(c) /\ d.usage_ = c.usage_
  <1>0. CacheType(c) /\ CountsAgree(c, n)
    BY DEF Good
  <1>1. /\ DOMAIN d = DOMAIN c /\ d.h = c.h /\ d.lru_ = c.lru_ /\ d.in_use_ = c.in_use_ /\ d.usage_ = c.usage_
    BY DEF OnlyTable
  <1>2. CacheType(d)
    BY <1>0, <1>1 DEF CacheType
  <1>3. Cached(d) = Cached(c)
    BY <1>1 DEF Cached
  <1>4. Total(d, Cached(c)) = Total(c, Cached(c))
    BY <1>0, <1>1, CachedFacts, TotalSame
  <1>5. CountsAgree(d, n)
    BY <1>0, <1>1, <1>3, <1>4 DEF CountsAgree
  <1> QED
    BY <1>1, <1>2, <1>3, <1>5 DEF Good

\* An entry leaves the cache, and with it its charge.
Shrunk(c, d, U, n, e) ==
  /\ Good(d, U, n) /\ Cached(d) = Cached(c) \ {e} /\ d.usage_ \in Nat /\ d.usage_ <= c.usage_
  /\ \A x \in Cached(d) : d.h[x].key = c.h[x].key

\* FinishErase takes an entry out that the table does not contain any more.
LEMMA FinishEraseIs ==
  ASSUME NEW c, NEW T, NEW n, n \in [Handles -> Nat], Good(c, T, n), NEW e, e \in Cached(c), e \notin T,
         NEW d, d = FinishErase(c, e)
  PROVE  Shrunk(c, d, T, n, e)
  <1>0. CacheType(c) /\ HoldsInTable(c, T) /\ CountsAgree(c, n)
    BY DEF Good
  <1>1. /\ e \in Handles /\ e # 0 /\ c.h[e] # Free /\ c.h[e].in_cache /\ c.h[e] \in LRUHandle /\ n[e] \in Nat
        /\ c.h[e].refs = n[e] + 1 /\ c.h[e].charge \in Nat /\ Cached(c) \subseteq Handles
    BY <1>0, CachedFacts DEF CountsAgree
  <1>2. PICK v : v = [c.h[e] EXCEPT !.in_cache = FALSE]
    OBVIOUS
  <1>3. /\ v \in LRUHandle /\ v.refs = n[e] + 1 /\ v.in_cache = FALSE /\ v # Free
    <2>1. v \in LRUHandle /\ v.refs = n[e] + 1 /\ v.in_cache = FALSE
      BY <1>1, <1>2 DEF LRUHandle
    <2> QED
      BY <2>1, HandleIsNotFree
  <1>4. PICK lru : lru = RemoveFirst(c.lru_, e)
    OBVIOUS
  <1>5. PICK used : used = c.in_use_ \ {e}
    OBVIOUS
  <1>6. PICK left : left = c.usage_ - c.h[e].charge
    OBVIOUS
  <1>7. PICK b : b = [c EXCEPT !.lru_ = lru, !.in_use_ = used, !.h[e].in_cache = FALSE, !.usage_ = left]
    OBVIOUS
  <1>8. d = Unref(b, e)
    BY <1>1, <1>4, <1>5, <1>6, <1>7 DEF FinishErase
  <1>9. Steps(c, b, e, v) /\ b.lru_ = lru /\ b.in_use_ = used /\ b.usage_ = left
    BY <1>0, <1>1, <1>2, <1>7 DEF Steps, CacheType
  <1>10. b.h[e] = v /\ \A x \in Handles : x # e => b.h[x] = c.h[x]
    BY <1>0, <1>1, <1>9 DEF CacheType, Steps
  <1>11. Cached(b) = Cached(c) \ {e}
    BY <1>1, <1>3, <1>10 DEF Cached
  <1>12. PICK k : k = n[e] + 1
    OBVIOUS
  <1>13. PICK m : m = References(n, e, k)
    OBVIOUS
  <1>14. m[e] = k /\ k \in Nat /\ k > 0 /\ k - 1 = n[e] /\ \A x \in Handles : x # e => m[x] = n[x]
    BY <1>1, <1>12, <1>13 DEF References
  <1>15. ListsFit(b, m)
    <2>1. lru \in Seq(Handles) /\ IsInjective(lru) /\ ToSet(lru) = {x \in Cached(c) : n[x] = 0} \ {e}
      <3>1. PICK s : s = c.lru_
        OBVIOUS
      <3>2. s \in Seq(Handles) /\ IsInjective(s) /\ ToSet(s) = {x \in Cached(c) : n[x] = 0}
        BY <1>0, <3>1 DEF CacheType, CountsAgree
      <3>3. lru \in Seq(Handles) /\ IsInjective(lru) /\ ToSet(lru) = ToSet(s) \ {e}
        BY <1>4, <3>1, <3>2, LruWithout
      <3> QED
        BY <3>2, <3>3
    <2>2. ToSet(lru) = {x \in Cached(b) : m[x] = 0}
      BY <1>1, <1>11, <1>14, <2>1
    <2>3. used = {x \in Cached(b) : m[x] > 0}
      <3>1. c.in_use_ = {x \in Cached(c) : n[x] > 0}
        BY <1>0 DEF CountsAgree
      <3> QED
        BY <1>1, <1>5, <1>11, <1>14, <3>1
    <2> QED
      BY <1>9, <2>1, <2>2, <2>3 DEF ListsFit
  <1>16. left \in Nat /\ left <= c.usage_ /\ left = Total(b, Cached(b))
    <2>1. PICK S : S = Cached(c)
      OBVIOUS
    <2>2. S \in SUBSET Cached(c) /\ S \ {e} \in SUBSET Cached(c) /\ e \in S
      BY <2>1
    <2>3. Total(c, S) = c.h[e].charge + Total(c, S \ {e}) /\ Total(c, S) \in Nat
      BY <1>0, <2>2, UsageIs
    <2>4. Total(c, S \ {e}) \in Nat
      BY <1>0, <2>2, UsageIs
    <2>5. IsFiniteSet(S \ {e}) /\ \A x \in S \ {e} : b.h[x].charge = c.h[x].charge
      BY <1>0, <1>1, <1>10, <2>1, CachedFacts, FS_Subset
    <2>6. Total(b, S \ {e}) = Total(c, S \ {e})
      BY <2>5, TotalSame
    <2>7. c.usage_ = Total(c, S)
      BY <1>0, <2>1 DEF CountsAgree
    <2>8. left = Total(b, S \ {e})
      BY <1>1, <1>6, <2>3, <2>4, <2>6, <2>7
    <2> QED
      BY <1>1, <1>6, <1>11, <2>1, <2>3, <2>4, <2>6, <2>7, <2>8
  <1>17. v \in LRUHandle \cup {Free} /\ RefsFit(v, k) /\ ListsFit(b, References(n, e, k))
         /\ b.usage_ \in Nat /\ b.usage_ = Total(b, Cached(b)) /\ k \in Nat
    BY <1>1, <1>3, <1>9, <1>12, <1>13, <1>14, <1>15, <1>16 DEF RefsFit
  <1>18. Good(b, T, References(n, e, k)) /\ References(n, e, k) \in [Handles -> Nat]
    BY <1>1, <1>9, <1>17, HandleChanges
  <1>19. Good(b, T, m) /\ m \in [Handles -> Nat] /\ m[e] > 0
    BY <1>13, <1>14, <1>18
  <1>20. /\ Good(d, T, References(m, e, m[e] - 1)) /\ d.usage_ = b.usage_ /\ Cached(d) = Cached(b)
         /\ \A x \in Cached(b) : d.h[x].key = b.h[x].key
    BY <1>1, <1>8, <1>19, UnrefIs
  <1>21. References(m, e, m[e] - 1) = n
    <2>1. m[e] - 1 = n[e]
      BY <1>14
    <2>2. References(m, e, n[e]) = [n EXCEPT ![e] = n[e]]
      BY <1>13 DEF References
    <2>3. [n EXCEPT ![e] = n[e]] = n
      OBVIOUS
    <2> QED
      BY <2>1, <2>2, <2>3
  <1>22. \A x \in Cached(d) : d.h[x].key = c.h[x].key
    BY <1>1, <1>10, <1>11, <1>20
  <1> QED
    BY <1>9, <1>11, <1>16, <1>20, <1>21, <1>22 DEF Shrunk

\* Erase of the entry of a key.
LEMMA ErasedIs ==
  ASSUME NEW c, NEW n, n \in [Handles -> Nat], Good(c, Cached(c), n), NEW key, key \in Nat, NEW d, d = Erased(c, key)
  PROVE  IF TableLookup(c, key) = 0 THEN d = c
         ELSE TableLookup(c, key) \in Cached(c) /\ Shrunk(c, d, Cached(d), n, TableLookup(c, key))
  <1>0. CacheType(c) /\ HoldsInTable(c, Cached(c)) /\ CountsAgree(c, n)
    BY DEF Good
  <1>1. PICK e : e = TableLookup(c, key)
    OBVIOUS
  <1>2. PICK T : T = Cached(c)
    OBVIOUS
  <1>3. PICK b : b = TableRemove(c, key)
    OBVIOUS
  <1>4. d = FinishErase(b, e)
    BY <1>1, <1>3 DEF Erased
  <1>5. CASE e = 0
    BY <1>1, <1>3, <1>4, <1>5 DEF TableRemove, FinishErase
  <1>6. CASE e # 0
    <2>1. HoldsInTable(c, T)
      BY <1>0, <1>2
    <2>2. e \in T
      BY <1>0, <1>1, <1>6, <2>1, LookupIs
    <2>3. OnlyTable(c, b) /\ HoldsInTable(b, T \ {e})
      BY <1>0, <1>1, <1>3, <2>1, TableRemoveIs
    <2>4. b.elems_ \in Nat
      <3>1. b.elems_ = Cardinality(T \ {e}) /\ IsFiniteSet(T \ {e})
        BY <1>0, <1>2, <2>3, CachedFacts, FS_Subset DEF HoldsInTable
      <3> QED
        BY <3>1, FS_CardinalityType
    <2>5. Good(c, T, n)
      BY <1>2
    <2>6. PICK U : U = T \ {e}
      OBVIOUS
    <2>7. Good(b, U, n) /\ Cached(b) = T /\ b.usage_ = c.usage_
      BY <1>2, <2>3, <2>4, <2>5, <2>6, OnlyTableGood
    <2>8. Shrunk(b, d, U, n, e)
      BY <1>4, <2>2, <2>6, <2>7, FinishEraseIs
    <2>9. Cached(d) = U
      BY <2>6, <2>7, <2>8 DEF Shrunk
    <2>10. b.h = c.h
      BY <2>3 DEF OnlyTable
    <2>11. Shrunk(c, d, Cached(d), n, e)
      BY <1>2, <2>7, <2>8, <2>9, <2>10 DEF Shrunk
    <2> QED
      BY <1>1, <1>2, <1>6, <2>2, <2>11
  <1> QED
    BY <1>5, <1>6

-----------------------------------------------------------------------------
(* The loop that evicts                                                    *)

EvictTurn(c, limit, f, s) == IF s = {} THEN c ELSE EvictAbove(limit, f[s \ {Max(s)}], c.lru_[Max(s)])

\* The loop's recursion has a solution.
LEMMA EvictExists ==
  ASSUME NEW c, NEW limit, NEW D \in SUBSET Int, IsFiniteSet(D)
  PROVE  \E f : f = [s \in SUBSET D |-> EvictTurn(c, limit, f, s)]
  <1> DEFINE Solves(f, k) == /\ f = [s \in SUBSET D |-> f[s]]
                             /\ \A s \in SUBSET D : Cardinality(s) <= k => f[s] = EvictTurn(c, limit, f, s)
             P == {k \in Nat : \E f : Solves(f, k)}
  <1>0. \A s \in SUBSET D : IsFiniteSet(s) /\ Cardinality(s) \in Nat /\ (Cardinality(s) = 0 <=> s = {}) /\ s \in SUBSET Int
    BY FS_Subset, FS_CardinalityType, FS_EmptySet
  <1>1. 0 \in P
    <2>1. PICK f : f = [s \in SUBSET D |-> c]
      OBVIOUS
    <2>2. ASSUME NEW s \in SUBSET D, Cardinality(s) <= 0 PROVE f[s] = EvictTurn(c, limit, f, s)
      <3>1. s = {}
        BY <1>0, <2>2
      <3> QED
        BY <2>1, <3>1 DEF EvictTurn
    <2> QED
      BY <2>1, <2>2
  <1>2. ASSUME NEW k \in P PROVE k + 1 \in P
    <2>1. PICK f : Solves(f, k)
      <3> HIDE DEF Solves
      <3> QED
        OBVIOUS
    <2>2. PICK g : g = [s \in SUBSET D |-> EvictTurn(c, limit, f, s)]
      OBVIOUS
    <2>3. ASSUME NEW s \in SUBSET D, Cardinality(s) <= k + 1 PROVE g[s] = EvictTurn(c, limit, g, s)
      <3>1. CASE s = {}
        BY <2>2, <3>1 DEF EvictTurn
      <3>2. CASE s # {}
        <4>1. PICK x : x = Max(s)
          OBVIOUS
        <4>2. x \in s
          BY <1>0, <3>2, <4>1, MinMaxOf
        <4>3. s \ {x} \in SUBSET D /\ Cardinality(s \ {x}) <= k
          <5>1. Cardinality(s \ {x}) = Cardinality(s) - 1
            BY <1>0, <4>2, FS_RemoveElement
          <5> QED
            BY <1>0, <2>3, <5>1
        <4>4. g[s \ {x}] = f[s \ {x}]
          BY <2>1, <2>2, <4>3
        <4>5. g[s] = EvictAbove(limit, f[s \ {x}], c.lru_[x])
          BY <2>2, <3>2, <4>1 DEF EvictTurn
        <4> QED
          BY <3>2, <4>1, <4>4, <4>5 DEF EvictTurn
      <3> QED
        BY <3>1, <3>2
    <2>4. g = [s \in SUBSET D |-> g[s]]
      BY <2>2
    <2>5. k + 1 \in Nat
      OBVIOUS
    <2>6. Solves(g, k + 1)
      BY <2>3, <2>4
    <2> HIDE DEF Solves
    <2> QED
      BY <2>5, <2>6
  <1>3. Cardinality(D) \in P
    <2>1. P \in SUBSET Nat
      OBVIOUS
    <2> HIDE DEF P
    <2> QED
      BY <1>0, <1>1, <1>2, <2>1, Counting
  <1>4. PICK f : Solves(f, Cardinality(D))
    BY <1>3
  <1>5. \A s \in SUBSET D : f[s] = EvictTurn(c, limit, f, s)
    BY <1>4, FS_Subset
  <1>6. f = [s \in SUBSET D |-> EvictTurn(c, limit, f, s)]
    BY <1>4, <1>5
  <1> QED
    BY <1>6

\* So the loop takes the list's entries one after the other.
LEMMA EvictSteps ==
  ASSUME NEW c, NEW limit, c.lru_ \in Seq(Handles)
  PROVE  \E at : /\ at[0] = c /\ Evicted(c, limit) = at[Len(c.lru_)]
                 /\ \A k \in 0 .. Len(c.lru_) - 1 : at[k + 1] = EvictAbove(limit, at[k], c.lru_[k + 1])
  <1>1. PICK n \in Nat : n = Len(c.lru_) /\ DOMAIN c.lru_ = 1 .. n
    BY LenProperties
  <1>2. PICK D : D = 1 .. n
    OBVIOUS
  <1>3. D \in SUBSET Int /\ IsFiniteSet(D) /\ D = DOMAIN c.lru_
    BY <1>1, <1>2, FS_Interval
  <1>4. PICK f : f = CHOOSE g : g = [s \in SUBSET D |-> EvictTurn(c, limit, g, s)]
    OBVIOUS
  <1>5. f = [s \in SUBSET D |-> EvictTurn(c, limit, f, s)]
    BY <1>3, <1>4, EvictExists
  <1>6. Evicted(c, limit) = f[D]
    BY <1>3, <1>4 DEF Evicted, FoldLeft, MapThenFoldSet, EvictTurn
  <1>7. PICK at : at = [k \in 0 .. n |-> f[1 .. k]]
    OBVIOUS
  <1>8. at[0] = c
    <2>1. 1 .. 0 = {} /\ {} \in SUBSET D
      OBVIOUS
    <2>2. f[{}] = c
      BY <1>5, <2>1 DEF EvictTurn
    <2> QED
      BY <1>7, <2>1, <2>2
  <1>9. at[n] = f[D]
    BY <1>2, <1>7
  <1>10. ASSUME NEW k \in 0 .. n - 1 PROVE at[k + 1] = EvictAbove(limit, at[k], c.lru_[k + 1])
    <2>1. PICK s : s = 1 .. k + 1
      OBVIOUS
    <2>2. s \in SUBSET D /\ k + 1 \in s /\ s # {} /\ s \in SUBSET Int /\ \A x \in s : x <= k + 1
      <3>1. k \in Int /\ k + 1 \in Int /\ 1 <= k + 1 /\ k + 1 <= n
        OBVIOUS
      <3>2. k + 1 \in s /\ s \in SUBSET Int /\ \A x \in s : x <= k + 1
        BY <2>1, <3>1
      <3>3. s \subseteq D
        BY <1>2, <2>1, <3>1
      <3> QED
        BY <3>2, <3>3
    <2>3. IsFiniteSet(s)
      BY <1>3, <2>2, FS_Subset
    <2>4. Max(s) \in s /\ \A x \in s : Max(s) >= x
      BY <2>2, <2>3, MinMaxOf
    <2>5. PICK x : x = Max(s)
      OBVIOUS
    <2>6. x \in Int /\ x <= k + 1 /\ x >= k + 1
      BY <2>2, <2>4, <2>5
    <2>7. x = k + 1
      BY <2>6
    <2>8. s \ {k + 1} = 1 .. k
      BY <2>1
    <2>9. f[s] = EvictTurn(c, limit, f, s)
      BY <1>5, <2>2
    <2>10. f[s] = EvictAbove(limit, f[1 .. k], c.lru_[k + 1])
      BY <2>2, <2>5, <2>7, <2>8, <2>9 DEF EvictTurn
    <2>11. at[k + 1] = f[s] /\ at[k] = f[1 .. k]
      BY <1>7, <2>1
    <2> QED
      BY <2>10, <2>11
  <1>11. at[0] = c /\ Evicted(c, limit) = at[n] /\ \A k \in 0 .. n - 1 : at[k + 1] = EvictAbove(limit, at[k], c.lru_[k + 1])
    BY <1>6, <1>8, <1>9, <1>10
  <1> QED
    BY <1>1, <1>11

\* The loop stops at the limit or when no entry is unused.
LEMMA EvictedIs ==
  ASSUME NEW c, NEW n, n \in [Handles -> Nat], Good(c, Cached(c), n), NEW limit \in Int, NEW d, d = Evicted(c, limit)
  PROVE  /\ Good(d, Cached(d), n) /\ d.usage_ \in Nat /\ d.usage_ <= c.usage_
         /\ d.usage_ <= limit \/ \A x \in Cached(d) : n[x] > 0
  <1>0. CacheType(c) /\ HoldsInTable(c, Cached(c)) /\ CountsAgree(c, n)
    BY DEF Good
  <1>1. PICK lru : lru = c.lru_
    OBVIOUS
  <1>2. /\ lru \in Seq(Handles) /\ IsInjective(lru) /\ ToSet(lru) = {x \in Cached(c) : n[x] = 0} /\ c.usage_ \in Nat
    BY <1>0, <1>1 DEF CacheType, CountsAgree
  <1>3. PICK N \in Nat : N = Len(lru) /\ DOMAIN lru = 1 .. N
    BY <1>2, LenProperties
  <1>4. PICK at : /\ at[0] = c /\ d = at[N] /\ \A k \in 0 .. N - 1 : at[k + 1] = EvictAbove(limit, at[k], lru[k + 1])
    BY <1>1, <1>2, <1>3, EvictSteps
  <1> DEFINE J(b, k) == /\ Good(b, Cached(b), n) /\ b.usage_ \in Nat /\ b.usage_ <= c.usage_ /\ Cached(b) \subseteq Cached(c)
                        /\ \A j \in k + 1 .. N : lru[j] \in Cached(b)
                        /\ b.usage_ <= limit \/ \A j \in 1 .. k : lru[j] \notin Cached(b)
             P == {k \in Nat : k <= N => J(at[k], k)}
  <1>5. \A j, k \in 1 .. N : lru[j] = lru[k] => j = k
    BY <1>2, <1>3 DEF IsInjective
  <1>6. \A j \in 1 .. N : lru[j] \in Cached(c)
    BY <1>2, <1>3 DEF ToSet
  <1>7. 0 \in P
    <2>1. J(c, 0)
      BY <1>2, <1>6
    <2> QED
      BY <1>4, <2>1
  <1>8. ASSUME NEW k \in P PROVE k + 1 \in P
    <2> SUFFICES ASSUME k + 1 <= N PROVE J(at[k + 1], k + 1)
      OBVIOUS
    <2>1. PICK b : b = at[k]
      OBVIOUS
    <2>2. k \in 0 .. N - 1 /\ k \in Nat /\ J(b, k)
      BY <1>3, <2>1
    <2>3. PICK e : e = lru[k + 1]
      OBVIOUS
    <2>4. PICK z : z = at[k + 1]
      OBVIOUS
    <2>5. z = EvictAbove(limit, b, e)
      BY <1>4, <2>1, <2>2, <2>3, <2>4
    <2>6. e \in Cached(b) /\ CacheType(b) /\ HoldsInTable(b, Cached(b)) /\ b.usage_ \in Nat
      BY <2>2, <2>3 DEF Good
    <2>7. CASE b.usage_ > limit
      <3>1. PICK key : key = b.h[e].key
        OBVIOUS
      <3>2. key \in Nat /\ TableLookup(b, key) = e /\ e # 0
        BY <2>6, <3>1, CachedFacts, LookupIs
      <3>3. z = Erased(b, key)
        BY <2>5, <2>7, <3>1 DEF EvictAbove
      <3>4. Shrunk(b, z, Cached(z), n, e)
        BY <2>2, <3>2, <3>3, ErasedIs
      <3>5. Good(z, Cached(z), n) /\ Cached(z) = Cached(b) \ {e} /\ z.usage_ \in Nat /\ z.usage_ <= b.usage_
        BY <3>4 DEF Shrunk
      <3>6. z.usage_ <= c.usage_ /\ Cached(z) \subseteq Cached(c)
        BY <1>2, <2>2, <3>5
      <3>7. ASSUME NEW j \in k + 1 + 1 .. N PROVE lru[j] \in Cached(z)
        <4>1. j \in k + 1 .. N /\ j \in 1 .. N /\ k + 1 \in 1 .. N /\ j # k + 1
          BY <2>2, <3>7
        <4> QED
          BY <1>5, <2>2, <2>3, <3>5, <4>1
      <3>8. ASSUME NEW j \in 1 .. k + 1 PROVE lru[j] \notin Cached(z)
        <4>1. j = k + 1 \/ j \in 1 .. k
          BY <2>2, <3>8
        <4>2. \A i \in 1 .. k : lru[i] \notin Cached(b)
          BY <2>2, <2>7
        <4> QED
          BY <2>3, <3>5, <4>1, <4>2
      <3> QED
        BY <2>4, <3>5, <3>6, <3>7, <3>8
    <2>8. CASE ~(b.usage_ > limit)
      <3>1. z = b
        BY <2>5, <2>8 DEF EvictAbove
      <3>2. b.usage_ <= limit
        BY <2>6, <2>8
      <3>3. \A j \in k + 1 + 1 .. N : lru[j] \in Cached(b)
        BY <2>2
      <3> QED
        BY <2>2, <2>4, <3>1, <3>2, <3>3
    <2> QED
      BY <2>7, <2>8
  <1>9. J(d, N)
    <2>1. P = Nat
      <3>1. P \in SUBSET Nat
        OBVIOUS
      <3> HIDE DEF P
      <3> QED
        BY <1>7, <1>8, <3>1, Counting
    <2>2. N \in P
      BY <2>1
    <2> QED
      BY <1>4, <2>2
  <1>10. ASSUME NEW x \in Cached(d), ~(d.usage_ <= limit) PROVE n[x] > 0
    <2>1. x \in Cached(c) /\ x \in Handles /\ n[x] \in Nat
      BY <1>9 DEF Cached
    <2>2. n[x] = 0 => \E j \in 1 .. N : lru[j] = x
      BY <1>2, <1>3, <2>1 DEF ToSet
    <2> QED
      BY <1>9, <1>10, <2>1, <2>2
  <1> QED
    BY <1>9, <1>10

\* Insert puts a new entry in, in the place of one with its key, and makes room.
LEMMA CacheInsertedIs ==
  ASSUME NEW c, NEW n, n \in [Handles -> Nat], Good(c, Cached(c), n), NEW e, e \in Handles, c.h[e] = Free,
         NEW key, key \in Files, NEW charge, charge \in Charges, NEW d, d = CacheInserted(c, e, key, charge)
  PROVE  /\ Good(d, Cached(d), References(n, e, 1)) /\ References(n, e, 1) \in [Handles -> Nat]
         /\ d.usage_ <= capacity_ \/ \A x \in Cached(d) : References(n, e, 1)[x] > 0
  <1>0. CacheType(c) /\ HoldsInTable(c, Cached(c)) /\ CountsAgree(c, n) /\ key \in Nat /\ charge \in Nat
    BY CacheAssumption DEF Good
  <1>1. PICK T : T = Cached(c)
    OBVIOUS
  <1>2. e \notin T /\ n[e] = 0 /\ T \subseteq Handles /\ IsFiniteSet(T) /\ T = Cached(c)
    BY <1>0, <1>1, CachedFacts DEF Cached, CountsAgree
  <1>3. PICK v : v = [key |-> key, refs |-> 2, in_cache |-> TRUE, charge |-> charge]
    OBVIOUS
  <1>4. v \in LRUHandle /\ v.refs = 2 /\ v.in_cache /\ v.key = key /\ v.charge = charge /\ v # Free
    <2>1. v \in LRUHandle /\ v.refs = 2 /\ v.in_cache /\ v.key = key /\ v.charge = charge
      BY <1>3 DEF LRUHandle
    <2> QED
      BY <2>1, HandleIsNotFree
  <1>5. PICK b : b = [c EXCEPT !.h[e] = v, !.in_use_ = @ \cup {e}, !.usage_ = @ + charge]
    OBVIOUS
  <1>6. /\ Steps(c, b, e, v) /\ b.lru_ = c.lru_ /\ b.in_use_ = c.in_use_ \cup {e} /\ b.usage_ = c.usage_ + charge
    BY <1>0, <1>5 DEF Steps, CacheType
  <1>7. b.h[e] = v /\ \A x \in Handles : x # e => b.h[x] = c.h[x]
    BY <1>0, <1>6 DEF CacheType, Steps
  <1>8. Cached(b) = T \cup {e}
    BY <1>2, <1>4, <1>7 DEF Cached
  <1>9. b.usage_ \in Nat
    BY <1>0, <1>6 DEF CacheType
  <1>10. CacheType(b)
    <2>1. b.h \in [Handles -> LRUHandle \cup {Free}]
      BY <1>0, <1>4, <1>6 DEF CacheType, Steps
    <2> QED
      BY <1>0, <1>6, <1>9, <2>1 DEF CacheType, Steps
  <1>11. b.usage_ = Total(b, Cached(b))
    <2>1. PICK S : S = T \cup {e}
      OBVIOUS
    <2>2. S \in SUBSET Cached(b) /\ e \in S /\ S \ {e} = T /\ T \in SUBSET Cached(c)
      BY <1>2, <1>8, <2>1
    <2>3. Total(b, S) = b.h[e].charge + Total(b, S \ {e})
      BY <1>10, <2>2, UsageIs
    <2>4. Total(c, T) \in Nat
      BY <1>0, <2>2, UsageIs
    <2>5. \A x \in T : b.h[x].charge = c.h[x].charge
      BY <1>2, <1>7
    <2>6. Total(b, T) = Total(c, T)
      BY <1>2, <2>5, TotalSame
    <2>7. c.usage_ = Total(c, T)
      BY <1>0, <1>1 DEF CountsAgree
    <2>8. Total(b, S) = charge + Total(c, T)
      BY <1>4, <1>7, <2>2, <2>3, <2>6
    <2>9. b.usage_ = Total(c, T) + charge
      BY <1>6, <2>7
    <2> QED
      BY <1>0, <1>8, <2>1, <2>4, <2>8, <2>9
  <1>12. PICK m : m = References(n, e, 1)
    OBVIOUS
  <1>13. m[e] = 1 /\ \A x \in Handles : x # e => m[x] = n[x]
    BY <1>12 DEF References
  <1>14. ListsFit(b, m)
    <2>1. c.lru_ \in Seq(Handles) /\ IsInjective(c.lru_) /\ ToSet(c.lru_) = {x \in T : n[x] = 0}
      BY <1>0, <1>1 DEF CacheType, CountsAgree
    <2>2. ToSet(c.lru_) = {x \in Cached(b) : m[x] = 0}
      BY <1>2, <1>8, <1>13, <2>1
    <2>3. c.in_use_ = {x \in T : n[x] > 0}
      BY <1>0, <1>1 DEF CountsAgree
    <2>4. b.in_use_ = {x \in Cached(b) : m[x] > 0}
      BY <1>2, <1>6, <1>8, <1>13, <2>3
    <2> QED
      BY <1>6, <2>1, <2>2, <2>4 DEF ListsFit
  <1>15. PICK k : k = 1
    OBVIOUS
  <1>16. /\ k \in Nat /\ RefsFit(v, k) /\ v \in LRUHandle \cup {Free} /\ m = References(n, e, k)
    BY <1>4, <1>12, <1>15 DEF RefsFit
  <1>17. ListsFit(b, References(n, e, k)) /\ Good(c, T, n)
    BY <1>1, <1>14, <1>16
  <1>18. Good(b, T, References(n, e, k)) /\ References(n, e, k) \in [Handles -> Nat]
    BY <1>2, <1>6, <1>9, <1>11, <1>16, <1>17, HandleChanges
  <1>19. Good(b, T, m) /\ m \in [Handles -> Nat] /\ HoldsInTable(b, T)
    BY <1>16, <1>18 DEF Good
  <1>20. PICK was : was = TableLookup(c, key)
    OBVIOUS
  <1>21. was = TableLookup(b, key)
    <2>1. \A x \in T : b.h[x].key = c.h[x].key
      BY <1>2, <1>7
    <2>2. HoldsInTable(c, T)
      BY <1>0, <1>1
    <2>3. CASE \E x \in T : c.h[x].key = key
      <3>1. PICK x \in T : c.h[x].key = key /\ b.h[x].key = key
        BY <2>1, <2>3
      <3>2. was = x
        BY <1>0, <1>20, <2>2, <3>1, LookupIs
      <3>3. TableLookup(b, key) = x
        BY <1>0, <1>10, <1>19, <3>1, LookupIs
      <3> QED
        BY <3>2, <3>3
    <2>4. CASE ~ \E x \in T : c.h[x].key = key
      <3>1. was = 0
        BY <1>0, <1>20, <2>2, <2>4, LookupIs
      <3>2. TableLookup(b, key) = 0
        BY <1>0, <1>10, <1>19, <2>1, <2>4, LookupIs
      <3> QED
        BY <3>1, <3>2
    <2> QED
      BY <2>3, <2>4
  <1>22. PICK t : t = TableInsert(b, e)
    OBVIOUS
  <1>23. PICK U : U = (T \ {was}) \cup {e}
    OBVIOUS
  <1>24. OnlyTable(b, t) /\ HoldsInTable(t, U)
    <2>1. e \in Cached(b) /\ was = TableLookup(b, b.h[e].key)
      BY <1>4, <1>7, <1>8, <1>21
    <2> QED
      BY <1>2, <1>10, <1>19, <1>22, <1>23, <2>1, TableInsertIs
  <1>25. t.elems_ \in Nat
    <2>1. U \subseteq Handles /\ IsFiniteSet(Handles)
      BY <1>0, <1>2, <1>23, CachedFacts
    <2>2. IsFiniteSet(U) /\ t.elems_ = Cardinality(U)
      BY <1>24, <2>1, FS_Subset DEF HoldsInTable
    <2> QED
      BY <2>2, FS_CardinalityType
  <1>26. Good(t, U, m) /\ Cached(t) = Cached(b)
    BY <1>19, <1>24, <1>25, OnlyTableGood
  <1>27. PICK z : z = FinishErase(t, was)
    OBVIOUS
  <1>28. Good(z, Cached(z), m)
    <2>1. was = 0 \/ was \in T
      BY <1>0, <1>1, <1>20, LookupIs
    <2>2. CASE was = 0
      <3>1. 0 \notin T
        BY <1>0, <1>1, CachedFacts
      <3>2. z = t
        BY <1>27, <2>2 DEF FinishErase
      <3>3. U = Cached(t)
        BY <1>8, <1>23, <1>26, <2>2, <3>1
      <3> QED
        BY <1>26, <3>2, <3>3
    <2>3. CASE was \in T
      <3>1. was \in Cached(t) /\ was \notin U
        BY <1>2, <1>8, <1>23, <1>26, <2>3
      <3>2. Shrunk(t, z, U, m, was)
        BY <1>19, <1>26, <1>27, <3>1, FinishEraseIs
      <3>3. Good(z, U, m) /\ Cached(z) = Cached(t) \ {was}
        BY <3>2 DEF Shrunk
      <3>4. Cached(z) = U
        BY <1>2, <1>8, <1>23, <1>26, <2>3, <3>3
      <3> QED
        BY <3>3, <3>4
    <2> QED
      BY <2>1, <2>2, <2>3
  <1>29. d = Evicted(z, capacity_)
    <2>1. d = Evicted(FinishErase(TableInsert(b, e), TableLookup(c, key)), capacity_)
      BY <1>3, <1>5 DEF CacheInserted
    <2> QED
      BY <1>20, <1>22, <1>27, <2>1
  <1>30. capacity_ \in Int
    BY CacheAssumption
  <1>31. Good(d, Cached(d), m) /\ (d.usage_ <= capacity_ \/ \A x \in Cached(d) : m[x] > 0)
    BY <1>19, <1>28, <1>29, <1>30, EvictedIs
  <1> QED
    BY <1>12, <1>19, <1>31

-----------------------------------------------------------------------------
(* The threads and the cache                                               *)

\* How many threads hold a handle.
HeldBy(us) == [e \in Handles |-> Cardinality({u \in Users : us[u].handle = e})]

UserType(us) ==
  /\ us \in [Users -> [file : Files \cup {0}, handle : Handles \cup {0}]]
  /\ \A u \in Users : us[u].handle # 0 => us[u].file # 0

CacheInv == Good(cache, Cached(cache), HeldBy(user)) /\ UserType(user) /\ CacheBounded

\* The counts are numbers, and positive for the handles that are held.
LEMMA HeldIs ==
  ASSUME NEW us
  PROVE  /\ HeldBy(us) \in [Handles -> Nat]
         /\ \A e \in Handles : HeldBy(us)[e] > 0 <=> \E u \in Users : us[u].handle = e
  <1>1. ASSUME NEW e \in Handles
        PROVE  /\ Cardinality({u \in Users : us[u].handle = e}) \in Nat
               /\ Cardinality({u \in Users : us[u].handle = e}) > 0 <=> \E u \in Users : us[u].handle = e
    <2>1. PICK S : S = {u \in Users : us[u].handle = e}
      OBVIOUS
    <2>2. IsFiniteSet(S)
      BY <2>1, CacheAssumption, FS_Subset
    <2>3. Cardinality(S) \in Nat /\ (Cardinality(S) = 0 <=> S = {})
      BY <2>2, FS_CardinalityType, FS_EmptySet
    <2>4. Cardinality(S) > 0 <=> S # {}
      BY <2>3
    <2> QED
      BY <2>1, <2>3, <2>4
  <1> QED
    BY <1>1 DEF HeldBy

Goes(us, u, w, vs) == u \in Users /\ DOMAIN us = Users /\ vs = [us EXCEPT ![u] = w]

\* A thread moves from one handle to another, and the counts with it.
LEMMA HeldCounts ==
  ASSUME NEW us, NEW u, NEW w, NEW vs, Goes(us, u, w, vs)
  PROVE  \A e \in Handles :
           HeldBy(vs)[e] = HeldBy(us)[e] + (IF w.handle = e THEN 1 ELSE 0) - (IF us[u].handle = e THEN 1 ELSE 0)
  <1> SUFFICES ASSUME NEW e \in Handles
               PROVE  HeldBy(vs)[e] = HeldBy(us)[e] + (IF w.handle = e THEN 1 ELSE 0) - (IF us[u].handle = e THEN 1 ELSE 0)
    OBVIOUS
  <1>1. PICK S : S = {x \in Users : us[x].handle = e}
    OBVIOUS
  <1>2. PICK R : R = {x \in Users : vs[x].handle = e}
    OBVIOUS
  <1>3. IsFiniteSet(S) /\ IsFiniteSet(R) /\ Cardinality(S) \in Nat /\ Cardinality(R) \in Nat
    <2>1. IsFiniteSet(S) /\ IsFiniteSet(R)
      BY <1>1, <1>2, CacheAssumption, FS_Subset
    <2> QED
      BY <2>1, FS_CardinalityType
  <1>4. HeldBy(us)[e] = Cardinality(S) /\ HeldBy(vs)[e] = Cardinality(R)
    BY <1>1, <1>2 DEF HeldBy
  <1>5. vs[u] = w /\ \A x \in Users : x # u => vs[x] = us[x]
    BY DEF Goes
  <1>6. (u \in S <=> us[u].handle = e) /\ (u \in R <=> w.handle = e) /\ S \ {u} = R \ {u}
    BY <1>1, <1>2, <1>5 DEF Goes
  <1>7. Cardinality(S) = Cardinality(S \ {u}) + (IF u \in S THEN 1 ELSE 0)
    <2>1. CASE u \in S
      <3>1. Cardinality(S \ {u}) = Cardinality(S) - 1
        BY <1>3, <2>1, FS_RemoveElement
      <3>2. PICK i, j : i = Cardinality(S) /\ j = Cardinality(S \ {u})
        OBVIOUS
      <3>3. i \in Nat /\ j = i - 1
        BY <1>3, <3>1, <3>2
      <3>4. i = j + 1
        BY <3>3
      <3> QED
        BY <2>1, <3>2, <3>4
    <2>2. CASE u \notin S
      <3>1. S \ {u} = S
        BY <2>2
      <3> QED
        BY <1>3, <2>2, <3>1
    <2> QED
      BY <2>1, <2>2
  <1>8. Cardinality(R) = Cardinality(R \ {u}) + (IF u \in R THEN 1 ELSE 0)
    <2>1. CASE u \in R
      <3>1. Cardinality(R \ {u}) = Cardinality(R) - 1
        BY <1>3, <2>1, FS_RemoveElement
      <3>2. PICK i, j : i = Cardinality(R) /\ j = Cardinality(R \ {u})
        OBVIOUS
      <3>3. i \in Nat /\ j = i - 1
        BY <1>3, <3>1, <3>2
      <3>4. i = j + 1
        BY <3>3
      <3> QED
        BY <2>1, <3>2, <3>4
    <2>2. CASE u \notin R
      <3>1. R \ {u} = R
        BY <2>2
      <3> QED
        BY <1>3, <2>2, <3>1
    <2> QED
      BY <2>1, <2>2
  <1>9. PICK k : k = Cardinality(S \ {u})
    OBVIOUS
  <1>10. k \in Nat
    BY <1>3, <1>9, FS_CardinalityType, FS_Subset
  <1>11. Cardinality(S) = k + (IF us[u].handle = e THEN 1 ELSE 0) /\ Cardinality(R) = k + (IF w.handle = e THEN 1 ELSE 0)
    BY <1>6, <1>7, <1>8, <1>9
  <1> QED
    BY <1>3, <1>4, <1>10, <1>11

\* So a thread that takes a handle adds one reference, and one that gives it back
\* takes one away.
LEMMA HeldMoves ==
  ASSUME NEW us, NEW u, NEW w, NEW vs, Goes(us, u, w, vs)
  PROVE  /\ us[u].handle = w.handle => HeldBy(vs) = HeldBy(us)
         /\ us[u].handle = 0 /\ w.handle \in Handles =>
              HeldBy(vs) = References(HeldBy(us), w.handle, HeldBy(us)[w.handle] + 1)
         /\ us[u].handle \in Handles /\ w.handle = 0 =>
              HeldBy(vs) = References(HeldBy(us), us[u].handle, HeldBy(us)[us[u].handle] - 1)
  <1>1. PICK n, m, a, z : n = HeldBy(us) /\ m = HeldBy(vs) /\ a = us[u].handle /\ z = w.handle
    OBVIOUS
  <1>2. n \in [Handles -> Nat] /\ m \in [Handles -> Nat] /\ 0 \notin Handles
    BY <1>1, HeldIs DEF Handles
  <1>3. \A x \in Handles : m[x] = n[x] + (IF z = x THEN 1 ELSE 0) - (IF a = x THEN 1 ELSE 0)
    BY <1>1, HeldCounts
  <1>4. ASSUME a = z PROVE m = n
    <2>1. ASSUME NEW x \in Handles PROVE m[x] = n[x]
      <3>1. PICK i \in Nat : i = n[x]
        BY <1>2
      <3>2. m[x] = i + (IF z = x THEN 1 ELSE 0) - (IF z = x THEN 1 ELSE 0)
        BY <1>3, <1>4, <3>1
      <3>3. CASE z = x
        BY <3>1, <3>2, <3>3
      <3>4. CASE z # x
        BY <3>1, <3>2, <3>4
      <3> QED
        BY <3>3, <3>4
    <2> QED
      BY <1>2, <2>1
  <1>5. ASSUME a = 0, z \in Handles PROVE m = References(n, z, n[z] + 1)
    <2>1. ASSUME NEW x \in Handles PROVE m[x] = IF x = z THEN n[x] + 1 ELSE n[x]
      <3>1. PICK i \in Nat : i = n[x]
        BY <1>2
      <3>2. m[x] = i + (IF z = x THEN 1 ELSE 0) - 0
        BY <1>2, <1>3, <1>5, <3>1
      <3> QED
        BY <3>1, <3>2
    <2>2. PICK f : f = References(n, z, n[z] + 1)
      OBVIOUS
    <2>3. DOMAIN f = Handles /\ f = [x \in Handles |-> f[x]] /\ \A x \in Handles : f[x] = m[x]
      BY <1>2, <2>1, <2>2 DEF References
    <2> QED
      BY <1>2, <2>2, <2>3
  <1>6. ASSUME a \in Handles, z = 0 PROVE m = References(n, a, n[a] - 1)
    <2>1. ASSUME NEW x \in Handles PROVE m[x] = IF x = a THEN n[x] - 1 ELSE n[x]
      <3>1. PICK i \in Nat : i = n[x]
        BY <1>2
      <3>2. m[x] = i + 0 - (IF a = x THEN 1 ELSE 0)
        BY <1>2, <1>3, <1>6, <3>1
      <3> QED
        BY <3>1, <3>2
    <2>2. PICK f : f = References(n, a, n[a] - 1)
      OBVIOUS
    <2>3. DOMAIN f = Handles /\ f = [x \in Handles |-> f[x]] /\ \A x \in Handles : f[x] = m[x]
      BY <1>2, <2>1, <2>2 DEF References
    <2> QED
      BY <1>2, <2>2, <2>3
  <1> QED
    BY <1>1, <1>4, <1>5, <1>6

\* What the bound is.
LEMMA LimitIs ==
  /\ Max({capacity_, Cardinality(Users) * Max(Charges)}) \in Nat
  /\ capacity_ <= Max({capacity_, Cardinality(Users) * Max(Charges)})
  /\ Cardinality(Users) * Max(Charges) <= Max({capacity_, Cardinality(Users) * Max(Charges)})
  /\ Cardinality(Users) \in Nat /\ Max(Charges) \in Nat
  <1>1. Charges \in SUBSET Int /\ Max(Charges) \in Charges
    BY CacheAssumption, MinMaxOf
  <1>2. PICK a \in Nat : a = Cardinality(Users)
    BY CacheAssumption, FS_CardinalityType
  <1>3. PICK m \in Nat : m = Max(Charges)
    BY <1>1, CacheAssumption
  <1>4. PICK p \in Nat : p = a * m
    OBVIOUS
  <1>5. capacity_ \in Nat
    BY CacheAssumption
  <1>6. PICK S : S = {capacity_, p}
    OBVIOUS
  <1>7. S \in SUBSET Int /\ IsFiniteSet(S) /\ S # {} /\ capacity_ \in S /\ p \in S /\ S \subseteq Nat
    <2>1. IsFiniteSet({capacity_})
      <3>1. {} \cup {capacity_} = {capacity_} /\ IsFiniteSet({})
        BY FS_EmptySet
      <3>2. IsFiniteSet({} \cup {capacity_})
        BY <3>1, FS_AddElement
      <3> QED
        BY <3>1, <3>2
    <2>2. IsFiniteSet({capacity_} \cup {p})
      BY <2>1, FS_AddElement
    <2>3. S = {capacity_} \cup {p}
      BY <1>6
    <2> QED
      BY <1>5, <2>2, <2>3
  <1>8. Max(S) \in S /\ \A x \in S : Max(S) >= x
    BY <1>7, MinMaxOf
  <1>9. Max(S) \in Nat /\ capacity_ <= Max(S) /\ p <= Max(S)
    BY <1>5, <1>7, <1>8
  <1> QED
    BY <1>2, <1>3, <1>4, <1>6, <1>9

\* When every entry is held, the threads bound the usage.
LEMMA HeldBounds ==
  ASSUME NEW c, NEW us, Good(c, Cached(c), HeldBy(us)), \A e \in Cached(c) : HeldBy(us)[e] > 0
  PROVE  c.usage_ <= Max({capacity_, Cardinality(Users) * Max(Charges)})
  <1>0. CacheType(c) /\ CountsAgree(c, HeldBy(us))
    BY DEF Good
  <1>1. PICK S : S = Cached(c)
    OBVIOUS
  <1>2. S \subseteq Handles /\ IsFiniteSet(S) /\ IsFiniteSet(Users) /\ S \in SUBSET Cached(c)
    BY <1>0, <1>1, CacheAssumption, CachedFacts
  <1>3. PICK f : f = [e \in S |-> CHOOSE u \in Users : us[u].handle = e]
    OBVIOUS
  <1>4. ASSUME NEW e \in S PROVE f[e] \in Users /\ us[f[e]].handle = e
    <2>1. \E u \in Users : us[u].handle = e
      BY <1>1, <1>2, HeldIs
    <2> QED
      BY <1>3, <2>1
  <1>5. f \in Injection(S, Users)
    <2>1. f \in [S -> Users]
      BY <1>3, <1>4
    <2>2. \A a, b \in S : f[a] = f[b] => a = b
      BY <1>4
    <2> QED
      BY <2>1, <2>2 DEF Injection, IsInjective
  <1>6. Cardinality(S) <= Cardinality(Users) /\ Cardinality(S) \in Nat
    BY <1>2, <1>5, FS_Injection, FS_CardinalityType
  <1>7. c.usage_ = Total(c, S) /\ Total(c, S) <= Cardinality(S) * Max(Charges) /\ Total(c, S) \in Nat
    BY <1>0, <1>1, <1>2, UsageIs DEF CountsAgree
  <1>8. PICK a \in Nat, b \in Nat, m \in Nat : a = Cardinality(S) /\ b = Cardinality(Users) /\ m = Max(Charges)
    BY <1>6, LimitIs
  <1>9. a * m <= b * m
    <2>1. a <= b
      BY <1>6, <1>8
    <2>2. PICK k \in Nat : b = a + k
      <3>1. b - a \in Nat /\ b = a + (b - a)
        BY <2>1
      <3> QED
        BY <3>1
    <2>3. (a + k) * m = a * m + k * m /\ k * m \in Nat /\ a * m \in Nat
      OBVIOUS
    <2> QED
      BY <2>2, <2>3
  <1>10. PICK L \in Nat : L = Max({capacity_, Cardinality(Users) * Max(Charges)})
    BY LimitIs
  <1>11. b * m <= L
    BY <1>8, <1>10, LimitIs
  <1>12. c.usage_ <= a * m /\ c.usage_ \in Nat
    BY <1>7, <1>8
  <1>13. a * m \in Nat /\ b * m \in Nat
    OBVIOUS
  <1>14. c.usage_ <= L
    BY <1>9, <1>11, <1>12, <1>13
  <1> QED
    BY <1>10, <1>14

\* The invariant says what the runs check.
LEMMA CacheInvIsSound == CacheInv => CacheIsSound
  <1> SUFFICES ASSUME CacheInv PROVE CacheIsSound
    OBVIOUS
  <1>1. PICK n : n = HeldBy(user)
    OBVIOUS
  <1>2. CacheType(cache) /\ HoldsInTable(cache, Cached(cache)) /\ CountsAgree(cache, n) /\ UserType(user) /\ CacheBounded
    BY <1>1 DEF CacheInv, Good
  <1>3. InCache = Cached(cache) /\ Allocated = {e \in Handles : cache.h[e] # Free}
    BY DEF InCache, Allocated, Cached
  <1>4. /\ n \in [Handles -> Nat] /\ \A e \in Handles : n[e] > 0 <=> \E u \in Users : user[u].handle = e
        /\ \A e \in Handles : n[e] = Cardinality({u \in Users : user[u].handle = e})
    BY <1>1, HeldIs DEF HeldBy
  <1>5. \A e \in Handles : cache.h[e] # Free => cache.h[e].refs \in Nat \ {0} /\ cache.h[e].key \in Nat
    BY <1>2, CachedFacts
  <1>6. \A e \in Allocated : cache.h[e].refs = n[e] + (IF e \in InCache THEN 1 ELSE 0)
    <2>1. ASSUME NEW e \in Allocated PROVE cache.h[e].refs = n[e] + (IF e \in InCache THEN 1 ELSE 0)
      <3>1. e \in Handles /\ cache.h[e] # Free /\ (e \in InCache <=> cache.h[e].in_cache)
        BY <1>3 DEF Cached
      <3> QED
        BY <1>2, <3>1 DEF CountsAgree
    <2> QED
      BY <2>1
  <1>7. HeldIsAlive
    <2>1. ASSUME NEW e \in Allocated, e \notin InCache PROVE \E u \in Users : user[u].handle = e
      <3>1. e \in Handles /\ cache.h[e].refs = n[e] /\ cache.h[e].refs \in Nat \ {0}
        BY <1>3, <1>4, <1>5, <1>6, <2>1
      <3>2. n[e] > 0
        BY <3>1
      <3> QED
        BY <1>4, <3>1, <3>2
    <2>2. ASSUME NEW u \in Users, user[u].handle # 0 PROVE user[u].handle \in Allocated
      <3>1. PICK e : e = user[u].handle
        OBVIOUS
      <3>2. e \in Handles
        BY <1>2, <2>2, <3>1 DEF UserType
      <3>3. n[e] > 0 /\ n[e] \in Nat
        BY <1>4, <3>1, <3>2
      <3>4. cache.h[e] # Free
        BY <1>2, <3>2, <3>3 DEF CountsAgree
      <3> QED
        BY <1>3, <3>1, <3>2, <3>4
    <2>3. InCache \subseteq Allocated
      BY DEF InCache
    <2>4. 0 \notin Handles
      BY <1>2, CachedFacts
    <2>5. Allocated \subseteq Handles
      BY <1>3
    <2> QED
      BY <2>1, <2>2, <2>3, <2>4, <2>5 DEF HeldIsAlive
  <1>8. ASSUME NEW e \in InCache PROVE cache.h[e].refs = n[e] + 1 /\ n[e] \in Nat /\ e \in Handles /\ cache.h[e].key \in Nat
    <2>1. e \in Allocated /\ e \in Handles
      BY <1>3, <1>8 DEF InCache
    <2> QED
      BY <1>3, <1>4, <1>5, <1>6, <1>8, <2>1
  <1>9. CacheAgrees
    <2>1. \A e \in Allocated :
            cache.h[e].refs = Cardinality({u \in Users : user[u].handle = e}) + (IF e \in InCache THEN 1 ELSE 0)
      BY <1>3, <1>4, <1>6
    <2>2. ToSet(cache.lru_) = {e \in InCache : cache.h[e].refs = 1} /\ IsInjective(cache.lru_)
      <3>1. ToSet(cache.lru_) = {e \in InCache : n[e] = 0} /\ IsInjective(cache.lru_)
        BY <1>2, <1>3 DEF CountsAgree
      <3> QED
        BY <1>8, <3>1
    <2>3. cache.in_use_ = {e \in InCache : cache.h[e].refs > 1}
      <3>1. cache.in_use_ = {e \in InCache : n[e] > 0}
        BY <1>2, <1>3 DEF CountsAgree
      <3> QED
        BY <1>8, <3>1
    <2>4. \A e \in InCache : TableLookup(cache, cache.h[e].key) = e
      BY <1>2, <1>3, <1>8, LookupIs
    <2>5. cache.elems_ = Cardinality(InCache)
      BY <1>2, <1>3 DEF HoldsInTable
    <2>6. cache.usage_ = MapThenSumSet(LAMBDA e : cache.h[e].charge, InCache)
      BY <1>2, <1>3 DEF CountsAgree, Total
    <2> QED
      BY <2>1, <2>2, <2>3, <2>4, <2>5, <2>6 DEF CacheAgrees
  <1> QED
    BY <1>2, <1>7, <1>9 DEF CacheIsSound

\* The empty cache.
LEMMA CacheInvInit == LRUCacheInit => CacheInv
  <1> SUFFICES ASSUME LRUCacheInit PROVE CacheInv
    OBVIOUS
  <1>1. PICK h : h = [i \in Handles |-> Free]
    OBVIOUS
  <1>2. PICK list : list = [b \in 0 .. MinBuckets - 1 |-> <<>>]
    OBVIOUS
  <1>3. cache = [h |-> h, list_ |-> list, elems_ |-> 0, lru_ |-> <<>>, in_use_ |-> {}, usage_ |-> 0]
    BY <1>1, <1>2 DEF LRUCacheInit
  <1>4. /\ DOMAIN cache = {"h", "list_", "elems_", "lru_", "in_use_", "usage_"} /\ cache.h = h /\ cache.list_ = list
        /\ cache.elems_ = 0 /\ cache.lru_ = <<>> /\ cache.in_use_ = {} /\ cache.usage_ = 0
    BY <1>3
  <1>5. user = [u \in Users |-> [file |-> 0, handle |-> 0]]
    BY DEF LRUCacheInit, Away
  <1>6. \A S : <<>> \in Seq(S) /\ ToSet(<<>>) = {} /\ IsInjective(<<>>)
    BY EmptySeq DEF ToSet, IsInjective
  <1>7. CacheType(cache)
    <2>1. h \in [Handles -> LRUHandle \cup {Free}]
      BY <1>1
    <2> QED
      BY <1>4, <1>6, <2>1 DEF CacheType
  <1>8. Cached(cache) = {}
    BY <1>1, <1>4 DEF Cached
  <1>9. HoldsInTable(cache, {})
    <2>1. PICK k \in Nat \ {0} : k = MinBuckets
      BY CacheAssumption
    <2>2. length_(cache) = k
      <3>1. DOMAIN list = 0 .. k - 1
        BY <1>2, <2>1
      <3>2. PICK j \in Int : j = k - 1
        OBVIOUS
      <3>3. Cardinality(0 .. j) = IF 0 > j THEN 0 ELSE j - 0 + 1
        BY FS_Interval
      <3>4. Cardinality(0 .. j) = k
        BY <3>2, <3>3
      <3> QED
        BY <1>4, <3>1, <3>2, <3>4 DEF length_
    <2>3. DOMAIN cache.list_ = 0 .. k - 1 /\ \A b \in DOMAIN cache.list_ : cache.list_[b] = <<>>
      BY <1>2, <1>4, <2>1
    <2>4. Cardinality({}) = 0
      BY FS_EmptySet
    <2> QED
      BY <1>4, <1>6, <1>8, <2>2, <2>3, <2>4 DEF HoldsInTable
  <1>10. \A e \in Handles : HeldBy(user)[e] = 0
    <2>1. 0 \notin Handles
      BY <1>7, CachedFacts
    <2>2. ASSUME NEW e \in Handles PROVE {u \in Users : user[u].handle = e} = {}
      BY <1>5, <2>1
    <2>3. Cardinality({}) = 0
      BY FS_EmptySet
    <2> QED
      BY <2>2, <2>3 DEF HeldBy
  <1>11. Total(cache, {}) = 0
    BY TotalTurn, FS_EmptySet
  <1>12. CountsAgree(cache, HeldBy(user))
    <2>1. \A e \in Handles : cache.h[e] = Free
      BY <1>1, <1>4
    <2> QED
      BY <1>4, <1>6, <1>8, <1>10, <1>11, <2>1 DEF CountsAgree
  <1>13. UserType(user)
    BY <1>5 DEF UserType
  <1>14. CacheBounded
    <2>1. PICK L \in Nat : L = Max({capacity_, Cardinality(Users) * Max(Charges)})
      BY LimitIs
    <2> QED
      BY <1>4, <2>1 DEF CacheBounded
  <1> QED
    BY <1>7, <1>8, <1>9, <1>12, <1>13, <1>14 DEF CacheInv, Good

\* The usage stays below the bound when it does not grow.
LEMMA BoundKept ==
  ASSUME CacheInv, NEW d, d.usage_ \in Nat, d.usage_ <= cache.usage_
  PROVE  d.usage_ <= Max({capacity_, Cardinality(Users) * Max(Charges)})
  <1>1. PICK L \in Nat : L = Max({capacity_, Cardinality(Users) * Max(Charges)})
    BY LimitIs
  <1>2. cache.usage_ <= L /\ cache.usage_ \in Nat
    BY <1>1 DEF CacheInv, CacheBounded, Good, CacheType
  <1> QED
    BY <1>1, <1>2

\* A thread looks a table up and holds it when it is there.
LEMMA FindTableKeeps ==
  ASSUME CacheInv, NEW u \in Users, NEW key \in Files, FindTable(u, key)
  PROVE  CacheInv'
  <1>0. CacheType(cache) /\ HoldsInTable(cache, Cached(cache)) /\ UserType(user) /\ Good(cache, Cached(cache), HeldBy(user))
    BY DEF CacheInv, Good
  <1>1. PICK e : e = TableLookup(cache, key)
    OBVIOUS
  <1>2. PICK w : w = [file |-> key, handle |-> e]
    OBVIOUS
  <1>3. /\ user[u].handle = 0 /\ user' = [user EXCEPT ![u] = w] /\ cache' = IF e = 0 THEN cache ELSE Ref(cache, e)
        /\ key # 0 /\ key \in Nat
    BY <1>1, <1>2, CacheAssumption DEF FindTable, Away
  <1>4. e = 0 \/ e \in Cached(cache)
    BY <1>0, <1>1, <1>3, LookupIs
  <1>5. e \in Handles \cup {0} /\ 0 \notin Handles
    BY <1>0, <1>4, CachedFacts
  <1>6. UserType(user')
    BY <1>0, <1>2, <1>3, <1>5 DEF UserType
  <1>7. PICK n, m : n = HeldBy(user) /\ m = HeldBy(user')
    OBVIOUS
  <1>8. n \in [Handles -> Nat] /\ m \in [Handles -> Nat]
    BY <1>7, HeldIs
  <1>9. (e = 0 => m = n) /\ (e \in Handles => m = References(n, e, n[e] + 1))
    <2>1. PICK us, vs : us = user /\ vs = user'
      OBVIOUS
    <2>2. Goes(us, u, w, vs) /\ us[u].handle = 0 /\ w.handle = e
      BY <1>0, <1>2, <1>3, <2>1 DEF Goes, UserType
    <2> QED
      BY <1>7, <2>1, <2>2, HeldMoves
  <1>10. CASE e = 0
    <2>1. cache' = cache
      BY <1>3, <1>10
    <2>3. m = n
      BY <1>9, <1>10
    <2>4. Good(cache', Cached(cache'), HeldBy(user'))
      BY <1>0, <1>7, <2>1, <2>3
    <2>5. CacheBounded'
      BY <2>1 DEF CacheInv, CacheBounded
    <2> QED
      BY <1>6, <2>4, <2>5 DEF CacheInv
  <1>11. CASE e # 0
    <2>1. PICK c, d : c = cache /\ d = cache'
      OBVIOUS
    <2>2. e \in Cached(c) /\ d = Ref(c, e) /\ Good(c, Cached(c), n)
      BY <1>0, <1>3, <1>4, <1>7, <1>11, <2>1
    <2>3. m = References(n, e, n[e] + 1)
      BY <1>5, <1>9, <1>11
    <2>4. Good(d, Cached(d), m) /\ d.usage_ = c.usage_
      BY <1>8, <2>2, <2>3, RefIs
    <2>5. Good(cache', Cached(cache'), HeldBy(user'))
      BY <1>7, <2>1, <2>4
    <2>6. CacheBounded'
      BY <2>1, <2>4 DEF CacheInv, CacheBounded
    <2> QED
      BY <1>6, <2>5, <2>6 DEF CacheInv
  <1> QED
    BY <1>10, <1>11

\* A thread inserts the table that it has opened and holds it.
LEMMA InsertTableKeeps ==
  ASSUME CacheInv, NEW u \in Users, NEW e \in Handles, NEW charge \in Charges, InsertTable(u, e, charge)
  PROVE  CacheInv'
  <1>0. CacheType(cache) /\ UserType(user) /\ CountsAgree(cache, HeldBy(user)) /\ 0 \notin Handles
    BY CachedFacts DEF CacheInv, Good
  <1>1. PICK key : key = user[u].file
    OBVIOUS
  <1>2. PICK w : w = [user[u] EXCEPT !.handle = e]
    OBVIOUS
  <1>3. /\ key \in Files /\ user[u].handle = 0 /\ cache.h[e] = Free /\ user' = [user EXCEPT ![u] = w]
        /\ cache' = CacheInserted(cache, e, key, charge)
    BY <1>0, <1>1, <1>2 DEF InsertTable, UserType
  <1>4. w.handle = e /\ w.file = key /\ w \in [file : Files \cup {0}, handle : Handles \cup {0}]
    BY <1>0, <1>1, <1>2, <1>3 DEF UserType
  <1>5. UserType(user')
    <2>1. key # 0
      BY <1>3, CacheAssumption
    <2> QED
      BY <1>0, <1>3, <1>4, <2>1 DEF UserType
  <1>6. PICK n, m : n = HeldBy(user) /\ m = HeldBy(user')
    OBVIOUS
  <1>7. n \in [Handles -> Nat] /\ m \in [Handles -> Nat] /\ n[e] = 0
    <2>1. HeldBy(user)[e] = 0
      BY <1>0, <1>3 DEF CountsAgree
    <2> QED
      BY <1>6, <2>1, HeldIs
  <1>9. m = References(n, e, 1)
    <2>1. PICK us, vs : us = user /\ vs = user'
      OBVIOUS
    <2>2. Goes(us, u, w, vs) /\ us[u].handle = 0 /\ w.handle = e
      BY <1>0, <1>3, <1>4, <2>1 DEF Goes, UserType
    <2>3. m = References(n, e, n[e] + 1)
      BY <1>6, <2>1, <2>2, HeldMoves
    <2> QED
      BY <1>7, <2>3
  <1>10. PICK c, d : c = cache /\ d = cache'
    OBVIOUS
  <1>11. Good(c, Cached(c), n) /\ c.h[e] = Free /\ d = CacheInserted(c, e, key, charge)
    BY <1>3, <1>6, <1>10 DEF CacheInv
  <1>12. /\ Good(d, Cached(d), References(n, e, 1))
         /\ d.usage_ <= capacity_ \/ \A x \in Cached(d) : References(n, e, 1)[x] > 0
    BY <1>3, <1>7, <1>11, CacheInsertedIs
  <1>13. PICK us : us = user'
    OBVIOUS
  <1>14. Good(d, Cached(d), HeldBy(us)) /\ (d.usage_ <= capacity_ \/ \A x \in Cached(d) : HeldBy(us)[x] > 0)
    BY <1>6, <1>9, <1>12, <1>13
  <1>15. d.usage_ <= Max({capacity_, Cardinality(Users) * Max(Charges)})
    <2>1. CASE \A x \in Cached(d) : HeldBy(us)[x] > 0
      BY <1>14, <2>1, HeldBounds
    <2>2. CASE d.usage_ <= capacity_
      <3>1. PICK L \in Nat : L = Max({capacity_, Cardinality(Users) * Max(Charges)})
        BY LimitIs
      <3>2. capacity_ <= L
        BY <3>1, LimitIs
      <3>3. d.usage_ \in Nat /\ capacity_ \in Nat
        BY <1>14, CacheAssumption DEF Good, CacheType
      <3> QED
        BY <2>2, <3>1, <3>2, <3>3
    <2> QED
      BY <1>14, <2>1, <2>2
  <1>16. CacheBounded'
    BY <1>10, <1>15 DEF CacheBounded
  <1> QED
    BY <1>5, <1>10, <1>13, <1>14, <1>16 DEF CacheInv

\* A thread releases the table that it holds.
LEMMA ReleaseTableKeeps ==
  ASSUME CacheInv, NEW u \in Users, ReleaseTable(u)
  PROVE  CacheInv'
  <1>0. CacheType(cache) /\ UserType(user) /\ 0 \notin Handles
    BY CachedFacts DEF CacheInv, Good
  <1>1. PICK e : e = user[u].handle
    OBVIOUS
  <1>2. PICK w : w = [file |-> 0, handle |-> 0]
    OBVIOUS
  <1>3. e \in Handles /\ user' = [user EXCEPT ![u] = w] /\ cache' = Unref(cache, e)
    BY <1>0, <1>1, <1>2 DEF ReleaseTable, UserType, Away
  <1>4. UserType(user')
    BY <1>0, <1>2, <1>3 DEF UserType
  <1>5. PICK n, m : n = HeldBy(user) /\ m = HeldBy(user')
    OBVIOUS
  <1>6. n \in [Handles -> Nat] /\ m \in [Handles -> Nat] /\ n[e] > 0
    BY <1>1, <1>3, <1>5, HeldIs
  <1>8. m = References(n, e, n[e] - 1)
    <2>1. PICK us, vs : us = user /\ vs = user'
      OBVIOUS
    <2>2. Goes(us, u, w, vs) /\ us[u].handle = e /\ w.handle = 0
      BY <1>0, <1>1, <1>2, <1>3, <2>1 DEF Goes, UserType
    <2> QED
      BY <1>3, <1>5, <2>1, <2>2, HeldMoves
  <1>9. PICK c, d, T : c = cache /\ d = cache' /\ T = Cached(cache)
    OBVIOUS
  <1>10. Good(c, T, n) /\ d = Unref(c, e)
    BY <1>3, <1>5, <1>9 DEF CacheInv
  <1>11. Good(d, T, References(n, e, n[e] - 1)) /\ d.usage_ = c.usage_ /\ Cached(d) = Cached(c)
    BY <1>3, <1>6, <1>10, UnrefIs
  <1>12. Good(cache', Cached(cache'), HeldBy(user'))
    BY <1>5, <1>8, <1>9, <1>11
  <1>13. CacheBounded'
    BY <1>9, <1>11 DEF CacheInv, CacheBounded
  <1> QED
    BY <1>4, <1>12, <1>13 DEF CacheInv

\* A step of the cache alone that keeps the counts and adds no usage.
LEMMA CacheShrinks ==
  ASSUME CacheInv, user' = user, Good(cache', Cached(cache'), HeldBy(user)), cache'.usage_ <= cache.usage_
  PROVE  CacheInv'
  <1>1. PICK d : d = cache'
    OBVIOUS
  <1>2. d.usage_ \in Nat /\ d.usage_ <= cache.usage_
    BY <1>1 DEF Good, CacheType
  <1>3. d.usage_ <= Max({capacity_, Cardinality(Users) * Max(Charges)})
    BY <1>2, BoundKept
  <1>4. CacheBounded'
    BY <1>1, <1>3 DEF CacheBounded
  <1> QED
    BY <1>4 DEF CacheInv

\* An entry is evicted because its file is deleted.
LEMMA EvictTableKeeps ==
  ASSUME CacheInv, NEW key \in Files, EvictTable(key)
  PROVE  CacheInv'
  <1>1. PICK c, d, n, e : c = cache /\ d = cache' /\ n = HeldBy(user) /\ e = TableLookup(cache, key)
    OBVIOUS
  <1>2. n \in [Handles -> Nat] /\ Good(c, Cached(c), n) /\ key \in Nat /\ d = Erased(c, key)
    BY <1>1, HeldIs, CacheAssumption DEF CacheInv, EvictTable
  <1>3. IF TableLookup(c, key) = 0 THEN d = c ELSE Shrunk(c, d, Cached(d), n, e)
    <2>1. IF TableLookup(c, key) = 0 THEN d = c
          ELSE TableLookup(c, key) \in Cached(c) /\ Shrunk(c, d, Cached(d), n, TableLookup(c, key))
      BY <1>2, ErasedIs
    <2> QED
      BY <1>1, <2>1
  <1>4. c.usage_ \in Nat
    BY <1>2 DEF Good, CacheType
  <1>5. Good(d, Cached(d), n) /\ d.usage_ <= c.usage_
    BY <1>2, <1>3, <1>4 DEF Shrunk
  <1> QED
    BY <1>1, <1>5, CacheShrinks DEF EvictTable

\* Prune lets every unused entry go.
LEMMA PruneKeeps ==
  ASSUME CacheInv, Prune
  PROVE  CacheInv'
  <1>1. PICK c, d, n, limit : c = cache /\ d = cache' /\ n = HeldBy(user) /\ limit = -1
    OBVIOUS
  <1>2. n \in [Handles -> Nat] /\ Good(c, Cached(c), n) /\ limit \in Int /\ d = Evicted(c, limit)
    BY <1>1, HeldIs DEF CacheInv, Prune
  <1>3. Good(d, Cached(d), n) /\ d.usage_ <= c.usage_
    BY <1>2, EvictedIs
  <1> QED
    BY <1>1, <1>3, CacheShrinks DEF Prune

\* A thread that could not open the file held nothing.
LEMMA OpenFailsKeeps ==
  ASSUME CacheInv, NEW u \in Users, OpenFails(u)
  PROVE  CacheInv'
  <1>0. CacheType(cache) /\ UserType(user) /\ 0 \notin Handles /\ Good(cache, Cached(cache), HeldBy(user))
    BY CachedFacts DEF CacheInv, Good
  <1>1. PICK w : w = [file |-> 0, handle |-> 0]
    OBVIOUS
  <1>2. user[u].handle = 0 /\ user' = [user EXCEPT ![u] = w] /\ cache' = cache
    BY <1>1 DEF OpenFails, Away
  <1>3. UserType(user')
    BY <1>0, <1>1, <1>2 DEF UserType
  <1>4. PICK n, m : n = HeldBy(user) /\ m = HeldBy(user')
    OBVIOUS
  <1>5. n \in [Handles -> Nat] /\ m \in [Handles -> Nat]
    BY <1>4, HeldIs
  <1>7. m = n
    <2>1. PICK us, vs : us = user /\ vs = user'
      OBVIOUS
    <2>2. Goes(us, u, w, vs) /\ us[u].handle = w.handle
      BY <1>0, <1>1, <1>2, <2>1 DEF Goes, UserType
    <2> QED
      BY <1>4, <2>1, <2>2, HeldMoves
  <1>8. Good(cache', Cached(cache'), HeldBy(user'))
    BY <1>0, <1>2, <1>4, <1>7
  <1>9. CacheBounded'
    BY <1>2 DEF CacheInv, CacheBounded
  <1> QED
    BY <1>3, <1>8, <1>9 DEF CacheInv

\* The counts, the lists and the table of the cache agree, no handle that a
\* thread holds is freed and none is forgotten, whatever the threads, the files,
\* the charges and the capacity: the invariant is that every step leaves each
\* entry in the bucket of its key, once, on the list that its references say.
THEOREM CacheIsWhole == LRUCacheSpec => []CacheIsSound
  <1>1. LRUCacheInit => CacheInv
    BY CacheInvInit
  <1>2. CacheInv /\ [LRUCacheNext]_lcvars => CacheInv'
    <2> SUFFICES ASSUME CacheInv, [LRUCacheNext]_lcvars PROVE CacheInv'
      OBVIOUS
    <2>1. CASE LRUCacheNext
      BY <2>1, FindTableKeeps, InsertTableKeeps, OpenFailsKeeps, ReleaseTableKeeps, EvictTableKeeps, PruneKeeps
         DEF LRUCacheNext
    <2>2. CASE UNCHANGED lcvars
      BY <2>2 DEF lcvars, CacheInv, CacheBounded
    <2> QED
      BY <2>1, <2>2
  <1>3. CacheInv => CacheIsSound
    BY CacheInvIsSound
  <1> QED
    BY <1>1, <1>2, <1>3, PTL DEF LRUCacheSpec
=============================================================================
