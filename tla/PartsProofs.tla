---------------------------- MODULE PartsProofs -----------------------------
(***************************************************************************)
(* What threads share outside the database's own lock, for any number of   *)
(* them: the hashes that several threads clear and write, the loops of     *)
(* single calls in the Objective-C interface, the environment of leveldb,  *)
(* the toolbox of util/thread.h, the skip list of a memtable and an        *)
(* iterator that reads while others write.  They are independent, and so   *)
(* are the six parts of this module.                                       *)
(***************************************************************************)
EXTENDS SSDBHash, Facade, PosixEnv, WorkerPool, SkipList, Iterators, FiniteSetTheorems,
        SequenceTheorems, WellFoundedInduction, TLAPS

-----------------------------------------------------------------------------
(* Hashes: the stored size is right as long as nothing fails, and an       *)
(* hclear that succeeds has seen the hash empty.                           *)

\* A non-empty set of fields has a first one.
LEMMA FirstExists ==
  ASSUME NEW S \in SUBSET Field, S # {}
  PROVE  First(S) \in S /\ \A g \in S : First(S) <= g
  <1>1. S \subseteq Nat
    BY FieldAssumption
  <1> DEFINE R == OpToRel(<, Nat)
  <1>2. \A x, y \in Nat : x < y => <<x, y>> \in R
    BY DEF OpToRel
  <1>3. IsWellFoundedOn(R, Nat)
    BY NatLessThanWellFounded
  <1> HIDE DEF R
  <1>4. \E f \in S : \A g \in S : ~(<<g, f>> \in R)
    BY <1>1, <1>3, WFMin, Zenon
  <1>5. PICK f \in S : \A g \in S : ~(<<g, f>> \in R)
    BY <1>4
  <1>6. ASSUME NEW g \in S PROVE f <= g
    <2>1. g \in Nat /\ f \in Nat
      BY <1>1
    <2>2. ~(g < f)
      BY <1>2, <1>5, <2>1, Zenon
    <2> QED
      BY <2>1, <2>2
  <1> QED
    BY <1>6 DEF First

\* The fields can be counted.
LEMMA FieldsFinite == IsFiniteSet(Fields) /\ Cardinality(Fields) \in Nat
  BY FieldAssumption, FS_Subset, FS_CardinalityType DEF Fields

Value == Int \cup {Text, NoVal}

\* The rows, and the size as long as nothing failed.
RowsInv ==
  /\ hashRow \in [Field -> Value]
  /\ faults \in Nat
  /\ SizeIsCount

\* The locals of hclear.  While a thread is in hclear an empty hash has been
\* noted, and a scan that found nothing found the hash empty.
ClearInv ==
  /\ pc \in [Clearers -> {"out", "scan", "del"}]
  /\ snap \in [Clearers -> SUBSET Field]
  /\ num \in [Clearers -> Nat]
  /\ answer \in [Clearers -> {"none", "ok", "error"}]
  /\ DOMAIN empty = Clearers
  /\ \A t \in Clearers :
       /\ pc[t] # "out" /\ Fields = {} => empty[t]
       /\ pc[t] = "del" /\ snap[t] = {} /\ num[t] = 0 => empty[t]
  /\ ClearEmpties

Inv == RowsInv /\ ClearInv

\* A hash that was never written.
LEMMA InitInv == Init => Inv
  <1> SUFFICES ASSUME Init PROVE Inv
    OBVIOUS
  <1>1. Fields = {}
    BY DEF Init, Fields
  <1>2. RowsInv
    BY <1>1, FS_EmptySet DEF Init, RowsInv, Value, SizeIsCount
  <1>3. ClearInv
    BY DEF Init, ClearInv, ClearEmpties
  <1> QED
    BY <1>2, <1>3 DEF Inv

\* hset_one counts a field that was not there.
LEMMA HsetOneSize ==
  ASSUME hashRow \in [Field -> Value], hsizeRow = Cardinality(Fields),
         NEW f \in Field, NEW v \in Value \ {NoVal}, hset_one(f, v, FALSE, FALSE)
  PROVE  hsizeRow' = Cardinality(Fields')
  <1>1. Fields' = Fields \cup {f}
    BY DEF hset_one, Fields
  <1>2. CASE f \in Fields
    <2>1. Fields' = Fields
      BY <1>1, <1>2
    <2> QED
      BY <1>2, <2>1 DEF hset_one, Fields
  <1>3. CASE f \notin Fields
    <2>1. hsizeRow' = hsizeRow + 1
      BY <1>3, FieldsFinite DEF hset_one, incr_hsize, hsize, Fields
    <2> QED
      BY <1>1, <1>3, <2>1, FieldsFinite, FS_AddElement
  <1> QED
    BY <1>2, <1>3

\* hdel_one counts a field only if it was there.
LEMMA HdelOneSize ==
  ASSUME hashRow \in [Field -> Value], hsizeRow = Cardinality(Fields),
         NEW f \in Field, hdel_one(f, FALSE, FALSE)
  PROVE  hsizeRow' = Cardinality(Fields')
  <1>1. CASE f \in Fields
    <2>1. Fields' = Fields \ {f}
      BY <1>1 DEF hdel_one, Fields
    <2>2. hsizeRow' = hsizeRow - 1
      BY <1>1, FieldsFinite DEF hdel_one, incr_hsize, hsize, Fields
    <2> QED
      BY <1>1, <2>1, <2>2, FieldsFinite, FS_RemoveElement
  <1>2. CASE f \notin Fields
    BY <1>2 DEF hdel_one, Fields, rows
  <1> QED
    BY <1>1, <1>2

\* A failure ends the claim about the size.
LEMMA FaultRows ==
  ASSUME RowsInv, Fault, hashRow' \in [Field -> Value] PROVE RowsInv'
  BY DEF RowsInv, Fault, SizeIsCount

\* What hset and hincr do to the rows.
LEMMA SetRows ==
  ASSUME RowsInv, NEW f \in Field, NEW v \in Value \ {NoVal},
         \/ hset_one(f, v, FALSE, FALSE) /\ UNCHANGED faults
         \/ Fault /\ hset_one(f, v, TRUE, FALSE)
         \/ Fault /\ hset_one(f, v, FALSE, TRUE)
  PROVE  RowsInv'
  <1>1. hashRow' \in [Field -> Value]
    BY DEF RowsInv, hset_one
  <1>2. CASE hset_one(f, v, FALSE, FALSE) /\ UNCHANGED faults
    BY <1>1, <1>2, HsetOneSize DEF RowsInv, SizeIsCount
  <1>3. CASE Fault
    BY <1>1, <1>3, FaultRows
  <1> QED
    BY <1>2, <1>3

\* What hdel does to the rows, whoever calls it.
LEMMA DelRows == ASSUME RowsInv, NEW f \in Field, hdel_txn(f) PROVE RowsInv'
  <1>1. hashRow' \in [Field -> Value]
    BY DEF RowsInv, hdel_txn, hdel_one, rows, Value
  <1>2. CASE hdel_one(f, FALSE, FALSE) /\ UNCHANGED faults
    BY <1>1, <1>2, HdelOneSize DEF RowsInv, SizeIsCount
  <1>3. CASE Fault
    BY <1>1, <1>3, FaultRows
  <1> QED
    BY <1>2, <1>3 DEF hdel_txn

\* hincr stores a number.
LEMMA IncrValue ==
  ASSUME RowsInv, NEW f \in Field, NEW by \in Increments, hashRow[f] # Text
  PROVE  (IF hashRow[f] = NoVal THEN by ELSE AddInt64(str_to_int64(hashRow[f]), by))
           \in Value \ {NoVal}
  <1>1. by \in Int /\ IntMax \in Int /\ NoVal \notin Int
    BY ValueAssumption
  <1>2. hashRow[f] # NoVal => hashRow[f] \in Int
    BY DEF RowsInv, Value
  <1>3. hashRow[f] # NoVal => str_to_int64(hashRow[f]) \in Int
    BY <1>1, <1>2 DEF str_to_int64
  <1>4. \A x, y \in Int : AddInt64(x, y) \in Int
    BY <1>1 DEF AddInt64
  <1> QED
    BY <1>1, <1>3, <1>4 DEF Value

\* A change of the hash while threads are in hclear: Note sees it empty.
LEMMA NoteClear ==
  ASSUME ClearInv, Note, UNCHANGED clear PROVE ClearInv'
  <1>1. \A t \in Clearers : empty'[t] <=> empty[t] \/ Fields' = {}
    BY DEF Note, Fields
  <1>2. DOMAIN empty' = Clearers
    BY DEF Note
  <1> QED
    BY <1>1, <1>2 DEF ClearInv, clear, ClearEmpties

\* A scan yields nothing only from an empty hash.
LEMMA ScanFinds ==
  ASSUME {f \in Fields : Cardinality({g \in Fields : g < f}) < ScanLimit} = {}
  PROVE  Fields = {}
  <1> SUFFICES ASSUME Fields # {} PROVE FALSE
    OBVIOUS
  <1>1. Fields \subseteq Field
    BY DEF Fields
  <1> DEFINE f == First(Fields)
  <1>2. f \in Fields /\ \A g \in Fields : f <= g
    BY <1>1, FirstExists
  <1> HIDE DEF f
  <1>3. {g \in Fields : g < f} = {}
    <2>1. \A g \in Fields : g \in Nat /\ f \in Nat /\ f <= g
      BY <1>1, <1>2, FieldAssumption
    <2> QED
      BY <2>1
  <1>4. Cardinality({g \in Fields : g < f}) < ScanLimit
    BY <1>3, FS_EmptySet, LimitAssumption
  <1> QED
    BY <1>2, <1>4

\* A call starts with what it finds.
LEMMA ClearCallInv ==
  ASSUME Inv, NEW t \in Clearers, ClearCall(t) PROVE Inv'
  <1>1. RowsInv' /\ Fields' = Fields
    BY DEF Inv, RowsInv, ClearCall, rows, SizeIsCount, Fields
  <1>2. \A u \in Clearers : /\ u # t => empty'[u] = empty[u] /\ pc'[u] = pc[u] /\ answer'[u] = answer[u]
                            /\ u = t => /\ empty'[u] = (Fields = {}) /\ pc'[u] = "scan"
                                        /\ answer'[u] = "none"
    BY DEF Inv, ClearInv, ClearCall
  <1>3. ClearInv'
    BY <1>1, <1>2 DEF Inv, ClearInv, ClearCall, ClearEmpties
  <1> QED
    BY <1>1, <1>3 DEF Inv

\* A scan that found nothing found the hash empty.
LEMMA ClearScanInv ==
  ASSUME Inv, NEW t \in Clearers, ClearScan(t) PROVE Inv'
  <1> DEFINE S == {f \in Fields : Cardinality({g \in Fields : g < f}) < ScanLimit}
  <1>1. RowsInv' /\ Fields' = Fields
    BY DEF Inv, RowsInv, ClearScan, rows, SizeIsCount, Fields
  <1>2. S \in SUBSET Field /\ (S = {} => Fields = {})
    BY ScanFinds DEF Fields
  <1>3. /\ pc[t] = "scan" /\ pc' = [pc EXCEPT ![t] = "del"]
        /\ snap' = [snap EXCEPT ![t] = S] /\ num' = [num EXCEPT ![t] = 0]
        /\ UNCHANGED <<answer, empty>>
    BY DEF ClearScan
  <1> HIDE DEF S
  <1>4. ClearInv'
    BY <1>1, <1>2, <1>3 DEF Inv, ClearInv, ClearEmpties
  <1> QED
    BY <1>1, <1>4 DEF Inv

\* An hdel of hclear.
LEMMA ClearDelInv ==
  ASSUME Inv, NEW t \in Clearers, ClearDel(t) PROVE Inv'
  <1> DEFINE f == First(snap[t])
  <1>1. f \in Field
    BY FirstExists DEF Inv, ClearInv, ClearDel
  <1>2. RowsInv'
    BY <1>1, DelRows DEF Inv, ClearDel
  <1>3. \A u \in Clearers : empty'[u] <=> empty[u] \/ Fields' = {}
    BY DEF ClearDel, hdel_txn, Note, Fields
  <1>4. DOMAIN empty' = Clearers
    BY DEF ClearDel, hdel_txn, Note
  <1>5. /\ snap' = [snap EXCEPT ![t] = @ \ {f}] /\ num' = [num EXCEPT ![t] = @ + 1]
        /\ UNCHANGED <<pc, answer>>
    BY DEF ClearDel, Inv, ClearInv
  <1> HIDE DEF f
  <1>6. ClearInv'
    BY <1>3, <1>4, <1>5 DEF Inv, ClearInv, ClearEmpties
  <1> QED
    BY <1>2, <1>6 DEF Inv

\* hclear gives up.
LEMMA ClearFailInv ==
  ASSUME Inv, NEW t \in Clearers, ClearFail(t) PROVE Inv'
  <1>1. RowsInv' /\ Fields' = Fields
    BY FaultRows DEF Inv, RowsInv, ClearFail, rows, Fields
  <1>2. ClearInv'
    BY <1>1 DEF Inv, ClearInv, ClearFail, ClearEmpties
  <1> QED
    BY <1>1, <1>2 DEF Inv

\* The end of a scan.
LEMMA ClearNextInv ==
  ASSUME Inv, NEW t \in Clearers, ClearNext(t) PROVE Inv'
  <1>1. RowsInv' /\ Fields' = Fields
    BY DEF Inv, RowsInv, ClearNext, rows, SizeIsCount, Fields
  <1>2. ClearInv'
    BY <1>1 DEF Inv, ClearInv, ClearNext, ClearEmpties
  <1> QED
    BY <1>1, <1>2 DEF Inv

\* Every step keeps the invariant.
LEMMA NextInv == ASSUME Inv, [Next]_vars PROVE Inv'
  <1>1. CASE UNCHANGED vars
    BY <1>1 DEF vars, rows, clear, Inv, RowsInv, ClearInv, SizeIsCount, ClearEmpties, Fields
  <1>2. ASSUME NEW f \in Field, NEW v \in Numbers \cup {Text}, hset(f, v) PROVE Inv'
    <2>1. v \in Value \ {NoVal}
      BY ValueAssumption DEF Value
    <2> QED
      BY <1>2, <2>1, SetRows, NoteClear DEF hset, Inv
  <1>3. ASSUME NEW f \in Field, NEW by \in Increments, hincr(f, by) PROVE Inv'
    <2> DEFINE new == IF hashRow[f] = NoVal THEN by ELSE AddInt64(str_to_int64(hashRow[f]), by)
    <2>1. new \in Value \ {NoVal}
      BY <1>3, IncrValue DEF hincr, Inv
    <2>2. /\ \/ hset_one(f, new, FALSE, FALSE) /\ UNCHANGED faults
             \/ Fault /\ hset_one(f, new, TRUE, FALSE)
             \/ Fault /\ hset_one(f, new, FALSE, TRUE)
          /\ Note /\ UNCHANGED clear
      BY <1>3 DEF hincr
    <2> HIDE DEF new
    <2> QED
      BY <2>1, <2>2, SetRows, NoteClear DEF Inv
  <1>4. ASSUME NEW f \in Field, hdel(f) PROVE Inv'
    BY <1>4, DelRows, NoteClear DEF hdel, hdel_txn, Inv
  <1>5. ASSUME NEW t \in Clearers, ClearCall(t) \/ hclear(t) PROVE Inv'
    BY <1>5, ClearCallInv, ClearScanInv, ClearDelInv, ClearFailInv, ClearNextInv DEF hclear
  <1> QED
    BY <1>1, <1>2, <1>3, <1>4, <1>5 DEF Next

\* The two claims are inductive together with the types.
THEOREM HashInv == Spec => []Inv
  BY InitInv, NextInv, PTL DEF Spec

\* HSIZE is the number of rows HASH for any number of threads that set,
\* increment, delete and clear, as long as no read or write has failed.
THEOREM HashSize == Spec => []SizeIsCount
  <1>1. Inv => SizeIsCount
    BY DEF Inv, RowsInv
  <1> QED
    BY <1>1, HashInv, PTL

\* An hclear that returns without an error has seen the hash empty between
\* its call and its return, whatever the other threads were adding.
THEOREM HashClearEmpties == Spec => []ClearEmpties
  <1>1. Inv => ClearEmpties
    BY DEF Inv, ClearInv
  <1> QED
    BY <1>1, HashInv, PTL

-----------------------------------------------------------------------------
(* The loops of the Objective-C interface: what a loop of single calls has *)
(* done stays done, unless somebody else writes there.                     *)

FacadeSpec == FacadeInit /\ [][FacadeNext]_fvars

LoopType ==
  /\ DOMAIN hash = TableFields /\ DOMAIN call = Callers
  /\ \A t \in Callers : DOMAIN call[t] = {"op", "todo", "val", "others"}

\* A loop accounts for all keys: done, still to do, or somebody else's.
LoopInv ==
  \A t \in Callers :
    /\ call[t].op = "zClear" => zmembers \subseteq call[t].others \cup call[t].todo
    /\ call[t].op = "hMSet" =>
         \A f \in TableFields \ (call[t].others \cup call[t].todo) : hash[f] = call[t].val

LEMMA IdleLoop == DOMAIN Idle = {"op", "todo", "val", "others"} /\ Idle.op = "none" /\ Idle.others = {}
  BY DEF Idle

\* What another thread's write changes in the records of the loops.
LEMMA LoopNotices ==
  ASSUME LoopType, NEW t \in Callers, NEW op, NEW x, NEW c, c = Noticed(call, t, op, x)
  PROVE  /\ DOMAIN c = Callers
         /\ \A u \in Callers :
              /\ DOMAIN c[u] = {"op", "todo", "val", "others"}
              /\ c[u].op = call[u].op /\ c[u].todo = call[u].todo /\ c[u].val = call[u].val
              /\ c[u].others = IF u # t /\ call[u].op = op THEN call[u].others \cup {x} ELSE call[u].others
  BY DEF Noticed, LoopType

LEMMA HashLoopStep ==
  ASSUME LoopType, LoopInv, NEW t \in Callers, NEW f \in TableFields,
         hMSetOne(t, f) \/ \E v \in Stored \cup {"none"} : HashOne(t, f, v)
  PROVE  LoopType' /\ LoopInv'
  <1>0. PICK c : c = Noticed(call, t, "hMSet", f)
    OBVIOUS
  <1>1. /\ DOMAIN c = Callers
        /\ \A u \in Callers :
             /\ DOMAIN c[u] = {"op", "todo", "val", "others"}
             /\ c[u].op = call[u].op /\ c[u].todo = call[u].todo /\ c[u].val = call[u].val
             /\ c[u].others =
                  IF u # t /\ call[u].op = "hMSet" THEN call[u].others \cup {f} ELSE call[u].others
    BY <1>0 DEF Noticed, LoopType
  <1>2. ASSUME NEW v \in Stored \cup {"none"}, HashOne(t, f, v) PROVE LoopType' /\ LoopInv'
    <2>1. /\ call[t].op = "none" /\ call' = c /\ zmembers' = zmembers
          /\ hash' \in {hash, [hash EXCEPT ![f] = v]}
      BY <1>0, <1>2, IdleLoop DEF HashOne
    <2>2. DOMAIN hash' = TableFields /\ \A g \in TableFields : g # f => hash'[g] = hash[g]
      BY <2>1 DEF LoopType
    <2>3. LoopType'
      BY <1>1, <2>1, <2>2 DEF LoopType
    <2>4. ASSUME NEW u \in Callers, call'[u].op = "hMSet",
                 NEW g \in TableFields, g \notin call'[u].others \cup call'[u].todo
          PROVE  hash'[g] = call'[u].val
      <3>1. u # t /\ call'[u].val = call[u].val /\ call'[u].todo = call[u].todo
            /\ call'[u].others = call[u].others \cup {f}
        BY <1>1, <2>1, <2>4
      <3>2. g # f /\ hash[g] = call[u].val
        BY <1>1, <2>1, <2>4, <3>1 DEF LoopInv
      <3> QED
        BY <2>2, <3>1, <3>2
    <2>5. ASSUME NEW u \in Callers, call'[u].op = "zClear"
          PROVE  zmembers' \subseteq call'[u].others \cup call'[u].todo
      BY <1>1, <2>1, <2>5 DEF LoopInv
    <2> QED
      BY <2>3, <2>4, <2>5 DEF LoopInv
  <1>3. CASE hMSetOne(t, f)
    <2>1. call[t].op = "hMSet" /\ f \in call[t].todo /\ zmembers' = zmembers
      BY <1>3 DEF hMSetOne
    <2>2. CASE hash' = [hash EXCEPT ![f] = call[t].val] /\ call' = [c EXCEPT ![t].todo = @ \ {f}]
      <3>1. /\ DOMAIN hash' = TableFields /\ hash'[f] = call[t].val
            /\ \A g \in TableFields : g # f => hash'[g] = hash[g]
        BY <2>2 DEF LoopType
      <3>2. /\ DOMAIN call' = Callers
            /\ \A u \in Callers : u # t => call'[u] = c[u]
            /\ DOMAIN call'[t] = {"op", "todo", "val", "others"}
            /\ call'[t].op = "hMSet" /\ call'[t].todo = call[t].todo \ {f}
            /\ call'[t].val = call[t].val /\ call'[t].others = call[t].others
        <4>1. call'[t] = [c[t] EXCEPT !.todo = @ \ {f}] /\ DOMAIN call' = Callers
          BY <1>1, <2>2
        <4>2. /\ DOMAIN c[t] = {"op", "todo", "val", "others"}
              /\ c[t].op = "hMSet" /\ c[t].todo = call[t].todo
              /\ c[t].val = call[t].val /\ c[t].others = call[t].others
          BY <1>1, <2>1
        <4> QED
          BY <1>1, <2>2, <4>1, <4>2
      <3>3. LoopType'
        BY <1>1, <3>1, <3>2 DEF LoopType
      <3>4. ASSUME NEW u \in Callers, call'[u].op = "hMSet",
                   NEW g \in TableFields, g \notin call'[u].others \cup call'[u].todo
            PROVE  hash'[g] = call'[u].val
        <4>1. CASE u = t
          BY <2>1, <3>1, <3>2, <3>4, <4>1 DEF LoopInv
        <4>2. CASE u # t
          <5>1. /\ call[u].op = "hMSet" /\ call'[u].val = call[u].val
                /\ call'[u].todo = call[u].todo /\ call'[u].others = call[u].others \cup {f}
            <6>1. call'[u] = c[u]
              BY <3>2, <4>2
            <6>2. /\ c[u].op = call[u].op /\ c[u].todo = call[u].todo /\ c[u].val = call[u].val
                  /\ c[u].others = IF u # t /\ call[u].op = "hMSet" THEN call[u].others \cup {f} ELSE call[u].others
              BY <1>1
            <6> QED
              BY <3>4, <4>2, <6>1, <6>2
          <5>2. g # f /\ hash[g] = call[u].val
            BY <3>4, <5>1 DEF LoopInv
          <5> QED
            BY <3>1, <5>1, <5>2
        <4> QED
          BY <4>1, <4>2
      <3>5. ASSUME NEW u \in Callers, call'[u].op = "zClear"
            PROVE  zmembers' \subseteq call'[u].others \cup call'[u].todo
        <4>1. u # t /\ call'[u] = c[u]
          BY <3>2, <3>5
        <4> QED
          BY <1>1, <2>1, <3>5, <4>1 DEF LoopInv
      <3> QED
        BY <3>3, <3>4, <3>5 DEF LoopInv
    <2>3. CASE hash' = hash /\ call' = [call EXCEPT ![t].todo = @ \ {f}, ![t].others = @ \cup {f}]
      <3>1. /\ DOMAIN call' = Callers
            /\ \A u \in Callers : u # t => call'[u] = call[u]
            /\ DOMAIN call'[t] = {"op", "todo", "val", "others"}
            /\ call'[t].op = "hMSet" /\ call'[t].todo = call[t].todo \ {f}
            /\ call'[t].val = call[t].val /\ call'[t].others = call[t].others \cup {f}
        BY <2>1, <2>3 DEF LoopType
      <3>2. LoopType'
        BY <2>3, <3>1 DEF LoopType
      <3> QED
        BY <2>1, <2>3, <3>1, <3>2 DEF LoopInv
    <2> QED
      BY <1>0, <1>3, <2>2, <2>3 DEF hMSetOne
  <1> QED
    BY <1>2, <1>3

LEMMA ClearLoopStep ==
  ASSUME LoopType, LoopInv, NEW t \in Callers, NEW k,
         zClearOne(t, k) \/ \E on \in BOOLEAN : ZOne(t, k, on)
  PROVE  LoopType' /\ LoopInv'
  <1>1. ASSUME NEW on \in BOOLEAN, ZOne(t, k, on) PROVE LoopType' /\ LoopInv'
    <2>1. /\ call[t].op = "none" /\ hash' = hash
          /\ zmembers' \in {zmembers, IF on THEN zmembers \cup {k} ELSE zmembers \ {k}}
          /\ call' = IF on THEN Noticed(call, t, "zClear", k) ELSE call
      BY <1>1, IdleLoop DEF ZOne
    <2>2. CASE on
      <3> DEFINE c == Noticed(call, t, "zClear", k)
      <3>1. /\ DOMAIN c = Callers
            /\ \A u \in Callers :
                 /\ DOMAIN c[u] = {"op", "todo", "val", "others"}
                 /\ c[u].op = call[u].op /\ c[u].todo = call[u].todo /\ c[u].val = call[u].val
                 /\ c[u].others =
                      IF u # t /\ call[u].op = "zClear" THEN call[u].others \cup {k} ELSE call[u].others
        BY LoopNotices
      <3>2. call' = c
        BY <2>1, <2>2
      <3> HIDE DEF c
      <3>3. zmembers' \subseteq zmembers \cup {k}
        BY <2>1, <2>2
      <3>4. LoopType'
        BY <2>1, <3>1, <3>2 DEF LoopType
      <3>5. ASSUME NEW u \in Callers, call'[u].op = "zClear"
            PROVE  zmembers' \subseteq call'[u].todo \cup call'[u].others
        <4>1. u # t /\ call[u].op = "zClear" /\ call'[u].todo = call[u].todo
              /\ call'[u].others = call[u].others \cup {k}
          BY <2>1, <3>1, <3>2, <3>5
        <4>2. zmembers \subseteq call[u].todo \cup call[u].others
          BY <4>1 DEF LoopInv
        <4> QED
          BY <3>3, <4>1, <4>2
      <3>6. ASSUME NEW u \in Callers, call'[u].op = "hMSet"
            PROVE  \A f \in TableFields \ (call'[u].others \cup call'[u].todo) : hash'[f] = call'[u].val
        <4>1. call[u].op = "hMSet" /\ call'[u].todo = call[u].todo /\ call'[u].val = call[u].val
              /\ call'[u].others = call[u].others
          BY <3>1, <3>2, <3>6
        <4> QED
          BY <2>1, <4>1 DEF LoopInv
      <3> QED
        BY <3>4, <3>5, <3>6 DEF LoopInv
    <2>3. CASE ~on
      BY <2>1, <2>3 DEF LoopType, LoopInv
    <2> QED
      BY <2>2, <2>3
  <1>2. CASE zClearOne(t, k)
    <2>1. call[t].op = "zClear" /\ hash' = hash
      BY <1>2 DEF zClearOne
    <2>2. /\ DOMAIN call' = Callers
          /\ \A u \in Callers : u # t => call'[u] = call[u]
          /\ DOMAIN call'[t] = {"op", "todo", "val", "others"}
          /\ call'[t].op = "zClear" /\ call'[t].todo = call[t].todo \ {k}
          /\ \/ zmembers' = zmembers \ {k} /\ call'[t].others = call[t].others
             \/ zmembers' = zmembers /\ call'[t].others = call[t].others \cup {k}
      BY <1>2, <2>1 DEF zClearOne, LoopType
    <2>3. LoopType'
      BY <2>1, <2>2 DEF LoopType
    <2> QED
      BY <2>1, <2>2, <2>3 DEF LoopInv
  <1> QED
    BY <1>1, <1>2

LEMMA LoopStep == LoopType /\ LoopInv /\ [FacadeNext]_fvars => LoopType' /\ LoopInv'
  <1> SUFFICES ASSUME LoopType, LoopInv, [FacadeNext]_fvars PROVE LoopType' /\ LoopInv'
    OBVIOUS
  <1>1. CASE UNCHANGED fvars
    BY <1>1 DEF fvars, LoopType, LoopInv
  <1>2. ASSUME NEW t \in Callers, NEW v, SetValue(t, v) PROVE LoopType' /\ LoopInv'
    BY <1>2 DEF SetValue, LoopType, LoopInv
  <1>3. ASSUME NEW t \in Callers, UNCHANGED <<hash, zmembers>>, NEW r, call' = [call EXCEPT ![t] = r],
               DOMAIN r = {"op", "todo", "val", "others"},
               r.op = "zClear" => r.todo = zmembers, r.op = "hMSet" => r.todo = TableFields
        PROVE  LoopType' /\ LoopInv'
    <2>1. DOMAIN call' = Callers /\ call'[t] = r /\ \A u \in Callers : u # t => call'[u] = call[u]
      BY <1>3 DEF LoopType
    <2>2. LoopType'
      BY <1>3, <2>1 DEF LoopType
    <2> QED
      BY <1>3, <2>1, <2>2 DEF LoopInv
  <1>4. ASSUME NEW t \in Callers, hMSet(t, "text") \/ zClear(t) \/ BulkEnd(t) PROVE LoopType' /\ LoopInv'
    <2> DEFINE m == [Idle EXCEPT !.op = "hMSet", !.todo = TableFields, !.val = "text"]
               z == [Idle EXCEPT !.op = "zClear", !.todo = zmembers]
    <2>1. /\ DOMAIN m = {"op", "todo", "val", "others"} /\ m.op = "hMSet" /\ m.todo = TableFields
          /\ DOMAIN z = {"op", "todo", "val", "others"} /\ z.op = "zClear" /\ z.todo = zmembers
      BY IdleLoop
    <2>2. UNCHANGED <<hash, zmembers>> /\ \E r \in {m, z, Idle} : call' = [call EXCEPT ![t] = r]
      BY <1>4 DEF hMSet, zClear, BulkEnd
    <2> HIDE DEF m, z
    <2> QED
      BY <1>3, <2>1, <2>2, IdleLoop
  <1> QED
    BY <1>1, <1>2, <1>4, HashLoopStep, ClearLoopStep DEF FacadeNext

\* When zClear or hMSet has ended, the keys are gone and the fields are set but
\* for those where a call failed or another thread has written meanwhile, for
\* any number of threads and keys, whatever the order of their single calls.
THEOREM LoopsEndDone == FacadeSpec => []BulkIsDone
  <1>1. FacadeInit => LoopType /\ LoopInv
    BY IdleLoop DEF FacadeInit, LoopType, LoopInv
  <1>2. LoopType /\ LoopInv /\ [FacadeNext]_fvars => LoopType' /\ LoopInv'
    BY LoopStep
  <1>3. LoopInv => BulkIsDone
    BY DEF LoopInv, BulkIsDone
  <1> QED
    BY <1>1, <1>2, <1>3, PTL DEF FacadeSpec

-----------------------------------------------------------------------------
(* The environment of leveldb                                              *)

PosixSpec == PosixInit /\ [][PosixNext]_pevars

-----------------------------------------------------------------------------
(* LockFile: locked_files_ is exact, and among processes fcntl decides.    *)

Inside == {"fcntl", "held", "refused", "remove"}

LockType ==
  /\ lk = [table |-> lk.table, owner |-> lk.owner, pc |-> lk.pc, process |-> lk.process]
  /\ lk.process \in Placements
  /\ lk.pc \in [Openers -> Inside \cup {"idle", "close"}]

\* A process is in the table while one of its threads is between the insert
\* and the remove, and that is one thread only.
TableExact ==
  /\ \A p \in lk.table : \E t \in Openers : lk.pc[t] \in Inside /\ ProcessOf(t) = p
  /\ \A t \in Openers : lk.pc[t] \in Inside => ProcessOf(t) \in lk.table
  /\ \A s, t \in Openers : lk.pc[s] \in Inside /\ lk.pc[t] \in Inside /\ ProcessOf(s) = ProcessOf(t) => s = t

Apart == \A s, t \in Openers : ProcessOf(s) = ProcessOf(t) => s = t

OwnerHolds == Apart => \A t \in Openers : lk.pc[t] = "held" => lk.owner = ProcessOf(t)

LockInv == LockType /\ TableExact /\ OwnerHolds

LEMMA LockStart == ASSUME NEW p \in Placements, lk = LockInit(p) PROVE LockInv
  BY PlacementAssumption DEF LockInit, LockInv, LockType, TableExact, OwnerHolds, Inside, ProcessOf

LEMMA LockStepInv == ASSUME LockInv, NEW t \in Openers, LockStep(t) PROVE LockInv'
  <1> DEFINE p == ProcessOf(t)
  <1>1. /\ lk = [table |-> lk.table, owner |-> lk.owner, pc |-> lk.pc, process |-> lk.process]
        /\ lk.process \in Placements /\ lk.pc \in [Openers -> Inside \cup {"idle", "close"}]
        /\ \A s \in Openers : lk.process[s] # NoProcess
    BY PlacementAssumption DEF LockInv, LockType
  <1>2. CASE LockInsert(t)
    <2>1. CASE p \in lk.table
      <3>1. /\ lk' = [lk EXCEPT !.owner = ClosedBy(lk, p)] /\ lk.pc[t] = "idle"
        BY <1>2, <2>1 DEF LockInsert
      <3>2. /\ lk'.pc = lk.pc /\ lk'.process = lk.process /\ lk'.table = lk.table
            /\ lk'.owner = ClosedBy(lk, p) /\ LockType'
        BY <1>1, <3>1 DEF LockType
      <3>3. TableExact'
        BY <3>2 DEF LockInv, TableExact, ProcessOf
      <3>4. ~Apart
        <4>1. PICK s \in Openers : lk.pc[s] \in Inside /\ ProcessOf(s) = p
          BY <2>1 DEF LockInv, TableExact
        <4>2. s # t
          BY <3>1, <4>1 DEF Inside
        <4> QED
          BY <4>1, <4>2 DEF Apart
      <3>5. OwnerHolds'
        BY <3>2, <3>4 DEF OwnerHolds, Apart, ProcessOf
      <3> QED
        BY <3>2, <3>3, <3>5 DEF LockInv
    <2>2. CASE p \notin lk.table
      <3>1. lk' = [lk EXCEPT !.table = @ \cup {p}, !.pc[t] = "fcntl"] /\ lk.pc[t] = "idle"
        BY <1>2, <2>2 DEF LockInsert
      <3>2. /\ lk'.pc = [lk.pc EXCEPT ![t] = "fcntl"] /\ lk'.process = lk.process
            /\ lk'.table = lk.table \cup {p} /\ lk'.owner = lk.owner /\ LockType'
        BY <1>1, <3>1 DEF LockType, Inside
      <3>3. TableExact'
        BY <1>1, <2>2, <3>1, <3>2 DEF LockInv, TableExact, ProcessOf, Inside
      <3>4. OwnerHolds'
        BY <1>1, <3>1, <3>2 DEF LockInv, OwnerHolds, Apart, ProcessOf
      <3> QED
        BY <3>2, <3>3, <3>4 DEF LockInv
    <2> QED
      BY <2>1, <2>2
  <1>3. CASE LockFcntl(t)
    <2>1. CASE lk.owner \in {NoProcess, p}
      <3>1. lk' = [lk EXCEPT !.owner = p, !.pc[t] = "held"] /\ lk.pc[t] = "fcntl"
        BY <1>3, <2>1 DEF LockFcntl
      <3>2. /\ lk'.pc = [lk.pc EXCEPT ![t] = "held"] /\ lk'.process = lk.process
            /\ lk'.table = lk.table /\ lk'.owner = p /\ LockType'
        BY <1>1, <3>1 DEF LockType, Inside
      <3>3. TableExact'
        BY <1>1, <3>1, <3>2 DEF LockInv, TableExact, ProcessOf, Inside
      <3>4. OwnerHolds'
        BY <1>1, <2>1, <3>1, <3>2 DEF LockInv, OwnerHolds, Apart, ProcessOf
      <3> QED
        BY <3>2, <3>3, <3>4 DEF LockInv
    <2>2. CASE lk.owner \notin {NoProcess, p}
      <3>1. lk' = [lk EXCEPT !.pc[t] = "refused"] /\ lk.pc[t] = "fcntl"
        BY <1>3, <2>2 DEF LockFcntl
      <3>2. /\ lk'.pc = [lk.pc EXCEPT ![t] = "refused"] /\ lk'.process = lk.process
            /\ lk'.table = lk.table /\ lk'.owner = lk.owner /\ LockType'
        BY <1>1, <3>1 DEF LockType, Inside
      <3>3. TableExact'
        BY <1>1, <3>1, <3>2 DEF LockInv, TableExact, ProcessOf, Inside
      <3>4. OwnerHolds'
        BY <1>1, <3>1, <3>2 DEF LockInv, OwnerHolds, Apart, ProcessOf
      <3> QED
        BY <3>2, <3>3, <3>4 DEF LockInv
    <2> QED
      BY <2>1, <2>2
  <1>4. CASE LockRefused(t) \/ UnlockRemove(t)
    <2> DEFINE at == IF LockRefused(t) THEN "idle" ELSE "close"
    <2>1. /\ lk' = [lk EXCEPT !.table = @ \ {p}, !.pc[t] = at] /\ lk.pc[t] \in {"refused", "remove"}
      BY <1>4 DEF LockRefused, UnlockRemove
    <2>2. at \in {"idle", "close"}
      OBVIOUS
    <2> HIDE DEF at
    <2>3. /\ lk'.pc = [lk.pc EXCEPT ![t] = at] /\ lk'.process = lk.process
          /\ lk'.table = lk.table \ {p} /\ lk'.owner = lk.owner /\ LockType'
      BY <1>1, <2>1, <2>2 DEF LockType, Inside
    <2>4. TableExact'
      BY <1>1, <2>1, <2>2, <2>3 DEF LockInv, TableExact, ProcessOf, Inside
    <2>5. OwnerHolds'
      BY <1>1, <2>1, <2>2, <2>3 DEF LockInv, OwnerHolds, Apart, ProcessOf
    <2> QED
      BY <2>3, <2>4, <2>5 DEF LockInv
  <1>5. CASE Unlock(t)
    <2>1. /\ lk' = [lk EXCEPT !.owner = IF @ = p THEN NoProcess ELSE @, !.pc[t] = "remove"]
          /\ lk.pc[t] = "held"
      BY <1>5 DEF Unlock
    <2>2. /\ lk'.pc = [lk.pc EXCEPT ![t] = "remove"] /\ lk'.process = lk.process
          /\ lk'.table = lk.table /\ (lk'.owner = lk.owner \/ lk.owner = p) /\ LockType'
      BY <1>1, <2>1 DEF LockType, Inside
    <2>3. TableExact'
      BY <1>1, <2>1, <2>2 DEF LockInv, TableExact, ProcessOf, Inside
    <2>4. OwnerHolds'
      BY <1>1, <2>1, <2>2 DEF LockInv, OwnerHolds, Apart, ProcessOf
    <2> QED
      BY <2>2, <2>3, <2>4 DEF LockInv
  <1>6. CASE UnlockClose(t)
    <2>1. lk' = [lk EXCEPT !.owner = ClosedBy(lk, p), !.pc[t] = "idle"] /\ lk.pc[t] = "close"
      BY <1>6 DEF UnlockClose
    <2>2. /\ lk'.pc = [lk.pc EXCEPT ![t] = "idle"] /\ lk'.process = lk.process
          /\ lk'.table = lk.table /\ (lk'.owner = lk.owner \/ lk.owner = p) /\ LockType'
      BY <1>1, <2>1 DEF LockType, Inside, ClosedBy
    <2>3. TableExact'
      BY <1>1, <2>1, <2>2 DEF LockInv, TableExact, ProcessOf, Inside
    <2>4. OwnerHolds'
      BY <1>1, <2>1, <2>2 DEF LockInv, OwnerHolds, Apart, ProcessOf
    <2> QED
      BY <2>2, <2>3, <2>4 DEF LockInv
  <1> QED
    BY <1>2, <1>3, <1>4, <1>5, <1>6 DEF LockStep

LEMMA LockedOnce == ASSUME LockInv PROVE LockExclusive
  <1>1. Apart \/ \A s, t \in Openers : ProcessOf(s) = ProcessOf(t)
    BY PlacementAssumption DEF LockInv, LockType, Apart, ProcessOf
  <1>2. \A t \in Openers : lk.pc[t] = "held" => lk.pc[t] \in Inside
    BY DEF Inside
  <1> QED
    BY <1>1, <1>2 DEF LockInv, TableExact, OwnerHolds, Apart, LockExclusive

-----------------------------------------------------------------------------
(* The Limiters: what is free and what is in use add up to the limit.      *)

InState(S) == {t \in FileThreads : fl.pc[t] \in S}

FileStates == {"closed", "mmap", "map", "mapped", "fdpeek", "fd", "kept", "temporary"}

FilesInv ==
  /\ fl = [mmaps |-> fl.mmaps, fds |-> fl.fds, pc |-> fl.pc]
  /\ fl.pc \in [FileThreads -> FileStates]
  /\ fl.mmaps \in Nat /\ fl.mmaps + Cardinality(InState({"map", "mapped"})) = mmap_limit
  /\ fl.fds \in Nat /\ fl.fds + Cardinality(InState({"kept"})) = fd_limit

\* One thread moves: it enters a set of states, leaves it, or neither.
LEMMA InStateMoves ==
  ASSUME NEW S, NEW t \in FileThreads, NEW at, fl.pc \in [FileThreads -> FileStates],
         fl'.pc = [fl.pc EXCEPT ![t] = at]
  PROVE  /\ Cardinality(InState(S)) \in Nat
         /\ fl.pc[t] \in S <=> at \in S => InState(S)' = InState(S)
         /\ fl.pc[t] \notin S /\ at \in S => Cardinality(InState(S)') = Cardinality(InState(S)) + 1
         /\ fl.pc[t] \in S /\ at \notin S => Cardinality(InState(S)') = Cardinality(InState(S)) - 1
  <1>1. IsFiniteSet(InState(S))
    BY LimiterAssumption, FS_Subset DEF InState
  <1>2. Cardinality(InState(S)) \in Nat
    BY <1>1, FS_CardinalityType
  <1>3. (fl.pc[t] \in S <=> at \in S) => InState(S)' = InState(S)
    BY DEF InState
  <1>4. ASSUME fl.pc[t] \notin S, at \in S
        PROVE  Cardinality(InState(S)') = Cardinality(InState(S)) + 1
    <2>1. InState(S)' = InState(S) \cup {t} /\ t \notin InState(S)
      BY <1>4 DEF InState
    <2> QED
      BY <1>1, <2>1, FS_AddElement
  <1>5. ASSUME fl.pc[t] \in S, at \notin S
        PROVE  Cardinality(InState(S)') = Cardinality(InState(S)) - 1
    <2>1. InState(S)' = InState(S) \ {t} /\ t \in InState(S)
      BY <1>5 DEF InState
    <2> QED
      BY <1>1, <2>1, FS_RemoveElement
  <1> QED
    BY <1>2, <1>3, <1>4, <1>5

\* A thread that goes into the states of S takes one from the limiter, one
\* that leaves them gives it back.
Exchange(S, from, to, old, new) ==
  /\ (from \in S <=> to \in S) => new = old
  /\ from \in S /\ to \notin S => new = old + 1
  /\ from \notin S /\ to \in S => new = old - 1

\* A step of one thread that keeps both counts right.
LEMMA FilesKept ==
  ASSUME FilesInv, NEW t \in FileThreads, NEW at \in FileStates, NEW m \in Nat, NEW d \in Nat,
         fl' = [mmaps |-> m, fds |-> d, pc |-> [fl.pc EXCEPT ![t] = at]],
         Exchange({"map", "mapped"}, fl.pc[t], at, fl.mmaps, m),
         Exchange({"kept"}, fl.pc[t], at, fl.fds, d)
  PROVE  FilesInv'
  <1>1. /\ fl' = [mmaps |-> fl'.mmaps, fds |-> fl'.fds, pc |-> fl'.pc]
        /\ fl'.pc = [fl.pc EXCEPT ![t] = at] /\ fl'.mmaps = m /\ fl'.fds = d
    OBVIOUS
  <1>2. fl'.pc \in [FileThreads -> FileStates] /\ fl.pc \in [FileThreads -> FileStates]
    BY <1>1 DEF FilesInv
  <1>3. m + Cardinality(InState({"map", "mapped"})') = mmap_limit
    <2> DEFINE S == {"map", "mapped"}
               c == Cardinality(InState(S))
    <2>1. /\ c \in Nat
          /\ fl.pc[t] \in S <=> at \in S => InState(S)' = InState(S)
          /\ fl.pc[t] \notin S /\ at \in S => Cardinality(InState(S)') = c + 1
          /\ fl.pc[t] \in S /\ at \notin S => Cardinality(InState(S)') = c - 1
      BY <1>1, <1>2, InStateMoves
    <2>2. fl.mmaps \in Nat /\ fl.mmaps + c = mmap_limit
      BY DEF FilesInv
    <2> HIDE DEF c
    <2> QED
      BY <2>1, <2>2 DEF c, Exchange
  <1>4. d + Cardinality(InState({"kept"})') = fd_limit
    <2> DEFINE S == {"kept"}
               c == Cardinality(InState(S))
    <2>1. /\ c \in Nat
          /\ fl.pc[t] \in S <=> at \in S => InState(S)' = InState(S)
          /\ fl.pc[t] \notin S /\ at \in S => Cardinality(InState(S)') = c + 1
          /\ fl.pc[t] \in S /\ at \notin S => Cardinality(InState(S)') = c - 1
      BY <1>1, <1>2, InStateMoves
    <2>2. fl.fds \in Nat /\ fl.fds + c = fd_limit
      BY DEF FilesInv
    <2> HIDE DEF c
    <2> QED
      BY <2>1, <2>2 DEF c, Exchange
  <1> QED
    BY <1>1, <1>2, <1>3, <1>4 DEF FilesInv

LEMMA FilesStart == fl = FilesInit => FilesInv
  <1> SUFFICES ASSUME fl = FilesInit PROVE FilesInv
    OBVIOUS
  <1>1. InState({"map", "mapped"}) = {} /\ InState({"kept"}) = {}
    BY DEF FilesInit, InState
  <1>2. Cardinality({}) = 0
    BY FS_EmptySet
  <1>3. fl.pc \in [FileThreads -> FileStates]
    BY DEF FilesInit, FileStates
  <1> QED
    BY <1>1, <1>2, <1>3, LimiterAssumption DEF FilesInit, FilesInv

LEMMA FilesStep ==
  ASSUME FilesInv, NEW t \in FileThreads, OpenFile(t) \/ CloseFile(t) PROVE FilesInv'
  <1>1. /\ fl = [mmaps |-> fl.mmaps, fds |-> fl.fds, pc |-> fl.pc]
        /\ fl.pc \in [FileThreads -> FileStates] /\ fl.mmaps \in Nat /\ fl.fds \in Nat
    BY DEF FilesInv
  <1>2. ASSUME NEW at \in FileStates, NEW m \in Nat, NEW d \in Nat,
               fl' = [mmaps |-> m, fds |-> d, pc |-> [fl.pc EXCEPT ![t] = at]],
               Exchange({"map", "mapped"}, fl.pc[t], at, fl.mmaps, m),
               Exchange({"kept"}, fl.pc[t], at, fl.fds, d)
        PROVE  FilesInv'
    BY <1>2, FilesKept
  <1>3. ASSUME NEW at \in FileStates, fl' = [fl EXCEPT !.pc[t] = at],
               fl.pc[t] \in {"map", "mapped"} <=> at \in {"map", "mapped"},
               fl.pc[t] = "kept" <=> at = "kept"
        PROVE  FilesInv'
    <2>1. fl' = [mmaps |-> fl.mmaps, fds |-> fl.fds, pc |-> [fl.pc EXCEPT ![t] = at]]
      BY <1>1, <1>3
    <2> QED
      BY <1>1, <1>2, <1>3, <2>1 DEF Exchange
  <1>4. ASSUME NEW at \in FileStates, NEW m \in Nat, fl' = [fl EXCEPT !.pc[t] = at, !.mmaps = m],
               \/ fl.pc[t] \in {"map", "mapped"} /\ at = "closed" /\ m = fl.mmaps + 1
               \/ fl.pc[t] = "mmap" /\ at = "map" /\ m = fl.mmaps - 1
        PROVE  FilesInv'
    <2>1. fl' = [mmaps |-> m, fds |-> fl.fds, pc |-> [fl.pc EXCEPT ![t] = at]]
      BY <1>1, <1>4
    <2>2. /\ Exchange({"map", "mapped"}, fl.pc[t], at, fl.mmaps, m)
          /\ Exchange({"kept"}, fl.pc[t], at, fl.fds, fl.fds)
      BY <1>4 DEF Exchange
    <2> QED
      BY <1>1, <1>2, <2>1, <2>2
  <1>5. ASSUME NEW at \in FileStates, NEW d \in Nat, fl' = [fl EXCEPT !.pc[t] = at, !.fds = d],
               \/ fl.pc[t] = "kept" /\ at = "closed" /\ d = fl.fds + 1
               \/ fl.pc[t] = "fd" /\ at = "kept" /\ d = fl.fds - 1
        PROVE  FilesInv'
    <2>1. fl' = [mmaps |-> fl.mmaps, fds |-> d, pc |-> [fl.pc EXCEPT ![t] = at]]
      BY <1>1, <1>5
    <2>2. /\ Exchange({"map", "mapped"}, fl.pc[t], at, fl.mmaps, fl.mmaps)
          /\ Exchange({"kept"}, fl.pc[t], at, fl.fds, d)
      BY <1>5 DEF Exchange
    <2> QED
      BY <1>1, <1>2, <2>1, <2>2
  <1>6. CASE fl.pc[t] = "closed" /\ Peeked(t, "mmaps", "mmap", "fdpeek")
    BY <1>3, <1>6 DEF Peeked, FileStates
  <1>7. CASE fl.pc[t] = "fdpeek" /\ Peeked(t, "fds", "fd", "temporary")
    BY <1>3, <1>7 DEF Peeked, FileStates
  <1>8. CASE fl.pc[t] = "mmap" /\ Acquire(t, "mmaps", "map", "fdpeek")
    <2>1. CASE fl.mmaps <= 0
      <3>1. fl' = [fl EXCEPT !.pc[t] = "fdpeek"]
        BY <1>8, <2>1 DEF Acquire
      <3> QED
        BY <1>3, <1>8, <3>1 DEF FileStates
    <2>2. CASE ~(fl.mmaps <= 0)
      <3>1. fl.mmaps - 1 \in Nat
        BY <1>1, <2>2
      <3>2. fl' = [fl EXCEPT !.mmaps = fl.mmaps - 1, !.pc[t] = "map"]
        BY <1>8, <2>2 DEF Acquire
      <3>3. fl' = [fl EXCEPT !.pc[t] = "map", !.mmaps = fl.mmaps - 1]
        BY <1>1, <3>2
      <3> QED
        BY <1>4, <1>8, <3>1, <3>3 DEF FileStates
    <2> QED
      BY <2>1, <2>2
  <1>9. CASE fl.pc[t] = "fd" /\ Acquire(t, "fds", "kept", "temporary")
    <2>1. CASE fl.fds <= 0
      <3>1. fl' = [fl EXCEPT !.pc[t] = "temporary"]
        BY <1>9, <2>1 DEF Acquire
      <3> QED
        BY <1>3, <1>9, <3>1 DEF FileStates
    <2>2. CASE ~(fl.fds <= 0)
      <3>1. fl.fds - 1 \in Nat
        BY <1>1, <2>2
      <3>2. fl' = [fl EXCEPT !.fds = fl.fds - 1, !.pc[t] = "kept"]
        BY <1>9, <2>2 DEF Acquire
      <3>3. fl' = [fl EXCEPT !.pc[t] = "kept", !.fds = fl.fds - 1]
        BY <1>1, <3>2
      <3> QED
        BY <1>5, <1>9, <3>1, <3>3 DEF FileStates
    <2> QED
      BY <2>1, <2>2
  <1>10. CASE MapFile(t)
    <2>1. CASE fl' = [fl EXCEPT !.pc[t] = "mapped"]
      BY <1>3, <1>10, <2>1 DEF MapFile, FileStates
    <2>2. CASE fl' = [fl EXCEPT !.pc[t] = "closed", !.mmaps = @ + 1]
      <3>1. /\ fl' = [fl EXCEPT !.pc[t] = "closed", !.mmaps = fl.mmaps + 1] /\ fl.mmaps + 1 \in Nat
            /\ fl.pc[t] = "map"
        BY <1>1, <1>10, <2>2 DEF MapFile
      <3> QED
        BY <1>4, <3>1 DEF FileStates
    <2> QED
      BY <1>10, <2>1, <2>2 DEF MapFile
  <1>11. CASE CloseFile(t)
    <2>1. CASE fl.pc[t] = "mapped" /\ fl' = [fl EXCEPT !.pc[t] = "closed", !.mmaps = @ + 1]
      <3>1. fl' = [fl EXCEPT !.pc[t] = "closed", !.mmaps = fl.mmaps + 1] /\ fl.mmaps + 1 \in Nat
        BY <1>1, <2>1
      <3> QED
        BY <1>4, <2>1, <3>1 DEF FileStates
    <2>2. CASE fl.pc[t] = "kept" /\ fl' = [fl EXCEPT !.pc[t] = "closed", !.fds = @ + 1]
      <3>1. fl' = [fl EXCEPT !.pc[t] = "closed", !.fds = fl.fds + 1] /\ fl.fds + 1 \in Nat
        BY <1>1, <2>2
      <3> QED
        BY <1>5, <2>2, <3>1 DEF FileStates
    <2>3. CASE fl.pc[t] = "temporary" /\ fl' = [fl EXCEPT !.pc[t] = "closed"]
      BY <1>3, <2>3 DEF FileStates
    <2> QED
      BY <1>11, <2>1, <2>2, <2>3 DEF CloseFile
  <1> QED
    BY <1>6, <1>7, <1>8, <1>9, <1>10, <1>11 DEF OpenFile

-----------------------------------------------------------------------------
(* Schedule and the background thread.                                     *)

QueueInv ==
  /\ bg = [started |-> bg.started, queue_ |-> bg.queue_, n |-> bg.n, signalled |-> bg.signalled,
           thread |-> bg.thread, ran |-> bg.ran]
  /\ bg.n \in Nat /\ bg.queue_ \in Seq(Nat) /\ bg.ran \in Seq(Nat)
  /\ Len(bg.ran) + Len(bg.queue_) = bg.n
  /\ \A i \in 1 .. Len(bg.ran) : bg.ran[i] = i
  /\ \A i \in 1 .. Len(bg.queue_) : bg.queue_[i] = Len(bg.ran) + i
  /\ bg.started <=> bg.thread # "none"
  /\ bg.queue_ # <<>> => bg.started
  /\ bg.queue_ # <<>> /\ bg.thread = "waiting" => bg.signalled

LEMMA QueueStart == bg = QueueInit => QueueInv
  BY EmptySeq DEF QueueInit, QueueInv

\* The invariant with names for the parts of bg.
OrderInv(q, ran, n, r, l) ==
  /\ q \in Seq(Nat) /\ ran \in Seq(Nat) /\ n \in Nat /\ r \in Nat /\ l \in Nat
  /\ r = Len(ran) /\ l = Len(q) /\ r + l = n
  /\ \A i \in 1 .. r : ran[i] = i
  /\ \A i \in 1 .. l : q[i] = r + i

LEMMA OrderOfInv ==
  ASSUME QueueInv PROVE OrderInv(bg.queue_, bg.ran, bg.n, Len(bg.ran), Len(bg.queue_))
  BY LenProperties DEF QueueInv, OrderInv

LEMMA OrderAppends ==
  ASSUME NEW q, NEW ran, NEW n, NEW r, NEW l, OrderInv(q, ran, n, r, l)
  PROVE  Append(q, n + 1) # <<>> /\ OrderInv(Append(q, n + 1), ran, n + 1, r, l + 1)
  <1> DEFINE new == Append(q, n + 1)
  <1>1. /\ new \in Seq(Nat) /\ Len(new) = l + 1 /\ new # <<>>
        /\ \A i \in 1 .. l : new[i] = q[i]
        /\ new[l + 1] = n + 1
    BY AppendProperties DEF OrderInv
  <1> HIDE DEF new
  <1>2. \A i \in 1 .. l + 1 : new[i] = r + i
    <2>1. \A i \in 1 .. l + 1 : i \in 1 .. l \/ i = l + 1
      BY DEF OrderInv
    <2>2. n + 1 = r + (l + 1)
      BY DEF OrderInv
    <2> QED
      BY <1>1, <2>1, <2>2 DEF OrderInv
  <1>3. r + (l + 1) = n + 1 /\ n + 1 \in Nat /\ l + 1 \in Nat
    BY DEF OrderInv
  <1>4. OrderInv(new, ran, n + 1, r, l + 1)
    BY <1>1, <1>2, <1>3 DEF OrderInv
  <1> QED
    BY <1>1, <1>4 DEF new

LEMMA OrderMoves ==
  ASSUME NEW q, NEW ran, NEW n, NEW r, NEW l, OrderInv(q, ran, n, r, l), q # <<>>
  PROVE  OrderInv(Tail(q), Append(ran, Head(q)), n, r + 1, l - 1)
  <1> DEFINE first == Head(q)
             done == Append(ran, first)
             rest == Tail(q)
  <1>1. /\ l > 0 /\ first = q[1] /\ rest \in Seq(Nat) /\ Len(rest) = l - 1 /\ first \in Nat
        /\ \A i \in 1 .. l - 1 : rest[i] = q[i + 1]
    BY HeadTailProperties, EmptySeq DEF OrderInv
  <1>2. first = r + 1
    BY <1>1 DEF OrderInv
  <1>3. /\ done \in Seq(Nat) /\ Len(done) = r + 1
        /\ \A i \in 1 .. r : done[i] = ran[i]
        /\ done[r + 1] = first
    BY <1>1, AppendProperties DEF OrderInv
  <1> HIDE DEF first, done, rest
  <1>4. \A i \in 1 .. r + 1 : done[i] = i
    <2>1. \A i \in 1 .. r + 1 : i \in 1 .. r \/ i = r + 1
      BY DEF OrderInv
    <2> QED
      BY <1>2, <1>3, <2>1 DEF OrderInv
  <1>5. \A i \in 1 .. l - 1 : rest[i] = (r + 1) + i
    <2>1. \A i \in 1 .. l - 1 : i + 1 \in 1 .. l /\ r + (i + 1) = (r + 1) + i
      BY DEF OrderInv
    <2> QED
      BY <1>1, <2>1 DEF OrderInv
  <1>6. r + 1 \in Nat /\ l - 1 \in Nat /\ (r + 1) + (l - 1) = n
    <2>1. l \in Nat /\ r \in Nat /\ r + l = n /\ l > 0
      BY <1>1 DEF OrderInv
    <2> QED
      BY <2>1
  <1>7. OrderInv(rest, done, n, r + 1, l - 1)
    BY <1>1, <1>3, <1>4, <1>5, <1>6 DEF OrderInv
  <1> QED
    BY <1>7 DEF first, done, rest

LEMMA OrderIsAll ==
  ASSUME NEW q, NEW ran, NEW n, NEW r, NEW l, OrderInv(q, ran, n, r, l)
  PROVE  ran \o q = [i \in 1 .. n |-> i]
  <1> DEFINE all == ran \o q
             numbers == [i \in 1 .. n |-> i]
  <1>1. /\ all \in Seq(Nat) /\ Len(all) = n
        /\ \A i \in 1 .. n : all[i] = IF i <= r THEN ran[i] ELSE q[i - r]
    BY ConcatProperties DEF OrderInv
  <1>2. numbers \in Seq(Nat) /\ Len(numbers) = n /\ \A i \in 1 .. n : numbers[i] = i
    <2>1. n \in Nat /\ \A i \in 1 .. n : i \in Nat
      BY DEF OrderInv
    <2>2. numbers \in Seq(Nat)
      BY <2>1
    <2>3. DOMAIN numbers = 1 .. n
      OBVIOUS
    <2>4. Len(numbers) = n
      BY <2>1, <2>2, <2>3, LenProperties
    <2> QED
      BY <2>4, <2>2
  <1> HIDE DEF all, numbers
  <1>3. \A i \in 1 .. n : all[i] = i
    <2> SUFFICES ASSUME NEW i \in 1 .. n PROVE all[i] = i
      OBVIOUS
    <2>1. CASE i <= r
      <3>1. i \in 1 .. r
        BY <2>1 DEF OrderInv
      <3> QED
        BY <1>1, <2>1, <3>1 DEF OrderInv
    <2>2. CASE ~(i <= r)
      <3>1. i - r \in 1 .. l /\ r + (i - r) = i
        BY <2>2 DEF OrderInv
      <3> QED
        BY <1>1, <2>2, <3>1 DEF OrderInv
    <2> QED
      BY <2>1, <2>2
  <1>4. all = numbers
    BY <1>1, <1>2, <1>3, SeqEqual
  <1> QED
    BY <1>4 DEF all, numbers

LEMMA ScheduleInv == ASSUME QueueInv, bg' = Schedule(bg) PROVE QueueInv'
  <1> DEFINE q == bg.queue_
             new == Append(q, bg.n + 1)
  <1>1. new # <<>> /\ OrderInv(new, bg.ran, bg.n + 1, Len(bg.ran), Len(q) + 1)
    BY OrderOfInv, OrderAppends
  <1> HIDE DEF new
  <1>2. /\ bg'.queue_ = new /\ bg'.n = bg.n + 1 /\ bg'.ran = bg.ran /\ bg'.started = TRUE
        /\ bg'.thread = (IF bg.started THEN bg.thread ELSE "ready")
        /\ bg'.signalled = (bg.signalled \/ (q = <<>> /\ bg.thread = "waiting"))
        /\ bg' = [started |-> bg'.started, queue_ |-> bg'.queue_, n |-> bg'.n, signalled |-> bg'.signalled,
                  thread |-> bg'.thread, ran |-> bg'.ran]
    BY DEF QueueInv, Schedule, new
  <1>3. bg'.thread # "none" /\ (bg'.thread = "waiting" => bg.thread = "waiting")
    BY <1>2 DEF QueueInv
  <1>4. bg'.thread = "waiting" => bg'.signalled
    BY <1>2, <1>3 DEF QueueInv
  <1> QED
    BY <1>1, <1>2, <1>3, <1>4 DEF QueueInv, OrderInv

LEMMA BGInv == ASSUME QueueInv, BGThread \/ BGDone PROVE QueueInv'
  <1> DEFINE q == bg.queue_
  <1>1. CASE BGDone
    BY <1>1 DEF BGDone, QueueInv
  <1>2. CASE BGThread /\ q = <<>>
    BY <1>2 DEF BGThread, QueueInv
  <1>3. CASE BGThread /\ q # <<>>
    <2> DEFINE ran == Append(bg.ran, Head(q))
               rest == Tail(q)
    <2>1. OrderInv(rest, ran, bg.n, Len(bg.ran) + 1, Len(q) - 1)
      BY <1>3, OrderOfInv, OrderMoves
    <2> HIDE DEF ran, rest
    <2>2. /\ bg'.queue_ = rest /\ bg'.n = bg.n /\ bg'.ran = ran /\ bg'.started = bg.started
          /\ bg'.thread = "running" /\ bg.thread # "none"
          /\ bg' = [started |-> bg'.started, queue_ |-> bg'.queue_, n |-> bg'.n, signalled |-> bg'.signalled,
                    thread |-> bg'.thread, ran |-> bg'.ran]
      BY <1>3 DEF QueueInv, BGThread, ran, rest
    <2> QED
      BY <2>1, <2>2 DEF QueueInv, OrderInv
  <1> QED
    BY <1>1, <1>2, <1>3

LEMMA QueueInOrder == ASSUME QueueInv PROVE NothingUnsignalled
  <1>1. bg.ran \o bg.queue_ = [i \in 1 .. bg.n |-> i]
    BY OrderOfInv, OrderIsAll
  <1> QED
    BY <1>1 DEF NothingUnsignalled, QueueInv

-----------------------------------------------------------------------------
(* The environment.                                                        *)

EnvInv == LockInv /\ FilesInv /\ QueueInv

LEMMA EnvInvariant == PosixSpec => []EnvInv
  <1>1. PosixInit => EnvInv
    BY LockStart, FilesStart, QueueStart DEF PosixInit, EnvInv
  <1>2. EnvInv /\ [PosixNext]_pevars => EnvInv'
    <2> SUFFICES ASSUME EnvInv, [PosixNext]_pevars PROVE EnvInv'
      OBVIOUS
    <2>1. lk' = lk => LockInv'
      BY DEF EnvInv, LockInv, LockType, TableExact, OwnerHolds, Apart, ProcessOf
    <2>2. fl' = fl => FilesInv'
      BY DEF EnvInv, FilesInv, InState
    <2>3. bg' = bg => QueueInv'
      BY DEF EnvInv, QueueInv
    <2>4. CASE UNCHANGED pevars
      BY <2>1, <2>2, <2>3, <2>4 DEF pevars, EnvInv
    <2>5. ASSUME NEW t \in Openers, LockStep(t), UNCHANGED <<fl, bg>> PROVE EnvInv'
      BY <2>2, <2>3, <2>5, LockStepInv DEF EnvInv
    <2>6. ASSUME NEW t \in FileThreads, OpenFile(t) \/ CloseFile(t), UNCHANGED <<lk, bg>> PROVE EnvInv'
      BY <2>1, <2>3, <2>6, FilesStep DEF EnvInv
    <2>7. CASE bg' = Schedule(bg) /\ UNCHANGED <<lk, fl>>
      BY <2>1, <2>2, <2>7, ScheduleInv DEF EnvInv
    <2>8. CASE (BGThread \/ BGDone) /\ UNCHANGED <<lk, fl>>
      BY <2>1, <2>2, <2>8, BGInv DEF EnvInv
    <2> QED
      BY <2>4, <2>5, <2>6, <2>7, <2>8 DEF PosixNext
  <1> QED
    BY <1>1, <1>2, PTL DEF PosixSpec

\* A database directory is open in one place at a time, whether the threads
\* that open it are of one process (locked_files_) or of several (fcntl); the
\* Limiters never let in more than their limits although Acquire first looks
\* without the mutex and mapping may fail; and what is scheduled runs once, in
\* order, and is never left behind by a thread that waits unsignalled.
THEOREM EnvironmentIsSound == PosixSpec => []EnvIsSound
  <1>1. EnvInv => EnvIsSound
    <2> SUFFICES ASSUME EnvInv PROVE EnvIsSound
      OBVIOUS
    <2>1. LimitsKept
      BY DEF EnvInv, FilesInv, LimitsKept, InState
    <2> QED
      BY <2>1, LockedOnce, QueueInOrder DEF EnvInv, EnvIsSound
  <1> QED
    BY <1>1, EnvInvariant, PTL

-----------------------------------------------------------------------------
(* Sequences without repetition.                                           *)

LEMMA ToSetElements ==
  ASSUME NEW S, NEW s \in Seq(S)
  PROVE  /\ DOMAIN s = 1 .. Len(s) /\ Len(s) \in Nat
         /\ ToSet(s) = {s[i] : i \in 1 .. Len(s)} /\ ToSet(s) \subseteq S
  BY LenProperties, ElementOfSeq DEF ToSet

LEMMA DistinctConcat ==
  ASSUME NEW S, NEW a \in Seq(S), NEW b \in Seq(S),
         IsInjective(a), IsInjective(b), ToSet(a) \cap ToSet(b) = {}
  PROVE  /\ a \o b \in Seq(S) /\ IsInjective(a \o b)
         /\ ToSet(a \o b) = ToSet(a) \cup ToSet(b)
  <1> DEFINE m == Len(a)
             n == Len(b)
             c == a \o b
  <1>1. /\ DOMAIN a = 1 .. m /\ DOMAIN b = 1 .. n /\ m \in Nat /\ n \in Nat
        /\ ToSet(a) = {a[i] : i \in 1 .. m} /\ ToSet(b) = {b[i] : i \in 1 .. n}
    BY ToSetElements
  <1>2. /\ c \in Seq(S) /\ Len(c) = m + n
        /\ \A i \in 1 .. m + n : c[i] = IF i <= m THEN a[i] ELSE b[i - m]
    BY ConcatProperties
  <1>3. DOMAIN c = 1 .. m + n /\ ToSet(c) = {c[i] : i \in 1 .. m + n}
    BY <1>2, ToSetElements
  <1> HIDE DEF m, n, c
  <1>4. \A i \in 1 .. m + n : \/ i \in 1 .. m /\ c[i] = a[i]
                              \/ i - m \in 1 .. n /\ c[i] = b[i - m]
    BY <1>1, <1>2
  <1>5. \A i \in 1 .. m : i \in 1 .. m + n /\ c[i] = a[i]
    BY <1>1, <1>2
  <1>6. \A i \in 1 .. n : m + i \in 1 .. m + n /\ c[m + i] = b[i]
    <2> SUFFICES ASSUME NEW i \in 1 .. n PROVE m + i \in 1 .. m + n /\ c[m + i] = b[i]
      OBVIOUS
    <2>1. m + i \in 1 .. m + n /\ ~(m + i <= m) /\ (m + i) - m = i
      BY <1>1
    <2> QED
      BY <1>2, <2>1
  <1>7. ToSet(c) = ToSet(a) \cup ToSet(b)
    BY <1>1, <1>3, <1>4, <1>5, <1>6
  <1>8. IsInjective(c)
    <2> SUFFICES ASSUME NEW i \in 1 .. m + n, NEW j \in 1 .. m + n, c[i] = c[j] PROVE i = j
      BY <1>3 DEF IsInjective
    <2>1. CASE i \in 1 .. m /\ c[i] = a[i]
      <3>1. CASE j \in 1 .. m /\ c[j] = a[j]
        BY <1>1, <2>1, <3>1 DEF IsInjective
      <3>2. CASE j - m \in 1 .. n /\ c[j] = b[j - m]
        BY <1>1, <2>1, <3>2
      <3> QED
        BY <1>4, <3>1, <3>2
    <2>2. CASE i - m \in 1 .. n /\ c[i] = b[i - m]
      <3>1. CASE j \in 1 .. m /\ c[j] = a[j]
        BY <1>1, <2>2, <3>1
      <3>2. CASE j - m \in 1 .. n /\ c[j] = b[j - m]
        <4>1. i - m = j - m
          BY <1>1, <2>2, <3>2 DEF IsInjective
        <4> QED
          BY <1>1, <4>1
      <3> QED
        BY <1>4, <3>1, <3>2
    <2> QED
      BY <1>4, <2>1, <2>2
  <1> QED
    BY <1>2, <1>7, <1>8 DEF c

LEMMA DistinctAppend ==
  ASSUME NEW S, NEW a \in Seq(S), NEW x \in S, IsInjective(a), x \notin ToSet(a)
  PROVE  /\ Append(a, x) \in Seq(S) /\ IsInjective(Append(a, x))
         /\ ToSet(Append(a, x)) = ToSet(a) \cup {x} /\ Len(Append(a, x)) = Len(a) + 1
  <1> DEFINE m == Len(a)
             c == Append(a, x)
  <1>1. DOMAIN a = 1 .. m /\ m \in Nat /\ ToSet(a) = {a[i] : i \in 1 .. m}
    BY ToSetElements
  <1>2. /\ c \in Seq(S) /\ Len(c) = m + 1 /\ c[m + 1] = x
        /\ \A i \in 1 .. m : c[i] = a[i]
    BY AppendProperties
  <1>3. DOMAIN c = 1 .. m + 1 /\ ToSet(c) = {c[i] : i \in 1 .. m + 1}
    BY <1>2, ToSetElements
  <1> HIDE DEF m, c
  <1>4. \A i \in 1 .. m + 1 : i \in 1 .. m \/ i = m + 1
    BY <1>1
  <1>5. m + 1 \in 1 .. m + 1 /\ \A i \in 1 .. m : i \in 1 .. m + 1
    BY <1>1
  <1>6. ToSet(c) = ToSet(a) \cup {x}
    BY <1>1, <1>2, <1>3, <1>4, <1>5
  <1>7. IsInjective(c)
    BY <1>1, <1>2, <1>3, <1>4 DEF IsInjective
  <1> QED
    BY <1>2, <1>6, <1>7 DEF m, c

LEMMA DistinctTail ==
  ASSUME NEW S, NEW a \in Seq(S), IsInjective(a), a # <<>>
  PROVE  /\ Tail(a) \in Seq(S) /\ IsInjective(Tail(a)) /\ Len(Tail(a)) = Len(a) - 1 /\ Head(a) \in S
         /\ Head(a) \in ToSet(a) /\ ToSet(Tail(a)) = ToSet(a) \ {Head(a)}
  <1> DEFINE m == Len(a)
             c == Tail(a)
             x == Head(a)
  <1>1. DOMAIN a = 1 .. m /\ m \in Nat /\ ToSet(a) = {a[i] : i \in 1 .. m} /\ ToSet(a) \subseteq S
    BY ToSetElements
  <1>2. /\ c \in Seq(S) /\ Len(c) = m - 1 /\ m > 0 /\ x = a[1]
        /\ \A i \in 1 .. m - 1 : c[i] = a[i + 1]
    BY HeadTailProperties, EmptySeq
  <1>3. DOMAIN c = 1 .. m - 1 /\ ToSet(c) = {c[i] : i \in 1 .. m - 1}
    BY <1>2, ToSetElements
  <1> HIDE DEF m, c, x
  <1>4. \A i \in 1 .. m : i = 1 \/ (i - 1 \in 1 .. m - 1 /\ (i - 1) + 1 = i)
    BY <1>1
  <1>5. 1 \in 1 .. m /\ \A i \in 1 .. m - 1 : i + 1 \in 1 .. m /\ i + 1 # 1
    BY <1>1, <1>2
  <1>6. \A i \in 1 .. m - 1 : c[i] \in ToSet(a) /\ c[i] # x
    BY <1>1, <1>2, <1>5 DEF IsInjective
  <1>7. \A i \in 1 .. m : a[i] = x \/ a[i] \in ToSet(c)
    BY <1>2, <1>3, <1>4
  <1>8. ToSet(c) = ToSet(a) \ {x}
    BY <1>1, <1>3, <1>6, <1>7
  <1>9. IsInjective(c)
    <2> SUFFICES ASSUME NEW i \in 1 .. m - 1, NEW j \in 1 .. m - 1, c[i] = c[j] PROVE i = j
      BY <1>3 DEF IsInjective
    <2>1. i + 1 = j + 1
      BY <1>1, <1>2, <1>5 DEF IsInjective
    <2> QED
      BY <2>1
  <1> QED
    BY <1>1, <1>2, <1>5, <1>8, <1>9 DEF m, c, x

LEMMA SetToSeqDistinct ==
  ASSUME NEW S, IsFiniteSet(S)
  PROVE  /\ Cardinality(S) \in Nat /\ SetToSeq(S) \in [1 .. Cardinality(S) -> S]
         /\ IsInjective(SetToSeq(S))
         /\ \A x \in S : \E i \in 1 .. Cardinality(S) : SetToSeq(S)[i] = x
  <1> DEFINE n == Cardinality(S)
             f == SetToSeq(S)
  <1>1. n \in Nat /\ ExistsBijection(1 .. n, S)
    BY FS_CardinalityType
  <1>2. \E g \in [1 .. n -> S] : IsInjective(g)
    BY <1>1 DEF ExistsBijection, Bijection, Injection
  <1>3. f \in [1 .. n -> S] /\ IsInjective(f)
    BY <1>2 DEF SetToSeq
  <1> HIDE DEF f
  <1>4. f \in Injection(1 .. n, S)
    BY <1>3 DEF Injection
  <1>5. Cardinality(1 .. n) = n
    BY <1>1, FS_Interval
  <1>6. f \in Surjection(1 .. n, S)
    BY <1>4, <1>5, FS_Injection
  <1> QED
    BY <1>1, <1>3, <1>6 DEF Surjection, f

-----------------------------------------------------------------------------
(* WorkerPool: each job is in one place.                                   *)

PoolSpec == PoolInit /\ [][PoolNext]_wpvars

WorkerStates == {"pop", "wait", "proc", "push", "write", "dead"}

PoolType ==
  /\ todo \subseteq Jobs /\ jobs \in Seq(Jobs) /\ results \in Seq(Jobs) /\ out \in Seq(Jobs)
  /\ worker \in [Workers -> [at : WorkerStates, job : Jobs \cup {0}]]
  /\ \A w \in Workers : worker[w].job # 0 <=> worker[w].at \in {"proc", "push"}

\* The jobs in the workers' hands.
Hands == {worker[w].job : w \in Workers} \ {0}

\* Five sets that have nothing in common make up the jobs.
Places(A, B, C, D, E) ==
  /\ Jobs = A \cup B \cup C \cup D \cup E
  /\ A \cap (B \cup C \cup D \cup E) = {} /\ B \cap (C \cup D \cup E) = {}
  /\ C \cap (D \cup E) = {} /\ D \cap E = {}

Placed ==
  /\ IsInjective(jobs) /\ IsInjective(results) /\ IsInjective(out)
  /\ \A v, w \in Workers : worker[v].job = worker[w].job /\ worker[v].job # 0 => v = w
  /\ Places(todo, ToSet(jobs), Hands, ToSet(results), ToSet(out))

\* The reader never waits for a result that is not there: a result is added
\* before its byte is written, and rmutex is taken in between.
BytesHaveResults ==
  /\ pipe \in Nat /\ reader \in {"read", "lock"}
  /\ \A w \in Workers : worker[w].at = "write" => rmutex = w
  /\ pipe + (IF reader = "lock" THEN 1 ELSE 0) + (IF rmutex = 0 THEN 0 ELSE 1) <= Len(results)

PoolInv == PoolType /\ Placed /\ BytesHaveResults /\ NobodySleeps

LEMMA PoolStart == PoolInit => PoolInv
  <1> SUFFICES ASSUME PoolInit PROVE PoolInv
    OBVIOUS
  <1>1. PoolType
    BY PoolAssumption, EmptySeq DEF PoolInit, PoolType, WorkerStates
  <1>2. <<>> \in Seq(Jobs) /\ Len(<<>>) = 0 /\ ToSet(<<>>) = {} /\ IsInjective(<<>>)
    <2>1. <<>> \in Seq(Jobs) /\ Len(<<>>) = 0
      BY EmptySeq
    <2>2. DOMAIN <<>> = 1 .. 0
      BY <2>1, LenProperties
    <2>3. 1 .. 0 = {}
      OBVIOUS
    <2> QED
      BY <2>1, <2>2, <2>3 DEF ToSet, IsInjective
  <1>3. Hands = {}
    BY DEF PoolInit, Hands
  <1>4. Placed
    BY <1>2, <1>3 DEF PoolInit, Placed, Places
  <1>5. BytesHaveResults
    BY <1>2 DEF PoolInit, BytesHaveResults
  <1>6. NobodySleeps
    BY DEF PoolInit, NobodySleeps
  <1> QED
    BY <1>1, <1>4, <1>5, <1>6 DEF PoolInv

\* A worker that goes elsewhere with the job it has, or with none.
LEMMA WorkerMoves ==
  ASSUME PoolInv, NEW w \in Workers, NEW at \in WorkerStates, worker' = [worker EXCEPT ![w].at = at],
         worker[w].job # 0 <=> at \in {"proc", "push"}
  PROVE  /\ worker' \in [Workers -> [at : WorkerStates, job : Jobs \cup {0}]]
         /\ \A v \in Workers : worker'[v].job # 0 <=> worker'[v].at \in {"proc", "push"}
         /\ \A v \in Workers : worker'[v].job = worker[v].job
         /\ worker'[w].at = at /\ \A v \in Workers : v # w => worker'[v] = worker[v]
  BY DEF PoolInv, PoolType

\* Nothing changes its place.
LEMMA SamePlaces ==
  ASSUME Placed, UNCHANGED <<todo, jobs, results, out>>, \A v \in Workers : worker'[v].job = worker[v].job
  PROVE  Placed'
  <1>1. Hands' = Hands
    BY DEF Hands
  <1> QED
    BY <1>1 DEF Placed

\* A worker takes job x, or lays its job down.
LEMMA WorkerTakes ==
  ASSUME PoolInv, NEW w \in Workers, NEW x \in Jobs, worker[w].at = "pop", x \notin Hands,
         worker' = [worker EXCEPT ![w] = [at |-> "proc", job |-> x]]
  PROVE  /\ worker' \in [Workers -> [at : WorkerStates, job : Jobs \cup {0}]]
         /\ \A v \in Workers : worker'[v].job # 0 <=> worker'[v].at \in {"proc", "push"}
         /\ \A u, v \in Workers : worker'[u].job = worker'[v].job /\ worker'[u].job # 0 => u = v
         /\ Hands' = Hands \cup {x} /\ worker'[w].at = "proc"
         /\ \A v \in Workers : v # w => worker'[v] = worker[v]
  <1>1. /\ worker \in [Workers -> [at : WorkerStates, job : Jobs \cup {0}]]
        /\ \A v \in Workers : worker[v].job # 0 <=> worker[v].at \in {"proc", "push"}
        /\ \A u, v \in Workers : worker[u].job = worker[v].job /\ worker[u].job # 0 => u = v
        /\ worker[w].job = 0 /\ x # 0
    BY PoolAssumption DEF PoolInv, PoolType, Placed
  <1>2. /\ worker'[w].job = x /\ worker'[w].at = "proc"
        /\ \A v \in Workers : v # w => worker'[v] = worker[v]
        /\ worker' \in [Workers -> [at : WorkerStates, job : Jobs \cup {0}]]
    BY <1>1 DEF WorkerStates
  <1>3. \A v \in Workers : worker[v].job # x
    BY <1>1 DEF Hands
  <1>4. Hands' = Hands \cup {x}
    BY <1>1, <1>2 DEF Hands
  <1> QED
    BY <1>1, <1>2, <1>3, <1>4

LEMMA WorkerLaysDown ==
  ASSUME PoolInv, NEW w \in Workers, worker[w].at = "push",
         worker' = [worker EXCEPT ![w] = [at |-> "write", job |-> 0]]
  PROVE  /\ worker' \in [Workers -> [at : WorkerStates, job : Jobs \cup {0}]]
         /\ \A v \in Workers : worker'[v].job # 0 <=> worker'[v].at \in {"proc", "push"}
         /\ \A u, v \in Workers : worker'[u].job = worker'[v].job /\ worker'[u].job # 0 => u = v
         /\ worker[w].job \in Hands /\ worker[w].job \in Jobs /\ Hands' = Hands \ {worker[w].job}
         /\ worker'[w].at = "write"
         /\ \A v \in Workers : v # w => worker'[v] = worker[v]
  <1>1. /\ worker \in [Workers -> [at : WorkerStates, job : Jobs \cup {0}]]
        /\ \A v \in Workers : worker[v].job # 0 <=> worker[v].at \in {"proc", "push"}
        /\ \A u, v \in Workers : worker[u].job = worker[v].job /\ worker[u].job # 0 => u = v
        /\ worker[w].job # 0
    BY DEF PoolInv, PoolType, Placed
  <1>2. /\ worker'[w].job = 0 /\ worker'[w].at = "write"
        /\ \A v \in Workers : v # w => worker'[v] = worker[v]
        /\ worker' \in [Workers -> [at : WorkerStates, job : Jobs \cup {0}]]
    BY <1>1 DEF WorkerStates
  <1>3. worker[w].job \in Hands /\ worker[w].job \in Jobs
    BY <1>1 DEF Hands
  <1>4. Hands' = Hands \ {worker[w].job}
    <2>1. \A v \in Workers : v # w => worker[v].job # worker[w].job
      BY <1>1
    <2> QED
      BY <1>1, <1>2, <2>1 DEF Hands
  <1> QED
    BY <1>1, <1>2, <1>3, <1>4

-----------------------------------------------------------------------------
(* The steps of the pool.                                                  *)

\* A step that leaves the jobs where they are.
LEMMA PoolStays ==
  ASSUME PoolInv, UNCHANGED <<todo, jobs, results, out>>,
         worker' \in [Workers -> [at : WorkerStates, job : Jobs \cup {0}]],
         \A v \in Workers : worker'[v].job # 0 <=> worker'[v].at \in {"proc", "push"},
         \A v \in Workers : worker'[v].job = worker[v].job,
         BytesHaveResults', NobodySleeps'
  PROVE  PoolInv'
  BY SamePlaces DEF PoolInv, PoolType

LEMMA PushKeepsPool ==
  ASSUME PoolInv, NEW c \in PoolClients, NEW j \in todo, QueuePush(c, j) PROVE PoolInv'
  <1>1. /\ jobs \in Seq(Jobs) /\ IsInjective(jobs) /\ j \in Jobs /\ j \notin ToSet(jobs)
    BY DEF PoolInv, PoolType, Placed, Places
  <1>2. /\ jobs' = Append(jobs, j) /\ todo' = todo \ {j} /\ signals' = signals \cup {c}
        /\ UNCHANGED <<jmutex, results, rmutex, pipe, worker, reader, out, stopped>>
    BY DEF QueuePush
  <1>3. jobs' \in Seq(Jobs) /\ IsInjective(jobs') /\ ToSet(jobs') = ToSet(jobs) \cup {j}
    BY <1>1, <1>2, DistinctAppend
  <1>4. PoolType'
    BY <1>2, <1>3 DEF PoolInv, PoolType
  <1>5. Placed'
    <2>1. Hands' = Hands /\ ToSet(results)' = ToSet(results) /\ ToSet(out)' = ToSet(out)
      BY <1>2 DEF Hands
    <2>2. Places(todo', ToSet(jobs'), Hands', ToSet(results'), ToSet(out'))
      BY <1>2, <1>3, <2>1 DEF PoolInv, Placed, Places
    <2> QED
      BY <1>2, <1>3, <2>2 DEF PoolInv, Placed
  <1>6. BytesHaveResults'
    BY <1>2 DEF PoolInv, BytesHaveResults
  <1>7. NobodySleeps'
    BY <1>2 DEF NobodySleeps
  <1> QED
    BY <1>4, <1>5, <1>6, <1>7 DEF PoolInv

LEMMA SignalKeepsPool ==
  ASSUME PoolInv, NEW c \in PoolClients, QueueSignal(c) PROVE PoolInv'
  <1> DEFINE W == {w \in Workers : worker[w].at = "wait"}
  <1>1. UNCHANGED <<todo, jobs, jmutex, results, rmutex, pipe, reader, out, stopped>>
    BY DEF QueueSignal
  <1>2. ASSUME NEW w \in W, Goto(w, "pop") PROVE PoolInv'
    <2>1. worker[w].job = 0 /\ w \in Workers /\ "pop" \in WorkerStates
      BY DEF PoolInv, PoolType, WorkerStates
    <2>2. /\ worker' \in [Workers -> [at : WorkerStates, job : Jobs \cup {0}]]
          /\ \A v \in Workers : worker'[v].job # 0 <=> worker'[v].at \in {"proc", "push"}
          /\ \A v \in Workers : worker'[v].job = worker[v].job
          /\ worker'[w].at = "pop" /\ \A v \in Workers : v # w => worker'[v] = worker[v]
      BY <1>2, <2>1, WorkerMoves DEF Goto
    <2>3. BytesHaveResults'
      BY <1>1, <2>2 DEF PoolInv, BytesHaveResults
    <2>4. NobodySleeps'
      BY <1>1, <2>1, <2>2 DEF NobodySleeps
    <2> QED
      BY <1>1, <2>2, <2>3, <2>4, PoolStays
  <1>3. CASE W = {} /\ UNCHANGED worker
    <2>1. BytesHaveResults'
      BY <1>1, <1>3 DEF PoolInv, BytesHaveResults
    <2>2. NobodySleeps'
      BY <1>1, <1>3, PoolAssumption DEF NobodySleeps
    <2> QED
      BY <1>1, <1>3, <2>1, <2>2, PoolStays DEF PoolInv, PoolType
  <1> QED
    BY <1>2, <1>3 DEF QueueSignal

LEMMA PopKeepsPool ==
  ASSUME PoolInv, NEW w \in Workers, QueuePop(w) PROVE PoolInv'
  <1>1. /\ worker[w].at = "pop" /\ worker[w].job = 0
        /\ UNCHANGED <<todo, jmutex, results, rmutex, pipe, signals, reader, out, stopped>>
    BY DEF QueuePop, PoolInv, PoolType
  <1>2. CASE jobs = <<>>
    <2>1. Goto(w, "wait") /\ jobs' = jobs /\ "wait" \in WorkerStates
      BY <1>2 DEF QueuePop, WorkerStates
    <2>2. /\ worker' \in [Workers -> [at : WorkerStates, job : Jobs \cup {0}]]
          /\ \A v \in Workers : worker'[v].job # 0 <=> worker'[v].at \in {"proc", "push"}
          /\ \A v \in Workers : worker'[v].job = worker[v].job
          /\ worker'[w].at = "wait" /\ \A v \in Workers : v # w => worker'[v] = worker[v]
      BY <1>1, <2>1, WorkerMoves DEF Goto
    <2>3. BytesHaveResults'
      BY <1>1, <2>2 DEF PoolInv, BytesHaveResults
    <2>4. NobodySleeps'
      BY <1>2, <2>1 DEF NobodySleeps
    <2> QED
      BY <1>1, <2>1, <2>2, <2>3, <2>4, PoolStays
  <1>3. CASE jobs # <<>>
    <2> DEFINE x == Head(jobs)
    <2>1. /\ jobs' = Tail(jobs) /\ worker' = [worker EXCEPT ![w] = [at |-> "proc", job |-> x]]
      BY <1>3 DEF QueuePop
    <2>2. /\ jobs' \in Seq(Jobs) /\ IsInjective(jobs') /\ x \in Jobs /\ x \in ToSet(jobs)
          /\ ToSet(jobs') = ToSet(jobs) \ {x}
      BY <1>3, <2>1, DistinctTail DEF PoolInv, PoolType, Placed
    <2> HIDE DEF x
    <2>3. x \notin Hands
      BY <2>2 DEF PoolInv, Placed, Places
    <2>4. /\ worker' \in [Workers -> [at : WorkerStates, job : Jobs \cup {0}]]
          /\ \A v \in Workers : worker'[v].job # 0 <=> worker'[v].at \in {"proc", "push"}
          /\ \A u, v \in Workers : worker'[u].job = worker'[v].job /\ worker'[u].job # 0 => u = v
          /\ Hands' = Hands \cup {x} /\ worker'[w].at = "proc"
          /\ \A v \in Workers : v # w => worker'[v] = worker[v]
      BY <1>1, <2>1, <2>2, <2>3, WorkerTakes
    <2>5. PoolType'
      BY <1>1, <2>2, <2>4 DEF PoolInv, PoolType
    <2>6. Placed'
      <3>1. Places(todo', ToSet(jobs'), Hands', ToSet(results'), ToSet(out'))
        BY <1>1, <2>2, <2>4 DEF PoolInv, Placed, Places
      <3> QED
        BY <1>1, <2>2, <2>4, <3>1 DEF PoolInv, Placed
    <2>7. BytesHaveResults'
      BY <1>1, <2>4 DEF PoolInv, BytesHaveResults
    <2>8. NobodySleeps'
      BY <2>4 DEF NobodySleeps
    <2> QED
      BY <2>5, <2>6, <2>7, <2>8 DEF PoolInv
  <1> QED
    BY <1>2, <1>3

LEMMA ResultKeepsPool ==
  ASSUME PoolInv, NEW w \in Workers, ResultPush(w) PROVE PoolInv'
  <1> DEFINE x == worker[w].job
  <1>1. /\ worker[w].at = "push" /\ rmutex = 0 /\ rmutex' = w /\ w # 0
        /\ results' = Append(results, x)
        /\ worker' = [worker EXCEPT ![w] = [at |-> "write", job |-> 0]]
        /\ UNCHANGED <<todo, jobs, jmutex, pipe, signals, reader, out, stopped>>
    BY PoolAssumption DEF ResultPush
  <1>2. /\ worker' \in [Workers -> [at : WorkerStates, job : Jobs \cup {0}]]
        /\ \A v \in Workers : worker'[v].job # 0 <=> worker'[v].at \in {"proc", "push"}
        /\ \A u, v \in Workers : worker'[u].job = worker'[v].job /\ worker'[u].job # 0 => u = v
        /\ x \in Hands /\ x \in Jobs /\ Hands' = Hands \ {x}
        /\ worker'[w].at = "write"
        /\ \A v \in Workers : v # w => worker'[v] = worker[v]
    BY <1>1, WorkerLaysDown
  <1> HIDE DEF x
  <1>3. /\ results \in Seq(Jobs) /\ IsInjective(results) /\ x \notin ToSet(results)
    BY <1>2 DEF PoolInv, PoolType, Placed, Places
  <1>4. /\ results' \in Seq(Jobs) /\ IsInjective(results') /\ ToSet(results') = ToSet(results) \cup {x}
        /\ Len(results') = Len(results) + 1 /\ Len(results) \in Nat
    BY <1>1, <1>2, <1>3, DistinctAppend, LenProperties
  <1>5. PoolType'
    BY <1>1, <1>2, <1>4 DEF PoolInv, PoolType
  <1>6. Placed'
    <2>1. Places(todo', ToSet(jobs'), Hands', ToSet(results'), ToSet(out'))
      BY <1>1, <1>2, <1>4 DEF PoolInv, Placed, Places
    <2> QED
      BY <1>1, <1>2, <1>4, <2>1 DEF PoolInv, Placed
  <1>7. BytesHaveResults'
    <2>1. \A v \in Workers : worker'[v].at = "write" => rmutex' = v
      BY <1>1, <1>2, PoolAssumption DEF PoolInv, BytesHaveResults
    <2>2. pipe' + (IF reader' = "lock" THEN 1 ELSE 0) + (IF rmutex' = 0 THEN 0 ELSE 1) <= Len(results')
      BY <1>1, <1>4 DEF PoolInv, BytesHaveResults
    <2> QED
      BY <1>1, <2>1, <2>2 DEF PoolInv, BytesHaveResults
  <1>8. NobodySleeps'
    BY <1>2 DEF NobodySleeps
  <1> QED
    BY <1>5, <1>6, <1>7, <1>8 DEF PoolInv

LEMMA ReaderKeepsPool ==
  ASSUME PoolInv, ResultRead \/ ResultPop PROVE PoolInv'
  <1>1. Len(results) \in Nat /\ results \in Seq(Jobs)
    BY LenProperties DEF PoolInv, PoolType
  <1>2. CASE ResultRead
    <2>1. /\ reader = "read" /\ pipe > 0 /\ pipe' = pipe - 1 /\ reader' = "lock"
          /\ UNCHANGED <<todo, jobs, jmutex, results, rmutex, signals, worker, out, stopped>>
      BY <1>2 DEF ResultRead
    <2>2. BytesHaveResults'
      BY <1>1, <2>1 DEF PoolInv, BytesHaveResults
    <2>3. NobodySleeps'
      BY <2>1 DEF PoolInv, NobodySleeps
    <2> QED
      BY <2>1, <2>2, <2>3, PoolStays DEF PoolInv, PoolType
  <1>3. CASE ResultPop
    <2> DEFINE x == Head(results)
    <2>1. reader = "lock" /\ rmutex = 0 /\ results # <<>>
      BY <1>1, <1>3, EmptySeq DEF ResultPop, PoolInv, BytesHaveResults
    <2>2. /\ reader' = "read" /\ results' = Tail(results) /\ out' = Append(out, x)
          /\ UNCHANGED <<todo, jobs, jmutex, rmutex, pipe, signals, worker, stopped>>
      BY <1>3, <2>1 DEF ResultPop
    <2>3. /\ results' \in Seq(Jobs) /\ IsInjective(results') /\ x \in Jobs /\ x \in ToSet(results)
          /\ ToSet(results') = ToSet(results) \ {x} /\ Len(results') = Len(results) - 1
      BY <2>1, <2>2, DistinctTail DEF PoolInv, PoolType, Placed
    <2> HIDE DEF x
    <2>4. out \in Seq(Jobs) /\ IsInjective(out) /\ x \notin ToSet(out)
      BY <2>3 DEF PoolInv, PoolType, Placed, Places
    <2>5. out' \in Seq(Jobs) /\ IsInjective(out') /\ ToSet(out') = ToSet(out) \cup {x}
      BY <2>2, <2>3, <2>4, DistinctAppend
    <2>6. PoolType'
      BY <2>2, <2>3, <2>5 DEF PoolInv, PoolType
    <2>7. Placed'
      <3>1. Hands' = Hands
        BY <2>2 DEF Hands
      <3>2. Places(todo', ToSet(jobs'), Hands', ToSet(results'), ToSet(out'))
        BY <2>2, <2>3, <2>5, <3>1 DEF PoolInv, Placed, Places
      <3> QED
        BY <2>2, <2>3, <2>5, <3>2 DEF PoolInv, Placed
    <2>8. BytesHaveResults'
      BY <1>1, <2>1, <2>2, <2>3 DEF PoolInv, BytesHaveResults
    <2>9. NobodySleeps'
      BY <2>2 DEF PoolInv, NobodySleeps
    <2> QED
      BY <2>6, <2>7, <2>8, <2>9 DEF PoolInv
  <1> QED
    BY <1>2, <1>3

\* The steps that only move a worker.
LEMMA WorkerKeepsPool ==
  ASSUME PoolInv, NEW w \in Workers,
         SpuriousWake(w) \/ Proc(w) \/ ResultWrite(w) \/ DieWaiting(w) \/ DieWriting(w)
  PROVE  PoolInv'
  <1> DEFINE at == IF Proc(w) THEN "push" ELSE IF DieWaiting(w) \/ DieWriting(w) THEN "dead" ELSE "pop"
  <1>1. /\ UNCHANGED <<todo, jobs, results, out, signals, reader, stopped>> /\ Goto(w, at)
        /\ at \in {"push", "dead", "pop"} /\ (at = "push" <=> worker[w].at = "proc")
        /\ worker[w].at # "push"
        /\ \/ UNCHANGED <<pipe, rmutex>>
           \/ worker[w].at = "write" /\ pipe' = pipe + 1 /\ rmutex' = 0
        /\ at = "dead" => stopped
    BY DEF SpuriousWake, Proc, ResultWrite, DieWaiting, DieWriting, Goto
  <1> HIDE DEF at
  <1>2. at \in WorkerStates /\ (worker[w].job # 0 <=> at \in {"proc", "push"})
    BY <1>1 DEF PoolInv, PoolType, WorkerStates
  <1>3. /\ worker' \in [Workers -> [at : WorkerStates, job : Jobs \cup {0}]]
        /\ \A v \in Workers : worker'[v].job # 0 <=> worker'[v].at \in {"proc", "push"}
        /\ \A v \in Workers : worker'[v].job = worker[v].job
        /\ worker'[w].at = at /\ \A v \in Workers : v # w => worker'[v] = worker[v]
    BY <1>1, <1>2, WorkerMoves DEF Goto
  <1>4. BytesHaveResults'
    <2>1. CASE UNCHANGED <<pipe, rmutex>>
      BY <1>1, <1>3, <2>1 DEF PoolInv, BytesHaveResults
    <2>2. CASE worker[w].at = "write" /\ pipe' = pipe + 1 /\ rmutex' = 0
      <3>1. rmutex = w /\ w # 0 /\ \A v \in Workers : v # w => worker[v].at # "write"
        BY <2>2, PoolAssumption DEF PoolInv, BytesHaveResults
      <3>2. \A v \in Workers : worker'[v].at # "write"
        BY <1>1, <1>3, <3>1
      <3>3. Len(results) \in Nat
        BY LenProperties DEF PoolInv, PoolType
      <3>4. pipe' + (IF reader' = "lock" THEN 1 ELSE 0) + (IF rmutex' = 0 THEN 0 ELSE 1) <= Len(results')
        BY <1>1, <2>2, <3>1, <3>3 DEF PoolInv, BytesHaveResults
      <3> QED
        BY <1>1, <2>2, <3>2, <3>4 DEF PoolInv, BytesHaveResults
    <2> QED
      BY <1>1, <2>1, <2>2
  <1>5. NobodySleeps'
    BY <1>1, <1>3 DEF NobodySleeps
  <1> QED
    BY <1>1, <1>3, <1>4, <1>5, PoolStays

LEMMA PoolInvariant == PoolSpec => []PoolInv
  <1>1. PoolInv /\ [PoolNext]_wpvars => PoolInv'
    <2> SUFFICES ASSUME PoolInv, [PoolNext]_wpvars PROVE PoolInv'
      OBVIOUS
    <2>1. CASE UNCHANGED wpvars
      <3>1. BytesHaveResults' /\ NobodySleeps'
        BY <2>1 DEF wpvars, PoolInv, BytesHaveResults, NobodySleeps
      <3> QED
        BY <2>1, <3>1, PoolStays DEF wpvars, PoolInv, PoolType
    <2>2. CASE Stop
      <3>1. BytesHaveResults' /\ NobodySleeps'
        BY <2>2 DEF Stop, PoolInv, BytesHaveResults, NobodySleeps
      <3> QED
        BY <2>2, <3>1, PoolStays DEF Stop, PoolInv, PoolType
    <2> QED
      BY <2>1, <2>2, PushKeepsPool, SignalKeepsPool, PopKeepsPool, ResultKeepsPool, ReaderKeepsPool,
         WorkerKeepsPool DEF PoolNext
  <1> QED
    BY <1>1, PoolStart, PTL DEF PoolSpec

\* Whatever the interleaving of clients, workers, spurious wakeups, the reader
\* and a stop that cancels workers in pthread_cond_wait or between a result and
\* its byte: each job that was pushed is in one place, a byte in the pipe has
\* its result, and no job waits while every worker sleeps.
THEOREM WorkersAreSound == PoolSpec => []PoolIsSound
  <1>1. PoolInv => PoolIsSound
    <2> SUFFICES ASSUME PoolInv PROVE PoolIsSound
      OBVIOUS
    <2> DEFINE busy == {w \in Workers : worker[w].job # 0}
               n == Cardinality(busy)
               hand == [i \in 1 .. n |-> worker[SetToSeq(busy)[i]].job]
               all == jobs \o results \o out \o hand
    <2>1. /\ n \in Nat /\ SetToSeq(busy) \in [1 .. n -> busy] /\ IsInjective(SetToSeq(busy))
          /\ \A x \in busy : \E i \in 1 .. n : SetToSeq(busy)[i] = x
      <3>1. IsFiniteSet(busy)
        BY PoolAssumption, FS_Subset
      <3> QED
        BY <3>1, SetToSeqDistinct
    <2> HIDE DEF n
    <2>2. /\ hand \in Seq(Jobs) /\ IsInjective(hand) /\ ToSet(hand) = Hands
      <3>1. \A i \in 1 .. n : SetToSeq(busy)[i] \in busy
        BY <2>1
      <3>2. \A i \in 1 .. n : worker[SetToSeq(busy)[i]].job \in Jobs
        BY <3>1 DEF PoolInv, PoolType
      <3>3. hand \in Seq(Jobs) /\ DOMAIN hand = 1 .. n
        <4>1. hand \in [1 .. n -> Jobs] /\ DOMAIN hand = 1 .. n
          BY <3>2
        <4>2. n \in Nat
          BY <2>1
        <4> HIDE DEF hand
        <4>3. hand \in Seq(Jobs)
          BY <4>1, <4>2, SeqDef
        <4> QED
          BY <4>1, <4>3
      <3>4. IsInjective(hand)
        <4> SUFFICES ASSUME NEW i \in 1 .. n, NEW j \in 1 .. n,
                            worker[SetToSeq(busy)[i]].job = worker[SetToSeq(busy)[j]].job
                     PROVE  i = j
          BY <3>3 DEF IsInjective
        <4>1. SetToSeq(busy)[i] = SetToSeq(busy)[j]
          BY <3>1 DEF PoolInv, Placed
        <4> QED
          BY <2>1, <4>1 DEF IsInjective
      <3>5. ToSet(hand) = Hands
        <4>1. \A i \in 1 .. n : hand[i] \in Hands
          BY <3>1 DEF Hands
        <4>2. ASSUME NEW x \in Hands PROVE \E i \in 1 .. n : hand[i] = x
          <5>1. PICK w \in busy : worker[w].job = x
            BY <4>2 DEF Hands
          <5>2. PICK i \in 1 .. n : SetToSeq(busy)[i] = w
            BY <2>1
          <5> QED
            BY <5>1, <5>2
        <4>3. ToSet(hand) = {hand[i] : i \in 1 .. n}
          BY <3>3 DEF ToSet
        <4> HIDE DEF hand
        <4> QED
          BY <4>1, <4>2, <4>3
      <3> QED
        BY <3>3, <3>4, <3>5
    <2> HIDE DEF hand, busy
    <2>3. Places(todo, ToSet(jobs), ToSet(hand), ToSet(results), ToSet(out))
      BY <2>2 DEF PoolInv, Placed
    <2>4. /\ jobs \in Seq(Jobs) /\ IsInjective(jobs) /\ results \in Seq(Jobs) /\ IsInjective(results)
          /\ out \in Seq(Jobs) /\ IsInjective(out)
      BY DEF PoolInv, PoolType, Placed
    <2> DEFINE two == jobs \o results
               three == two \o out
    <2>5. two \in Seq(Jobs) /\ IsInjective(two) /\ ToSet(two) = ToSet(jobs) \cup ToSet(results)
      BY <2>3, <2>4, DistinctConcat DEF Places
    <2> HIDE DEF two
    <2>6. three \in Seq(Jobs) /\ IsInjective(three) /\ ToSet(three) = ToSet(two) \cup ToSet(out)
      BY <2>3, <2>4, <2>5, DistinctConcat DEF Places
    <2> HIDE DEF three
    <2>7. /\ IsInjective(three \o hand) /\ ToSet(three \o hand) = ToSet(three) \cup ToSet(hand)
      BY <2>2, <2>3, <2>5, <2>6, DistinctConcat DEF Places
    <2>8. all = three \o hand
      BY DEF two, three
    <2>9. IsInjective(all) /\ ToSet(all) = Jobs \ todo
      BY <2>3, <2>5, <2>6, <2>7, <2>8 DEF Places
    <2>10. pipe + (IF reader = "lock" THEN 1 ELSE 0) <= Len(results)
      BY <2>4, LenProperties DEF PoolInv, BytesHaveResults
    <2>11. JobsConserved
      BY <2>9, <2>10 DEF JobsConserved, hand, busy, n
    <2> QED
      BY <2>11 DEF PoolInv, PoolIsSound
  <1> QED
    BY <1>1, PoolInvariant, PTL

-----------------------------------------------------------------------------
(* The skip list: sorted chains, each contained in the one below it.       *)

SkipListSpec == SkipListInit /\ [][SkipListNext]_slvars

On(i) == {0} \cup Linked(i)

ListType ==
  /\ link \in [Nodes -> [Heights -> ListKeys \cup {Null, Junk}]]
  /\ max_height_ \in 1 .. kMaxHeight
  /\ wr \in [key : Nodes, h : 0 .. kMaxHeight, i : 0 .. kMaxHeight, prev : [Heights -> Nodes]]
  /\ wr.key # 0 => wr.i < wr.h /\ wr.h <= max_height_

\* The link of a node that is on level i leads to the next one on level i.
Chained ==
  \A i \in Heights : \A x \in On(i) :
    /\ link[x][i] # Junk
    /\ link[x][i] \in ListKeys => x < link[x][i]
    /\ \A y \in On(i) : x < y => link[x][i] \in ListKeys /\ link[x][i] <= y

Nested == \A i, j \in Heights : j <= i => On(i) \subseteq On(j)

LowEnough == \A i \in Heights : max_height_ <= i => On(i) = {0}

\* Where a node is not linked its link is not initialized, but for the level
\* the writer is about to publish it on.
Fresh ==
  \A i \in Heights : \A x \in ListKeys :
    x \notin On(i) => \/ link[x][i] = Junk
                      \/ x = wr.key /\ i = wr.i /\ link[x][i] = link[wr.prev[i]][i]

\* The writer's node is linked up to where it is, and prev is in front of it.
WriterReady ==
  wr.key # 0 =>
    \A i \in Heights :
      /\ i < wr.i => wr.key \in On(i)
      /\ wr.i <= i => /\ wr.key \notin On(i) /\ wr.prev[i] \in On(i) /\ wr.prev[i] < wr.key
                      /\ link[wr.prev[i]][i] \in ListKeys => wr.key < link[wr.prev[i]][i]

ListInv == ListType /\ Chained /\ Nested /\ LowEnough /\ Fresh /\ WriterReady

-----------------------------------------------------------------------------
(* What a search finds.                                                    *)

\* A set of numbers below a bound has a largest one.
LEMMA LargestBelow ==
  ASSUME NEW S \in SUBSET Nat, NEW k \in Nat, S # {}, \A x \in S : x < k
  PROVE  \E x \in S : \A y \in S : y <= x
  <1> DEFINE T == {k - x : x \in S}
             R == OpToRel(<, Nat)
  <1>1. \A x \in S : x \in Nat /\ k - x \in Nat
    <2> SUFFICES ASSUME NEW x \in S PROVE x \in Nat /\ k - x \in Nat
      OBVIOUS
    <2>1. x \in Nat /\ x < k
      OBVIOUS
    <2> QED
      BY <2>1
  <1>2. T \subseteq Nat /\ T # {}
    BY <1>1
  <1>3. IsWellFoundedOn(R, Nat)
    BY NatLessThanWellFounded
  <1>4. PICK m \in T : \A n \in T : ~(<<n, m>> \in R)
    BY <1>2, <1>3, WFMin
  <1>5. \A n \in Nat : n < m => <<n, m>> \in R
    BY <1>2, <1>4 DEF OpToRel
  <1>6. PICK x \in S : m = k - x
    BY <1>4
  <1>7. ASSUME NEW y \in S PROVE y <= x
    <2>1. k - y \in T
      OBVIOUS
    <2>2. ~(k - y < k - x)
      BY <1>1, <1>4, <1>5, <1>6, <2>1
    <2>3. x \in Nat /\ y \in Nat
      BY <1>1
    <2> QED
      BY <2>2, <2>3
  <1> QED
    BY <1>7

LEMMA NodeFacts ==
  /\ Nodes \subseteq Nat /\ 0 \in Nodes /\ Null \notin Nodes /\ Junk \notin Nodes /\ Junk # Null
  /\ ListKeys \subseteq Nodes /\ 0 \notin ListKeys /\ \A x \in ListKeys : 0 < x
  /\ \A i \in Heights : i \in Nat /\ i < kMaxHeight
  /\ 0 \in Heights
  BY SkipListAssumption DEF Nodes, Heights

LEMMA OnNodes == \A i : On(i) \subseteq Nodes /\ 0 \in On(i)
  BY NodeFacts DEF On, Linked

LEMMA PrecedingFacts ==
  ASSUME ListInv, NEW i \in Heights, NEW key \in ListKeys, key \notin On(i)
  PROVE  LET p == Preceding(i, key)
         IN p \in On(i) /\ p < key /\ (link[p][i] \in ListKeys => key < link[p][i])
  <1> DEFINE S == {x \in On(i) : x < key}
  <1>1. S \in SUBSET Nat /\ 0 \in S /\ key \in Nat
    BY NodeFacts, OnNodes
  <1>2. PICK x \in S : \A y \in S : y <= x
    BY <1>1, LargestBelow
  <1>3. /\ x \in On(i) /\ x < key /\ x \in Nat /\ link[x][i] # Junk
        /\ link[x][i] \in ListKeys \cup {Null, Junk}
        /\ link[x][i] \in ListKeys => x < link[x][i] /\ link[x][i] \in On(i) /\ link[x][i] \in Nat
    <2>1. x \in On(i) /\ x < key /\ x \in Nodes /\ x \in Nat
      BY <1>1, OnNodes
    <2>2. link[x][i] \in ListKeys \cup {Null, Junk}
      BY <2>1 DEF ListInv, ListType
    <2>3. link[x][i] # Junk /\ (link[x][i] \in ListKeys => x < link[x][i])
      BY <2>1 DEF ListInv, Chained
    <2>4. link[x][i] \in ListKeys => link[x][i] \in On(i) /\ link[x][i] \in Nat
      BY <2>1, NodeFacts DEF On, Linked
    <2> QED
      BY <2>1, <2>2, <2>3, <2>4
  <1>4. ~KeyIsAfterNode(key, link[x][i])
    BY <1>1, <1>2, <1>3 DEF KeyIsAfterNode
  <1>5. \E p \in {0} \cup Linked(i) : p < key /\ ~KeyIsAfterNode(key, link[p][i])
    BY <1>3, <1>4 DEF On
  <1> DEFINE p == Preceding(i, key)
  <1>6. p \in On(i) /\ p < key /\ ~KeyIsAfterNode(key, link[p][i])
    BY <1>5 DEF Preceding, On
  <1> HIDE DEF p
  <1>7. ASSUME link[p][i] \in ListKeys PROVE key < link[p][i]
    <2>1. link[p][i] # Null /\ link[p][i] \in On(i) /\ link[p][i] \in Nat
      BY <1>6, <1>7, NodeFacts, OnNodes DEF On, Linked
    <2> QED
      BY <1>1, <1>6, <2>1 DEF KeyIsAfterNode
  <1> QED
    BY <1>6, <1>7 DEF p

\* Past x on a level there is nothing that its link does not reach.
LEMMA NextIsNext ==
  ASSUME ListInv, NEW i \in Heights, NEW x \in On(i)
  PROVE  /\ link[x][i] \in Nodes \cup {Null} /\ (link[x][i] # Null => link[x][i] \in On(i) /\ link[x][i] \in ListKeys)
         /\ \A k \in On(i) : x < k => link[x][i] # Null /\ link[x][i] <= k
  BY NodeFacts, OnNodes DEF ListInv, ListType, Chained, On, Linked

-----------------------------------------------------------------------------
(* The writer keeps the chains.                                            *)

LEMMA ListStart == SkipListInit => ListInv
  <1> SUFFICES ASSUME SkipListInit PROVE ListInv
    OBVIOUS
  <1>1. /\ link \in [Nodes -> [Heights -> ListKeys \cup {Null, Junk}]]
        /\ \A x \in Nodes, i \in Heights : link[x][i] = IF x = 0 THEN Null ELSE Junk
        /\ max_height_ = 1 /\ wr = [key |-> 0, h |-> 0, i |-> 0, prev |-> [i \in Heights |-> 0]]
    BY DEF SkipListInit
  <1>2. Null \notin ListKeys /\ Junk \notin ListKeys /\ Null # Junk /\ 0 \notin ListKeys /\ 0 \in Nodes
    BY SkipListAssumption, NodeFacts
  <1>3. \A i \in Heights : On(i) = {0}
    BY <1>1, <1>2 DEF On, Linked
  <1>4. ListType
    BY <1>1, <1>2, SkipListAssumption DEF ListType
  <1>5. Chained /\ Nested /\ LowEnough
    BY <1>1, <1>2, <1>3 DEF Chained, Nested, LowEnough
  <1>6. Fresh
    BY <1>1, <1>2, NodeFacts DEF Fresh
  <1>7. WriterReady
    BY <1>1 DEF WriterReady
  <1> QED
    BY <1>4, <1>5, <1>6, <1>7 DEF ListInv

LEMMA InsertKeepsList ==
  ASSUME ListInv, NEW key \in ListKeys, NEW h \in 1 .. kMaxHeight, InsertBegin(key, h) PROVE ListInv'
  <1> DEFINE prev == [i \in Heights |-> IF i < max_height_ THEN Preceding(i, key) ELSE 0]
  <1>1. /\ wr.key = 0 /\ key \notin Inserted
        /\ wr' = [key |-> key, h |-> h, i |-> 0, prev |-> prev]
        /\ max_height_' = Max({max_height_, h})
        /\ UNCHANGED link
    BY DEF InsertBegin
  <1>2. \A i \in Heights : On(i)' = On(i) /\ i \in Nat /\ i < kMaxHeight
    BY <1>1, NodeFacts DEF On, Linked
  <1>3. key # 0 /\ key \in Nat /\ 0 < key
    BY NodeFacts
  <1>4. \A i \in Heights : key \notin On(i)
    <2>1. key \notin On(0)
      BY <1>1, <1>3 DEF On, Inserted
    <2>2. \A i \in Heights : 0 <= i
      BY NodeFacts
    <2> QED
      BY <2>1, <2>2, NodeFacts DEF ListInv, Nested
  <1>5. max_height_' \in 1 .. kMaxHeight /\ max_height_ <= max_height_' /\ h <= max_height_' /\ max_height_ \in Nat
    <2>1. max_height_ \in 1 .. kMaxHeight
      BY DEF ListInv, ListType
    <2>2. \E x \in {max_height_, h} : \A y \in {max_height_, h} : x >= y
      <3>1. CASE h <= max_height_
        BY <2>1, <3>1
      <3>2. CASE ~(h <= max_height_)
        BY <2>1, <3>2
      <3> QED
        BY <3>1, <3>2
    <2>3. Max({max_height_, h}) \in {max_height_, h} /\ \A y \in {max_height_, h} : Max({max_height_, h}) >= y
      BY <2>2 DEF Max
    <2> QED
      BY <1>1, <2>1, <2>3
  <1>6. ASSUME NEW i \in Heights
        PROVE  /\ prev[i] \in On(i) /\ prev[i] < key
               /\ link[prev[i]][i] \in ListKeys => key < link[prev[i]][i]
    <2>1. CASE i < max_height_
      <3>1. LET p == Preceding(i, key)
            IN p \in On(i) /\ p < key /\ (link[p][i] \in ListKeys => key < link[p][i])
        BY <1>4, PrecedingFacts
      <3> QED
        BY <2>1, <3>1
    <2>2. CASE ~(i < max_height_)
      <3>1. prev[i] = 0 /\ On(i) = {0}
        BY <1>2, <1>5, <2>2 DEF ListInv, LowEnough
      <3>2. link[0][i] \notin ListKeys
        BY <3>1, NodeFacts DEF On, Linked
      <3> QED
        BY <1>3, <3>1, <3>2
    <2> QED
      BY <2>1, <2>2
  <1> HIDE DEF prev
  <1>7. /\ prev \in [Heights -> Nodes] /\ wr'.key = key /\ wr'.h = h /\ wr'.i = 0 /\ wr'.prev = prev
    <2>1. \A i \in Heights : prev[i] \in Nodes
      BY <1>6, OnNodes
    <2> QED
      BY <1>1, <2>1 DEF prev
  <1>8. ListType'
    BY <1>1, <1>3, <1>5, <1>7, NodeFacts, SkipListAssumption DEF ListInv, ListType
  <1>9. Chained' /\ Nested'
    BY <1>1, <1>2 DEF ListInv, Chained, Nested
  <1>10. LowEnough'
    BY <1>2, <1>5 DEF ListInv, LowEnough
  <1>11. Fresh'
    BY <1>1, <1>2, NodeFacts DEF ListInv, Fresh
  <1>12. WriterReady'
    BY <1>1, <1>2, <1>4, <1>6, <1>7 DEF WriterReady
  <1> QED
    BY <1>8, <1>9, <1>10, <1>11, <1>12 DEF ListInv

\* The node's own link on its level, once it is set or about to be.
LEMMA SetOwnKeepsList ==
  ASSUME ListInv, SetOwn PROVE ListInv' /\ \A i \in Heights : On(i) \subseteq On(i)'
  <1>0. PICK k, l, p, n : k = wr.key /\ l = wr.i /\ p = wr.prev[l] /\ n = link[p][l]
    OBVIOUS
  <1>1. /\ k # 0 /\ link[k][l] = Junk /\ link' = [link EXCEPT ![k][l] = n]
        /\ UNCHANGED <<max_height_, wr>>
    BY <1>0 DEF SetOwn, LevelNow
  <1>2. /\ k \in ListKeys /\ k \in Nodes /\ l \in Heights /\ link \in [Nodes -> [Heights -> ListKeys \cup {Null, Junk}]]
    <2>1. /\ wr.key \in Nodes /\ wr.h \in 0 .. kMaxHeight /\ wr.i \in 0 .. kMaxHeight /\ wr.i < wr.h
          /\ link \in [Nodes -> [Heights -> ListKeys \cup {Null, Junk}]]
      BY <1>0, <1>1 DEF ListInv, ListType
    <2>2. l \in Heights
      BY <1>0, <2>1, SkipListAssumption DEF Heights
    <2> QED
      BY <1>0, <1>1, <2>1, <2>2 DEF Nodes
  <1>3. k \notin On(l) /\ p \in On(l) /\ p < k /\ p \in Nodes /\ p # k
    BY <1>0, <1>1, <1>2, NodeFacts, OnNodes DEF ListInv, WriterReady
  <1>4. n \in ListKeys \cup {Null} /\ (n \in ListKeys => n \in On(l))
    BY <1>0, <1>2, <1>3, NextIsNext, NodeFacts DEF Nodes
  <1>5. /\ link' \in [Nodes -> [Heights -> ListKeys \cup {Null, Junk}]]
        /\ link'[k][l] = n
        /\ \A x \in Nodes, i \in Heights : x # k \/ i # l => link'[x][i] = link[x][i]
    BY <1>1, <1>2, <1>4
  <1>6. \A i \in Heights : On(i)' = On(i)
    <2>1. ASSUME NEW i \in Heights, NEW x \in ListKeys, NEW y \in Nodes, link[y][i] = x
          PROVE  \E z \in Nodes : link'[z][i] = x
      <3>1. y # k \/ i # l
        BY <1>1, <2>1, SkipListAssumption
      <3> QED
        BY <1>5, <2>1, <3>1
    <2>2. ASSUME NEW i \in Heights, NEW x \in ListKeys, NEW y \in Nodes, link'[y][i] = x
          PROVE  \E z \in Nodes : link[z][i] = x
      <3>1. CASE y = k /\ i = l
        BY <1>0, <1>3, <1>5, <2>2, <3>1
      <3>2. CASE ~(y = k /\ i = l)
        BY <1>5, <2>2, <3>2
      <3> QED
        BY <3>1, <3>2
    <2> QED
      BY <2>1, <2>2 DEF On, Linked
  <1>7. \A i \in Heights : \A x \in On(i) : link'[x][i] = link[x][i]
    BY <1>3, <1>5, OnNodes
  <1>8. ListType'
    BY <1>0, <1>1, <1>5 DEF ListInv, ListType
  <1>9. Chained' /\ Nested' /\ LowEnough'
    BY <1>1, <1>6, <1>7 DEF ListInv, Chained, Nested, LowEnough
  <1>10. Fresh'
    <2> SUFFICES ASSUME NEW i \in Heights, NEW x \in ListKeys, x \notin On(i)
                 PROVE  \/ link'[x][i] = Junk
                        \/ x = k /\ i = l /\ link'[x][i] = link'[wr.prev[i]][i]
      BY <1>0, <1>1, <1>6 DEF Fresh
    <2>1. CASE x = k /\ i = l
      BY <1>0, <1>3, <1>5, <2>1
    <2>2. CASE ~(x = k /\ i = l)
      <3>1. link[x][i] = Junk
        BY <1>0, <2>2 DEF ListInv, Fresh
      <3> QED
        BY <1>5, <2>2, <3>1, NodeFacts
    <2> QED
      BY <2>1, <2>2
  <1>11. WriterReady'
    <2>1. \A i \in Heights : l <= i => link'[wr.prev[i]][i] = link[wr.prev[i]][i]
      BY <1>0, <1>1, <1>7 DEF ListInv, WriterReady
    <2> QED
      BY <1>0, <1>1, <1>6, <2>1 DEF ListInv, WriterReady
  <1> QED
    BY <1>6, <1>8, <1>9, <1>10, <1>11 DEF ListInv

LEMMA PublishKeepsList ==
  ASSUME ListInv, Publish PROVE ListInv' /\ \A i \in Heights : On(i) \subseteq On(i)'
  <1>0. PICK k, l, p, n : k = wr.key /\ l = wr.i /\ p = wr.prev[l] /\ n = link[p][l]
    OBVIOUS
  <1>1. /\ k # 0 /\ link[k][l] # Junk /\ link' = [link EXCEPT ![p][l] = k]
        /\ wr' = IF l + 1 < wr.h THEN [wr EXCEPT !.i = @ + 1] ELSE [wr EXCEPT !.key = 0]
        /\ UNCHANGED max_height_
    BY <1>0 DEF Publish, LevelNow
  <1>2. /\ k \in ListKeys /\ k \in Nodes /\ l \in Heights /\ l \in Nat
        /\ link \in [Nodes -> [Heights -> ListKeys \cup {Null, Junk}]]
        /\ wr \in [key : Nodes, h : 0 .. kMaxHeight, i : 0 .. kMaxHeight, prev : [Heights -> Nodes]]
        /\ wr.h \in 0 .. kMaxHeight /\ l < wr.h
    <2>1. /\ wr \in [key : Nodes, h : 0 .. kMaxHeight, i : 0 .. kMaxHeight, prev : [Heights -> Nodes]]
          /\ wr.key \in Nodes /\ wr.h \in 0 .. kMaxHeight /\ wr.i \in 0 .. kMaxHeight /\ wr.i < wr.h
          /\ link \in [Nodes -> [Heights -> ListKeys \cup {Null, Junk}]]
      BY <1>0, <1>1 DEF ListInv, ListType
    <2>2. l \in Heights /\ l \in Nat
      BY <1>0, <2>1, SkipListAssumption DEF Heights
    <2> QED
      BY <1>0, <1>1, <2>1, <2>2 DEF Nodes
  <1>3. /\ k \notin On(l) /\ p \in On(l) /\ p < k /\ p \in Nodes /\ p # k /\ p \in Nat /\ k \in Nat
        /\ n \in ListKeys => k < n
    BY <1>0, <1>1, <1>2, NodeFacts, OnNodes DEF ListInv, WriterReady
  <1>4. /\ n \in ListKeys \cup {Null} /\ (n \in ListKeys => n \in On(l) /\ n \in Nat)
        /\ link[k][l] = n
    <2>1. link[k][l] = n
      BY <1>0, <1>1, <1>2, <1>3 DEF ListInv, Fresh
    <2> QED
      BY <1>0, <1>2, <1>3, <2>1, NextIsNext, NodeFacts DEF Nodes
  <1>5. /\ link' \in [Nodes -> [Heights -> ListKeys \cup {Null, Junk}]]
        /\ link'[p][l] = k
        /\ \A x \in Nodes, i \in Heights : x # p \/ i # l => link'[x][i] = link[x][i]
    BY <1>1, <1>2, <1>3
  <1>6. \A i \in Heights : i # l => On(i)' = On(i)
    BY <1>5 DEF On, Linked
  <1>7. On(l)' = On(l) \cup {k}
    <2>1. ASSUME NEW x \in ListKeys, NEW y \in Nodes, link[y][l] = x
          PROVE  \E z \in Nodes : link'[z][l] = x
      <3>1. CASE y = p
        BY <1>0, <1>2, <1>3, <1>4, <1>5, <2>1, <3>1
      <3>2. CASE y # p
        BY <1>2, <1>5, <2>1, <3>2
      <3> QED
        BY <3>1, <3>2
    <2>2. ASSUME NEW x \in ListKeys, NEW y \in Nodes, link'[y][l] = x
          PROVE  x = k \/ \E z \in Nodes : link[z][l] = x
      <3>1. CASE y = p
        BY <1>5, <2>2, <3>1
      <3>2. CASE y # p
        BY <1>2, <1>5, <2>2, <3>2
      <3> QED
        BY <3>1, <3>2
    <2>3. \E z \in Nodes : link'[z][l] = k
      BY <1>3, <1>5
    <2> QED
      BY <1>2, <2>1, <2>2, <2>3 DEF On, Linked
  <1>8. \A i \in Heights : On(i) \subseteq On(i)' /\ On(i)' \subseteq On(i) \cup {k}
    BY <1>6, <1>7
  <1>9. wr'.prev = wr.prev /\ wr'.h = wr.h /\ (wr'.key = 0 \/ (wr'.key = k /\ wr'.i = l + 1 /\ l + 1 < wr.h))
    BY <1>0, <1>1, <1>2
  <1>10. ListType'
    <2>1. wr' \in [key : Nodes, h : 0 .. kMaxHeight, i : 0 .. kMaxHeight, prev : [Heights -> Nodes]]
      <3>1. CASE l + 1 < wr.h
        <4>1. wr' = [wr EXCEPT !.i = l + 1] /\ l + 1 \in 0 .. kMaxHeight
          BY <1>0, <1>1, <1>2, <3>1, SkipListAssumption
        <4> QED
          BY <1>2, <4>1
      <3>2. CASE ~(l + 1 < wr.h)
        BY <1>1, <1>2, <3>2, NodeFacts
      <3> QED
        BY <3>1, <3>2
    <2>2. max_height_' \in 1 .. kMaxHeight /\ wr.h <= max_height_'
      BY <1>0, <1>1 DEF ListInv, ListType
    <2>3. wr'.key # 0 => wr'.i < wr'.h /\ wr'.h <= max_height_'
      BY <1>9, <2>2
    <2> QED
      BY <1>5, <2>1, <2>2, <2>3 DEF ListType
  <1>11. Chained'
    <2> SUFFICES ASSUME NEW i \in Heights, NEW x \in On(i)'
                 PROVE  /\ link'[x][i] # Junk
                        /\ link'[x][i] \in ListKeys => x < link'[x][i]
                        /\ \A y \in On(i)' : x < y => link'[x][i] \in ListKeys /\ link'[x][i] <= y
      BY DEF Chained
    <2>1. CASE i # l
      <3>1. On(i)' = On(i) /\ x \in Nodes /\ link'[x][i] = link[x][i]
        BY <1>5, <1>6, <2>1, OnNodes
      <3> QED
        BY <3>1 DEF ListInv, Chained
    <2>2. CASE i = l /\ x = k
      <3>1. link'[x][i] = n
        BY <1>2, <1>3, <1>4, <1>5, <2>2
      <3>2. n # Junk
        BY <1>4, SkipListAssumption
      <3>3. ASSUME NEW y \in On(l)', k < y PROVE n \in ListKeys /\ n <= y
        <4>1. y \in On(l) /\ y \in Nat
          <5>1. y # k
            BY <1>3, <3>3
          <5> QED
            BY <1>7, <3>3, <5>1, OnNodes, NodeFacts
        <4>2. p < y
          BY <1>3, <3>3, <4>1
        <4> QED
          BY <1>0, <1>2, <1>3, <4>1, <4>2 DEF ListInv, Chained
      <3> QED
        BY <1>3, <2>2, <3>1, <3>2, <3>3
    <2>3. CASE i = l /\ x = p
      <3>1. link'[x][i] = k
        BY <1>5, <2>3
      <3>2. ASSUME NEW y \in On(l)', p < y PROVE k <= y
        <4>1. CASE y = k
          BY <1>3, <4>1
        <4>2. CASE y \in On(l)
          <5>1. y \in Nat
            BY <4>2, OnNodes, NodeFacts
          <5>2. n \in ListKeys /\ n <= y
            BY <1>0, <1>2, <1>3, <3>2, <4>2 DEF ListInv, Chained
          <5> QED
            BY <1>3, <1>4, <5>1, <5>2
        <4> QED
          BY <1>7, <4>1, <4>2
      <3> QED
        BY <1>2, <1>3, <2>3, <3>1, <3>2, SkipListAssumption
    <2>4. CASE i = l /\ x # k /\ x # p
      <3>1. x \in On(l) /\ x \in Nodes /\ x \in Nat /\ link'[x][i] = link[x][i]
        BY <1>5, <1>7, <2>4, OnNodes, NodeFacts
      <3>2. /\ link[x][l] # Junk /\ (link[x][l] \in ListKeys => x < link[x][l] /\ link[x][l] \in Nat)
            /\ \A y \in On(l) : x < y => link[x][l] \in ListKeys /\ link[x][l] <= y
        BY <1>2, <3>1, NodeFacts DEF ListInv, Chained
      <3>3. ASSUME x < k PROVE link[x][l] \in ListKeys /\ link[x][l] <= k
        <4>1. x < p
          <5>1. CASE p < x
            <6>1. n \in ListKeys /\ n <= x
              BY <1>0, <1>2, <1>3, <3>1, <5>1 DEF ListInv, Chained
            <6> QED
              BY <1>3, <1>4, <3>1, <3>3, <6>1
          <5> QED
            BY <1>3, <2>4, <3>1, <5>1
        <4> QED
          BY <1>3, <3>2, <4>1
      <3> QED
        BY <1>7, <2>4, <3>1, <3>2, <3>3
    <2> QED
      BY <2>1, <2>2, <2>3, <2>4
  <1>12. Nested'
    <2> SUFFICES ASSUME NEW i \in Heights, NEW j \in Heights, j <= i PROVE On(i)' \subseteq On(j)'
      BY DEF Nested
    <2>1. On(i) \subseteq On(j)
      BY DEF ListInv, Nested
    <2>2. CASE i = l
      <3>1. j = l \/ j < l
        BY <1>2, <2>2, NodeFacts
      <3>2. k \in On(j)'
        BY <1>0, <1>1, <1>7, <1>8, <3>1 DEF ListInv, WriterReady
      <3> QED
        BY <1>7, <1>8, <2>1, <2>2, <3>2
    <2>3. CASE i # l
      BY <1>6, <1>8, <2>1, <2>3
    <2> QED
      BY <2>2, <2>3
  <1>13. LowEnough'
    <2> SUFFICES ASSUME NEW i \in Heights, max_height_ <= i PROVE On(i)' = {0}
      BY <1>1 DEF LowEnough
    <2>1. wr.h <= max_height_ /\ max_height_ \in Nat
      BY <1>0, <1>1 DEF ListInv, ListType
    <2>2. i # l
      BY <1>2, <2>1, NodeFacts
    <2> QED
      BY <1>6, <2>2 DEF ListInv, LowEnough
  <1>14. Fresh'
    <2> SUFFICES ASSUME NEW i \in Heights, NEW x \in ListKeys, x \notin On(i)'
                 PROVE  link'[x][i] = Junk
      BY <1>0 DEF Fresh
    <2>1. x \notin On(i) /\ ~(x = k /\ i = l) /\ x \in Nodes
      BY <1>7, <1>8, NodeFacts
    <2>2. link[x][i] = Junk
      BY <1>0, <2>1 DEF ListInv, Fresh
    <2>3. ~(x = p /\ i = l)
      BY <1>3, <2>1
    <2> QED
      BY <1>5, <2>1, <2>2, <2>3
  <1>15. WriterReady'
    <2> SUFFICES ASSUME wr'.key # 0, NEW i \in Heights
                 PROVE  /\ i < wr'.i => wr'.key \in On(i)'
                        /\ wr'.i <= i => /\ wr'.key \notin On(i)' /\ wr'.prev[i] \in On(i)' /\ wr'.prev[i] < wr'.key
                                         /\ link'[wr'.prev[i]][i] \in ListKeys => wr'.key < link'[wr'.prev[i]][i]
      BY <1>0 DEF WriterReady
    <2>1. wr'.key = k /\ wr'.i = l + 1 /\ wr'.prev = wr.prev /\ i \in Nat
      BY <1>9, NodeFacts
    <2>2. CASE i < l
      <3>1. k \in On(i)
        BY <1>0, <1>1, <2>2 DEF ListInv, WriterReady
      <3> QED
        BY <1>2, <1>8, <2>1, <2>2, <3>1
    <2>3. CASE i = l
      BY <1>2, <1>7, <2>1, <2>3
    <2>4. CASE l < i
      <3>1. /\ k \notin On(i) /\ wr.prev[i] \in On(i) /\ wr.prev[i] < k
            /\ link[wr.prev[i]][i] \in ListKeys => k < link[wr.prev[i]][i]
        BY <1>0, <1>1, <1>2, <2>1, <2>4 DEF ListInv, WriterReady
      <3>2. i # l /\ On(i)' = On(i)
        BY <1>2, <1>6, <2>4
      <3>3. link'[wr.prev[i]][i] = link[wr.prev[i]][i]
        BY <1>5, <3>1, <3>2, OnNodes
      <3> QED
        BY <1>2, <2>1, <2>4, <3>1, <3>2, <3>3
    <2> QED
      BY <1>2, <2>1, <2>2, <2>3, <2>4
  <1> QED
    BY <1>8, <1>10, <1>11, <1>12, <1>13, <1>14, <1>15 DEF ListInv

-----------------------------------------------------------------------------
(* The reader.                                                             *)

ReaderType ==
  rd \in [at : {"level", "done"}, op : {"seek", "prev", "last", "next"}, key : Nodes, x : Nodes,
          level : Heights, node : Nodes \cup {Null}]

\* A search has a node in front of what it looks for, on its level.
OnItsWay ==
  rd.at = "level" =>
    /\ rd.x \in On(rd.level) /\ rd.op # "next"
    /\ rd.op # "last" => rd.x < rd.key

ReaderInv == ReaderType /\ known \subseteq Inserted /\ OnItsWay /\ SearchIsRight

LEMMA InsertedIsOn == \A x : x \in Inserted <=> x \in On(0) /\ x # 0
  BY NodeFacts DEF On, Inserted, Linked

\* The list grows, the reader rests.
LEMMA ReaderStays ==
  ASSUME ReaderInv, UNCHANGED <<rd, known>>, \A i \in Heights : On(i) \subseteq On(i)'
  PROVE  ReaderInv'
  <1>1. Inserted \subseteq Inserted'
    <2>1. \A x : x \in Inserted' <=> x \in On(0)' /\ x # 0
      BY NodeFacts DEF On, Inserted, Linked
    <2> QED
      BY <2>1, InsertedIsOn, NodeFacts
  <1>2. OnItsWay'
    BY DEF ReaderInv, ReaderType, OnItsWay
  <1>3. SearchIsRight'
    BY <1>1 DEF ReaderInv, SearchIsRight
  <1> QED
    BY <1>1, <1>2, <1>3 DEF ReaderInv, ReaderType

LEMMA SearchBegins ==
  ASSUME ListInv, ReaderInv, NEW op \in {"seek", "prev", "last"}, NEW key \in Nodes, NEW top \in Heights,
         SearchBegin(op, key, top), op # "last" => key \in ListKeys
  PROVE  ReaderInv'
  <1>1. /\ rd' = [at |-> "level", op |-> op, key |-> key, x |-> 0, level |-> top, node |-> Null]
        /\ known' = Inserted /\ UNCHANGED link
    BY DEF SearchBegin
  <1>2. On(top)' = On(top) /\ 0 \in On(top) /\ Inserted' = Inserted
    BY <1>1, OnNodes DEF On, Linked, Inserted
  <1>3. ReaderType'
    BY <1>1, NodeFacts DEF ReaderType
  <1>4. OnItsWay'
    <2>1. 0 \in On(top)'
      BY <1>2
    <2> QED
      BY <1>1, <2>1, NodeFacts DEF OnItsWay, On, Linked
  <1>5. SearchIsRight'
    BY <1>1 DEF SearchIsRight
  <1> QED
    BY <1>1, <1>2, <1>3, <1>4, <1>5 DEF ReaderInv

\* What a search answers when the last link does not stay on level 0.
LEMMA SearchAnswers ==
  ASSUME ListInv, ReaderInv, rd.at = "level", rd.level = 0, UNCHANGED <<link, known>>,
         NEW n, n = link[rd.x][0], ~StaysOnLevel(rd.op, rd.key, n),
         rd' = [rd EXCEPT !.at = "done", !.node = NodeFound(rd.op, rd.x, n)]
  PROVE  ReaderInv'
  <1>1. PICK x, key, op : x = rd.x /\ key = rd.key /\ op = rd.op
    OBVIOUS
  <1>2. /\ x \in On(0) /\ x \in Nat /\ key \in Nat /\ op \in {"seek", "prev", "last"}
        /\ op # "last" => x < key
        /\ x \in Nodes /\ key \in Nodes
    BY <1>1, NodeFacts DEF ReaderInv, ReaderType, OnItsWay
  <1>3. /\ n \in Nodes \cup {Null} /\ (n # Null => n \in On(0) /\ n \in ListKeys /\ n \in Nat)
        /\ \A k \in On(0) : x < k => n # Null /\ n <= k
    BY <1>1, <1>2, NextIsNext, NodeFacts
  <1>4. /\ op = "last" => n = Null
        /\ op # "last" /\ n # Null => key <= n
    BY <1>1, <1>2, <1>3 DEF StaysOnLevel, KeyIsAfterNode
  <1>5. PICK node : node = NodeFound(op, x, n)
    OBVIOUS
  <1>6. /\ op = "seek" => node = n
        /\ op # "seek" => node = IF x = 0 THEN Null ELSE x
    BY <1>5 DEF NodeFound
  <1>7. /\ rd'.at = "done" /\ rd'.op = op /\ rd'.key = key /\ rd'.node = node
        /\ rd' = [at |-> "done", op |-> op, key |-> key, x |-> x, level |-> rd.level, node |-> node]
        /\ rd.level \in Heights
    BY <1>1, <1>5 DEF ReaderInv, ReaderType
  <1>8. Inserted' = Inserted /\ known' = known /\ known \subseteq Inserted
    BY DEF Inserted, Linked, ReaderInv
  <1>9. \A k \in known : k \in On(0) /\ k \in Nat /\ 0 < k
    BY <1>8, InsertedIsOn, OnNodes, NodeFacts
  <1>10. node \in Nodes \cup {Null} /\ (node # Null => node \in Inserted)
    BY <1>2, <1>3, <1>6, InsertedIsOn, NodeFacts
  <1>11. ReaderType' /\ OnItsWay'
    BY <1>2, <1>7, <1>10 DEF ReaderType, OnItsWay
  <1>12. SearchIsRight'
    <2>1. CASE op = "seek"
      <3>1. {k \in known : k >= key /\ (node # Null => k < node)} = {}
        <4> SUFFICES ASSUME NEW k \in known, k >= key, node # Null => k < node PROVE FALSE
          OBVIOUS
        <4>1. x < k
          BY <1>2, <1>9, <2>1
        <4> QED
          BY <1>3, <1>6, <1>9, <2>1, <4>1
      <3>2. node # Null => node >= key
        BY <1>2, <1>3, <1>4, <1>6, <2>1
      <3> QED
        BY <1>7, <1>8, <1>10, <2>1, <3>1, <3>2 DEF SearchIsRight
    <2>2. CASE op = "prev"
      <3>1. {k \in known : k < key /\ (node # Null => k > node)} = {}
        <4> SUFFICES ASSUME NEW k \in known, k < key, node # Null => k > node PROVE FALSE
          OBVIOUS
        <4>1. x < k
          BY <1>2, <1>6, <1>9, <2>2, NodeFacts
        <4>2. n # Null /\ n <= k /\ n \in Nat /\ key <= n
          BY <1>3, <1>4, <1>9, <2>2, <4>1
        <4> QED
          BY <1>2, <1>9, <4>2
      <3>2. node # Null => node < key
        BY <1>2, <1>6, <2>2
      <3> QED
        BY <1>7, <1>8, <1>10, <2>2, <3>1, <3>2 DEF SearchIsRight
    <2>3. CASE op = "last"
      <3>1. {k \in known : node # Null => k > node} = {}
        <4> SUFFICES ASSUME NEW k \in known, node # Null => k > node PROVE FALSE
          OBVIOUS
        <4>1. x < k
          BY <1>2, <1>6, <1>9, <2>3, NodeFacts
        <4> QED
          BY <1>3, <1>4, <1>9, <2>3, <4>1
      <3> QED
        BY <1>7, <1>8, <1>10, <2>3, <3>1 DEF SearchIsRight
    <2> QED
      BY <1>2, <2>1, <2>2, <2>3
  <1> QED
    BY <1>8, <1>11, <1>12 DEF ReaderInv

LEMMA SearchSteps ==
  ASSUME ListInv, ReaderInv, SearchStep PROVE ReaderInv'
  <1>1. PICK x, l, n : x = rd.x /\ l = rd.level /\ n = link[x][l]
    OBVIOUS
  <1>2. /\ rd.at = "level" /\ UNCHANGED <<link, known>>
        /\ rd' = IF n = Junk THEN [rd EXCEPT !.at = "crashed"]
                 ELSE IF StaysOnLevel(rd.op, rd.key, n) THEN [rd EXCEPT !.x = n]
                 ELSE IF l > 0 THEN [rd EXCEPT !.level = l - 1]
                 ELSE [rd EXCEPT !.at = "done", !.node = NodeFound(rd.op, x, n)]
    BY <1>1 DEF SearchStep
  <1>3. /\ x \in On(l) /\ l \in Heights /\ rd.op # "next" /\ (rd.op # "last" => x < rd.key)
        /\ l \in Nat
    BY <1>1, <1>2, NodeFacts DEF ReaderInv, ReaderType, OnItsWay
  <1>4. n \in Nodes \cup {Null} /\ (n # Null => n \in On(l)) /\ n # Junk
    BY <1>1, <1>3, NextIsNext, NodeFacts
  <1>5. \A i : On(i)' = On(i)
    BY <1>2 DEF On, Linked
  <1>6. Inserted' = Inserted
    BY <1>2 DEF Inserted, Linked
  <1>7. CASE StaysOnLevel(rd.op, rd.key, n)
    <2>1. rd' = [rd EXCEPT !.x = n] /\ n # Null /\ n \in On(l) /\ n \in Nodes
      BY <1>2, <1>4, <1>7 DEF StaysOnLevel, KeyIsAfterNode
    <2>2. rd.op # "last" => n < rd.key
      BY <1>7 DEF StaysOnLevel, KeyIsAfterNode
    <2>3. ReaderType' /\ rd'.at = "level" /\ rd'.x = n /\ rd'.level = l /\ rd'.op = rd.op /\ rd'.key = rd.key
      BY <1>1, <1>2, <2>1 DEF ReaderInv, ReaderType
    <2>4. OnItsWay'
      BY <1>3, <1>5, <2>1, <2>2, <2>3 DEF OnItsWay
    <2>5. SearchIsRight'
      BY <2>3 DEF SearchIsRight
    <2> QED
      BY <1>2, <1>6, <2>3, <2>4, <2>5 DEF ReaderInv
  <1>8. CASE ~StaysOnLevel(rd.op, rd.key, n) /\ l > 0
    <2>1. rd' = [rd EXCEPT !.level = l - 1] /\ l - 1 \in Heights /\ l - 1 <= l
      <3>1. l - 1 \in Heights /\ l - 1 <= l
        BY <1>3, <1>8, SkipListAssumption DEF Heights
      <3>2. rd' = [rd EXCEPT !.level = l - 1]
        BY <1>2, <1>4, <1>8
      <3> QED
        BY <3>1, <3>2
    <2>2. x \in On(l - 1)
      BY <1>3, <2>1 DEF ListInv, Nested
    <2>3. ReaderType' /\ rd'.at = "level" /\ rd'.x = x /\ rd'.level = l - 1 /\ rd'.op = rd.op /\ rd'.key = rd.key
      BY <1>1, <1>2, <2>1 DEF ReaderInv, ReaderType
    <2>4. OnItsWay'
      BY <1>3, <1>5, <2>2, <2>3 DEF OnItsWay
    <2>5. SearchIsRight'
      BY <2>3 DEF SearchIsRight
    <2> QED
      BY <1>2, <1>6, <2>3, <2>4, <2>5 DEF ReaderInv
  <1>9. CASE ~StaysOnLevel(rd.op, rd.key, n) /\ ~(l > 0)
    <2>1. l = 0
      BY <1>3, <1>9
    <2>2. rd' = [rd EXCEPT !.at = "done", !.node = NodeFound(rd.op, rd.x, n)]
      BY <1>1, <1>2, <1>4, <1>9
    <2> QED
      BY <1>1, <1>2, <1>9, <2>1, <2>2, SearchAnswers
  <1> QED
    BY <1>7, <1>8, <1>9

LEMMA NextSteps ==
  ASSUME ListInv, ReaderInv, NEW x \in Nodes, StepNext(x) PROVE ReaderInv'
  <1>1. PICK n : n = link[x][0]
    OBVIOUS
  <1>2. /\ rd' = [at |-> IF n = Junk THEN "crashed" ELSE "done", op |-> "next", key |-> x,
                  x |-> x, level |-> 0, node |-> n]
        /\ known' = Inserted /\ UNCHANGED link /\ (x = 0 \/ x = rd.node) /\ rd.at = "done"
    BY <1>1 DEF StepNext
  <1>3. x \in On(0) /\ x # Null
    BY <1>2, OnNodes, NodeFacts, InsertedIsOn DEF ReaderInv, SearchIsRight
  <1>4. /\ n \in Nodes \cup {Null} /\ n # Junk /\ (n # Null => n \in On(0) /\ n \in ListKeys)
        /\ \A k \in On(0) : x < k => n # Null /\ n <= k
    BY <1>1, <1>3, NextIsNext, NodeFacts
  <1>5. rd' = [at |-> "done", op |-> "next", key |-> x, x |-> x, level |-> 0, node |-> n]
    BY <1>2, <1>4
  <1>6. Inserted' = Inserted
    BY <1>2 DEF Inserted, Linked
  <1>7. ReaderType' /\ OnItsWay'
    BY <1>4, <1>5, NodeFacts DEF ReaderType, OnItsWay
  <1>8. {k \in Inserted : k > x /\ (n # Null => k < n)} = {}
    <2> SUFFICES ASSUME NEW k \in Inserted, k > x, n # Null => k < n PROVE FALSE
      OBVIOUS
    <2>1. k \in On(0) /\ k \in Nat /\ x \in Nat
      BY InsertedIsOn, OnNodes, NodeFacts
    <2>2. n # Null /\ n <= k /\ n \in Nat
      BY <1>4, <2>1, NodeFacts
    <2> QED
      BY <2>1, <2>2
  <1>9. n # Null => n \in Inserted
    BY <1>4, InsertedIsOn, NodeFacts
  <1>10. SearchIsRight'
    BY <1>2, <1>5, <1>6, <1>8, <1>9 DEF SearchIsRight
  <1> QED
    BY <1>2, <1>6, <1>7, <1>10 DEF ReaderInv

LEMMA SkipListInvariant == SkipListSpec => [](ListInv /\ ReaderInv)
  <1>1. SkipListInit => ListInv /\ ReaderInv
    <2> SUFFICES ASSUME SkipListInit PROVE ListInv /\ ReaderInv
      OBVIOUS
    <2>1. rd = Resting /\ known = {}
      BY DEF SkipListInit
    <2>2. ReaderType
      BY <2>1, NodeFacts DEF ReaderType, Resting
    <2>3. OnItsWay /\ SearchIsRight
      BY <2>1 DEF Resting, OnItsWay, SearchIsRight
    <2> QED
      BY <2>1, <2>2, <2>3, ListStart DEF ReaderInv
  <1>2. ListInv /\ ReaderInv /\ [SkipListNext]_slvars => ListInv' /\ ReaderInv'
    <2> SUFFICES ASSUME ListInv, ReaderInv, [SkipListNext]_slvars PROVE ListInv' /\ ReaderInv'
      OBVIOUS
    <2>1. ASSUME UNCHANGED <<link, max_height_, wr>> PROVE ListInv'
      BY <2>1 DEF ListInv, ListType, Chained, Nested, LowEnough, Fresh, WriterReady, On, Linked
    <2>2. ASSUME UNCHANGED <<link, rd, known>> PROVE ReaderInv'
      <3>1. \A i \in Heights : On(i)' = On(i)
        BY <2>2 DEF On, Linked
      <3> QED
        BY <2>2, <3>1, ReaderStays
    <2>3. CASE UNCHANGED slvars
      BY <2>1, <2>2, <2>3 DEF slvars
    <2>4. ASSUME NEW key \in ListKeys, NEW h \in 1 .. kMaxHeight, InsertBegin(key, h)
          PROVE  ListInv' /\ ReaderInv'
      <3>1. UNCHANGED <<link, rd, known>>
        BY <2>4 DEF InsertBegin
      <3> QED
        BY <2>2, <2>4, <3>1, InsertKeepsList
    <2>5. CASE SetOwn
      <3>1. UNCHANGED <<rd, known>>
        BY <2>5 DEF SetOwn
      <3> QED
        BY <2>5, <3>1, SetOwnKeepsList, ReaderStays
    <2>6. CASE Publish
      <3>1. UNCHANGED <<rd, known>>
        BY <2>6 DEF Publish
      <3> QED
        BY <2>6, <3>1, PublishKeepsList, ReaderStays
    <2>7. CASE SearchStep
      <3>1. UNCHANGED <<link, max_height_, wr>>
        BY <2>7 DEF SearchStep
      <3> QED
        BY <2>1, <2>7, <3>1, SearchSteps
    <2>8. ASSUME NEW op \in {"seek", "prev", "last"}, NEW key \in Nodes, NEW top \in Heights,
                 SearchBegin(op, key, top), op # "last" => key \in ListKeys
          PROVE  ListInv' /\ ReaderInv'
      <3>1. UNCHANGED <<link, max_height_, wr>>
        BY <2>8 DEF SearchBegin
      <3> QED
        BY <2>1, <2>8, <3>1, SearchBegins
    <2>9. ASSUME NEW x \in Nodes, StepNext(x) PROVE ListInv' /\ ReaderInv'
      <3>1. UNCHANGED <<link, max_height_, wr>>
        BY <2>9 DEF StepNext
      <3> QED
        BY <2>1, <2>9, <3>1, NextSteps
    <2>10. CASE \E top \in Heights :
                  \/ \E key \in ListKeys : SearchBegin("seek", key, top)
                  \/ rd.node \in ListKeys /\ SearchBegin("prev", rd.node, top)
                  \/ SearchBegin("last", 0, top)
      <3>1. PICK top \in Heights :
                  \/ \E key \in ListKeys : SearchBegin("seek", key, top)
                  \/ rd.node \in ListKeys /\ SearchBegin("prev", rd.node, top)
                  \/ SearchBegin("last", 0, top)
        BY <2>10
      <3>2. CASE \E key \in ListKeys : SearchBegin("seek", key, top)
        BY <2>8, <3>2, NodeFacts
      <3>3. CASE rd.node \in ListKeys /\ SearchBegin("prev", rd.node, top)
        <4>1. PICK key : key = rd.node
          OBVIOUS
        <4>2. key \in ListKeys /\ key \in Nodes /\ SearchBegin("prev", key, top)
          BY <3>3, <4>1, NodeFacts
        <4> QED
          BY <2>8, <4>2
      <3>4. CASE SearchBegin("last", 0, top)
        BY <2>8, <3>4, NodeFacts
      <3> QED
        BY <3>1, <3>2, <3>3, <3>4
    <2> QED
      BY <2>3, <2>4, <2>5, <2>6, <2>7, <2>9, <2>10 DEF SkipListNext
  <1> QED
    BY <1>1, <1>2, PTL DEF SkipListSpec

\* A reader needs no lock: however its loads interleave with the stores of the
\* writer, and whichever max_height_ it saw, it follows no link that is not
\* initialized, misses no key that was in the list when it began, and answers
\* a node of the list on the right side of its target.
THEOREM ReadersNeedNoLock == SkipListSpec => []LockFreeReads
  <1>1. ReaderInv => LockFreeReads
    BY DEF ReaderInv, ReaderType, LockFreeReads, NoJunkRead
  <1> QED
    BY <1>1, SkipListInvariant, PTL

-----------------------------------------------------------------------------
(* The iterator of leveldb: in any order of calls, whatever is written     *)
(* meanwhile, it shows the snapshot it was made for.                       *)

IterSpec == IterInit /\ [][IterNext]_ivars

\* The two sorted runs that are merged, and what the snapshot contains of them.
Ent == [k : Nat, s : Nat, put : BOOLEAN]
Run(c) == IF c = 1 THEN mtab ELSE UNION {Es(i) : i \in DOMAIN blocks}
Snapped == {e \in Readable : Visible(e)}

\* Entries of the keys a scan may meet, no two with the same sequence number.
Sorted(S) ==
  /\ S \subseteq Ent /\ IsFiniteSet(S)
  /\ \A a, b \in S : a.s = b.s => a = b
  /\ \A a \in S : a.k \in ScanKeys

\* The table's part of the snapshot; the keys in its index separate its blocks.
BlocksInv ==
  /\ Len(blocks) \in Nat /\ DOMAIN blocks = 1 .. Len(blocks)
  /\ \A i \in DOMAIN blocks :
       /\ blocks[i].key \in Ent
       /\ \A e \in Es(i) : Visible(e) /\ ~Before(blocks[i].key, e)
       /\ \A j \in DOMAIN blocks : i < j => \A e \in Es(j) : Before(blocks[i].key, e)
RunsInv == Sorted(Readable) /\ Run(1) \cap Run(2) = {} /\ BlocksInv

\* A child is at an entry of its run, or at none.
ChildInv(c, ch) ==
  /\ DOMAIN ch = {"e", "b", "err"} /\ ch.b \in Int /\ ch.err \in BOOLEAN
  /\ ch.e # Nil => ch.e \in (IF c = 1 THEN mtab ELSE Es(ch.b))

\* Of the snapshot's entries in S, e is the first (the last); it may be one that
\* was inserted since and comes even before.
IsFirst(S, e) ==
  /\ e # Nil => e \in S
  /\ \A v \in S : Visible(v) => e # Nil /\ ~Before(v, e)
IsLast(S, e) ==
  /\ e # Nil => e \in S
  /\ \A v \in S : Visible(v) => e # Nil /\ ~Before(e, v)
Behind(S, x) == {v \in S : Before(x, v)}
InFront(S, x) == {v \in S : Before(v, x)}

\* The merging iterator is at the first (the last) child, and the other one is
\* the next to come.
MergeInv(m) ==
  /\ DOMAIN m = {"ch", "cur", "fwd"} /\ DOMAIN m.ch = 1 .. 2 /\ m.fwd \in BOOLEAN
  /\ m.cur \in 0 .. 2
  /\ \A c \in 1 .. 2 : ChildInv(c, m.ch[c])
  /\ m.cur = 0 => \A c \in 1 .. 2 : m.ch[c].e = Nil
  /\ m.cur # 0 => Entry(m) # Nil
  /\ m.cur # 0 => \A c \in 1 .. 2 : c # m.cur =>
       IF m.fwd THEN IsFirst(Behind(Run(c), Entry(m)), m.ch[c].e)
       ELSE IsLast(InFront(Run(c), Entry(m)), m.ch[c].e)

\* The newest entry of a key in the snapshot, those that are shown, and their
\* keys; those at x or in front of it.
IsNewest(e) == e \in Snapped /\ \A v \in Snapped : v.k = e.k => ~Before(v, e)
Shows == {e \in Snapped : IsNewest(e) /\ e.put}
KeysFrom(n) == {k \in {e.k : e \in Shows} : k >= n}
KeysBelow(n) == {k \in {e.k : e \in Shows} : k < n}
KeysUpTo(x) == {e.k : e \in {y \in Shows : x # Nil /\ ~Before(x, y)}}

\* Forward, the entries that count are still ahead: those of keys behind the
\* key to skip.
AheadInv(E, d, key) ==
  /\ (d.skip => E.k > d.key) => \A v \in Snapped : v.k = E.k => ~Before(v, E)
  /\ d.skip => \A v \in Snapped : ~Before(v, E) => v.k >= d.key
  /\ key = Min({k \in KeysFrom(E.k) : d.skip => k > d.key} \cup {NoKey})

\* Backward, a value that is saved is that of x, and all entries of the
\* snapshot in front of x are at the merging iterator or in front of it.
SavedIs(E, d, x) ==
  /\ x \in Snapped /\ x.put /\ x.k = d.key /\ x.s = d.val
  /\ E # Nil => Before(E, x)
  /\ \A v \in Snapped : Before(v, x) => E # Nil /\ ~Before(E, v)

BehindInv(E, d, key) ==
  IF d.put THEN \E x \in Snapped : SavedIs(E, d, x) /\ key = Max(KeysUpTo(x) \cup {0})
  ELSE key = Max(KeysUpTo(E) \cup {0})

\* Between two calls the iterator is at an entry that is shown, or has saved it.
IdleInv(E, fwd, d, key) ==
  IF ~d.valid THEN key \notin KeysFrom(0)
  ELSE IF d.fwd THEN fwd /\ E # Nil /\ E \in Shows /\ key = E.k
  ELSE /\ ~fwd /\ key = d.key /\ \E x \in Shows : SavedIs(E, d, x)
       /\ E # Nil => E.k < d.key

DBIterType(d) ==
  /\ DOMAIN d = {"at", "fwd", "valid", "key", "val", "skip", "put"} /\ d.at \in {"idle", "next", "back", "prev"}
  /\ d.valid \in BOOLEAN /\ d.fwd \in BOOLEAN /\ d.skip \in BOOLEAN /\ d.put \in BOOLEAN
  /\ d.key \in Int

DBIterInv(m, d, key) ==
  /\ DBIterType(d)
  /\ d.at = "idle" => IdleInv(Entry(m), m.fwd, d, key)
  /\ d.at = "next" => d.fwd /\ m.fwd /\ Entry(m) # Nil /\ AheadInv(Entry(m), d, key)
  /\ d.at = "back" => d.fwd /\ Entry(m) # Nil /\ Entry(m).k = d.key /\ key = Max(KeysBelow(d.key) \cup {0})
  /\ d.at = "prev" => ~d.fwd /\ ~m.fwd /\ BehindInv(Entry(m), d, key)

\* A scan from the first key on: a block that could not be read is still ahead
\* or has left its error.
BlocksSeen(ch) ==
  ch.err \/ /\ \A i \in DOMAIN blocks : i <= ch.b => Es(i) # {}
            /\ ch.e = Nil => ch.b > Len(blocks)
ErrorInv(m, d, all) ==
  all => /\ d.at \in {"idle", "next"} /\ d.fwd /\ m.fwd
         /\ BlocksSeen(m.ch[2])
         /\ d.at = "idle" /\ ~d.valid => Entry(m) = Nil

GoalType == DOMAIN goal = {"key", "all"} /\ goal.all \in BOOLEAN
IterInv == RunsInv /\ MergeInv(mi) /\ DBIterInv(mi, di, goal.key) /\ ErrorInv(mi, di, goal.all) /\ GoalType

\* A finite set has a minimal element of any strict order.
LEMMA MinimalExists ==
  ASSUME NEW S, IsFiniteSet(S), S # {}, NEW R,
         \A x \in S : <<x, x>> \notin R,
         \A x, y, z \in S : <<x, y>> \in R /\ <<y, z>> \in R => <<x, z>> \in R
  PROVE  \E e \in S : \A x \in S : <<x, e>> \notin R
  <1> DEFINE Lower(e) == {x \in S : <<x, e>> \in R}
             L == OpToRel(<, Nat)
  <1>1. ASSUME NEW e \in S PROVE IsFiniteSet(Lower(e)) /\ Cardinality(Lower(e)) \in Nat
    BY FS_Subset, FS_CardinalityType
  <1>2. PICK count : count = [e \in S |-> Cardinality(Lower(e))]
    OBVIOUS
  <1>3. count \in [S -> Nat] /\ \A e \in S : count[e] = Cardinality(Lower(e))
    BY <1>1, <1>2
  <1> DEFINE N == {count[e] : e \in S}
  <1>4. N \subseteq Nat /\ N # {}
    BY <1>3
  <1>5. \A x, y \in Nat : x < y => <<x, y>> \in L
    BY DEF OpToRel
  <1>6. IsWellFoundedOn(L, Nat)
    BY NatLessThanWellFounded
  <1>7. PICK n \in N : \A m \in N : <<m, n>> \notin L
    <2> HIDE DEF N, L
    <2> QED
      BY <1>4, <1>6, WFMin, Zenon
  <1>8. PICK e \in S : n = count[e]
    OBVIOUS
  <1>9. ASSUME NEW x \in S, <<x, e>> \in R PROVE FALSE
    <2>1. Lower(x) \subseteq Lower(e) /\ x \in Lower(e) /\ x \notin Lower(x)
      BY <1>9
    <2>2. count[x] < count[e]
      <3>1. Cardinality(Lower(x)) <= Cardinality(Lower(e)) /\ (Cardinality(Lower(x)) = Cardinality(Lower(e)) => Lower(x) = Lower(e))
        BY <1>1, <2>1, FS_Subset
      <3>2. count[x] <= count[e] /\ count[x] # count[e]
        BY <1>3, <2>1, <3>1
      <3>3. count[x] \in Nat /\ count[e] \in Nat
        BY <1>3
      <3> QED
        BY <3>2, <3>3
    <2>3. count[x] \in N /\ count[x] \in Nat /\ count[e] \in Nat
      BY <1>3
    <2> QED
      BY <1>5, <1>7, <1>8, <2>2, <2>3
  <1> QED
    BY <1>9

\* A finite set of numbers has a least and a greatest one.
LEMMA MinMaxOf ==
  ASSUME NEW S \in SUBSET Int, IsFiniteSet(S), S # {}
  PROVE  /\ Min(S) \in S /\ \A x \in S : Min(S) <= x
         /\ Max(S) \in S /\ \A x \in S : Max(S) >= x
  <1> DEFINE R == {p \in S \X S : p[1] < p[2]}
             Q == {p \in S \X S : p[1] > p[2]}
  <1>1. \E e \in S : \A x \in S : <<x, e>> \notin R
    <2>1. \A x \in S : <<x, x>> \notin R
      OBVIOUS
    <2>2. \A x, y, z \in S : <<x, y>> \in R /\ <<y, z>> \in R => <<x, z>> \in R
      OBVIOUS
    <2> HIDE DEF R
    <2> QED
      BY <2>1, <2>2, MinimalExists
  <1>2. \E e \in S : \A x \in S : <<x, e>> \notin Q
    <2>1. \A x \in S : <<x, x>> \notin Q
      OBVIOUS
    <2>2. \A x, y, z \in S : <<x, y>> \in Q /\ <<y, z>> \in Q => <<x, z>> \in Q
      OBVIOUS
    <2> HIDE DEF Q
    <2> QED
      BY <2>1, <2>2, MinimalExists
  <1>3. \E e \in S : \A x \in S : e <= x
    <2>1. PICK e \in S : \A x \in S : <<x, e>> \notin R
      BY <1>1
    <2>2. ASSUME NEW x \in S PROVE e <= x
      <3>1. <<x, e>> \notin R
        BY <2>1
      <3>2. ~(x < e) /\ x \in Int /\ e \in Int
        BY <3>1
      <3> QED
        BY <3>2
    <2> QED
      BY <2>2
  <1>4. \E e \in S : \A x \in S : e >= x
    <2>1. PICK e \in S : \A x \in S : <<x, e>> \notin Q
      BY <1>2
    <2>2. ASSUME NEW x \in S PROVE e >= x
      <3>1. <<x, e>> \notin Q
        BY <2>1
      <3>2. ~(x > e) /\ x \in Int /\ e \in Int
        BY <3>1
      <3> QED
        BY <3>2
    <2> QED
      BY <2>2
  <1> QED
    BY <1>3, <1>4 DEF Min, Max

\* Entries are ordered by key and sequence number.
LEMMA BeforeOrder ==
  ASSUME NEW a \in Ent, NEW b \in Ent, NEW c \in Ent
  PROVE  /\ ~Before(a, a)
         /\ Before(a, b) => ~Before(b, a)
         /\ Before(a, b) /\ ~Before(c, b) => Before(a, c)
         /\ ~Before(b, a) /\ Before(b, c) => Before(a, c)
         /\ Before(a, b) \/ Before(b, a) \/ a.s = b.s
         /\ ~Before(a, b) => b.k <= a.k
         /\ Before(a, b) => a.k <= b.k
  BY DEF Ent, Before

LEMMA SortedPart ==
  ASSUME NEW S, Sorted(S), NEW T \in SUBSET S
  PROVE  Sorted(T)
  BY FS_Subset DEF Sorted

\* Least and Greatest are that.
LEMMA LeastGreatest ==
  ASSUME NEW S, Sorted(S)
  PROVE  /\ S = {} => Least(S) = Nil /\ Greatest(S) = Nil
         /\ S # {} => /\ Least(S) \in S /\ Least(S) # Nil /\ \A x \in S : ~Before(x, Least(S))
                      /\ Greatest(S) \in S /\ Greatest(S) # Nil /\ \A x \in S : ~Before(Greatest(S), x)
  <1> DEFINE R == {p \in S \X S : Before(p[1], p[2])}
             Q == {p \in S \X S : Before(p[2], p[1])}
  <1>0. S \subseteq Ent /\ (\A a, b \in S : a.s = b.s => a = b) /\ Nil \notin S /\ IsFiniteSet(S)
    BY NilAssumption DEF Sorted, Ent
  <1>1. CASE S # {}
    <2>1. \E e \in S : \A x \in S : <<x, e>> \notin R
      <3>1. \A x \in S : <<x, x>> \notin R
        BY <1>0, BeforeOrder
      <3>2. \A x, y, z \in S : <<x, y>> \in R /\ <<y, z>> \in R => <<x, z>> \in R
        BY <1>0, BeforeOrder
      <3> HIDE DEF R
      <3> QED
        BY <1>0, <1>1, <3>1, <3>2, MinimalExists
    <2>2. \E e \in S : \A x \in S : <<x, e>> \notin Q
      <3>1. \A x \in S : <<x, x>> \notin Q
        BY <1>0, BeforeOrder
      <3>2. \A x, y, z \in S : <<x, y>> \in Q /\ <<y, z>> \in Q => <<x, z>> \in Q
        BY <1>0, BeforeOrder
      <3> HIDE DEF Q
      <3> QED
        BY <1>0, <1>1, <3>1, <3>2, MinimalExists
    <2>3. \E e \in S : \A x \in S \ {e} : Before(e, x)
      <3>1. PICK e \in S : \A x \in S : ~Before(x, e)
        BY <2>1
      <3> QED
        BY <1>0, <3>1, BeforeOrder
    <2>4. \E e \in S : \A x \in S \ {e} : Before(x, e)
      <3>1. PICK e \in S : \A x \in S : ~Before(e, x)
        BY <2>2
      <3> QED
        BY <1>0, <3>1, BeforeOrder
    <2>5. Least(S) \in S /\ \A x \in S \ {Least(S)} : Before(Least(S), x)
      <3>1. PICK e : e = Least(S)
        OBVIOUS
      <3> QED
        BY <1>1, <2>3 DEF Least
    <2>6. Greatest(S) \in S /\ \A x \in S \ {Greatest(S)} : Before(x, Greatest(S))
      BY <1>1, <2>4 DEF Greatest
    <2> QED
      BY <1>0, <1>1, <2>5, <2>6, BeforeOrder
  <1>2. CASE S = {}
    BY <1>2 DEF Least, Greatest
  <1> QED
    BY <1>1, <1>2

\* The first, the last of all entries of a run.
IsLeast(S, e) == (e # Nil => e \in S) /\ \A v \in S : e # Nil /\ ~Before(v, e)
IsGreatest(S, e) == (e # Nil => e \in S) /\ \A v \in S : e # Nil /\ ~Before(e, v)

LEMMA LeastIs ==
  ASSUME NEW S, Sorted(S)
  PROVE  IsLeast(S, Least(S)) /\ IsGreatest(S, Greatest(S))
  BY LeastGreatest DEF IsLeast, IsGreatest

\* The two runs, and the blocks of the second.
LEMMA RunFacts ==
  ASSUME RunsInv
  PROVE  /\ Readable = Run(1) \cup Run(2) /\ Readable \subseteq Ent /\ Nil \notin Ent
         /\ Run(1) = mtab /\ Sorted(Run(1)) /\ Sorted(Run(2))
         /\ \A i \in Int : Es(i) \subseteq Run(2) /\ Sorted(Es(i)) /\ (i \notin DOMAIN blocks => Es(i) = {})
         /\ \A v \in Run(2) : \E i \in DOMAIN blocks : v \in Es(i)
         /\ \A i, j \in DOMAIN blocks : i < j => \A u \in Es(i), v \in Es(j) : Before(u, v)
         /\ DOMAIN blocks = 1 .. Len(blocks) /\ Len(blocks) \in Nat
  <1>1. Readable = Run(1) \cup Run(2) /\ Run(1) = mtab
    BY DEF Readable, Run
  <1>2. Readable \subseteq Ent /\ Nil \notin Ent
    BY NilAssumption DEF RunsInv, Sorted, Ent
  <1>3. \A i \in Int : Es(i) \subseteq Run(2) /\ (i \notin DOMAIN blocks => Es(i) = {})
    BY DEF Es, Run, RunsInv, BlocksInv
  <1>4. \A v \in Run(2) : \E i \in DOMAIN blocks : v \in Es(i)
    BY DEF Run
  <1>5. DOMAIN blocks = 1 .. Len(blocks) /\ Len(blocks) \in Nat
    BY DEF RunsInv, BlocksInv
  <1>6. ASSUME NEW i \in DOMAIN blocks, NEW j \in DOMAIN blocks, i < j, NEW u \in Es(i), NEW v \in Es(j)
        PROVE  Before(u, v)
    <2>1. blocks[i].key \in Ent /\ ~Before(blocks[i].key, u) /\ Before(blocks[i].key, v)
      BY <1>6 DEF RunsInv, BlocksInv
    <2>2. u \in Ent /\ v \in Ent
      BY <1>1, <1>2, <1>3, <1>5
    <2> QED
      BY <2>1, <2>2, BeforeOrder
  <1>7. Sorted(Run(1)) /\ Sorted(Run(2))
    BY <1>1, SortedPart DEF RunsInv
  <1>8. \A i \in Int : Sorted(Es(i))
    BY <1>3, <1>7, SortedPart
  <1> QED
    BY <1>1, <1>2, <1>3, <1>4, <1>5, <1>6, <1>7, <1>8

\* TwoLevelIterator comes to the next entry of its run, over all blocks that
\* are empty, of which it keeps the errors.
LEMMA SkipForwardIs ==
  ASSUME RunsInv, NEW S \in SUBSET Run(2), NEW b \in Nat \ {0},
         \A i \in DOMAIN blocks : (i < b => Es(i) \cap S = {}) /\ (b < i => Es(i) \subseteq S),
         NEW e, e = Least(Es(b) \cap S), NEW err \in BOOLEAN,
         NEW r, r = SkipForward(b, e, err)
  PROVE  /\ ChildInv(2, r) /\ IsLeast(S, r.e)
         /\ ~r.err => /\ ~err
                      /\ \A i \in DOMAIN blocks : b <= i /\ i <= r.b => Es(i) # {}
                      /\ r.e = Nil => r.b > Len(blocks)
  <1> DEFINE N == {i \in b + 1 .. Len(blocks) : Es(i) # {}}
             to == Min(N \cup {Len(blocks) + 1})
             gone == \E i \in b .. to - 1 : i \in DOMAIN blocks /\ Es(i) = {}
  <1>0. /\ Nil \notin Ent /\ Readable \subseteq Ent /\ Run(2) \subseteq Readable
        /\ \A i \in Int : Es(i) \subseteq Run(2) /\ Sorted(Es(i)) /\ (i \notin DOMAIN blocks => Es(i) = {})
        /\ \A v \in Run(2) : \E i \in DOMAIN blocks : v \in Es(i)
        /\ \A i, j \in DOMAIN blocks : i < j => \A u \in Es(i), v \in Es(j) : Before(u, v)
        /\ DOMAIN blocks = 1 .. Len(blocks) /\ Len(blocks) \in Nat
    BY RunFacts
  <1>1. IsLeast(Es(b) \cap S, e)
    BY <1>0, LeastIs, SortedPart
  <1>2. CASE e # Nil \/ b > Len(blocks)
    <2>1. r = [e |-> e, b |-> b, err |-> err]
      BY <1>2 DEF SkipForward
    <2>2. e # Nil => e \in Es(b) \cap S /\ b \in DOMAIN blocks
      BY <1>0, <1>1 DEF IsLeast
    <2>3. ASSUME NEW v \in S PROVE e # Nil /\ ~Before(v, e)
      <3>1. PICK j \in DOMAIN blocks : v \in Es(j)
        BY <1>0
      <3>2. ~(j < b)
        BY <3>1
      <3>3. CASE j = b
        BY <3>1, <3>3, <1>1 DEF IsLeast
      <3>4. CASE j > b
        <4>1. e # Nil /\ e \in Es(b) /\ b \in DOMAIN blocks
          BY <1>0, <1>2, <2>2, <3>4
        <4>2. Before(e, v) /\ e \in Ent /\ v \in Ent
          BY <1>0, <3>1, <3>4, <4>1
        <4> QED
          BY <4>1, <4>2, BeforeOrder
      <3> QED
        BY <3>2, <3>3, <3>4, <1>0
    <2>4. ChildInv(2, r)
      BY <2>1, <2>2 DEF ChildInv
    <2>5. IsLeast(S, r.e)
      BY <2>1, <2>2, <2>3 DEF IsLeast
    <2>6. \A i \in DOMAIN blocks : b <= i /\ i <= b => Es(i) # {}
      BY <1>0, <1>2, <2>2
    <2>7. r.e = e /\ r.b = b /\ r.err = err
      BY <2>1
    <2>8. r.e = Nil => r.b > Len(blocks)
      BY <1>2, <2>7
    <2> QED
      BY <2>4, <2>5, <2>6, <2>7, <2>8
  <1>3. CASE e = Nil /\ b <= Len(blocks)
    <2>1. r = [e |-> Least(Es(to)), b |-> to, err |-> err \/ gone]
      BY <1>3, <1>0 DEF SkipForward
    <2>2. IsFiniteSet(N \cup {Len(blocks) + 1}) /\ N \cup {Len(blocks) + 1} \in SUBSET Int
      <3>1. N \cup {Len(blocks) + 1} \subseteq b + 1 .. Len(blocks) + 1
        BY <1>0, <1>3
      <3>2. IsFiniteSet(b + 1 .. Len(blocks) + 1)
        BY <1>0, FS_Interval
      <3> HIDE DEF N
      <3> QED
        BY <3>1, <3>2, FS_Subset
    <2>3. /\ to \in b + 1 .. Len(blocks) + 1
          /\ to <= Len(blocks) => Es(to) # {}
          /\ \A i \in b + 1 .. to - 1 : Es(i) = {}
      <3>1. to \in N \cup {Len(blocks) + 1} /\ \A i \in N \cup {Len(blocks) + 1} : to <= i
        <4> HIDE DEF N
        <4> QED
          BY <2>2, MinMaxOf
      <3> HIDE DEF to
      <3> QED
        BY <1>0, <1>3, <3>1
    <2> HIDE DEF to
    <2>4. IsLeast(Es(to), Least(Es(to)))
      BY <1>0, <2>3, LeastIs
    <2>5. to \in DOMAIN blocks => Es(to) \subseteq S
      BY <2>3
    <2>6. Es(to) \subseteq S
      BY <1>0, <2>3, <2>5
    <2>7. ASSUME NEW v \in S PROVE Least(Es(to)) # Nil /\ ~Before(v, Least(Es(to)))
      <3>1. PICK j \in DOMAIN blocks : v \in Es(j)
        BY <1>0
      <3>2. ~(j < b) /\ j # b
        BY <3>1, <1>1, <1>3 DEF IsLeast
      <3>3. j >= to
        BY <1>0, <2>3, <3>1, <3>2
      <3>4. CASE j = to
        BY <3>1, <3>4, <2>4 DEF IsLeast
      <3>5. CASE j > to
        <4>1. to \in DOMAIN blocks /\ Es(to) # {}
          BY <1>0, <2>3, <3>5
        <4>2. Least(Es(to)) \in Es(to) /\ Least(Es(to)) # Nil
          BY <4>1, <2>4 DEF IsLeast
        <4>3. Before(Least(Es(to)), v) /\ Least(Es(to)) \in Ent /\ v \in Ent
          BY <1>0, <3>1, <3>5, <4>1, <4>2
        <4> QED
          BY <4>2, <4>3, BeforeOrder
      <3> QED
        BY <3>3, <3>4, <3>5, <2>3, <1>0
    <2>F. r.e = Least(Es(to)) /\ r.b = to /\ DOMAIN r = {"e", "b", "err"} /\ r.err \in BOOLEAN
      <3>1. gone \in BOOLEAN
        OBVIOUS
      <3> HIDE DEF gone
      <3> QED
        BY <2>1, <3>1
    <2>8. ChildInv(2, r)
      BY <2>F, <2>3, <2>4 DEF ChildInv, IsLeast
    <2>9. IsLeast(S, r.e)
      BY <2>F, <2>4, <2>6, <2>7 DEF IsLeast
    <2>10. ~gone => \A i \in DOMAIN blocks : b <= i /\ i <= to => Es(i) # {}
      BY <1>0, <2>3
    <2>11. Least(Es(to)) = Nil => to > Len(blocks)
      BY <1>0, <2>3, <2>4 DEF IsLeast
    <2>12. r.e = Least(Es(to)) /\ r.b = to /\ r.err = (err \/ gone)
      <3> HIDE DEF gone
      <3> QED
        BY <2>1
    <2>13. ~r.err => ~err /\ ~gone
      BY <2>12
    <2> HIDE DEF gone
    <2> QED
      BY <2>8, <2>9, <2>10, <2>11, <2>12, <2>13
  <1>4. (e # Nil \/ b > Len(blocks)) \/ (e = Nil /\ b <= Len(blocks))
    BY <1>0
  <1> QED
    BY <1>2, <1>3, <1>4, Zenon

LEMMA SkipBackwardIs ==
  ASSUME RunsInv, NEW S \in SUBSET Run(2), NEW b \in Nat, b <= Len(blocks),
         \A i \in DOMAIN blocks : (i < b => Es(i) \subseteq S) /\ (b < i => Es(i) \cap S = {}),
         NEW e, e = Greatest(Es(b) \cap S), NEW err \in BOOLEAN,
         NEW r, r = SkipBackward(b, e, err)
  PROVE  ChildInv(2, r) /\ IsGreatest(S, r.e)
  <1> DEFINE N == {i \in 1 .. b - 1 : Es(i) # {}}
             to == Max(N \cup {0})
             gone == \E i \in to + 1 .. b : i \in DOMAIN blocks /\ Es(i) = {}
  <1>0. /\ Nil \notin Ent /\ Readable \subseteq Ent /\ Run(2) \subseteq Readable
        /\ \A i \in Int : Es(i) \subseteq Run(2) /\ Sorted(Es(i)) /\ (i \notin DOMAIN blocks => Es(i) = {})
        /\ \A v \in Run(2) : \E i \in DOMAIN blocks : v \in Es(i)
        /\ \A i, j \in DOMAIN blocks : i < j => \A u \in Es(i), v \in Es(j) : Before(u, v)
        /\ DOMAIN blocks = 1 .. Len(blocks) /\ Len(blocks) \in Nat
    BY RunFacts
  <1>1. IsGreatest(Es(b) \cap S, e)
    BY <1>0, LeastIs, SortedPart
  <1>2. CASE e # Nil \/ b < 1
    <2>1. r = [e |-> e, b |-> b, err |-> err]
      BY <1>2 DEF SkipBackward
    <2>2. e # Nil => e \in Es(b) \cap S /\ b \in DOMAIN blocks
      BY <1>0, <1>1 DEF IsGreatest
    <2>3. ASSUME NEW v \in S PROVE e # Nil /\ ~Before(e, v)
      <3>1. PICK j \in DOMAIN blocks : v \in Es(j)
        BY <1>0
      <3>2. ~(j > b)
        BY <3>1
      <3>3. CASE j = b
        BY <3>1, <3>3, <1>1 DEF IsGreatest
      <3>4. CASE j < b
        <4>1. e # Nil /\ e \in Es(b) /\ b \in DOMAIN blocks
          BY <1>0, <1>2, <2>2, <3>4
        <4>2. Before(v, e) /\ e \in Ent /\ v \in Ent
          BY <1>0, <3>1, <3>4, <4>1
        <4> QED
          BY <4>1, <4>2, BeforeOrder
      <3> QED
        BY <3>2, <3>3, <3>4, <1>0
    <2>4. ChildInv(2, r)
      BY <2>1, <2>2 DEF ChildInv
    <2>5. IsGreatest(S, r.e)
      <3>1. r.e = e
        BY <2>1
      <3> QED
        BY <2>2, <2>3, <3>1 DEF IsGreatest
    <2> QED
      BY <2>1, <2>4, <2>5
  <1>3. CASE e = Nil /\ b >= 1
    <2>1. r = [e |-> Greatest(Es(to)), b |-> to, err |-> err \/ gone]
      BY <1>3, <1>0 DEF SkipBackward
    <2>2. IsFiniteSet(N \cup {0}) /\ N \cup {0} \in SUBSET Int
      <3>1. N \cup {0} \subseteq 0 .. b
        BY <1>0, <1>3
      <3>2. IsFiniteSet(0 .. b)
        BY FS_Interval
      <3> HIDE DEF N
      <3> QED
        BY <3>1, <3>2, FS_Subset
    <2>3. /\ to \in 0 .. b - 1
          /\ to > 0 => Es(to) # {}
          /\ \A i \in to + 1 .. b - 1 : Es(i) = {}
      <3>1. to \in N \cup {0} /\ \A i \in N \cup {0} : to >= i
        <4> HIDE DEF N
        <4> QED
          BY <2>2, MinMaxOf
      <3> HIDE DEF to
      <3> QED
        BY <1>0, <1>3, <3>1
    <2> HIDE DEF to
    <2>4. IsGreatest(Es(to), Greatest(Es(to)))
      BY <1>0, <2>3, LeastIs
    <2>5. to \in DOMAIN blocks => Es(to) \subseteq S
      BY <2>3
    <2>6. Es(to) \subseteq S
      BY <1>0, <2>3, <2>5
    <2>7. ASSUME NEW v \in S PROVE Greatest(Es(to)) # Nil /\ ~Before(Greatest(Es(to)), v)
      <3>1. PICK j \in DOMAIN blocks : v \in Es(j)
        BY <1>0
      <3>2. ~(j > b) /\ j # b
        BY <3>1, <1>1, <1>3 DEF IsGreatest
      <3>3. j <= to
        BY <1>0, <2>3, <3>1, <3>2
      <3>4. CASE j = to
        BY <3>1, <3>4, <2>4 DEF IsGreatest
      <3>5. CASE j < to
        <4>1. to \in DOMAIN blocks /\ Es(to) # {}
          BY <1>0, <2>3, <3>5
        <4>2. Greatest(Es(to)) \in Es(to) /\ Greatest(Es(to)) # Nil
          BY <4>1, <2>4 DEF IsGreatest
        <4>3. Before(v, Greatest(Es(to))) /\ Greatest(Es(to)) \in Ent /\ v \in Ent
          BY <1>0, <3>1, <3>5, <4>1, <4>2
        <4> QED
          BY <4>2, <4>3, BeforeOrder
      <3> QED
        BY <3>3, <3>4, <3>5, <2>3, <1>0
    <2>F. r.e = Greatest(Es(to)) /\ r.b = to /\ DOMAIN r = {"e", "b", "err"} /\ r.err \in BOOLEAN
      <3>1. gone \in BOOLEAN
        OBVIOUS
      <3> HIDE DEF gone
      <3> QED
        BY <2>1, <3>1
    <2>8. ChildInv(2, r)
      BY <2>F, <2>3, <2>4 DEF ChildInv, IsGreatest
    <2>9. IsGreatest(S, r.e)
      BY <2>F, <2>4, <2>6, <2>7 DEF IsGreatest
    <2> QED
      BY <2>8, <2>9
  <1>4. (e # Nil \/ b < 1) \/ (e = Nil /\ b >= 1)
    OBVIOUS
  <1> QED
    BY <1>2, <1>3, <1>4, Zenon

\* What the calls of a child find, in both kinds of child.
LEMMA ChildEntry ==
  ASSUME RunsInv, NEW c \in 1 .. 2, NEW ch, ChildInv(c, ch), ch.e # Nil
  PROVE  ch.e \in Run(c) /\ ch.e \in Ent /\ (c = 2 => ch.b \in DOMAIN blocks /\ ch.e \in Es(ch.b))
  BY RunFacts DEF ChildInv

LEMMA MemtableMoves ==
  ASSUME NEW ch, ChildInv(1, ch), NEW S \in SUBSET mtab, NEW e, IsLeast(S, e) \/ IsGreatest(S, e),
         NEW x, x = [ch EXCEPT !.e = e]
  PROVE  ChildInv(1, x) /\ x.e = e
  <1>1. DOMAIN x = DOMAIN ch /\ x.e = e /\ x.b = ch.b /\ x.err = ch.err
    BY DEF ChildInv
  <1> QED
    BY <1>1 DEF ChildInv, IsLeast, IsGreatest

LEMMA ChildSeekIs ==
  ASSUME RunsInv, NEW c \in 1 .. 2, NEW ch, ChildInv(c, ch), NEW t \in Ent, NEW x, x = ChildSeek(c, ch, t)
  PROVE  ChildInv(c, x) /\ IsLeast({v \in Run(c) : ~Before(v, t)}, x.e)
  <1> DEFINE S == {v \in Run(c) : ~Before(v, t)}
  <1>0. Sorted(S)
    BY RunFacts, SortedPart
  <1>1. CASE c = 1
    <2>1. x = [ch EXCEPT !.e = Least(S)] /\ S \subseteq mtab
      BY <1>1, RunFacts DEF ChildSeek, AtOrAfter
    <2>2. IsLeast(S, Least(S))
      BY <1>0, LeastIs
    <2> HIDE DEF S
    <2>3. ChildInv(1, x) /\ x.e = Least(S)
      BY <1>1, <2>1, <2>2, MemtableMoves
    <2> QED
      BY <1>1, <2>2, <2>3 DEF S
  <1>2. CASE c = 2
    <2> DEFINE N == {i \in DOMAIN blocks : ~Before(blocks[i].key, t)} \cup {Len(blocks) + 1}
               b == Min(N)
    <2>1. x = SkipForward(b, AtOrAfter(Es(b), t), ch.err)
      BY <1>2 DEF ChildSeek
    <2>2. b \in N /\ \A i \in N : b <= i
      <3>1. N \subseteq 1 .. Len(blocks) + 1 /\ N # {} /\ N \in SUBSET Int
        BY RunFacts
      <3>2. IsFiniteSet(1 .. Len(blocks) + 1)
        BY RunFacts, FS_Interval
      <3> HIDE DEF N
      <3> QED
        BY <3>1, <3>2, FS_Subset, MinMaxOf
    <2>3. b \in Nat \ {0}
      BY <2>2, RunFacts
    <2> HIDE DEF b
    <2>4. ASSUME NEW i \in DOMAIN blocks
          PROVE  (i < b => Es(i) \cap S = {}) /\ (b < i => Es(i) \subseteq S)
      <3>1. Es(i) \subseteq Ent /\ Es(i) \subseteq Run(2)
        BY RunFacts
      <3>2. ASSUME i < b, NEW v \in Es(i) PROVE v \notin S
        <4>1. Before(blocks[i].key, t)
          BY <2>2, <2>3, <3>2, RunFacts
        <4>2. blocks[i].key \in Ent /\ ~Before(blocks[i].key, v)
          BY DEF RunsInv, BlocksInv
        <4> QED
          BY <3>1, <4>1, <4>2, BeforeOrder
      <3>3. ASSUME b < i, NEW v \in Es(i) PROVE v \in S
        <4>1. b \in DOMAIN blocks /\ ~Before(blocks[b].key, t)
          BY <2>2, <2>3, <3>3, RunFacts
        <4>2. blocks[b].key \in Ent /\ Before(blocks[b].key, v)
          BY <4>1, <3>3 DEF RunsInv, BlocksInv
        <4> QED
          BY <1>2, <3>1, <4>1, <4>2, BeforeOrder
      <3> QED
        BY <3>2, <3>3
    <2>5. Es(b) \cap S = {v \in Es(b) : ~Before(v, t)}
      BY <1>2, <2>3, RunFacts
    <2>6. AtOrAfter(Es(b), t) = Least(Es(b) \cap S)
      BY <2>5 DEF AtOrAfter
    <2>7. S \in SUBSET Run(2) /\ ch.err \in BOOLEAN
      BY <1>2 DEF ChildInv
    <2> HIDE DEF S
    <2>8. ChildInv(2, x) /\ IsLeast(S, x.e)
      BY <2>1, <2>3, <2>4, <2>6, <2>7, SkipForwardIs
    <2> QED
      BY <1>2, <2>8 DEF S
  <1> QED
    BY <1>1, <1>2

LEMMA SeekToFirstIs ==
  ASSUME RunsInv, NEW c \in 1 .. 2, NEW ch, ChildInv(c, ch), NEW x, x = SeekToFirst(c, ch)
  PROVE  ChildInv(c, x) /\ IsLeast(Run(c), x.e) /\ (c = 2 => BlocksSeen(x))
  <1>1. CASE c = 1
    <2>1. x = [ch EXCEPT !.e = Least(Run(1))] /\ Run(1) \subseteq mtab
      BY <1>1, RunFacts DEF SeekToFirst
    <2>2. IsLeast(Run(1), Least(Run(1)))
      BY RunFacts, LeastIs
    <2> QED
      BY <1>1, <2>1, <2>2, MemtableMoves
  <1>2. CASE c = 2
    <2>1. x = SkipForward(1, Least(Es(1)), ch.err)
      BY <1>2 DEF SeekToFirst
    <2>2. Es(1) \cap Run(2) = Es(1)
      BY RunFacts
    <2>3. \A i \in DOMAIN blocks : (i < 1 => Es(i) \cap Run(2) = {}) /\ (1 < i => Es(i) \subseteq Run(2))
      BY RunFacts
    <2>4. ch.err \in BOOLEAN
      BY DEF ChildInv
    <2>5. /\ ChildInv(2, x) /\ IsLeast(Run(2), x.e)
          /\ ~x.err => /\ \A i \in DOMAIN blocks : 1 <= i /\ i <= x.b => Es(i) # {}
                       /\ x.e = Nil => x.b > Len(blocks)
      <3>1. PICK S, b : S = Run(2) /\ b = 1
        OBVIOUS
      <3>2. S \in SUBSET Run(2) /\ b \in Nat \ {0} /\ x = SkipForward(b, Least(Es(b) \cap S), ch.err)
        BY <2>1, <2>2, <3>1
      <3>3. \A i \in DOMAIN blocks : (i < b => Es(i) \cap S = {}) /\ (b < i => Es(i) \subseteq S)
        BY <2>3, <3>1
      <3>4. /\ ChildInv(2, x) /\ IsLeast(S, x.e)
            /\ ~x.err => /\ \A i \in DOMAIN blocks : b <= i /\ i <= x.b => Es(i) # {}
                         /\ x.e = Nil => x.b > Len(blocks)
        BY <2>4, <3>2, <3>3, SkipForwardIs
      <3> QED
        BY <3>1, <3>4
    <2>6. BlocksSeen(x)
      BY <2>5, RunFacts DEF BlocksSeen
    <2> QED
      BY <1>2, <2>5, <2>6
  <1> QED
    BY <1>1, <1>2

LEMMA SeekToLastIs ==
  ASSUME RunsInv, NEW c \in 1 .. 2, NEW ch, ChildInv(c, ch), NEW x, x = SeekToLast(c, ch)
  PROVE  ChildInv(c, x) /\ IsGreatest(Run(c), x.e)
  <1>1. CASE c = 1
    <2>1. x = [ch EXCEPT !.e = Greatest(Run(1))] /\ Run(1) \subseteq mtab
      BY <1>1, RunFacts DEF SeekToLast
    <2>2. IsGreatest(Run(1), Greatest(Run(1)))
      BY RunFacts, LeastIs
    <2> QED
      BY <1>1, <2>1, <2>2, MemtableMoves
  <1>2. CASE c = 2
    <2>1. x = SkipBackward(Len(blocks), Greatest(Es(Len(blocks))), ch.err)
      BY <1>2 DEF SeekToLast
    <2>2. Es(Len(blocks)) \cap Run(2) = Es(Len(blocks))
      BY RunFacts
    <2>3. \A i \in DOMAIN blocks : (i < Len(blocks) => Es(i) \subseteq Run(2)) /\ (Len(blocks) < i => Es(i) \cap Run(2) = {})
      BY RunFacts
    <2>4. ch.err \in BOOLEAN /\ Len(blocks) \in Nat /\ Len(blocks) <= Len(blocks)
      BY RunFacts DEF ChildInv
    <2> QED
      BY <1>2, <2>1, <2>2, <2>3, <2>4, SkipBackwardIs
  <1> QED
    BY <1>1, <1>2

LEMMA StepForwardIs ==
  ASSUME RunsInv, NEW c \in 1 .. 2, NEW ch, ChildInv(c, ch), ch.e # Nil, NEW x, x = StepForward(c, ch)
  PROVE  /\ ChildInv(c, x) /\ IsLeast(Behind(Run(c), ch.e), x.e)
         /\ c = 2 /\ BlocksSeen(ch) => BlocksSeen(x)
  <1> DEFINE S == Behind(Run(c), ch.e)
  <1>0. Sorted(S)
    BY RunFacts, SortedPart DEF Behind
  <1>1. CASE c = 1
    <2>1. x = [ch EXCEPT !.e = Least(S)] /\ S \subseteq mtab
      BY <1>1, RunFacts DEF StepForward, After, Behind
    <2>2. IsLeast(S, Least(S))
      BY <1>0, LeastIs
    <2> HIDE DEF S
    <2>3. ChildInv(1, x) /\ x.e = Least(S)
      BY <1>1, <2>1, <2>2, MemtableMoves
    <2> QED
      BY <1>1, <2>2, <2>3 DEF S
  <1>2. CASE c = 2
    <2>1. x = SkipForward(ch.b, After(Es(ch.b), ch.e), ch.err)
      BY <1>2 DEF StepForward
    <2>2. ch.e \in Ent /\ ch.b \in DOMAIN blocks /\ ch.e \in Es(ch.b) /\ ch.b \in Nat \ {0} /\ ch.err \in BOOLEAN
      BY <1>2, ChildEntry, RunFacts DEF ChildInv
    <2>3. ASSUME NEW i \in DOMAIN blocks
          PROVE  (i < ch.b => Es(i) \cap S = {}) /\ (ch.b < i => Es(i) \subseteq S)
      <3>1. Es(i) \subseteq Ent /\ Es(i) \subseteq Run(2)
        BY RunFacts
      <3>2. ASSUME i < ch.b, NEW v \in Es(i) PROVE v \notin S
        <4>1. Before(v, ch.e)
          BY <2>2, <3>2, RunFacts
        <4> QED
          BY <2>2, <3>1, <4>1, BeforeOrder DEF Behind
      <3>3. ASSUME ch.b < i, NEW v \in Es(i) PROVE v \in S
        <4>1. Before(ch.e, v)
          BY <2>2, <3>3, RunFacts
        <4> QED
          BY <1>2, <3>1, <4>1 DEF Behind
      <3> QED
        BY <3>2, <3>3
    <2>4. Es(ch.b) \cap S = {v \in Es(ch.b) : Before(ch.e, v)}
      BY <1>2, <2>2, RunFacts DEF Behind
    <2>5. After(Es(ch.b), ch.e) = Least(Es(ch.b) \cap S)
      BY <2>4 DEF After
    <2>6. S \in SUBSET Run(2)
      BY <1>2 DEF Behind
    <2> HIDE DEF S
    <2>7. /\ ChildInv(2, x) /\ IsLeast(S, x.e)
          /\ ~x.err => /\ ~ch.err
                       /\ \A i \in DOMAIN blocks : ch.b <= i /\ i <= x.b => Es(i) # {}
                       /\ x.e = Nil => x.b > Len(blocks)
      BY <2>1, <2>2, <2>3, <2>5, <2>6, SkipForwardIs
    <2>8. ASSUME BlocksSeen(ch) PROVE BlocksSeen(x)
      <3>1. CASE x.err
        BY <3>1 DEF BlocksSeen
      <3>2. CASE ~x.err
        <4>1. \A i \in DOMAIN blocks : i <= ch.b => Es(i) # {}
          BY <2>7, <2>8, <3>2 DEF BlocksSeen
        <4>2. \A i \in DOMAIN blocks : i <= x.b => Es(i) # {}
          BY <2>2, <2>7, <3>2, <4>1, RunFacts
        <4> QED
          BY <2>7, <3>2, <4>2 DEF BlocksSeen
      <3> QED
        BY <3>1, <3>2
    <2> QED
      BY <1>2, <2>7, <2>8 DEF S
  <1> QED
    BY <1>1, <1>2

LEMMA StepBackIs ==
  ASSUME RunsInv, NEW c \in 1 .. 2, NEW ch, ChildInv(c, ch), ch.e # Nil, NEW x, x = StepBack(c, ch)
  PROVE  ChildInv(c, x) /\ IsGreatest(InFront(Run(c), ch.e), x.e)
  <1> DEFINE S == InFront(Run(c), ch.e)
  <1>0. Sorted(S)
    BY RunFacts, SortedPart DEF InFront
  <1>1. CASE c = 1
    <2>1. x = [ch EXCEPT !.e = Greatest(S)] /\ S \subseteq mtab
      BY <1>1, RunFacts DEF StepBack, Ahead, InFront
    <2>2. IsGreatest(S, Greatest(S))
      BY <1>0, LeastIs
    <2> HIDE DEF S
    <2>3. ChildInv(1, x) /\ x.e = Greatest(S)
      BY <1>1, <2>1, <2>2, MemtableMoves
    <2> QED
      BY <1>1, <2>2, <2>3 DEF S
  <1>2. CASE c = 2
    <2>1. x = SkipBackward(ch.b, Ahead(Es(ch.b), ch.e), ch.err)
      BY <1>2 DEF StepBack
    <2>2. /\ ch.e \in Ent /\ ch.b \in DOMAIN blocks /\ ch.e \in Es(ch.b) /\ ch.b \in Nat /\ ch.b <= Len(blocks)
          /\ ch.err \in BOOLEAN
      BY <1>2, ChildEntry, RunFacts DEF ChildInv
    <2>3. ASSUME NEW i \in DOMAIN blocks
          PROVE  (i < ch.b => Es(i) \subseteq S) /\ (ch.b < i => Es(i) \cap S = {})
      <3>1. Es(i) \subseteq Ent /\ Es(i) \subseteq Run(2)
        BY RunFacts
      <3>2. ASSUME ch.b < i, NEW v \in Es(i) PROVE v \notin S
        <4>1. Before(ch.e, v)
          BY <2>2, <3>2, RunFacts
        <4> QED
          BY <2>2, <3>1, <4>1, BeforeOrder DEF InFront
      <3>3. ASSUME i < ch.b, NEW v \in Es(i) PROVE v \in S
        <4>1. Before(v, ch.e)
          BY <2>2, <3>3, RunFacts
        <4> QED
          BY <1>2, <3>1, <4>1 DEF InFront
      <3> QED
        BY <3>2, <3>3
    <2>4. Es(ch.b) \cap S = {v \in Es(ch.b) : Before(v, ch.e)}
      BY <1>2, <2>2, RunFacts DEF InFront
    <2>5. Ahead(Es(ch.b), ch.e) = Greatest(Es(ch.b) \cap S)
      BY <2>4 DEF Ahead
    <2>6. S \in SUBSET Run(2)
      BY <1>2 DEF InFront
    <2> HIDE DEF S
    <2>7. ChildInv(2, x) /\ IsGreatest(S, x.e)
      BY <2>1, <2>2, <2>3, <2>5, <2>6, SkipBackwardIs
    <2> QED
      BY <1>2, <2>7 DEF S
  <1> QED
    BY <1>1, <1>2

\* The merging iterator stands at the child with the smallest (the largest)
\* entry.
LEMMA SmallestIs ==
  ASSUME RunsInv, NEW ch, DOMAIN ch = 1 .. 2, \A c \in 1 .. 2 : ChildInv(c, ch[c])
  PROVE  /\ FindSmallest(ch) \in 0 .. 2
         /\ FindSmallest(ch) = 0 => \A c \in 1 .. 2 : ch[c].e = Nil
         /\ FindSmallest(ch) # 0 =>
              /\ ch[FindSmallest(ch)].e # Nil
              /\ \A c \in 1 .. 2 : ch[c].e # Nil => ~Before(ch[c].e, ch[FindSmallest(ch)].e)
  <1> DEFINE T == {ch[x].e : x \in {y \in 1 .. 2 : ch[y].e # Nil}}
  <1>1. CASE \A c \in 1 .. 2 : ch[c].e = Nil
    BY <1>1 DEF FindSmallest
  <1>2. CASE \E c \in 1 .. 2 : ch[c].e # Nil
    <2>1. T \subseteq Readable /\ T # {}
      <3>1. \A x \in 1 .. 2 : ch[x].e # Nil => ch[x].e \in Run(x) /\ Run(x) \subseteq Readable
        BY ChildEntry, RunFacts
      <3> QED
        BY <1>2, <3>1
    <2>2. IsLeast(T, Least(T))
      BY <2>1, SortedPart, LeastIs DEF RunsInv
    <2>3. \E c \in 1 .. 2 : ch[c].e = Least(T)
      BY <2>1, <2>2 DEF IsLeast
    <2>4. FindSmallest(ch) \in 1 .. 2 /\ ch[FindSmallest(ch)].e = Least(T)
      BY <1>2, <2>3 DEF FindSmallest
    <2>5. Least(T) # Nil /\ \A c \in 1 .. 2 : ch[c].e # Nil => ~Before(ch[c].e, Least(T))
      BY <2>1, <2>2 DEF IsLeast
    <2> QED
      BY <2>4, <2>5
  <1> QED
    BY <1>1, <1>2

LEMMA LargestIs ==
  ASSUME RunsInv, NEW ch, DOMAIN ch = 1 .. 2, \A c \in 1 .. 2 : ChildInv(c, ch[c])
  PROVE  /\ FindLargest(ch) \in 0 .. 2
         /\ FindLargest(ch) = 0 => \A c \in 1 .. 2 : ch[c].e = Nil
         /\ FindLargest(ch) # 0 =>
              /\ ch[FindLargest(ch)].e # Nil
              /\ \A c \in 1 .. 2 : ch[c].e # Nil => ~Before(ch[FindLargest(ch)].e, ch[c].e)
  <1> DEFINE T == {ch[x].e : x \in {y \in 1 .. 2 : ch[y].e # Nil}}
  <1>1. CASE \A c \in 1 .. 2 : ch[c].e = Nil
    BY <1>1 DEF FindLargest
  <1>2. CASE \E c \in 1 .. 2 : ch[c].e # Nil
    <2>1. T \subseteq Readable /\ T # {}
      <3>1. \A x \in 1 .. 2 : ch[x].e # Nil => ch[x].e \in Run(x) /\ Run(x) \subseteq Readable
        BY ChildEntry, RunFacts
      <3> QED
        BY <1>2, <3>1
    <2>2. IsGreatest(T, Greatest(T))
      BY <2>1, SortedPart, LeastIs DEF RunsInv
    <2>3. \E c \in 1 .. 2 : ch[c].e = Greatest(T)
      BY <2>1, <2>2 DEF IsGreatest
    <2>4. FindLargest(ch) \in 1 .. 2 /\ ch[FindLargest(ch)].e = Greatest(T)
      BY <1>2, <2>3 DEF FindLargest
    <2>5. Greatest(T) # Nil /\ \A c \in 1 .. 2 : ch[c].e # Nil => ~Before(Greatest(T), ch[c].e)
      BY <2>1, <2>2 DEF IsGreatest
    <2> QED
      BY <2>4, <2>5
  <1> QED
    BY <1>1, <1>2

\* When every child is at the first of its entries in U, a set with everything
\* behind its entries, the merging iterator is at the first of U.
LEMMA ForwardMerge ==
  ASSUME RunsInv, NEW ch, DOMAIN ch = 1 .. 2, \A c \in 1 .. 2 : ChildInv(c, ch[c]),
         NEW U \in SUBSET Readable, \A u \in U, v \in Readable : Before(u, v) => v \in U,
         \A c \in 1 .. 2 : IsFirst(U \cap Run(c), ch[c].e),
         NEW m, m = SmallestChild(ch)
  PROVE  MergeInv(m) /\ m.fwd /\ m.ch = ch /\ IsFirst(U, Entry(m))
  <1>0. DOMAIN m = {"ch", "cur", "fwd"} /\ m.ch = ch /\ m.cur = FindSmallest(ch) /\ m.fwd = TRUE
    BY DEF SmallestChild
  <1>1. /\ m.cur \in 0 .. 2
        /\ m.cur = 0 => \A c \in 1 .. 2 : ch[c].e = Nil
        /\ m.cur # 0 => /\ ch[m.cur].e # Nil
                        /\ \A c \in 1 .. 2 : ch[c].e # Nil => ~Before(ch[c].e, ch[m.cur].e)
    BY <1>0, SmallestIs
  <1>2. Readable = Run(1) \cup Run(2) /\ Readable \subseteq Ent /\ Nil \notin Ent
    BY RunFacts
  <1>3. CASE m.cur = 0
    <2>1. Entry(m) = Nil
      BY <1>3 DEF Entry
    <2>2. ASSUME NEW v \in U, Visible(v) PROVE FALSE
      <3>1. PICK c \in 1 .. 2 : v \in Run(c)
        BY <1>2
      <3>2. ch[c].e # Nil
        BY <2>2, <3>1 DEF IsFirst
      <3> QED
        BY <1>1, <1>3, <3>2
    <2>3. IsFirst(U, Entry(m))
      BY <2>1, <2>2 DEF IsFirst
    <2>4. MergeInv(m)
      BY <1>0, <1>1, <1>3 DEF MergeInv
    <2> QED
      BY <1>0, <2>3, <2>4
  <1>4. CASE m.cur # 0
    <2> DEFINE E == ch[m.cur].e
    <2>1. Entry(m) = E /\ m.cur \in 1 .. 2
      BY <1>0, <1>1, <1>4 DEF Entry
    <2>2. E # Nil /\ E \in U /\ E \in Run(m.cur) /\ E \in Ent
      BY <1>1, <1>2, <1>4, <2>1 DEF IsFirst
    <2>3. ASSUME NEW v \in U, Visible(v) PROVE ~Before(v, E)
      <3>1. PICK c \in 1 .. 2 : v \in Run(c)
        BY <1>2
      <3>2. ch[c].e # Nil /\ ~Before(v, ch[c].e) /\ ch[c].e \in U
        BY <2>3, <3>1 DEF IsFirst
      <3>3. ~Before(ch[c].e, E) /\ v \in Ent /\ ch[c].e \in Ent
        BY <1>1, <1>2, <1>4, <3>2
      <3> QED
        BY <2>2, <3>2, <3>3, BeforeOrder
    <2>4. IsFirst(U, Entry(m))
      BY <2>1, <2>2, <2>3 DEF IsFirst
    <2>5. ASSUME NEW c \in 1 .. 2, c # m.cur PROVE IsFirst(Behind(Run(c), E), ch[c].e)
      <3>1. ASSUME ch[c].e # Nil PROVE ch[c].e \in Behind(Run(c), E)
        <4>1. ch[c].e \in Run(c) /\ ch[c].e \in Readable /\ E \in Readable
          BY <2>2, <3>1 DEF IsFirst
        <4>2. ch[c].e # E
          BY <2>1, <2>2, <2>5, <4>1 DEF RunsInv
        <4>3. ch[c].e.s # E.s
          BY <4>1, <4>2 DEF RunsInv, Sorted
        <4>4. ~Before(ch[c].e, E)
          BY <1>1, <1>4, <3>1
        <4>5. Before(E, ch[c].e)
          BY <1>2, <2>2, <4>1, <4>3, <4>4, BeforeOrder
        <4> QED
          BY <4>1, <4>5 DEF Behind
      <3>2. ASSUME NEW v \in Behind(Run(c), E), Visible(v) PROVE ch[c].e # Nil /\ ~Before(v, ch[c].e)
        <4>1. v \in Run(c) /\ v \in Readable /\ Before(E, v)
          BY <1>2 DEF Behind
        <4>2. v \in U \cap Run(c)
          BY <2>2, <4>1
        <4> QED
          BY <3>2, <4>2 DEF IsFirst
      <3> QED
        BY <3>1, <3>2 DEF IsFirst
    <2>6. MergeInv(m)
      BY <1>0, <1>1, <1>4, <2>1, <2>2, <2>5 DEF MergeInv
    <2> QED
      BY <1>0, <2>4, <2>6
  <1> QED
    BY <1>3, <1>4

LEMMA BackwardMerge ==
  ASSUME RunsInv, NEW ch, DOMAIN ch = 1 .. 2, \A c \in 1 .. 2 : ChildInv(c, ch[c]),
         NEW U \in SUBSET Readable, \A u \in U, v \in Readable : Before(v, u) => v \in U,
         \A c \in 1 .. 2 : IsLast(U \cap Run(c), ch[c].e),
         NEW m, m = LargestChild(ch)
  PROVE  MergeInv(m) /\ ~m.fwd /\ m.ch = ch /\ IsLast(U, Entry(m))
  <1>0. DOMAIN m = {"ch", "cur", "fwd"} /\ m.ch = ch /\ m.cur = FindLargest(ch) /\ m.fwd = FALSE
    BY DEF LargestChild
  <1>1. /\ m.cur \in 0 .. 2
        /\ m.cur = 0 => \A c \in 1 .. 2 : ch[c].e = Nil
        /\ m.cur # 0 => /\ ch[m.cur].e # Nil
                        /\ \A c \in 1 .. 2 : ch[c].e # Nil => ~Before(ch[m.cur].e, ch[c].e)
    BY <1>0, LargestIs
  <1>2. Readable = Run(1) \cup Run(2) /\ Readable \subseteq Ent /\ Nil \notin Ent
    BY RunFacts
  <1>3. CASE m.cur = 0
    <2>1. Entry(m) = Nil
      BY <1>3 DEF Entry
    <2>2. ASSUME NEW v \in U, Visible(v) PROVE FALSE
      <3>1. PICK c \in 1 .. 2 : v \in Run(c)
        BY <1>2
      <3>2. ch[c].e # Nil
        BY <2>2, <3>1 DEF IsLast
      <3> QED
        BY <1>1, <1>3, <3>2
    <2>3. IsLast(U, Entry(m))
      BY <2>1, <2>2 DEF IsLast
    <2>4. MergeInv(m)
      BY <1>0, <1>1, <1>3 DEF MergeInv
    <2> QED
      BY <1>0, <2>3, <2>4
  <1>4. CASE m.cur # 0
    <2> DEFINE E == ch[m.cur].e
    <2>1. Entry(m) = E /\ m.cur \in 1 .. 2
      BY <1>0, <1>1, <1>4 DEF Entry
    <2>2. E # Nil /\ E \in U /\ E \in Run(m.cur) /\ E \in Ent
      BY <1>1, <1>2, <1>4, <2>1 DEF IsLast
    <2>3. ASSUME NEW v \in U, Visible(v) PROVE ~Before(E, v)
      <3>1. PICK c \in 1 .. 2 : v \in Run(c)
        BY <1>2
      <3>2. ch[c].e # Nil /\ ~Before(ch[c].e, v) /\ ch[c].e \in U
        BY <2>3, <3>1 DEF IsLast
      <3>3. ~Before(E, ch[c].e) /\ v \in Ent /\ ch[c].e \in Ent
        BY <1>1, <1>2, <1>4, <3>2
      <3> QED
        BY <2>2, <3>2, <3>3, BeforeOrder
    <2>4. IsLast(U, Entry(m))
      BY <2>1, <2>2, <2>3 DEF IsLast
    <2>5. ASSUME NEW c \in 1 .. 2, c # m.cur PROVE IsLast(InFront(Run(c), E), ch[c].e)
      <3>1. ASSUME ch[c].e # Nil PROVE ch[c].e \in InFront(Run(c), E)
        <4>1. ch[c].e \in Run(c) /\ ch[c].e \in Readable /\ E \in Readable
          BY <2>2, <3>1 DEF IsLast
        <4>2. ch[c].e # E
          BY <2>1, <2>2, <2>5, <4>1 DEF RunsInv
        <4>3. ch[c].e.s # E.s
          BY <4>1, <4>2 DEF RunsInv, Sorted
        <4>4. ~Before(E, ch[c].e)
          BY <1>1, <1>4, <3>1
        <4>5. Before(ch[c].e, E)
          BY <1>2, <2>2, <4>1, <4>3, <4>4, BeforeOrder
        <4> QED
          BY <4>1, <4>5 DEF InFront
      <3>2. ASSUME NEW v \in InFront(Run(c), E), Visible(v) PROVE ch[c].e # Nil /\ ~Before(ch[c].e, v)
        <4>1. v \in Run(c) /\ v \in Readable /\ Before(v, E)
          BY <1>2 DEF InFront
        <4>2. v \in U \cap Run(c)
          BY <2>2, <4>1
        <4> QED
          BY <3>2, <4>2 DEF IsLast
      <3> QED
        BY <3>1, <3>2 DEF IsLast
    <2>6. MergeInv(m)
      BY <1>0, <1>1, <1>4, <2>1, <2>2, <2>5 DEF MergeInv
    <2> QED
      BY <1>0, <2>4, <2>6
  <1> QED
    BY <1>3, <1>4

\* A merging iterator that is at an entry.
LEMMA EntryFacts ==
  ASSUME RunsInv, NEW m, MergeInv(m), Entry(m) # Nil
  PROVE  /\ m.cur \in 1 .. 2 /\ Entry(m) = m.ch[m.cur].e
         /\ Entry(m) \in Run(m.cur) /\ Entry(m) \in Readable /\ Entry(m) \in Ent
         /\ \A c \in 1 .. 2 : c # m.cur => Entry(m) \notin Run(c)
         /\ \A c \in 1 .. 2 : Behind(Readable, Entry(m)) \cap Run(c) = Behind(Run(c), Entry(m))
         /\ \A c \in 1 .. 2 : InFront(Readable, Entry(m)) \cap Run(c) = InFront(Run(c), Entry(m))
  <1>1. m.cur \in 1 .. 2 /\ Entry(m) = m.ch[m.cur].e
    BY DEF MergeInv, Entry
  <1>2. Entry(m) \in Run(m.cur) /\ Entry(m) \in Ent
    BY <1>1, ChildEntry DEF MergeInv
  <1>3. \A c \in 1 .. 2 : Run(c) \subseteq Readable
    BY RunFacts
  <1>4. \A c \in 1 .. 2 : c # m.cur => Entry(m) \notin Run(c)
    BY <1>1, <1>2 DEF RunsInv
  <1> QED
    BY <1>1, <1>2, <1>3, <1>4 DEF Behind, InFront

LEMMA MSeekIs ==
  ASSUME RunsInv, NEW m, MergeInv(m), NEW t \in Ent, NEW n, n = MSeek(m, t)
  PROVE  MergeInv(n) /\ n.fwd /\ IsFirst({v \in Readable : ~Before(v, t)}, Entry(n))
  <1> DEFINE U == {v \in Readable : ~Before(v, t)}
  <1>1. PICK ch : ch = [c \in 1 .. 2 |-> ChildSeek(c, m.ch[c], t)]
    OBVIOUS
  <1>2. n = SmallestChild(ch)
    BY <1>1 DEF MSeek
  <1>3. ASSUME NEW c \in 1 .. 2 PROVE ChildInv(c, ch[c]) /\ IsFirst(U \cap Run(c), ch[c].e)
    <2>1. ch[c] = ChildSeek(c, m.ch[c], t) /\ ChildInv(c, m.ch[c])
      BY <1>1 DEF MergeInv
    <2>2. ChildInv(c, ch[c]) /\ IsLeast({v \in Run(c) : ~Before(v, t)}, ch[c].e)
      BY <2>1, ChildSeekIs
    <2>3. U \cap Run(c) = {v \in Run(c) : ~Before(v, t)}
      BY RunFacts
    <2> QED
      BY <2>2, <2>3 DEF IsLeast, IsFirst
  <1>4. U \in SUBSET Readable /\ \A u \in U, v \in Readable : Before(u, v) => v \in U
    BY RunFacts, BeforeOrder
  <1>5. DOMAIN ch = 1 .. 2
    BY <1>1
  <1> HIDE DEF U
  <1>6. MergeInv(n) /\ n.fwd /\ IsFirst(U, Entry(n))
    BY <1>2, <1>3, <1>4, <1>5, ForwardMerge
  <1> QED
    BY <1>6 DEF U

LEMMA MSeekToFirstIs ==
  ASSUME RunsInv, NEW m, MergeInv(m), NEW n, n = MSeekToFirst(m)
  PROVE  MergeInv(n) /\ n.fwd /\ IsFirst(Readable, Entry(n)) /\ BlocksSeen(n.ch[2])
  <1>1. PICK ch : ch = [c \in 1 .. 2 |-> SeekToFirst(c, m.ch[c])]
    OBVIOUS
  <1>2. n = SmallestChild(ch)
    BY <1>1 DEF MSeekToFirst
  <1>3. ASSUME NEW c \in 1 .. 2
        PROVE  ChildInv(c, ch[c]) /\ IsFirst(Readable \cap Run(c), ch[c].e) /\ (c = 2 => BlocksSeen(ch[c]))
    <2>1. ch[c] = SeekToFirst(c, m.ch[c]) /\ ChildInv(c, m.ch[c])
      BY <1>1 DEF MergeInv
    <2>2. ChildInv(c, ch[c]) /\ IsLeast(Run(c), ch[c].e) /\ (c = 2 => BlocksSeen(ch[c]))
      BY <2>1, SeekToFirstIs
    <2>3. Readable \cap Run(c) = Run(c)
      BY RunFacts
    <2> QED
      BY <2>2, <2>3 DEF IsLeast, IsFirst
  <1>5. DOMAIN ch = 1 .. 2
    BY <1>1
  <1>6. MergeInv(n) /\ n.fwd /\ n.ch = ch /\ IsFirst(Readable, Entry(n))
    BY <1>2, <1>3, <1>5, ForwardMerge
  <1> QED
    BY <1>3, <1>6

LEMMA MSeekToLastIs ==
  ASSUME RunsInv, NEW m, MergeInv(m), NEW n, n = MSeekToLast(m)
  PROVE  MergeInv(n) /\ ~n.fwd /\ IsLast(Readable, Entry(n))
  <1>1. PICK ch : ch = [c \in 1 .. 2 |-> SeekToLast(c, m.ch[c])]
    OBVIOUS
  <1>2. n = LargestChild(ch)
    BY <1>1 DEF MSeekToLast
  <1>3. ASSUME NEW c \in 1 .. 2
        PROVE  ChildInv(c, ch[c]) /\ IsLast(Readable \cap Run(c), ch[c].e)
    <2>1. ch[c] = SeekToLast(c, m.ch[c]) /\ ChildInv(c, m.ch[c])
      BY <1>1 DEF MergeInv
    <2>2. ChildInv(c, ch[c]) /\ IsGreatest(Run(c), ch[c].e)
      BY <2>1, SeekToLastIs
    <2>3. Readable \cap Run(c) = Run(c)
      BY RunFacts
    <2> QED
      BY <2>2, <2>3 DEF IsGreatest, IsLast
  <1>5. DOMAIN ch = 1 .. 2
    BY <1>1
  <1> QED
    BY <1>2, <1>3, <1>5, BackwardMerge

LEMMA MNextIs ==
  ASSUME RunsInv, NEW m, MergeInv(m), Entry(m) # Nil, NEW n, n = MNext(m)
  PROVE  /\ MergeInv(n) /\ n.fwd /\ IsFirst(Behind(Readable, Entry(m)), Entry(n))
         /\ m.fwd /\ BlocksSeen(m.ch[2]) => BlocksSeen(n.ch[2])
  <1> DEFINE E == Entry(m)
             U == Behind(Readable, E)
             behind(c) == LET x == ChildSeek(c, m.ch[c], E) IN IF x.e = E THEN StepForward(c, x) ELSE x
  <1>0. /\ m.cur \in 1 .. 2 /\ E = m.ch[m.cur].e
        /\ E \in Run(m.cur) /\ E \in Readable /\ E \in Ent
        /\ \A c \in 1 .. 2 : c # m.cur => E \notin Run(c)
        /\ \A c \in 1 .. 2 : U \cap Run(c) = Behind(Run(c), E)
    BY EntryFacts
  <1>1. PICK ch0 : ch0 = [c \in 1 .. 2 |-> IF m.fwd \/ c = m.cur THEN m.ch[c] ELSE behind(c)]
    OBVIOUS
  <1>2. PICK ch : ch = [ch0 EXCEPT ![m.cur] = StepForward(m.cur, @)]
    OBVIOUS
  <1>3. n = SmallestChild(ch)
    BY <1>1, <1>2 DEF MNext
  <1>4. /\ DOMAIN ch = 1 .. 2 /\ ch[m.cur] = StepForward(m.cur, m.ch[m.cur])
        /\ \A c \in 1 .. 2 : c # m.cur => ch[c] = IF m.fwd THEN m.ch[c] ELSE behind(c)
    <2> HIDE DEF behind
    <2>1. DOMAIN ch0 = 1 .. 2 /\ \A c \in 1 .. 2 : ch0[c] = IF m.fwd \/ c = m.cur THEN m.ch[c] ELSE behind(c)
      BY <1>1
    <2> QED
      BY <1>0, <1>2, <2>1
  <1>5. \A c \in 1 .. 2 : ChildInv(c, m.ch[c])
    BY DEF MergeInv
  <1>6. /\ ChildInv(m.cur, ch[m.cur]) /\ IsFirst(Behind(Run(m.cur), E), ch[m.cur].e)
        /\ m.cur = 2 /\ BlocksSeen(m.ch[2]) => BlocksSeen(ch[2])
    <2>1. ChildInv(m.cur, m.ch[m.cur]) /\ m.ch[m.cur].e # Nil
      BY <1>0, <1>5
    <2>2. /\ ChildInv(m.cur, ch[m.cur]) /\ IsLeast(Behind(Run(m.cur), E), ch[m.cur].e)
          /\ m.cur = 2 /\ BlocksSeen(m.ch[m.cur]) => BlocksSeen(ch[m.cur])
      BY <1>0, <1>4, <2>1, StepForwardIs
    <2> QED
      BY <2>2 DEF IsLeast, IsFirst
  <1>7. ASSUME NEW c \in 1 .. 2, c # m.cur
        PROVE  ChildInv(c, ch[c]) /\ IsFirst(Behind(Run(c), E), ch[c].e)
    <2>1. CASE m.fwd
      <3>1. ch[c] = m.ch[c]
        BY <1>4, <1>7, <2>1
      <3>2. IsFirst(Behind(Run(c), E), m.ch[c].e)
        BY <1>0, <1>7, <2>1 DEF MergeInv
      <3> QED
        BY <1>5, <3>1, <3>2
    <2>2. CASE ~m.fwd
      <3>1. PICK x : x = ChildSeek(c, m.ch[c], E)
        OBVIOUS
      <3>2. ChildInv(c, x) /\ IsLeast({v \in Run(c) : ~Before(v, E)}, x.e)
        BY <1>0, <1>5, <3>1, ChildSeekIs
      <3>3. x.e # E
        BY <1>0, <1>7, <3>2 DEF IsLeast
      <3>4. ch[c] = x
        BY <1>4, <1>7, <2>2, <3>1, <3>3
      <3>5. {v \in Run(c) : ~Before(v, E)} = Behind(Run(c), E)
        <4>1. ASSUME NEW v \in Run(c) PROVE Before(E, v) <=> ~Before(v, E)
          <5>1. v \in Readable /\ v \in Ent /\ v # E
            BY <1>0, <1>7, RunFacts
          <5>2. v.s # E.s
            BY <1>0, <5>1 DEF RunsInv, Sorted
          <5> QED
            BY <1>0, <5>1, <5>2, BeforeOrder
        <4> QED
          BY <4>1 DEF Behind
      <3> QED
        BY <3>2, <3>4, <3>5 DEF IsLeast, IsFirst
    <2> QED
      BY <2>1, <2>2
  <1>8. U \in SUBSET Readable /\ \A u \in U, v \in Readable : Before(u, v) => v \in U
    BY <1>0, RunFacts, BeforeOrder DEF Behind
  <1>9. \A c \in 1 .. 2 : ChildInv(c, ch[c]) /\ IsFirst(U \cap Run(c), ch[c].e)
    BY <1>0, <1>6, <1>7
  <1>10. MergeInv(n) /\ n.fwd /\ n.ch = ch /\ IsFirst(U, Entry(n))
    <2> HIDE DEF U, behind
    <2> QED
      BY <1>3, <1>4, <1>8, <1>9, ForwardMerge
  <1>11. ASSUME m.fwd, BlocksSeen(m.ch[2]) PROVE BlocksSeen(ch[2])
    <2> HIDE DEF behind
    <2>1. CASE m.cur = 2
      BY <1>6, <1>11, <2>1
    <2>2. CASE m.cur # 2
      BY <1>4, <1>11, <2>2
    <2> QED
      BY <2>1, <2>2
  <1> QED
    BY <1>10, <1>11

LEMMA MPrevIs ==
  ASSUME RunsInv, NEW m, MergeInv(m), Entry(m) # Nil, NEW n, n = MPrev(m)
  PROVE  MergeInv(n) /\ ~n.fwd /\ IsLast(InFront(Readable, Entry(m)), Entry(n))
  <1> DEFINE E == Entry(m)
             U == InFront(Readable, E)
             before(c) == LET x == ChildSeek(c, m.ch[c], E) IN IF x.e # Nil THEN StepBack(c, x) ELSE SeekToLast(c, x)
  <1>0. /\ m.cur \in 1 .. 2 /\ E = m.ch[m.cur].e
        /\ E \in Run(m.cur) /\ E \in Readable /\ E \in Ent
        /\ \A c \in 1 .. 2 : c # m.cur => E \notin Run(c)
        /\ \A c \in 1 .. 2 : U \cap Run(c) = InFront(Run(c), E)
    BY EntryFacts
  <1>1. PICK ch0 : ch0 = [c \in 1 .. 2 |-> IF ~m.fwd \/ c = m.cur THEN m.ch[c] ELSE before(c)]
    OBVIOUS
  <1>2. PICK ch : ch = [ch0 EXCEPT ![m.cur] = StepBack(m.cur, @)]
    OBVIOUS
  <1>3. n = LargestChild(ch)
    BY <1>1, <1>2 DEF MPrev
  <1>4. /\ DOMAIN ch = 1 .. 2 /\ ch[m.cur] = StepBack(m.cur, m.ch[m.cur])
        /\ \A c \in 1 .. 2 : c # m.cur => ch[c] = IF ~m.fwd THEN m.ch[c] ELSE before(c)
    <2> HIDE DEF before
    <2>1. DOMAIN ch0 = 1 .. 2 /\ \A c \in 1 .. 2 : ch0[c] = IF ~m.fwd \/ c = m.cur THEN m.ch[c] ELSE before(c)
      BY <1>1
    <2> QED
      BY <1>0, <1>2, <2>1
  <1>5. \A c \in 1 .. 2 : ChildInv(c, m.ch[c])
    BY DEF MergeInv
  <1>6. ChildInv(m.cur, ch[m.cur]) /\ IsLast(InFront(Run(m.cur), E), ch[m.cur].e)
    <2>1. ChildInv(m.cur, m.ch[m.cur]) /\ m.ch[m.cur].e # Nil
      BY <1>0, <1>5
    <2>2. ChildInv(m.cur, ch[m.cur]) /\ IsGreatest(InFront(Run(m.cur), E), ch[m.cur].e)
      BY <1>0, <1>4, <2>1, StepBackIs
    <2> QED
      BY <2>2 DEF IsGreatest, IsLast
  <1>7. ASSUME NEW c \in 1 .. 2, c # m.cur
        PROVE  ChildInv(c, ch[c]) /\ IsLast(InFront(Run(c), E), ch[c].e)
    <2>1. CASE ~m.fwd
      <3>1. ch[c] = m.ch[c]
        BY <1>4, <1>7, <2>1
      <3>2. IsLast(InFront(Run(c), E), m.ch[c].e)
        BY <1>0, <1>7, <2>1 DEF MergeInv
      <3> QED
        BY <1>5, <3>1, <3>2
    <2>2. CASE m.fwd
      <3>1. PICK x : x = ChildSeek(c, m.ch[c], E)
        OBVIOUS
      <3>2. ChildInv(c, x) /\ IsLeast({v \in Run(c) : ~Before(v, E)}, x.e)
        BY <1>0, <1>5, <3>1, ChildSeekIs
      <3>3. ch[c] = IF x.e # Nil THEN StepBack(c, x) ELSE SeekToLast(c, x)
        BY <1>4, <1>7, <2>2, <3>1
      <3>4. Run(c) \subseteq Ent
        BY RunFacts
      <3>5. CASE x.e # Nil
        <4>1. ChildInv(c, ch[c]) /\ IsGreatest(InFront(Run(c), x.e), ch[c].e)
          BY <3>2, <3>3, <3>5, StepBackIs
        <4>2. x.e \in Run(c) /\ ~Before(x.e, E) /\ \A v \in Run(c) : ~Before(v, E) => ~Before(v, x.e)
          BY <3>2, <3>5 DEF IsLeast
        <4>3. InFront(Run(c), x.e) = InFront(Run(c), E)
          BY <1>0, <3>4, <4>2, BeforeOrder DEF InFront
        <4> QED
          BY <4>1, <4>3 DEF IsGreatest, IsLast
      <3>6. CASE x.e = Nil
        <4>1. ChildInv(c, ch[c]) /\ IsGreatest(Run(c), ch[c].e)
          BY <3>2, <3>3, <3>6, SeekToLastIs
        <4>2. \A v \in Run(c) : Before(v, E)
          BY <3>2, <3>6 DEF IsLeast
        <4>3. Run(c) = InFront(Run(c), E)
          BY <4>2 DEF InFront
        <4> QED
          BY <4>1, <4>3 DEF IsGreatest, IsLast
      <3> QED
        BY <3>5, <3>6
    <2> QED
      BY <2>1, <2>2
  <1>8. U \in SUBSET Readable /\ \A u \in U, v \in Readable : Before(v, u) => v \in U
    BY <1>0, RunFacts, BeforeOrder DEF InFront
  <1>9. \A c \in 1 .. 2 : ChildInv(c, ch[c]) /\ IsLast(U \cap Run(c), ch[c].e)
    BY <1>0, <1>6, <1>7
  <1> HIDE DEF U, before
  <1>10. MergeInv(n) /\ ~n.fwd /\ IsLast(U, Entry(n))
    BY <1>3, <1>4, <1>8, <1>9, BackwardMerge
  <1> QED
    BY <1>10 DEF U

\* The entries of the snapshot that are shown, and their keys.
LEMMA SnapshotFacts ==
  ASSUME RunsInv
  PROVE  /\ Shows \subseteq Snapped /\ Snapped \subseteq Readable /\ Snapped \subseteq Ent
         /\ \A v \in Snapped : Visible(v) /\ v.k \in ScanKeys
         /\ \A u, v \in Snapped : u = v \/ Before(u, v) \/ Before(v, u)
         /\ KeysFrom(0) = {e.k : e \in Shows} /\ KeysFrom(0) \subseteq ScanKeys
         /\ ShownKeys = KeysFrom(0)
         /\ \A x \in Shows : Newest(x.k) = x
  <1>1. Shows \subseteq Snapped /\ Snapped \subseteq Readable /\ Snapped \subseteq Ent
    BY DEF Shows, Snapped, RunsInv, Sorted
  <1>2. \A v \in Snapped : Visible(v) /\ v.k \in ScanKeys
    BY DEF Snapped, RunsInv, Sorted
  <1>3. \A u, v \in Snapped : u = v \/ Before(u, v) \/ Before(v, u)
    BY <1>1, BeforeOrder DEF RunsInv, Sorted
  <1>4. KeysFrom(0) = {e.k : e \in Shows} /\ KeysFrom(0) \subseteq ScanKeys
    <2>1. ASSUME NEW e \in Shows PROVE e.k \in ScanKeys /\ e.k >= 0
      <3>1. e \in Snapped /\ e.k \in ScanKeys
        BY <1>1, <1>2
      <3>2. e.k \in Nat
        BY <3>1, ScanAssumption
      <3> QED
        BY <3>1, <3>2
    <2> QED
      BY <2>1 DEF KeysFrom
  <1>5. \A k \in Nat : Newest(k) = Least({e \in Snapped : e.k = k})
    <2>1. ASSUME NEW k \in Nat
          PROVE  {e \in {e \in Readable : e.k = k} : ~Before(e, [k |-> k, s |-> Snap])} = {e \in Snapped : e.k = k}
      <3>1. ASSUME NEW e \in Readable, e.k = k PROVE ~Before(e, [k |-> k, s |-> Snap]) <=> Visible(e)
        <4>1. e \in Ent /\ e.s \in Nat
          BY DEF RunsInv, Sorted, Ent
        <4> QED
          BY <3>1, <4>1, ScanAssumption DEF Before, Visible
      <3> QED
        BY <3>1 DEF Snapped
    <2> QED
      BY <2>1 DEF Newest, AtOrAfter
  <1>6. ASSUME NEW k \in Nat
        PROVE  IF {e \in Snapped : e.k = k} = {} THEN Newest(k) = Nil
               ELSE Newest(k) \in Snapped /\ Newest(k).k = k /\ IsNewest(Newest(k)) /\ Newest(k) # Nil
    <2> DEFINE S == {e \in Snapped : e.k = k}
    <2>1. Sorted(S)
      BY <1>1, SortedPart DEF RunsInv
    <2>2. IsLeast(S, Newest(k))
      BY <1>5, <2>1, LeastIs
    <2>3. Nil \notin S
      BY <1>1, RunFacts
    <2> QED
      BY <2>2, <2>3 DEF IsLeast, IsNewest
  <1>7. ASSUME NEW x \in Shows PROVE Newest(x.k) = x
    <2>1. x \in Snapped /\ IsNewest(x) /\ x.k \in Nat /\ x \in {e \in Snapped : e.k = x.k}
      BY <1>1, ScanAssumption DEF Shows, Ent
    <2>2. Newest(x.k) \in Snapped /\ Newest(x.k).k = x.k /\ IsNewest(Newest(x.k))
      BY <1>6, <2>1
    <2> QED
      BY <1>3, <2>1, <2>2 DEF IsNewest
  <1>8. ShownKeys = {e.k : e \in Shows}
    <2>1. ASSUME NEW k \in ShownKeys PROVE k \in {e.k : e \in Shows}
      <3>1. k \in Nat /\ Newest(k) # Nil /\ Newest(k).put
        BY DEF ShownKeys, RunsInv, Sorted, Ent
      <3>2. Newest(k) \in Snapped /\ Newest(k).k = k /\ IsNewest(Newest(k))
        BY <1>6, <3>1
      <3> QED
        BY <3>1, <3>2 DEF Shows
    <2>2. ASSUME NEW x \in Shows PROVE x.k \in ShownKeys
      <3>1. x \in Readable /\ x.put /\ x # Nil
        BY <1>1, RunFacts DEF Shows
      <3> QED
        BY <1>7, <3>1 DEF ShownKeys
    <2> QED
      BY <2>1, <2>2
  <1> QED
    BY <1>1, <1>2, <1>3, <1>4, <1>7, <1>8

\* The key an iterator should be at: the first (the last) of some that are shown.
LEMMA GoalFacts ==
  ASSUME RunsInv, NEW K \in SUBSET KeysFrom(0)
  PROVE  /\ K = {} => Min(K \cup {NoKey}) \notin KeysFrom(0) /\ Max(K \cup {0}) \notin KeysFrom(0)
         /\ \A k \in K : (\A j \in K : k <= j) => Min(K \cup {NoKey}) = k
         /\ \A k \in K : (\A j \in K : j <= k) => Max(K \cup {0}) = k
  <1>1. KeysFrom(0) \subseteq ScanKeys /\ IsFiniteSet(ScanKeys) /\ ScanKeys # {} /\ ScanKeys \in SUBSET Int
    BY SnapshotFacts, ScanAssumption
  <1>2. \A k \in ScanKeys : k \in Int /\ 0 < k /\ k < NoKey
    <2>1. Max(ScanKeys) \in ScanKeys /\ \A k \in ScanKeys : Max(ScanKeys) >= k
      BY <1>1, MinMaxOf
    <2>2. PICK n : n = Max(ScanKeys)
      OBVIOUS
    <2>3. \A k \in ScanKeys : k \in Int /\ 0 < k
      BY ScanAssumption
    <2>4. n \in Int /\ \A k \in ScanKeys : k <= n
      BY <2>1, <2>2, <2>3
    <2>5. NoKey = n + 2
      BY <2>2 DEF NoKey
    <2> QED
      BY <2>3, <2>4, <2>5
  <1>3. NoKey \in Int
    <2>1. Max(ScanKeys) \in ScanKeys
      BY <1>1, MinMaxOf
    <2>2. PICK n : n = Max(ScanKeys)
      OBVIOUS
    <2>3. n \in Int /\ NoKey = n + 2
      BY <1>2, <2>1, <2>2 DEF NoKey
    <2> QED
      BY <2>3
  <1>4. /\ IsFiniteSet(K \cup {NoKey}) /\ IsFiniteSet(K \cup {0})
        /\ \A k \in K : k \in Int /\ 0 < k /\ k < NoKey
    <2>1. K \in SUBSET ScanKeys
      BY <1>1
    <2>2. IsFiniteSet(K)
      BY <1>1, <2>1, FS_Subset
    <2> QED
      BY <1>2, <2>1, <2>2, FS_AddElement
  <1>5. /\ Min(K \cup {NoKey}) \in K \cup {NoKey} /\ \A j \in K \cup {NoKey} : Min(K \cup {NoKey}) <= j
        /\ Max(K \cup {0}) \in K \cup {0} /\ \A j \in K \cup {0} : Max(K \cup {0}) >= j
    <2>1. PICK A, B : A = K \cup {NoKey} /\ B = K \cup {0}
      OBVIOUS
    <2>2. A \in SUBSET Int /\ B \in SUBSET Int /\ A # {} /\ B # {} /\ IsFiniteSet(A) /\ IsFiniteSet(B)
      BY <1>3, <1>4, <2>1
    <2>3. Min(A) \in A /\ (\A j \in A : Min(A) <= j) /\ Max(B) \in B /\ (\A j \in B : Max(B) >= j)
      BY <2>2, MinMaxOf
    <2> QED
      BY <2>1, <2>3
  <1>6. PICK a, b : a = Min(K \cup {NoKey}) /\ b = Max(K \cup {0})
    OBVIOUS
  <1>7. K = {} => a \notin KeysFrom(0) /\ b \notin KeysFrom(0)
    BY <1>1, <1>2, <1>3, <1>5, <1>6
  <1>8. ASSUME NEW k \in K, \A j \in K : k <= j PROVE a = k
    BY <1>3, <1>4, <1>5, <1>6, <1>8
  <1>9. ASSUME NEW k \in K, \A j \in K : j <= k PROVE b = k
    BY <1>4, <1>5, <1>6, <1>9
  <1> QED
    BY <1>6, <1>7, <1>8, <1>9

\* Where a seek to the key n, or to the first, leaves the iterator.
LEMMA SeekFinds ==
  ASSUME RunsInv, NEW n \in Nat, NEW E, E # Nil => E \in Readable /\ E.k >= n,
         \A v \in Snapped : v.k >= n => E # Nil /\ ~Before(v, E),
         NEW d, ~d.skip, NEW g, g = Min(KeysFrom(n) \cup {NoKey})
  PROVE  IF E = Nil THEN g \notin KeysFrom(0) ELSE AheadInv(E, d, g)
  <1>0. /\ Shows \subseteq Snapped /\ Snapped \subseteq Ent /\ Readable \subseteq Ent
        /\ KeysFrom(0) = {e.k : e \in Shows}
    BY SnapshotFacts, RunFacts
  <1>1. KeysFrom(n) \in SUBSET KeysFrom(0)
    BY <1>0 DEF KeysFrom
  <1>2. CASE E = Nil
    <2>1. KeysFrom(n) = {}
      BY <1>0, <1>2 DEF KeysFrom
    <2> QED
      BY <1>1, <1>2, <2>1, GoalFacts
  <1>3. CASE E # Nil
    <2>0. E \in Ent /\ E.k \in Nat /\ E.k >= n
      BY <1>0, <1>3 DEF Ent
    <2>1. ASSUME NEW v \in Snapped, v.k >= n PROVE ~Before(v, E) /\ v.k >= E.k
      <3>1. ~Before(v, E) /\ v \in Ent
        BY <1>0, <2>1
      <3> QED
        BY <2>0, <3>1, BeforeOrder
    <2>2. ASSUME NEW v \in Snapped, v.k = E.k PROVE ~Before(v, E)
      BY <2>0, <2>1, <2>2
    <2>3. {k \in KeysFrom(E.k) : d.skip => k > d.key} = KeysFrom(n)
      <3>1. {k \in KeysFrom(E.k) : d.skip => k > d.key} = KeysFrom(E.k)
        OBVIOUS
      <3>2. ASSUME NEW e \in Shows PROVE e.k >= E.k <=> e.k >= n
        <4>1. e \in Snapped /\ e.k \in Nat
          BY <1>0 DEF Ent
        <4> QED
          BY <2>0, <2>1, <4>1
      <3>3. KeysFrom(E.k) = KeysFrom(n)
        BY <3>2 DEF KeysFrom
      <3> QED
        BY <3>1, <3>3
    <2> QED
      BY <1>3, <2>2, <2>3 DEF AheadInv
  <1> QED
    BY <1>2, <1>3

\* Next leaves it among or behind the entries of x, whose key is to be skipped.
LEMMA NextFinds ==
  ASSUME RunsInv, NEW x \in Snapped, NEW E \in Readable, ~Before(x, E),
         \A v \in Snapped : ~Before(v, E) => ~Before(v, x),
         NEW d, d.skip, d.key = x.k, NEW g, g = Min({k \in KeysFrom(0) : k > x.k} \cup {NoKey})
  PROVE  AheadInv(E, d, g)
  <1>0. Shows \subseteq Snapped /\ Snapped \subseteq Ent /\ Readable \subseteq Ent /\ KeysFrom(0) = {e.k : e \in Shows}
    BY SnapshotFacts, RunFacts
  <1>1. E.k <= x.k /\ E.k \in Nat /\ x.k \in Nat
    BY <1>0, BeforeOrder DEF Ent
  <1>2. \A v \in Snapped : ~Before(v, E) => v.k >= x.k
    BY <1>0, BeforeOrder
  <1>3. {k \in KeysFrom(E.k) : d.skip => k > d.key} = {k \in KeysFrom(0) : k > x.k}
    <2>1. ASSUME NEW e \in Shows PROVE (e.k >= E.k /\ (d.skip => e.k > d.key)) <=> (e.k >= 0 /\ e.k > x.k)
      <3>1. e.k \in Nat
        BY <1>0 DEF Ent
      <3> QED
        BY <1>1, <3>1
    <2> QED
      BY <2>1 DEF KeysFrom
  <1> QED
    BY <1>1, <1>2, <1>3 DEF AheadInv

\* FindNextUserEntry goes on over an entry that is hidden.
LEMMA HiddenEntry ==
  ASSUME RunsInv, NEW E \in Readable, NEW d, d.skip \in BOOLEAN, d.key \in Int, NEW g, AheadInv(E, d, g), Hides(d, E),
         NEW F, IsFirst(Behind(Readable, E), F),
         NEW f, f.skip \in BOOLEAN,
         IF Visible(E) /\ ~E.put THEN f.skip /\ f.key = E.k ELSE f.skip = d.skip /\ f.key = d.key
  PROVE  IF F = Nil THEN g \notin KeysFrom(0) ELSE AheadInv(F, f, g)
  <1> DEFINE K == {k \in KeysFrom(E.k) : d.skip => k > d.key}
  <1>0. /\ Shows \subseteq Snapped /\ Snapped \subseteq Ent /\ Snapped \subseteq Readable /\ Readable \subseteq Ent
        /\ KeysFrom(0) = {e.k : e \in Shows} /\ Nil \notin Ent
        /\ \A v \in Snapped : Visible(v)
        /\ E \in Ent /\ E.k \in Nat
    BY SnapshotFacts, RunFacts DEF Ent
  <1>1. g = Min(K \cup {NoKey}) /\ K \in SUBSET KeysFrom(0)
    BY <1>0 DEF AheadInv, KeysFrom
  <1>2. ASSUME NEW v \in Snapped, Before(E, v) PROVE F # Nil /\ ~Before(v, F)
    BY <1>0, <1>2 DEF IsFirst, Behind
  <1>3. F # Nil => F \in Ent /\ Before(E, F) /\ F.k >= E.k /\ F.k \in Nat
    BY <1>0, BeforeOrder DEF IsFirst, Behind, Ent
  <1>4. ASSUME NEW v \in Snapped, ~Before(E, v), ~Before(v, E) PROVE v = E
    <2>1. v.s = E.s
      BY <1>0, <1>4, BeforeOrder
    <2> QED
      BY <1>0, <2>1 DEF RunsInv, Sorted
  <1>5. ASSUME NEW y \in Shows, y.k >= E.k, d.skip => y.k > d.key PROVE Before(E, y)
    <2>1. y \in Snapped /\ y \in Ent /\ y.k \in Nat /\ y.put
      BY <1>0 DEF Shows, Ent
    <2>2. SUFFICES ASSUME ~Before(E, y) PROVE FALSE
      OBVIOUS
    <2>3. y.k = E.k
      <3>1. y.k <= E.k
        BY <1>0, <2>1, <2>2, BeforeOrder
      <3> QED
        BY <1>0, <1>5, <2>1, <3>1
    <2>4. ~Before(y, E)
      BY <1>5, <2>1, <2>3 DEF AheadInv
    <2>5. y = E
      BY <1>4, <2>1, <2>2, <2>4
    <2>6. ~(d.skip /\ E.k <= d.key)
      <3>1. d.skip => E.k > d.key
        BY <1>5, <2>3
      <3> QED
        BY <1>0, <3>1
    <2> QED
      BY <1>0, <2>1, <2>5, <2>6 DEF Hides
  <1>6. CASE F = Nil
    <2>1. K = {}
      BY <1>0, <1>2, <1>5, <1>6 DEF KeysFrom
    <2> QED
      BY <1>1, <1>6, <2>1, GoalFacts
  <1>7. CASE F # Nil /\ ~(Visible(E) /\ ~E.put)
    <2>1. f.skip = d.skip /\ f.key = d.key
      BY <1>7
    <2>2. ASSUME f.skip => F.k > f.key, NEW v \in Snapped, v.k = F.k PROVE ~Before(v, F)
      <3>1. CASE Before(E, v)
        BY <1>2, <3>1
      <3>2. CASE ~Before(E, v)
        <4>1. v \in Ent /\ v.k \in Nat
          BY <1>0 DEF Ent
        <4>2. v.k = E.k
          <5>1. v.k <= E.k
            BY <1>0, <3>2, <4>1, BeforeOrder
          <5> QED
            BY <1>0, <1>3, <1>7, <2>2, <4>1, <5>1
        <4>3. d.skip => E.k > d.key
          BY <2>1, <2>2, <4>2
        <4>4. ~Before(v, E)
          BY <4>2, <4>3 DEF AheadInv
        <4>5. v = E
          BY <1>4, <3>2, <4>4
        <4>6. Visible(E) /\ E.put
          BY <1>0, <1>7, <4>5
        <4>7. d.skip /\ E.k <= d.key
          BY <4>6 DEF Hides
        <4> QED
          BY <1>0, <4>3, <4>7
      <3> QED
        BY <3>1, <3>2
    <2>3. ASSUME f.skip, NEW v \in Snapped, ~Before(v, F) PROVE v.k >= f.key
      <3>1. ~Before(v, E)
        BY <1>0, <1>3, <1>7, <2>3, BeforeOrder
      <3> QED
        BY <2>1, <2>3, <3>1 DEF AheadInv
    <2>4. {k \in KeysFrom(F.k) : f.skip => k > f.key} = K
      <3>1. ASSUME NEW y \in Shows PROVE (y.k >= F.k /\ (f.skip => y.k > f.key)) <=> (y.k >= E.k /\ (d.skip => y.k > d.key))
        <4>1. y \in Snapped /\ y \in Ent /\ y.k \in Nat
          BY <1>0 DEF Ent
        <4>2. ASSUME y.k >= E.k, d.skip => y.k > d.key PROVE y.k >= F.k
          <5>1. ~Before(y, F)
            BY <1>2, <1>5, <4>1, <4>2
          <5> QED
            BY <1>3, <1>7, <4>1, <5>1, BeforeOrder
        <4>3. y.k >= F.k => y.k >= E.k
          BY <1>0, <1>3, <1>7, <4>1
        <4> QED
          BY <2>1, <4>2, <4>3
      <3> QED
        BY <3>1 DEF KeysFrom
    <2> HIDE DEF K
    <2> QED
      BY <1>1, <1>7, <2>2, <2>3, <2>4 DEF AheadInv
  <1>8. CASE F # Nil /\ Visible(E) /\ ~E.put
    <2>1. f.skip /\ f.key = E.k /\ E \in Snapped
      BY <1>8 DEF Snapped
    <2>2. ASSUME F.k > E.k, NEW v \in Snapped, v.k = F.k PROVE ~Before(v, F)
      <3>1. v \in Ent /\ v.k \in Nat
        BY <1>0 DEF Ent
      <3>2. Before(E, v)
        BY <1>0, <2>2, <3>1 DEF Before
      <3> QED
        BY <1>2, <3>2
    <2>3. ASSUME NEW v \in Snapped, ~Before(v, F) PROVE v.k >= E.k
      <3>1. ~Before(v, E)
        BY <1>0, <1>3, <1>8, <2>3, BeforeOrder
      <3> QED
        BY <1>0, <3>1, BeforeOrder
    <2>4. {k \in KeysFrom(F.k) : f.skip => k > f.key} = K
      <3>1. ASSUME NEW y \in Shows PROVE (y.k >= F.k /\ y.k > E.k) <=> (y.k >= E.k /\ (d.skip => y.k > d.key))
        <4>1. y \in Snapped /\ y \in Ent /\ y.k \in Nat /\ y.put /\ IsNewest(y)
          BY <1>0 DEF Ent, Shows
        <4>2. ASSUME y.k >= E.k, d.skip => y.k > d.key PROVE y.k >= F.k /\ y.k > E.k
          <5>1. Before(E, y)
            BY <1>5, <4>2
          <5>2. ~Before(y, F)
            BY <1>2, <4>1, <5>1
          <5>3. y.k >= F.k
            BY <1>3, <1>8, <4>1, <5>2, BeforeOrder
          <5>4. y.k # E.k
            BY <2>1, <4>1, <5>1 DEF IsNewest
          <5> QED
            BY <1>0, <4>1, <4>2, <5>3, <5>4
        <4>3. ASSUME y.k > E.k PROVE y.k >= E.k /\ (d.skip => y.k > d.key)
          <5>1. ~Before(E, E)
            BY <1>0, BeforeOrder
          <5>2. d.skip => E.k >= d.key
            BY <2>1, <5>1 DEF AheadInv
          <5> QED
            BY <1>0, <4>1, <4>3, <5>2
        <4> QED
          BY <4>2, <4>3
      <3> QED
        BY <2>1, <3>1 DEF KeysFrom
    <2> HIDE DEF K
    <2> QED
      BY <1>1, <1>8, <2>1, <2>2, <2>3, <2>4 DEF AheadInv
  <1> QED
    BY <1>6, <1>7, <1>8

\* In front of all entries of the keys from n on, the keys below n are left.
LEMMA BackFinds ==
  ASSUME RunsInv, NEW n \in Int, NEW E, E # Nil => E \in Readable /\ E.k < n,
         \A v \in Snapped : v.k < n => E # Nil /\ ~Before(E, v)
  PROVE  KeysUpTo(E) = KeysBelow(n)
  <1>1. Shows \subseteq Snapped /\ Snapped \subseteq Ent /\ Readable \subseteq Ent
    BY SnapshotFacts, RunFacts
  <1>2. ASSUME NEW y \in Shows PROVE (E # Nil /\ ~Before(E, y)) <=> y.k < n
    <2>1. y \in Snapped /\ y \in Ent /\ y.k \in Nat
      BY <1>1 DEF Ent
    <2>2. ASSUME E # Nil, ~Before(E, y) PROVE y.k < n
      <3>1. E \in Ent /\ E.k \in Nat /\ E.k < n
        BY <1>1, <2>2 DEF Ent
      <3>2. y.k <= E.k
        BY <2>1, <2>2, <3>1, BeforeOrder
      <3> QED
        BY <2>1, <3>1, <3>2
    <2> QED
      BY <2>1, <2>2
  <1> QED
    BY <1>2 DEF KeysUpTo, KeysBelow

LEMMA LastFinds ==
  ASSUME RunsInv, NEW E, \A v \in Snapped : E # Nil /\ ~Before(E, v)
  PROVE  KeysUpTo(E) = KeysFrom(0)
  <1>1. Shows \subseteq Snapped /\ KeysFrom(0) = {e.k : e \in Shows}
    BY SnapshotFacts
  <1>2. {y \in Shows : E # Nil /\ ~Before(E, y)} = Shows
    BY <1>1
  <1> QED
    BY <1>1, <1>2 DEF KeysUpTo

\* FindPrevUserEntry stops: what is saved is the newest value of its key.
LEMMA SavedIsNewest ==
  ASSUME RunsInv, NEW d, NEW E, E # Nil => E \in Readable /\ E.k < d.key, NEW x, SavedIs(E, d, x),
         NEW g, g = Max(KeysUpTo(x) \cup {0})
  PROVE  x \in Shows /\ g = d.key
  <1>0. /\ Shows \subseteq Snapped /\ Snapped \subseteq Ent /\ Readable \subseteq Ent /\ Nil \notin Ent
        /\ KeysFrom(0) = {e.k : e \in Shows}
    BY SnapshotFacts, RunFacts
  <1>1. x \in Snapped /\ x \in Ent /\ x.k \in Nat /\ x.k = d.key /\ x.put
    BY <1>0 DEF SavedIs, Ent
  <1>2. ASSUME NEW v \in Snapped, v.k = x.k PROVE ~Before(v, x)
    <2>1. SUFFICES ASSUME Before(v, x) PROVE FALSE
      OBVIOUS
    <2>2. E # Nil /\ ~Before(E, v)
      BY <2>1 DEF SavedIs
    <2>3. E \in Ent /\ v \in Ent /\ E.k < v.k /\ E.k \in Nat /\ v.k \in Nat
      BY <1>0, <1>1, <1>2, <2>2 DEF Ent
    <2> QED
      BY <2>2, <2>3, BeforeOrder
  <1>3. x \in Shows
    BY <1>1, <1>2 DEF Shows, IsNewest
  <1>4. x.k \in KeysUpTo(x) /\ \A j \in KeysUpTo(x) : j <= x.k
    <2>1. x # Nil /\ ~Before(x, x)
      BY <1>0, <1>1, BeforeOrder
    <2>2. \A y \in Shows : ~Before(x, y) => y.k <= x.k
      BY <1>0, <1>1, BeforeOrder
    <2> QED
      BY <1>3, <2>1, <2>2 DEF KeysUpTo
  <1>5. KeysUpTo(x) \in SUBSET KeysFrom(0)
    BY <1>0 DEF KeysUpTo
  <1> QED
    BY <1>1, <1>3, <1>4, <1>5, GoalFacts

\* FindPrevUserEntry goes on over an entry.
LEMMA PassedEntry ==
  ASSUME RunsInv, NEW E \in Readable, NEW d, d.put \in BOOLEAN, d.key \in Int, NEW g, BehindInv(E, d, g),
         ~(Visible(E) /\ d.put /\ E.k < d.key),
         NEW F, IsLast(InFront(Readable, E), F),
         NEW f, f.put \in BOOLEAN,
         Visible(E) => f.put = E.put /\ (E.put => f.key = E.k /\ f.val = E.s),
         ~Visible(E) => f.put = d.put /\ f.key = d.key /\ f.val = d.val
  PROVE  BehindInv(F, f, g)
  <1>0. /\ Shows \subseteq Snapped /\ Snapped \subseteq Ent /\ Snapped \subseteq Readable /\ Readable \subseteq Ent
        /\ Nil \notin Ent
        /\ \A v \in Snapped : Visible(v)
        /\ E \in Ent /\ E.k \in Nat /\ E # Nil
    BY SnapshotFacts, RunFacts DEF Ent
  <1>1. F # Nil => F \in Ent /\ Before(F, E)
    BY <1>0 DEF IsLast, InFront
  <1>2. ASSUME NEW v \in Snapped, Before(v, E) PROVE F # Nil /\ ~Before(F, v)
    BY <1>0, <1>2 DEF IsLast, InFront
  <1>3. ASSUME NEW v \in Snapped, v # E PROVE Before(v, E) \/ Before(E, v)
    <2>1. v.s # E.s
      BY <1>0, <1>3 DEF RunsInv, Sorted
    <2> QED
      BY <1>0, <2>1, BeforeOrder
  <1>4. ASSUME ~d.put \/ Visible(E) PROVE g = Max(KeysUpTo(E) \cup {0})
    <2>1. CASE ~d.put
      BY <2>1 DEF BehindInv
    <2>2. CASE d.put /\ Visible(E)
      <3>1. PICK x \in Snapped : SavedIs(E, d, x) /\ g = Max(KeysUpTo(x) \cup {0})
        BY <2>2 DEF BehindInv
      <3>2. x \in Ent /\ x.k = d.key /\ Before(E, x) /\ x # Nil
        BY <1>0, <3>1 DEF SavedIs
      <3>3. E.k = x.k
        <4>1. E.k <= x.k /\ x.k \in Nat
          BY <1>0, <3>2, BeforeOrder DEF Ent
        <4> QED
          BY <1>0, <2>2, <3>2, <4>1
      <3>4. ASSUME NEW y \in Shows PROVE ~Before(x, y) <=> ~Before(E, y)
        <4>1. y \in Snapped /\ y \in Ent /\ IsNewest(y)
          BY <1>0 DEF Shows
        <4>2. ASSUME ~Before(x, y) PROVE ~Before(E, y)
          <5>1. CASE y = x
            <6>1. E \in Snapped
              BY <2>2 DEF Snapped
            <6> QED
              BY <3>2, <3>3, <4>1, <5>1, <6>1 DEF IsNewest
          <5>2. CASE y # x
            <6>1. y.s # x.s
              BY <1>0, <3>1, <4>1, <5>2 DEF RunsInv, Sorted
            <6>2. Before(y, x)
              BY <3>2, <4>1, <4>2, <6>1, BeforeOrder
            <6> QED
              BY <3>1, <4>1, <6>2 DEF SavedIs
          <5> QED
            BY <5>1, <5>2
        <4>3. ASSUME ~Before(E, y) PROVE ~Before(x, y)
          BY <1>0, <3>2, <4>1, <4>3, BeforeOrder
        <4> QED
          BY <4>2, <4>3
      <3>5. {y \in Shows : x # Nil /\ ~Before(x, y)} = {y \in Shows : E # Nil /\ ~Before(E, y)}
        BY <1>0, <3>2, <3>4
      <3>6. KeysUpTo(x) = KeysUpTo(E)
        BY <3>5 DEF KeysUpTo
      <3> QED
        BY <3>1, <3>6
    <2> QED
      BY <1>4, <2>1, <2>2
  <1>5. ASSUME E \notin Shows PROVE KeysUpTo(E) = KeysUpTo(F)
    <2>1. ASSUME NEW y \in Shows PROVE (E # Nil /\ ~Before(E, y)) <=> (F # Nil /\ ~Before(F, y))
      <3>1. y \in Snapped /\ y \in Ent /\ y # E
        BY <1>0, <1>5
      <3>2. ASSUME ~Before(E, y) PROVE F # Nil /\ ~Before(F, y)
        <4>1. Before(y, E)
          BY <1>3, <3>1, <3>2
        <4> QED
          BY <1>2, <3>1, <4>1
      <3>3. ASSUME F # Nil, ~Before(F, y) PROVE ~Before(E, y)
        BY <1>0, <1>1, <3>1, <3>3, BeforeOrder
      <3> QED
        BY <1>0, <3>2, <3>3
    <2>2. {y \in Shows : E # Nil /\ ~Before(E, y)} = {y \in Shows : F # Nil /\ ~Before(F, y)}
      BY <2>1
    <2> QED
      BY <2>2 DEF KeysUpTo
  <1>6. CASE Visible(E) /\ E.put
    <2>1. E \in Snapped /\ f.put /\ f.key = E.k /\ f.val = E.s
      BY <1>6 DEF Snapped
    <2>2. SavedIs(F, f, E)
      BY <1>1, <1>2, <1>6, <2>1 DEF SavedIs
    <2>3. g = Max(KeysUpTo(E) \cup {0})
      BY <1>4, <1>6
    <2> QED
      BY <2>1, <2>2, <2>3 DEF BehindInv
  <1>7. CASE Visible(E) /\ ~E.put
    <2>1. ~f.put /\ E \notin Shows
      BY <1>7 DEF Shows
    <2> QED
      BY <1>4, <1>5, <1>7, <2>1 DEF BehindInv
  <1>8. CASE ~Visible(E) /\ ~d.put
    <2>1. ~f.put /\ E \notin Shows
      BY <1>0, <1>8
    <2> QED
      BY <1>4, <1>5, <1>8, <2>1 DEF BehindInv
  <1>9. CASE ~Visible(E) /\ d.put
    <2>1. PICK x \in Snapped : SavedIs(E, d, x) /\ g = Max(KeysUpTo(x) \cup {0})
      BY <1>9 DEF BehindInv
    <2>2. x \in Ent /\ x.k = d.key /\ Before(E, x) /\ x.put /\ x.s = d.val
      BY <1>0, <2>1 DEF SavedIs
    <2>3. F # Nil => Before(F, x)
      BY <1>0, <1>1, <2>2, BeforeOrder
    <2>4. ASSUME NEW v \in Snapped, Before(v, x) PROVE F # Nil /\ ~Before(F, v)
      <3>1. ~Before(E, v) /\ v # E
        BY <1>0, <1>9, <2>1, <2>4 DEF SavedIs
      <3> QED
        BY <1>2, <1>3, <3>1
    <2>5. SavedIs(F, f, x)
      BY <1>9, <2>2, <2>3, <2>4 DEF SavedIs
    <2>6. f.put
      BY <1>9
    <2> QED
      BY <2>1, <2>5, <2>6 DEF BehindInv
  <1> QED
    BY <1>6, <1>7, <1>8, <1>9

\* A step that leaves the runs as they are.
LEMMA RunsStay ==
  ASSUME mtab' = mtab, blocks' = blocks
  PROVE  /\ RunsInv' = RunsInv /\ Readable' = Readable /\ Snapped' = Snapped
         /\ \A i : Es(i)' = Es(i)
         /\ \A c : Run(c)' = Run(c)
  <1>1. \A i : Es(i)' = Es(i)
    BY DEF Es
  <1>2. Readable' = Readable
    BY DEF Readable, Es
  <1>3. \A c : Run(c)' = Run(c)
    BY DEF Run, Es
  <1>4. Snapped' = Snapped
    BY <1>2 DEF Snapped, Visible
  <1>5. RunsInv' = RunsInv
    <2>1. BlocksInv' = BlocksInv
      BY DEF BlocksInv, Es, Visible, Before
    <2>2. Sorted(Readable)' = Sorted(Readable)
      BY <1>2 DEF Sorted
    <2>3. (Run(1) \cap Run(2))' = Run(1) \cap Run(2)
      BY <1>3
    <2> QED
      BY <2>1, <2>2, <2>3 DEF RunsInv
  <1> QED
    BY <1>1, <1>2, <1>3, <1>4, <1>5

\* What the invariant says of the DBIter depends on the snapshot only.
LEMMA SnapshotStays ==
  ASSUME Snapped' = Snapped, DBIterInv(mi', di', goal'.key)
  PROVE  DBIterInv(mi, di, goal.key)'
  <1>1. Shows' = Shows
    BY DEF Shows, IsNewest
  <1>2. \A n : KeysFrom(n)' = KeysFrom(n) /\ KeysBelow(n)' = KeysBelow(n) /\ KeysUpTo(n)' = KeysUpTo(n)
    BY <1>1 DEF KeysFrom, KeysBelow, KeysUpTo
  <1>3. \A E, d, key : AheadInv(E, d, key)' = AheadInv(E, d, key)
    BY <1>2 DEF AheadInv
  <1>4. \A E, d, x : SavedIs(E, d, x)' = SavedIs(E, d, x)
    BY DEF SavedIs
  <1>5. \A E, d, key : BehindInv(E, d, key)' = BehindInv(E, d, key)
    BY <1>2, <1>4 DEF BehindInv
  <1>6. ASSUME NEW E, NEW fwd, NEW d, NEW key PROVE IdleInv(E, fwd, d, key)' <=> IdleInv(E, fwd, d, key)
    <2>1. KeysFrom(0)' = KeysFrom(0)
      BY <1>2
    <2>2. (\E x \in Shows : SavedIs(E, d, x))' <=> (\E x \in Shows : SavedIs(E, d, x))
      BY <1>1, <1>4
    <2> QED
      BY <1>1, <2>1, <2>2 DEF IdleInv
  <1> QED
    BY <1>2, <1>3, <1>5, <1>6 DEF DBIterInv, Entry

LEMMA IteratorStep ==
  ASSUME RunsInv, mtab' = mtab, blocks' = blocks, MergeInv(mi'), DBIterInv(mi', di', goal'.key),
         ErrorInv(mi', di', goal'.all), GoalType'
  PROVE  IterInv'
  <1>1. RunsInv' /\ DBIterInv(mi, di, goal.key)'
    BY RunsStay, SnapshotStays
  <1>2. MergeInv(mi)'
    <2>1. \A c, ch : ChildInv(c, ch)' = ChildInv(c, ch)
      BY RunsStay DEF ChildInv
    <2>2. \A c, e : Behind(Run(c), e)' = Behind(Run(c), e) /\ InFront(Run(c), e)' = InFront(Run(c), e)
      BY RunsStay DEF Behind, InFront
    <2> QED
      BY <2>1, <2>2 DEF MergeInv, Entry, IsFirst, IsLast
  <1>3. ErrorInv(mi, di, goal.all)'
    BY RunsStay DEF ErrorInv, BlocksSeen, Entry
  <1> QED
    BY <1>1, <1>2, <1>3 DEF IterInv

-----------------------------------------------------------------------------
(* The steps of the iterator *)

\* A forward call enters FindNextUserEntry at the entry of m, or there is none.
LEMMA FindNextStart ==
  ASSUME NEW m, NEW d, DBIterType(d), d.at = "idle", NEW key \in Int, NEW skip \in BOOLEAN, NEW g,
         FindNext(m, d, key, skip), m.fwd,
         Entry(m) = Nil => g \notin KeysFrom(0),
         Entry(m) # Nil => \A f : f.skip = skip /\ f.key = key => AheadInv(Entry(m), f, g)
  PROVE  /\ mi' = m /\ DBIterInv(mi', di', g) /\ di'.at \in {"idle", "next"} /\ di'.fwd
         /\ di'.at = "idle" => Entry(mi') = Nil
  <1>0. mi' = m
    BY DEF FindNext
  <1>1. CASE Entry(m) = Nil
    <2>1. di' = [d EXCEPT !.fwd = TRUE, !.valid = FALSE, !.key = 0]
      BY <1>1 DEF FindNext
    <2>2. /\ DOMAIN di' = DOMAIN d /\ di'.fwd = TRUE /\ di'.valid = FALSE /\ di'.key = 0
          /\ di'.at = "idle" /\ di'.skip = d.skip /\ di'.put = d.put
      BY <2>1 DEF DBIterType
    <2>3. DBIterType(di')
      <3>1. DOMAIN di' = {"at", "fwd", "valid", "key", "val", "skip", "put"} /\ d.skip \in BOOLEAN /\ d.put \in BOOLEAN
        BY <2>2 DEF DBIterType
      <3>2. di'.valid \in BOOLEAN /\ di'.fwd \in BOOLEAN
        BY <2>2, Zenon
      <3>3. di'.key \in Int
        <4>1. di'.key = 0 /\ 0 \in Int
          BY <2>2
        <4> QED
          BY <4>1, Zenon
      <3> QED
        BY <2>2, <3>1, <3>2, <3>3 DEF DBIterType
    <2>4. IdleInv(Entry(mi'), mi'.fwd, di', g)
      BY <1>1, <2>2 DEF IdleInv
    <2> QED
      BY <1>0, <1>1, <2>2, <2>3, <2>4 DEF DBIterInv
  <1>2. CASE Entry(m) # Nil
    <2>1. di' = [d EXCEPT !.fwd = TRUE, !.at = "next", !.key = key, !.skip = skip]
      BY <1>2 DEF FindNext
    <2>2. /\ DOMAIN di' = DOMAIN d /\ di'.fwd = TRUE /\ di'.valid = d.valid /\ di'.key = key
          /\ di'.at = "next" /\ di'.skip = skip /\ di'.put = d.put
      BY <2>1 DEF DBIterType
    <2>3. DBIterType(di')
      BY <2>2 DEF DBIterType
    <2>4. AheadInv(Entry(m), di', g)
      BY <1>2, <2>2
    <2> QED
      BY <1>0, <1>2, <2>2, <2>3, <2>4 DEF DBIterInv
  <1> QED
    BY <1>1, <1>2

LEMMA CallSeekInv ==
  ASSUME IterInv, di.at = "idle", NEW t \in Targets, CallSeek(t), mtab' = mtab, blocks' = blocks,
         goal' = [key |-> Min({k \in ShownKeys : k >= t} \cup {NoKey}), all |-> FALSE]
  PROVE  IterInv'
  <1> DEFINE tt == [k |-> t, s |-> Snap, put |-> TRUE]
             d == [di EXCEPT !.val = 0]
  <1>0. RunsInv /\ MergeInv(mi) /\ DBIterType(di)
    BY DEF IterInv, DBIterInv
  <1>1. t \in Nat /\ tt \in Ent
    <2>1. Min(ScanKeys) \in ScanKeys /\ Max(ScanKeys) \in ScanKeys
      <3>1. ScanKeys \in SUBSET Int
        BY ScanAssumption
      <3> QED
        BY <3>1, ScanAssumption, MinMaxOf
    <2>2. PICK a, b : a = Min(ScanKeys) /\ b = Max(ScanKeys)
      OBVIOUS
    <2>3. a \in Nat /\ b \in Nat
      BY <2>1, <2>2, ScanAssumption
    <2>4. t \in a .. b + 1
      BY <2>2 DEF Targets
    <2> QED
      BY <2>3, <2>4, ScanAssumption DEF Ent
  <1>2. DBIterType(d) /\ d.at = "idle"
    BY <1>0 DEF DBIterType
  <1>3. PICK m : m = MSeek(mi, tt)
    OBVIOUS
  <1>N. PICK n : n = 0
    OBVIOUS
  <1>4. FindNext(m, d, n, FALSE)
    BY <1>3, <1>N, Zenon DEF CallSeek
  <1>Z. n \in Int
    BY <1>N
  <1>5. MergeInv(m) /\ m.fwd /\ IsFirst({v \in Readable : ~Before(v, tt)}, Entry(m))
    BY <1>0, <1>1, <1>3, MSeekIs
  <1>6. Entry(m) # Nil => Entry(m) \in Readable /\ Entry(m).k >= t
    <2>1. ASSUME Entry(m) # Nil PROVE Entry(m) \in Readable /\ Entry(m).k >= t
      <3>1. Entry(m) \in Readable /\ ~Before(Entry(m), tt) /\ Entry(m) \in Ent
        BY <1>0, <1>5, <2>1, RunFacts DEF IsFirst
      <3> QED
        BY <1>1, <3>1 DEF Before, Ent
    <2> QED
      BY <2>1
  <1>7. ASSUME NEW v \in Snapped, v.k >= t PROVE Entry(m) # Nil /\ ~Before(v, Entry(m))
    <2>1. v \in Ent /\ v \in Readable /\ Visible(v)
      BY <1>0, SnapshotFacts
    <2>2. ~Before(v, tt)
      BY <1>1, <1>7, <2>1, ScanAssumption DEF Before, Ent, Visible
    <2> QED
      BY <1>5, <2>1, <2>2 DEF IsFirst
  <1>8. goal'.key = Min(KeysFrom(t) \cup {NoKey}) /\ goal'.all = FALSE /\ GoalType'
    <2>1. {k \in ShownKeys : k >= t} = KeysFrom(t)
      BY <1>0, SnapshotFacts DEF KeysFrom
    <2> QED
      BY <2>1 DEF GoalType
  <1>9. ASSUME NEW f, f.skip = FALSE
        PROVE  IF Entry(m) = Nil THEN goal'.key \notin KeysFrom(0) ELSE AheadInv(Entry(m), f, goal'.key)
    BY <1>0, <1>1, <1>6, <1>7, <1>8, <1>9, SeekFinds
  <1>10. Entry(m) = Nil => goal'.key \notin KeysFrom(0)
    <2>1. [skip |-> FALSE].skip = FALSE
      OBVIOUS
    <2> QED
      BY <1>9, <2>1
  <1>11. Entry(m) # Nil => \A f : f.skip = FALSE /\ f.key = n => AheadInv(Entry(m), f, goal'.key)
    BY <1>9
  <1> HIDE DEF d
  <1>12. mi' = m /\ DBIterInv(mi', di', goal'.key)
    BY <1>2, <1>4, <1>Z, <1>5, <1>10, <1>11, FindNextStart
  <1>13. ErrorInv(mi', di', goal'.all)
    BY <1>8 DEF ErrorInv
  <1> QED
    BY <1>0, <1>5, <1>8, <1>12, <1>13, IteratorStep

LEMMA CallSeekToFirstInv ==
  ASSUME IterInv, di.at = "idle", CallSeekToFirst, mtab' = mtab, blocks' = blocks,
         goal' = [key |-> Min(ShownKeys \cup {NoKey}), all |-> ~mi.ch[2].err]
  PROVE  IterInv'
  <1> DEFINE d == [di EXCEPT !.val = 0]
  <1>0. RunsInv /\ MergeInv(mi) /\ DBIterType(di)
    BY DEF IterInv, DBIterInv
  <1>2. DBIterType(d) /\ d.at = "idle" /\ di.key \in Int
    BY <1>0 DEF DBIterType
  <1>3. PICK m : m = MSeekToFirst(mi)
    OBVIOUS
  <1>4. FindNext(m, d, di.key, FALSE)
    BY <1>3 DEF CallSeekToFirst
  <1>5. MergeInv(m) /\ m.fwd /\ IsFirst(Readable, Entry(m)) /\ BlocksSeen(m.ch[2])
    BY <1>0, <1>3, MSeekToFirstIs
  <1>6. Entry(m) # Nil => Entry(m) \in Readable /\ Entry(m).k >= 0
    BY <1>0, <1>5, RunFacts DEF IsFirst, Ent
  <1>7. ASSUME NEW v \in Snapped PROVE Entry(m) # Nil /\ ~Before(v, Entry(m))
    BY <1>0, <1>5, SnapshotFacts DEF IsFirst
  <1>8. goal'.key = Min(KeysFrom(0) \cup {NoKey}) /\ GoalType'
    <2>1. mi.ch[2].err \in BOOLEAN
      BY <1>0 DEF MergeInv, ChildInv
    <2> QED
      BY <1>0, <2>1, SnapshotFacts DEF GoalType
  <1>9. ASSUME NEW f, f.skip = FALSE
        PROVE  IF Entry(m) = Nil THEN goal'.key \notin KeysFrom(0) ELSE AheadInv(Entry(m), f, goal'.key)
    BY <1>0, <1>6, <1>7, <1>8, <1>9, SeekFinds
  <1>10. Entry(m) = Nil => goal'.key \notin KeysFrom(0)
    <2>1. [skip |-> FALSE].skip = FALSE
      OBVIOUS
    <2> QED
      BY <1>9, <2>1
  <1>11. Entry(m) # Nil => \A f : f.skip = FALSE /\ f.key = di.key => AheadInv(Entry(m), f, goal'.key)
    BY <1>9
  <1> HIDE DEF d
  <1>12. /\ mi' = m /\ DBIterInv(mi', di', goal'.key) /\ di'.at \in {"idle", "next"} /\ di'.fwd
         /\ di'.at = "idle" => Entry(mi') = Nil
    BY <1>2, <1>4, <1>5, <1>10, <1>11, FindNextStart
  <1>13. ErrorInv(mi', di', goal'.all)
    BY <1>5, <1>12 DEF ErrorInv
  <1> QED
    BY <1>0, <1>5, <1>8, <1>12, <1>13, IteratorStep

LEMMA CallSeekToLastInv ==
  ASSUME IterInv, di.at = "idle", CallSeekToLast, mtab' = mtab, blocks' = blocks,
         goal' = [key |-> Max(ShownKeys \cup {0}), all |-> FALSE]
  PROVE  IterInv'
  <1>0. RunsInv /\ MergeInv(mi) /\ DBIterType(di)
    BY DEF IterInv, DBIterInv
  <1>1. mi' = MSeekToLast(mi) /\ di' = [di EXCEPT !.fwd = FALSE, !.val = 0, !.at = "prev", !.put = FALSE]
    BY DEF CallSeekToLast
  <1>2. MergeInv(mi') /\ ~mi'.fwd /\ IsLast(Readable, Entry(mi'))
    BY <1>0, <1>1, MSeekToLastIs
  <1>3. /\ DOMAIN di' = DOMAIN di /\ di'.fwd = FALSE /\ di'.valid = di.valid /\ di'.key = di.key
        /\ di'.at = "prev" /\ di'.skip = di.skip /\ di'.put = FALSE
    BY <1>0, <1>1 DEF DBIterType
  <1>4. DBIterType(di')
    BY <1>0, <1>3 DEF DBIterType
  <1>5. \A v \in Snapped : Entry(mi') # Nil /\ ~Before(Entry(mi'), v)
    BY <1>0, <1>2, SnapshotFacts DEF IsLast
  <1>6. KeysUpTo(Entry(mi')) = KeysFrom(0)
    BY <1>0, <1>5, LastFinds
  <1>7. goal'.key = Max(KeysFrom(0) \cup {0}) /\ goal'.all = FALSE /\ GoalType'
    BY <1>0, SnapshotFacts DEF GoalType
  <1>8. BehindInv(Entry(mi'), di', goal'.key)
    BY <1>3, <1>6, <1>7 DEF BehindInv
  <1>9. DBIterInv(mi', di', goal'.key)
    BY <1>2, <1>3, <1>4, <1>8 DEF DBIterInv
  <1>10. ErrorInv(mi', di', goal'.all)
    BY <1>7 DEF ErrorInv
  <1> QED
    BY <1>0, <1>2, <1>7, <1>9, <1>10, IteratorStep

LEMMA CallNextInv ==
  ASSUME IterInv, di.at = "idle", CallNext, mtab' = mtab, blocks' = blocks,
         goal' = [goal EXCEPT !.key = Min({k \in ShownKeys : k > @} \cup {NoKey})]
  PROVE  IterInv'
  <1>0. RunsInv /\ MergeInv(mi) /\ DBIterType(di) /\ GoalType /\ ErrorInv(mi, di, goal.all)
    BY DEF IterInv, DBIterInv
  <1>1. di.valid /\ IdleInv(Entry(mi), mi.fwd, di, goal.key)
    BY DEF CallNext, IterInv, DBIterInv
  <1>2. goal'.key = Min({k \in KeysFrom(0) : k > goal.key} \cup {NoKey}) /\ goal'.all = goal.all /\ GoalType'
    BY <1>0, SnapshotFacts DEF GoalType
  <1>3. Snapped \subseteq Readable /\ Shows \subseteq Snapped /\ Readable \subseteq Ent /\ Nil \notin Ent /\ Snapped \subseteq Ent
        /\ \A v \in Snapped : Visible(v)
    BY <1>0, SnapshotFacts, RunFacts
  <1>4. CASE di.fwd
    <2> DEFINE E == Entry(mi)
    <2>1. mi.fwd /\ E # Nil /\ E \in Shows /\ goal.key = E.k
      BY <1>1, <1>4 DEF IdleInv
    <2>2. FindNext(mi, di, E.k, TRUE)
      BY <1>4 DEF CallNext
    <2>3. E \in Snapped /\ E \in Readable /\ E \in Ent /\ ~Before(E, E) /\ E.k \in Int
      BY <1>3, <2>1, BeforeOrder DEF Ent
    <2>4. \A f : f.skip = TRUE /\ f.key = E.k => AheadInv(E, f, goal'.key)
      <3> HIDE DEF E
      <3> QED
        BY <1>0, <1>2, <2>1, <2>3, NextFinds
    <2>5. /\ mi' = mi /\ DBIterInv(mi', di', goal'.key) /\ di'.at \in {"idle", "next"} /\ di'.fwd
          /\ di'.at = "idle" => Entry(mi') = Nil
      BY <1>0, <2>1, <2>2, <2>3, <2>4, FindNextStart
    <2>6. ErrorInv(mi', di', goal'.all)
      BY <1>0, <1>2, <2>5 DEF ErrorInv
    <2> QED
      BY <1>0, <1>2, <2>5, <2>6, IteratorStep
  <1>5. CASE ~di.fwd
    <2> DEFINE E == Entry(mi)
    <2>1. PICK x \in Shows : SavedIs(E, di, x)
      BY <1>1, <1>5 DEF IdleInv
    <2>2. goal.key = di.key /\ ~goal.all
      BY <1>0, <1>1, <1>5 DEF IdleInv, ErrorInv, GoalType
    <2>3. x \in Snapped /\ x.k = di.key /\ x \in Ent /\ x \in Readable /\ Visible(x)
      BY <1>3, <2>1 DEF SavedIs
    <2>4. PICK m : m = IF E = Nil THEN MSeekToFirst(mi) ELSE MNext(mi)
      OBVIOUS
    <2>5. FindNext(m, di, di.key, TRUE)
      BY <1>5, <2>4 DEF CallNext
    <2>6. /\ MergeInv(m) /\ m.fwd
          /\ Entry(m) # Nil /\ Entry(m) \in Readable /\ ~Before(x, Entry(m))
          /\ \A v \in Snapped : ~Before(v, Entry(m)) => ~Before(v, x)
      <3>1. CASE E = Nil
        <4>1. MergeInv(m) /\ m.fwd /\ IsFirst(Readable, Entry(m))
          BY <1>0, <2>4, <3>1, MSeekToFirstIs
        <4>2. Entry(m) # Nil /\ Entry(m) \in Readable /\ ~Before(x, Entry(m))
          BY <2>3, <4>1 DEF IsFirst
        <4>3. \A v \in Snapped : ~Before(v, x)
          BY <2>1, <3>1 DEF SavedIs
        <4> QED
          BY <4>1, <4>2, <4>3
      <3>2. CASE E # Nil
        <4>1. MergeInv(m) /\ m.fwd /\ IsFirst(Behind(Readable, E), Entry(m))
          BY <1>0, <2>4, <3>2, MNextIs
        <4>2. x \in Behind(Readable, E)
          BY <2>1, <2>3, <3>2 DEF SavedIs, Behind
        <4>3. Entry(m) # Nil /\ Entry(m) \in Readable /\ ~Before(x, Entry(m)) /\ Before(E, Entry(m))
          BY <2>3, <4>1, <4>2 DEF IsFirst, Behind
        <4>4. ASSUME NEW v \in Snapped, ~Before(v, Entry(m)) PROVE ~Before(v, x)
          <5>1. E \in Ent /\ Entry(m) \in Ent /\ v \in Ent
            BY <1>0, <1>3, <3>2, <4>3, EntryFacts
          <5>2. Before(E, v)
            BY <4>3, <4>4, <5>1, BeforeOrder
          <5> QED
            BY <2>1, <5>2 DEF SavedIs
        <4> QED
          BY <4>1, <4>3, <4>4
      <3> QED
        BY <3>1, <3>2
    <2>7. \A f : f.skip = TRUE /\ f.key = di.key => AheadInv(Entry(m), f, goal'.key)
      BY <1>0, <1>2, <2>2, <2>3, <2>6, NextFinds
    <2>8. mi' = m /\ DBIterInv(mi', di', goal'.key)
      <3>1. di.key \in Int
        BY <1>0 DEF DBIterType
      <3> QED
        BY <1>0, <2>5, <2>6, <2>7, <3>1, FindNextStart
    <2>9. ErrorInv(mi', di', goal'.all)
      BY <1>2, <2>2 DEF ErrorInv
    <2> QED
      BY <1>0, <1>2, <2>6, <2>8, <2>9, IteratorStep
  <1> QED
    BY <1>4, <1>5

LEMMA CallPrevInv ==
  ASSUME IterInv, di.at = "idle", CallPrev, mtab' = mtab, blocks' = blocks,
         goal' = [key |-> Max({k \in ShownKeys : k < goal.key} \cup {0}), all |-> FALSE]
  PROVE  IterInv'
  <1> DEFINE E == Entry(mi)
  <1>0. RunsInv /\ MergeInv(mi) /\ DBIterType(di)
    BY DEF IterInv, DBIterInv
  <1>1. di.valid /\ IdleInv(E, mi.fwd, di, goal.key) /\ mi' = mi
    BY DEF CallPrev, IterInv, DBIterInv
  <1>2. goal'.key = Max(KeysBelow(goal.key) \cup {0}) /\ goal'.all = FALSE /\ GoalType'
    <2>1. {k \in ShownKeys : k < goal.key} = KeysBelow(goal.key)
      BY <1>0, SnapshotFacts DEF KeysBelow
    <2> QED
      BY <2>1 DEF GoalType
  <1>3. Snapped \subseteq Readable /\ Shows \subseteq Snapped /\ Readable \subseteq Ent /\ Nil \notin Ent /\ Snapped \subseteq Ent
    BY <1>0, SnapshotFacts, RunFacts
  <1>4. ErrorInv(mi', di', goal'.all)
    BY <1>2 DEF ErrorInv
  <1>5. CASE di.fwd
    <2>1. mi.fwd /\ E # Nil /\ E \in Shows /\ goal.key = E.k /\ E.k \in Int
      BY <1>1, <1>3, <1>5 DEF IdleInv, Ent
    <2>2. di' = [di EXCEPT !.at = "back", !.key = E.k]
      BY <1>5 DEF CallPrev
    <2>3. /\ DOMAIN di' = DOMAIN di /\ di'.fwd = di.fwd /\ di'.valid = di.valid /\ di'.key = E.k
          /\ di'.at = "back" /\ di'.skip = di.skip /\ di'.put = di.put
      BY <1>0, <2>2 DEF DBIterType
    <2>4. DBIterType(di')
      BY <1>0, <2>1, <2>3 DEF DBIterType
    <2>5. DBIterInv(mi', di', goal'.key)
      BY <1>1, <1>2, <1>5, <2>1, <2>3, <2>4 DEF DBIterInv
    <2> QED
      BY <1>0, <1>1, <1>2, <1>4, <2>5, IteratorStep
  <1>6. CASE ~di.fwd
    <2>1. PICK x \in Shows : SavedIs(E, di, x)
      BY <1>1, <1>6 DEF IdleInv
    <2>2. ~mi.fwd /\ goal.key = di.key /\ (E # Nil => E.k < di.key) /\ di.key \in Int
      BY <1>0, <1>1, <1>6 DEF IdleInv, DBIterType
    <2>3. di' = [di EXCEPT !.at = "prev", !.put = FALSE]
      BY <1>6 DEF CallPrev
    <2>4. /\ DOMAIN di' = DOMAIN di /\ di'.fwd = di.fwd /\ di'.valid = di.valid /\ di'.key = di.key
          /\ di'.at = "prev" /\ di'.skip = di.skip /\ di'.put = FALSE
      BY <1>0, <2>3 DEF DBIterType
    <2>5. DBIterType(di')
      BY <1>0, <2>2, <2>4 DEF DBIterType
    <2>6. ASSUME NEW v \in Snapped, v.k < di.key PROVE E # Nil /\ ~Before(E, v)
      <3>1. x \in Ent /\ v \in Ent /\ x.k = di.key
        BY <1>3, <2>1 DEF SavedIs
      <3>2. Before(v, x)
        BY <2>6, <3>1 DEF Before
      <3> QED
        BY <2>1, <3>2 DEF SavedIs
    <2>7. E # Nil => E \in Readable
      BY <1>0, EntryFacts
    <2>8. KeysUpTo(E) = KeysBelow(di.key)
      BY <1>0, <2>2, <2>6, <2>7, BackFinds
    <2>9. BehindInv(E, di', goal'.key)
      BY <1>2, <2>2, <2>4, <2>8 DEF BehindInv
    <2>10. DBIterInv(mi', di', goal'.key)
      BY <1>1, <1>6, <2>2, <2>4, <2>5, <2>9 DEF DBIterInv
    <2> QED
      BY <1>0, <1>1, <1>2, <1>4, <2>10, IteratorStep
  <1> QED
    BY <1>5, <1>6

LEMMA FindNextUserEntryInv ==
  ASSUME IterInv, FindNextUserEntry
  PROVE  IterInv'
  <1> DEFINE E == Entry(mi)
             n == MNext(mi)
             F == Entry(n)
  <1>0. RunsInv /\ MergeInv(mi) /\ DBIterType(di) /\ GoalType /\ ErrorInv(mi, di, goal.all)
    BY DEF IterInv, DBIterInv
  <1>1. /\ di.at = "next" /\ mtab' = mtab /\ blocks' = blocks /\ goal' = goal
        /\ di.fwd /\ mi.fwd /\ E # Nil /\ AheadInv(E, di, goal.key)
    BY DEF FindNextUserEntry, IterInv, DBIterInv
  <1>2. E \in Readable /\ E \in Ent /\ E.k \in Nat /\ GoalType'
    BY <1>0, <1>1, EntryFacts DEF Ent, GoalType
  <1>3. CASE ~Hides(di, E)
    <2>1. mi' = mi /\ di' = [di EXCEPT !.at = "idle", !.valid = TRUE, !.key = 0]
      BY <1>3 DEF FindNextUserEntry
    <2>2. /\ DOMAIN di' = DOMAIN di /\ di'.fwd = di.fwd /\ di'.valid = TRUE /\ di'.key = 0
          /\ di'.at = "idle" /\ di'.skip = di.skip /\ di'.put = di.put
      BY <1>0, <2>1 DEF DBIterType
    <2>3. DBIterType(di')
      <3>1. di'.key \in Int
        BY <2>2
      <3> QED
        BY <1>0, <2>2, <3>1 DEF DBIterType
    <2>4. Visible(E) /\ E.put /\ ~(di.skip /\ E.k <= di.key)
      BY <1>3 DEF Hides
    <2>5. di.key \in Int /\ (di.skip => E.k > di.key)
      BY <1>0, <1>2, <2>4 DEF DBIterType
    <2>6. E \in Shows
      BY <1>1, <1>2, <2>4, <2>5 DEF AheadInv, Shows, IsNewest, Snapped
    <2>7. goal.key = E.k
      <3> DEFINE K == {k \in KeysFrom(E.k) : di.skip => k > di.key}
      <3>1. K \in SUBSET KeysFrom(0)
        BY <1>0, SnapshotFacts DEF KeysFrom
      <3>2. E.k \in K /\ \A j \in K : E.k <= j
        BY <1>2, <2>5, <2>6 DEF KeysFrom
      <3>3. goal.key = Min(K \cup {NoKey})
        BY <1>1 DEF AheadInv
      <3> HIDE DEF K
      <3> QED
        BY <1>0, <3>1, <3>2, <3>3, GoalFacts
    <2>8. DBIterInv(mi', di', goal'.key)
      BY <1>1, <2>1, <2>2, <2>3, <2>6, <2>7 DEF DBIterInv, IdleInv
    <2>9. ErrorInv(mi', di', goal'.all)
      BY <1>0, <1>1, <2>1, <2>2 DEF ErrorInv
    <2> QED
      BY <1>0, <1>1, <1>2, <2>1, <2>8, <2>9, IteratorStep
  <1>4. CASE Hides(di, E)
    <2>1. PICK d : d = IF Visible(E) /\ ~E.put THEN [di EXCEPT !.key = E.k, !.skip = TRUE] ELSE di
      OBVIOUS
    <2>2. mi' = n /\ di' = IF F # Nil THEN d ELSE [d EXCEPT !.at = "idle", !.valid = FALSE, !.key = 0]
      BY <1>4, <2>1 DEF FindNextUserEntry
    <2>3. /\ DBIterType(d) /\ d.at = "next" /\ d.fwd /\ d.skip \in BOOLEAN
          /\ IF Visible(E) /\ ~E.put THEN d.skip /\ d.key = E.k ELSE d.skip = di.skip /\ d.key = di.key
      <3>1. CASE Visible(E) /\ ~E.put
        <4>1. d = [di EXCEPT !.key = E.k, !.skip = TRUE]
          BY <2>1, <3>1
        <4>2. /\ DOMAIN d = DOMAIN di /\ d.fwd = di.fwd /\ d.valid = di.valid /\ d.key = E.k
              /\ d.at = di.at /\ d.skip = TRUE /\ d.put = di.put
          BY <1>0, <4>1 DEF DBIterType
        <4>3. DBIterType(d)
          <5>1. E.k \in Int
            BY <1>2
          <5>2. d.key \in Int
            BY <4>2, <5>1, Zenon
          <5> QED
            BY <1>0, <4>2, <5>2 DEF DBIterType
        <4> QED
          BY <1>1, <3>1, <4>2, <4>3
      <3>2. CASE ~(Visible(E) /\ ~E.put)
        BY <1>0, <1>1, <2>1, <3>2 DEF DBIterType
      <3> QED
        BY <3>1, <3>2
    <2>4. /\ MergeInv(n) /\ n.fwd /\ IsFirst(Behind(Readable, E), F)
          /\ BlocksSeen(mi.ch[2]) => BlocksSeen(n.ch[2])
      BY <1>0, <1>1, MNextIs
    <2> HIDE DEF n
    <2>5. IF F = Nil THEN goal.key \notin KeysFrom(0) ELSE AheadInv(F, d, goal.key)
      <3>1. di.skip \in BOOLEAN /\ di.key \in Int
        BY <1>0 DEF DBIterType
      <3> HIDE DEF E, F
      <3> QED
        BY <1>0, <1>1, <1>2, <1>4, <2>3, <2>4, <3>1, HiddenEntry
    <2>6. CASE F = Nil
      <3>1. di' = [d EXCEPT !.at = "idle", !.valid = FALSE, !.key = 0]
        BY <2>2, <2>6
      <3>2. /\ DOMAIN di' = DOMAIN d /\ di'.fwd = d.fwd /\ di'.valid = FALSE /\ di'.key = 0
            /\ di'.at = "idle" /\ di'.skip = d.skip /\ di'.put = d.put
        BY <2>3, <3>1 DEF DBIterType
      <3>3. DBIterType(di')
        <4>1. di'.key \in Int
          BY <3>2
        <4> QED
          BY <2>3, <3>2, <4>1 DEF DBIterType
      <3>4. DBIterInv(mi', di', goal'.key)
        BY <1>1, <2>5, <2>6, <3>2, <3>3 DEF DBIterInv, IdleInv
      <3>5. ErrorInv(mi', di', goal'.all)
        BY <1>0, <1>1, <2>2, <2>3, <2>4, <2>6, <3>2 DEF ErrorInv
      <3> QED
        BY <1>0, <1>1, <1>2, <2>2, <2>4, <3>4, <3>5, IteratorStep
    <2>7. CASE F # Nil
      <3>1. di' = d
        BY <2>2, <2>7
      <3>2. DBIterInv(mi', di', goal'.key)
        BY <1>1, <2>2, <2>3, <2>4, <2>5, <2>7, <3>1 DEF DBIterInv
      <3>3. ErrorInv(mi', di', goal'.all)
        BY <1>0, <1>1, <2>2, <2>3, <2>4, <3>1 DEF ErrorInv
      <3> QED
        BY <1>0, <1>1, <1>2, <2>2, <2>4, <3>2, <3>3, IteratorStep
    <2> QED
      BY <2>6, <2>7
  <1> QED
    BY <1>3, <1>4

LEMMA ScanBackInv ==
  ASSUME IterInv, ScanBack
  PROVE  IterInv'
  <1> DEFINE E == Entry(mi)
             n == MPrev(mi)
             F == Entry(n)
  <1>0. RunsInv /\ MergeInv(mi) /\ DBIterType(di) /\ GoalType /\ ErrorInv(mi, di, goal.all)
    BY DEF IterInv, DBIterInv
  <1>1. /\ di.at = "back" /\ mtab' = mtab /\ blocks' = blocks /\ goal' = goal /\ mi' = n
        /\ di.fwd /\ E # Nil /\ E.k = di.key /\ goal.key = Max(KeysBelow(di.key) \cup {0})
    BY DEF ScanBack, IterInv, DBIterInv
  <1>2. E \in Readable /\ E \in Ent /\ E.k \in Nat /\ GoalType' /\ di.key \in Int
    BY <1>0, <1>1, EntryFacts DEF Ent, GoalType, DBIterType
  <1>3. MergeInv(n) /\ ~n.fwd /\ IsLast(InFront(Readable, E), F)
    BY <1>0, <1>1, MPrevIs
  <1>4. ErrorInv(mi', di', goal'.all)
    BY <1>0, <1>1 DEF ErrorInv
  <1>5. Snapped \subseteq Readable /\ Snapped \subseteq Ent /\ Readable \subseteq Ent /\ \A v \in Snapped : Visible(v)
    BY <1>0, SnapshotFacts, RunFacts
  <1>6. di' = IF F = Nil THEN [di EXCEPT !.at = "idle", !.valid = FALSE, !.key = 0, !.val = 0]
              ELSE IF F.k < di.key THEN [di EXCEPT !.at = "prev", !.put = FALSE, !.fwd = FALSE] ELSE di
    BY DEF ScanBack
  <1>7. F # Nil => F \in Readable /\ F \in Ent /\ F.k \in Nat /\ F.k <= E.k
    BY <1>2, <1>3, <1>5, BeforeOrder DEF IsLast, InFront, Ent
  <1> HIDE DEF n
  <1>8. ASSUME NEW v \in Snapped, v.k < di.key PROVE F # Nil /\ ~Before(F, v)
    <2>1. Before(v, E)
      BY <1>1, <1>8 DEF Before
    <2> QED
      BY <1>3, <1>5, <2>1 DEF IsLast, InFront
  <1>9. DBIterInv(mi', di', goal'.key)
    <2>1. CASE F = Nil
      <3>1. di' = [di EXCEPT !.at = "idle", !.valid = FALSE, !.key = 0, !.val = 0]
        BY <1>6, <2>1
      <3>2. /\ DOMAIN di' = DOMAIN di /\ di'.fwd = di.fwd /\ di'.valid = FALSE /\ di'.key = 0
            /\ di'.at = "idle" /\ di'.skip = di.skip /\ di'.put = di.put
        BY <1>0, <3>1 DEF DBIterType
      <3>3. DBIterType(di')
        <4>1. di'.key \in Int
          BY <3>2
        <4> QED
          BY <1>0, <3>2, <4>1 DEF DBIterType
      <3>4. KeysBelow(di.key) = {}
        <4>1. \A y \in Shows : ~(y.k < di.key)
          BY <1>0, <1>8, <2>1, SnapshotFacts
        <4> QED
          BY <4>1 DEF KeysBelow
      <3>5. goal.key \notin KeysFrom(0)
        <4>1. KeysBelow(di.key) \in SUBSET KeysFrom(0)
          BY <3>4
        <4> QED
          BY <1>0, <1>1, <3>4, <4>1, GoalFacts
      <3> QED
        BY <1>1, <3>2, <3>3, <3>5 DEF DBIterInv, IdleInv
    <2>2. CASE F # Nil /\ F.k < di.key
      <3>1. di' = [di EXCEPT !.at = "prev", !.put = FALSE, !.fwd = FALSE]
        BY <1>6, <2>2
      <3>2. /\ DOMAIN di' = DOMAIN di /\ di'.fwd = FALSE /\ di'.valid = di.valid /\ di'.key = di.key
            /\ di'.at = "prev" /\ di'.skip = di.skip /\ di'.put = FALSE
        BY <1>0, <3>1 DEF DBIterType
      <3>3. DBIterType(di')
        BY <1>0, <3>2 DEF DBIterType
      <3>4. KeysUpTo(F) = KeysBelow(di.key)
        <4> HIDE DEF F
        <4> QED
          BY <1>0, <1>2, <1>7, <1>8, <2>2, BackFinds
      <3>5. BehindInv(F, di', goal'.key)
        BY <1>1, <3>2, <3>4 DEF BehindInv
      <3> QED
        BY <1>1, <1>3, <3>2, <3>3, <3>5 DEF DBIterInv
    <2>3. CASE F # Nil /\ ~(F.k < di.key)
      <3>1. di' = di
        BY <1>6, <2>3
      <3>2. F.k = di.key
        BY <1>1, <1>2, <1>7, <2>3
      <3> QED
        BY <1>0, <1>1, <2>3, <3>1, <3>2 DEF DBIterInv
    <2> QED
      BY <2>1, <2>2, <2>3
  <1> QED
    BY <1>0, <1>1, <1>2, <1>3, <1>4, <1>9, IteratorStep

LEMMA FindPrevUserEntryInv ==
  ASSUME IterInv, FindPrevUserEntry
  PROVE  IterInv'
  <1> DEFINE E == Entry(mi)
             n == MPrev(mi)
             F == Entry(n)
  <1>0. RunsInv /\ MergeInv(mi) /\ DBIterType(di) /\ GoalType /\ ErrorInv(mi, di, goal.all)
    BY DEF IterInv, DBIterInv
  <1>1. /\ di.at = "prev" /\ mtab' = mtab /\ blocks' = blocks /\ goal' = goal
        /\ ~di.fwd /\ ~mi.fwd /\ BehindInv(E, di, goal.key) /\ di.put \in BOOLEAN /\ di.key \in Int
    BY DEF FindPrevUserEntry, IterInv, DBIterInv, DBIterType
  <1>2. E # Nil => E \in Readable /\ E \in Ent /\ E.k \in Nat /\ E.put \in BOOLEAN
    BY <1>0, EntryFacts DEF Ent
  <1>3. GoalType' /\ ErrorInv(mi', di', goal'.all)
    BY <1>0, <1>1 DEF ErrorInv, GoalType
  <1>4. CASE E = Nil \/ (Visible(E) /\ di.put /\ E.k < di.key)
    <2>1. mi' = mi /\ di' = IF di.put THEN [di EXCEPT !.at = "idle", !.valid = TRUE]
                            ELSE [di EXCEPT !.at = "idle", !.valid = FALSE, !.key = 0, !.val = 0, !.fwd = TRUE]
      BY <1>4 DEF FindPrevUserEntry
    <2>2. CASE di.put
      <3>1. di' = [di EXCEPT !.at = "idle", !.valid = TRUE]
        BY <2>1, <2>2
      <3>2. /\ DOMAIN di' = DOMAIN di /\ di'.fwd = di.fwd /\ di'.valid = TRUE /\ di'.key = di.key
            /\ di'.at = "idle" /\ di'.skip = di.skip /\ di'.put = di.put /\ di'.val = di.val
        BY <1>0, <3>1 DEF DBIterType
      <3>3. DBIterType(di')
        BY <1>0, <3>2 DEF DBIterType
      <3>4. PICK x \in Snapped : SavedIs(E, di, x) /\ goal.key = Max(KeysUpTo(x) \cup {0})
        BY <1>1, <2>2 DEF BehindInv
      <3>5. x \in Shows /\ goal.key = di.key
        <4>1. E # Nil => E \in Readable /\ E.k < di.key
          BY <1>2, <1>4
        <4> QED
          BY <1>0, <3>4, <4>1, SavedIsNewest
      <3>6. SavedIs(E, di', x)
        BY <3>2, <3>4 DEF SavedIs
      <3>7. IdleInv(E, mi'.fwd, di', goal'.key)
        BY <1>1, <1>4, <2>1, <3>2, <3>5, <3>6 DEF IdleInv
      <3>8. DBIterInv(mi', di', goal'.key)
        BY <2>1, <3>2, <3>3, <3>7 DEF DBIterInv
      <3> QED
        BY <1>0, <1>1, <1>3, <2>1, <3>8, IteratorStep
    <2>3. CASE ~di.put
      <3>1. di' = [di EXCEPT !.at = "idle", !.valid = FALSE, !.key = 0, !.val = 0, !.fwd = TRUE]
        BY <2>1, <2>3
      <3>2. /\ DOMAIN di' = DOMAIN di /\ di'.fwd = TRUE /\ di'.valid = FALSE /\ di'.key = 0
            /\ di'.at = "idle" /\ di'.skip = di.skip /\ di'.put = di.put
        BY <1>0, <3>1 DEF DBIterType
      <3>3. DBIterType(di')
        <4>1. di'.key \in Int
          BY <3>2
        <4> QED
          BY <1>0, <3>2, <4>1 DEF DBIterType
      <3>4. KeysUpTo(E) = {} /\ goal.key = Max(KeysUpTo(E) \cup {0})
        BY <1>1, <1>4, <2>3 DEF KeysUpTo, BehindInv
      <3>5. goal.key \notin KeysFrom(0)
        <4>1. KeysUpTo(E) \in SUBSET KeysFrom(0)
          BY <3>4
        <4> QED
          BY <1>0, <3>4, <4>1, GoalFacts
      <3>6. DBIterInv(mi', di', goal'.key)
        BY <1>1, <3>2, <3>3, <3>5 DEF DBIterInv, IdleInv
      <3> QED
        BY <1>0, <1>1, <1>3, <2>1, <3>6, IteratorStep
    <2> QED
      BY <2>2, <2>3
  <1>5. CASE ~(E = Nil \/ (Visible(E) /\ di.put /\ E.k < di.key))
    <2>1. mi' = n /\ di' = IF Visible(E) THEN Saved(di, E) ELSE di
      BY <1>5 DEF FindPrevUserEntry
    <2>2. E # Nil /\ E \in Readable /\ E \in Ent /\ E.k \in Nat /\ E.put \in BOOLEAN
      BY <1>2, <1>5
    <2>3. MergeInv(n) /\ ~n.fwd /\ IsLast(InFront(Readable, E), F)
      BY <1>0, <2>2, MPrevIs
    <2> HIDE DEF n
    <2>4. /\ DBIterType(di') /\ di'.at = "prev" /\ ~di'.fwd /\ di'.put \in BOOLEAN
          /\ Visible(E) => di'.put = E.put /\ (E.put => di'.key = E.k /\ di'.val = E.s)
          /\ ~Visible(E) => di'.put = di.put /\ di'.key = di.key /\ di'.val = di.val
      <3>1. CASE ~Visible(E)
        BY <1>0, <1>1, <2>1, <3>1
      <3>2. CASE Visible(E) /\ E.put
        <4>1. di' = [di EXCEPT !.put = TRUE, !.key = E.k, !.val = E.s]
          BY <2>1, <3>2 DEF Saved
        <4>2. /\ DOMAIN di' = DOMAIN di /\ di'.fwd = di.fwd /\ di'.valid = di.valid /\ di'.key = E.k
              /\ di'.at = di.at /\ di'.skip = di.skip /\ di'.put = TRUE /\ di'.val = E.s
          BY <1>0, <4>1 DEF DBIterType
        <4>3. DBIterType(di')
          <5>1. E.k \in Int
            BY <2>2
          <5>2. di'.key \in Int
            BY <4>2, <5>1, Zenon
          <5> QED
            BY <1>0, <4>2, <5>2 DEF DBIterType
        <4>4. di'.put = E.put
          BY <2>2, <3>2, <4>2
        <4> QED
          BY <1>1, <2>2, <3>2, <4>2, <4>3, <4>4
      <3>3. CASE Visible(E) /\ ~E.put
        <4>1. di' = [di EXCEPT !.put = FALSE, !.key = 0, !.val = 0]
          BY <2>1, <3>3 DEF Saved
        <4>2. /\ DOMAIN di' = DOMAIN di /\ di'.fwd = di.fwd /\ di'.valid = di.valid /\ di'.key = 0
              /\ di'.at = di.at /\ di'.skip = di.skip /\ di'.put = FALSE
          BY <1>0, <4>1 DEF DBIterType
        <4>3. DBIterType(di')
          <5>1. di'.key \in Int
            BY <4>2
          <5> QED
            BY <1>0, <4>2, <5>1 DEF DBIterType
        <4>4. di'.put = E.put
          BY <2>2, <3>3, <4>2
        <4> QED
          BY <1>1, <2>2, <3>3, <4>2, <4>3, <4>4
      <3> QED
        BY <3>1, <3>2, <3>3
    <2>5. BehindInv(F, di', goal.key)
      <3> HIDE DEF E, F
      <3> QED
        BY <1>0, <1>1, <1>5, <2>2, <2>3, <2>4, PassedEntry
    <2>6. DBIterInv(mi', di', goal'.key)
      BY <1>1, <2>1, <2>3, <2>4, <2>5 DEF DBIterInv
    <2> QED
      BY <1>0, <1>1, <1>3, <2>1, <2>3, <2>6, IteratorStep
  <1> QED
    BY <1>4, <1>5

LEMMA InsertInv ==
  ASSUME IterInv, NEW k \in ScanKeys, Insert(k)
  PROVE  IterInv'
  <1> DEFINE T == {e.s : e \in mtab} \cup {Snap}
             new == [k |-> k, s |-> Max(T) + 1, put |-> TRUE]
  <1>0. /\ RunsInv /\ MergeInv(mi) /\ DBIterInv(mi, di, goal.key) /\ ErrorInv(mi, di, goal.all) /\ GoalType
        /\ Readable = Run(1) \cup Run(2) /\ Run(1) = mtab /\ Sorted(Readable)
    BY RunFacts DEF IterInv, RunsInv
  <1>1. mtab' = mtab \cup {new} /\ blocks' = blocks /\ mi' = mi /\ di' = di /\ goal' = goal
    BY DEF Insert
  <1>2. Max(T) \in Nat /\ Snap <= Max(T) /\ \A e \in mtab : e.s <= Max(T)
    <2>1. \A e \in mtab : e.s \in Nat
      BY <1>0 DEF Sorted, Ent
    <2>2. IsFiniteSet(mtab)
      BY <1>0, RunFacts DEF Sorted
    <2>3. IsFiniteSet({e.s : e \in mtab})
      <3>1. [e \in mtab |-> e.s] \in Surjection(mtab, {e.s : e \in mtab})
        BY DEF Surjection
      <3> QED
        BY <2>2, <3>1, FS_Surjection
    <2>4. IsFiniteSet(T) /\ T \in SUBSET Int /\ T # {} /\ T \in SUBSET Nat /\ Snap \in T /\ \A e \in mtab : e.s \in T
      BY <2>1, <2>3, FS_AddElement, ScanAssumption
    <2> HIDE DEF T
    <2>5. Max(T) \in T /\ \A x \in T : Max(T) >= x
      BY <2>4, MinMaxOf
    <2>6. PICK n : n = Max(T)
      OBVIOUS
    <2>7. n \in Nat /\ Snap <= n /\ \A e \in mtab : e.s <= n
      <3>1. \A x \in T : x \in Nat /\ x <= n
        BY <2>4, <2>5, <2>6
      <3> QED
        BY <2>4, <2>5, <2>6, <3>1
    <2> QED
      BY <2>6, <2>7
  <1>3. new \in Ent /\ new.s > Snap /\ ~Visible(new) /\ new.k \in ScanKeys /\ \A e \in Readable : e.s < new.s
    <2>1. PICK n : n = Max(T)
      OBVIOUS
    <2>2. new.s = n + 1 /\ new.k = k /\ n \in Nat /\ Snap <= n /\ \A e \in mtab : e.s <= n
      BY <1>2, <2>1
    <2>3. new \in Ent
      BY <1>2, ScanAssumption DEF Ent
    <2>4. \A e \in Readable : e.s \in Nat
      BY <1>0 DEF Sorted, Ent
    <2>5. \A e \in Run(2) : e.s <= Snap
      BY <1>0 DEF Run, RunsInv, BlocksInv, Visible
    <2>6. \A e \in Readable : e.s < n + 1
      BY <1>0, <2>2, <2>4, <2>5, ScanAssumption
    <2> HIDE DEF new
    <2> QED
      BY <2>2, <2>3, <2>6, ScanAssumption DEF Visible
  <1> HIDE DEF new
  <1>4. \A i : Es(i)' = Es(i)
    BY <1>1 DEF Es
  <1>5. Run(1)' = Run(1) \cup {new} /\ Run(2)' = Run(2) /\ Readable' = Readable \cup {new}
    BY <1>0, <1>1 DEF Run, Readable, Es
  <1>6. new \notin Readable
    BY <1>0, <1>3 DEF Sorted, Ent
  <1>7. RunsInv'
    <2>1. Sorted(Readable \cup {new})
      <3>1. \A a, b \in Readable \cup {new} : a.s = b.s => a = b
        BY <1>0, <1>3 DEF Sorted, Ent
      <3> QED
        BY <1>0, <1>3, <3>1, FS_AddElement DEF Sorted
    <2>2. Sorted(Readable)'
      BY <1>5, <2>1 DEF Sorted
    <2>3. (Run(1) \cap Run(2))' = {}
      BY <1>0, <1>5, <1>6 DEF RunsInv
    <2>4. BlocksInv'
      BY <1>0, <1>1, <1>4 DEF RunsInv, BlocksInv, Es, Visible, Before
    <2> QED
      BY <2>2, <2>3, <2>4 DEF RunsInv
  <1>8. Snapped' = Snapped
    BY <1>3, <1>5 DEF Snapped, Visible
  <1>9. DBIterInv(mi, di, goal.key)'
    <2>1. DBIterInv(mi', di', goal'.key)
      BY <1>0, <1>1
    <2> QED
      BY <1>8, <2>1, SnapshotStays
  <1>10. ErrorInv(mi, di, goal.all)'
    BY <1>0, <1>1, <1>4 DEF ErrorInv, BlocksSeen, Entry
  <1>11. MergeInv(mi)'
    <2>1. ASSUME NEW c \in 1 .. 2 PROVE ChildInv(c, mi.ch[c])'
      <3>1. ChildInv(c, mi.ch[c])
        BY <1>0 DEF MergeInv
      <3> QED
        BY <1>1, <1>4, <3>1 DEF ChildInv
    <2>2. ASSUME NEW c \in 1 .. 2, mi.cur # 0, c # mi.cur
          PROVE  IF mi.fwd THEN IsFirst(Behind(Run(c)', Entry(mi)), mi.ch[c].e)
                 ELSE IsLast(InFront(Run(c)', Entry(mi)), mi.ch[c].e)
      <3>1. IF mi.fwd THEN IsFirst(Behind(Run(c), Entry(mi)), mi.ch[c].e)
            ELSE IsLast(InFront(Run(c), Entry(mi)), mi.ch[c].e)
        BY <1>0, <2>2 DEF MergeInv
      <3>2. Run(c) \subseteq Run(c)' /\ \A v \in Run(c)' : Visible(v) => v \in Run(c)
        <4>1. Run(1)' = Run(1) \cup {new} /\ Run(2)' = Run(2) /\ c \in {1, 2}
          BY <1>5
        <4>2. CASE c = 1
          BY <1>3, <4>1, <4>2
        <4>3. CASE c = 2
          BY <4>1, <4>3
        <4> QED
          BY <4>1, <4>2, <4>3
      <3>3. PICK R : R = Run(c)'
        OBVIOUS
      <3> QED
        BY <3>1, <3>2, <3>3 DEF IsFirst, IsLast, Behind, InFront
    <2> QED
      BY <1>0, <1>1, <2>1, <2>2 DEF MergeInv, Entry, IsFirst, IsLast, Behind, InFront
  <1>12. GoalType'
    BY <1>0, <1>1 DEF GoalType
  <1> QED
    BY <1>7, <1>9, <1>10, <1>11, <1>12 DEF IterInv

-----------------------------------------------------------------------------
(* The database the iterator is made for *)

\* The entries of a set in order.
LEMMA InRunOrderIs ==
  ASSUME NEW S, Sorted(S), NEW s, s = InRunOrder(S)
  PROVE  /\ DOMAIN s = 1 .. Len(s) /\ Len(s) \in Nat
         /\ \A i \in DOMAIN s : s[i] \in S
         /\ \A i, j \in DOMAIN s : i < j => Before(s[i], s[j])
  <1> DEFINE Lower(e) == {x \in S : Before(x, e)}
             n == Cardinality(S)
  <1>0. S \subseteq Ent /\ IsFiniteSet(S) /\ n \in Nat
    BY FS_CardinalityType DEF Sorted
  <1>1. ASSUME NEW e \in S PROVE IsFiniteSet(Lower(e)) /\ Cardinality(Lower(e)) \in 0 .. n - 1
    <2>1. Lower(e) \subseteq S /\ e \notin Lower(e)
      BY <1>0, BeforeOrder
    <2>2. IsFiniteSet(Lower(e)) /\ Cardinality(Lower(e)) <= n /\ (Cardinality(Lower(e)) = n => Lower(e) = S)
      BY <1>0, <2>1, FS_Subset
    <2>3. Cardinality(Lower(e)) \in Nat /\ Cardinality(Lower(e)) # n
      BY <2>1, <2>2, FS_CardinalityType
    <2> QED
      BY <1>0, <2>2, <2>3
  <1>2. PICK rank : rank = [e \in S |-> Cardinality(Lower(e))]
    OBVIOUS
  <1>3. rank \in [S -> 0 .. n - 1] /\ \A e \in S : rank[e] = Cardinality(Lower(e))
    BY <1>1, <1>2
  <1>4. ASSUME NEW e \in S, NEW f \in S, Before(e, f) PROVE rank[e] < rank[f]
    <2>1. Lower(e) \subseteq Lower(f) /\ e \in Lower(f) /\ e \notin Lower(e)
      BY <1>0, <1>4, BeforeOrder
    <2>2. Cardinality(Lower(e)) <= Cardinality(Lower(f)) /\ (Cardinality(Lower(e)) = Cardinality(Lower(f)) => Lower(e) = Lower(f))
      BY <1>1, <2>1, FS_Subset
    <2>3. rank[e] <= rank[f] /\ rank[e] # rank[f]
      BY <1>3, <2>1, <2>2
    <2>4. rank[e] \in Int /\ rank[f] \in Int
      BY <1>3
    <2> QED
      BY <2>3, <2>4
  <1>5. ASSUME NEW e \in S, NEW f \in S, e # f PROVE Before(e, f) \/ Before(f, e)
    BY <1>0, <1>5, BeforeOrder DEF Sorted
  <1>6. rank \in Injection(S, 0 .. n - 1)
    <2>1. ASSUME NEW e \in S, NEW f \in S, rank[e] = rank[f] PROVE e = f
      <3>1. rank[e] \in Int /\ rank[f] \in Int
        BY <1>3
      <3> QED
        BY <1>4, <1>5, <2>1, <3>1
    <2> QED
      BY <1>3, <2>1 DEF Injection, IsInjective
  <1>7. rank \in Surjection(S, 0 .. n - 1)
    <2>1. IsFiniteSet(0 .. n - 1) /\ Cardinality(0 .. n - 1) = n
      BY <1>0, FS_Interval
    <2> QED
      BY <1>6, <2>1, FS_Injection
  <1>8. \A m \in 0 .. n - 1 : \E e \in S : rank[e] = m
    BY <1>7 DEF Surjection
  <1>9. s = [i \in 1 .. n |-> CHOOSE e \in S : Cardinality(Lower(e)) = i - 1]
    BY DEF InRunOrder
  <1> HIDE DEF n
  <1>10. ASSUME NEW i \in 1 .. n PROVE s[i] \in S /\ rank[s[i]] = i - 1
    <2>1. i - 1 \in 0 .. n - 1
      BY <1>0
    <2>2. \E e \in S : Cardinality(Lower(e)) = i - 1
      BY <1>3, <1>8, <2>1
    <2>3. s[i] = CHOOSE e \in S : Cardinality(Lower(e)) = i - 1
      BY <1>9
    <2> HIDE DEF Lower
    <2>4. s[i] \in S /\ Cardinality(Lower(s[i])) = i - 1
      BY <2>2, <2>3
    <2> QED
      BY <1>3, <2>4
  <1>11. s \in [1 .. n -> S]
    BY <1>9, <1>10
  <1>12. DOMAIN s = 1 .. Len(s) /\ Len(s) \in Nat /\ DOMAIN s = 1 .. n
    <2>1. s \in Seq(S)
      BY <1>0, <1>11, SeqDef
    <2> QED
      BY <1>11, <2>1, LenProperties
  <1>13. ASSUME NEW i \in 1 .. n, NEW j \in 1 .. n, i < j PROVE Before(s[i], s[j])
    <2>1. s[i] \in S /\ s[j] \in S /\ rank[s[i]] = i - 1 /\ rank[s[j]] = j - 1
      BY <1>10
    <2>2. i \in Int /\ j \in Int /\ ~(j - 1 < i - 1) /\ i - 1 # j - 1
      BY <1>0, <1>13
    <2>3. s[i] # s[j] /\ ~(rank[s[j]] < rank[s[i]])
      BY <2>1, <2>2
    <2> QED
      BY <1>4, <1>5, <2>1, <2>3
  <1> QED
    BY <1>10, <1>12, <1>13

\* The index keys of a table separate its blocks.
LEMMA TableIs ==
  ASSUME NEW es, Sorted(es), \A e \in es : Visible(e), NEW ends \in SUBSET es, NEW bad,
         blocks = Table(es, ends, bad)
  PROVE  BlocksInv /\ \A i \in DOMAIN blocks : Es(i) \subseteq es
  <1> DEFINE s == InRunOrder(ends)
             next(i) == IF i = Len(s) THEN NoKey ELSE After(es, s[i]).k
  <1>0. es \subseteq Ent /\ Nil \notin Ent
    BY NilAssumption DEF Sorted, Ent
  <1>1. /\ DOMAIN s = 1 .. Len(s) /\ Len(s) \in Nat
        /\ \A i \in DOMAIN s : s[i] \in es
        /\ \A i, j \in DOMAIN s : i < j => Before(s[i], s[j])
    BY SortedPart, InRunOrderIs
  <1>2. /\ DOMAIN blocks = DOMAIN s
        /\ \A i \in DOMAIN s :
             /\ blocks[i].es = IF i = bad THEN {} ELSE {e \in es : ~Before(s[i], e) /\ (i > 1 => Before(s[i - 1], e))}
             /\ blocks[i].key = IndexKey(s[i], next(i))
    BY DEF Table
  <1> HIDE DEF s, next
  <1>3. Len(blocks) \in Nat /\ DOMAIN blocks = 1 .. Len(blocks)
    <2>1. blocks \in [1 .. Len(s) -> {blocks[i] : i \in DOMAIN s}]
      <3>1. blocks = [i \in 1 .. Len(s) |-> blocks[i]]
        BY <1>1 DEF Table, s
      <3> QED
        BY <1>1, <3>1
    <2>2. blocks \in Seq({blocks[i] : i \in DOMAIN s})
      BY <1>1, <2>1, SeqDef
    <2> QED
      BY <2>2, LenProperties
  <1>4. ASSUME NEW i \in DOMAIN blocks
        PROVE  Es(i) \subseteq es /\ \A e \in Es(i) : ~Before(s[i], e) /\ (i > 1 => Before(s[i - 1], e))
    BY <1>1, <1>2, <1>3 DEF Es
  <1>5. ASSUME NEW i \in DOMAIN blocks
        PROVE  \/ blocks[i].key = s[i]
               \/ /\ blocks[i].key = [k |-> s[i].k + 1, s |-> Top, put |-> TRUE]
                  /\ next(i) > s[i].k + 1
    BY <1>2 DEF IndexKey
  <1>6. ASSUME NEW i \in DOMAIN blocks PROVE s[i] \in Ent /\ s[i].k \in Nat
    BY <1>0, <1>1, <1>2 DEF Ent
  <1>7. ASSUME NEW i \in DOMAIN blocks PROVE blocks[i].key \in Ent
    <2>0. s[i] \in Ent /\ s[i].k \in Nat /\ s[i].k + 1 \in Nat
      BY <1>6
    <2>1. Top \in Nat
      BY ScanAssumption DEF Top
    <2>2. CASE blocks[i].key = s[i]
      BY <2>0, <2>2
    <2>3. CASE blocks[i].key = [k |-> s[i].k + 1, s |-> Top, put |-> TRUE]
      <3>1. [k |-> s[i].k + 1, s |-> Top, put |-> TRUE] \in Ent
        BY <2>0, <2>1 DEF Ent
      <3> QED
        BY <2>3, <3>1
    <2> QED
      BY <1>5, <2>2, <2>3
  <1>8. ASSUME NEW i \in DOMAIN blocks, NEW e \in Es(i) PROVE ~Before(blocks[i].key, e)
    <2>1. ~Before(s[i], e) /\ e \in Ent /\ e.k \in Nat
      BY <1>0, <1>4 DEF Ent
    <2>2. s[i] \in Ent /\ s[i].k \in Nat
      BY <1>6
    <2>3. e.k <= s[i].k
      BY <2>1, <2>2 DEF Before
    <2>4. CASE blocks[i].key = s[i]
      BY <2>1, <2>4
    <2>5. CASE blocks[i].key = [k |-> s[i].k + 1, s |-> Top, put |-> TRUE]
      <3>1. blocks[i].key.k = s[i].k + 1
        BY <2>5
      <3> QED
        BY <2>1, <2>2, <2>3, <3>1 DEF Before
    <2> QED
      BY <1>5, <2>4, <2>5
  <1>9. ASSUME NEW i \in DOMAIN blocks, NEW j \in DOMAIN blocks, i < j, NEW e \in Es(j)
        PROVE  Before(blocks[i].key, e)
    <2>0. e \in es /\ e \in Ent /\ e.k \in Nat
      BY <1>0, <1>4 DEF Ent
    <2>1. Before(s[i], e)
      <3>1. j > 1 /\ j - 1 \in DOMAIN blocks /\ i \in Int /\ j \in Int /\ i <= j - 1
        BY <1>3, <1>9
      <3>2. Before(s[j - 1], e)
        BY <1>4, <3>1
      <3>3. i = j - 1 \/ Before(s[i], s[j - 1])
        BY <1>1, <1>2, <3>1
      <3> QED
        BY <1>6, <2>0, <3>1, <3>2, <3>3, BeforeOrder
    <2>2. CASE blocks[i].key = s[i]
      BY <2>1, <2>2
    <2>3. CASE blocks[i].key = [k |-> s[i].k + 1, s |-> Top, put |-> TRUE] /\ next(i) > s[i].k + 1
      <3>1. i # Len(s)
        BY <1>1, <1>2, <1>9
      <3>2. next(i) = After(es, s[i]).k
        BY <3>1 DEF next
      <3> DEFINE A == {v \in es : Before(s[i], v)}
      <3>3. e \in A /\ A \subseteq Ent
        BY <1>0, <2>0, <2>1
      <3>4. IsLeast(A, After(es, s[i]))
        BY SortedPart, LeastIs DEF After
      <3>5. After(es, s[i]) \in Ent /\ ~Before(e, After(es, s[i]))
        BY <3>3, <3>4 DEF IsLeast
      <3>6. After(es, s[i]).k <= e.k /\ After(es, s[i]).k \in Nat
        BY <2>0, <3>5, BeforeOrder DEF Ent
      <3>7. s[i].k + 1 < e.k
        BY <1>6, <2>0, <2>3, <3>2, <3>6
      <3> QED
        BY <2>3, <3>7 DEF Before
    <2> QED
      BY <1>5, <2>2, <2>3
  <1>10. \A i \in DOMAIN blocks : Es(i) \subseteq es /\ \A e \in Es(i) : Visible(e)
    BY <1>4
  <1> QED
    BY <1>3, <1>7, <1>8, <1>9, <1>10 DEF BlocksInv

LEMMA IterInitInv == IterInit => IterInv
  <1> SUFFICES ASSUME IterInit PROVE IterInv
    OBVIOUS
  <1>0. /\ mi = [ch |-> <<[e |-> Nil, b |-> 0, err |-> FALSE], [e |-> Nil, b |-> 0, err |-> FALSE]>>, cur |-> 0, fwd |-> TRUE]
        /\ di = Unset /\ goal = [key |-> 0, all |-> FALSE]
    BY DEF IterInit
  <1>1. PICK w \in [1 .. Snap -> [k : ScanKeys, put : BOOLEAN]], flushed \in 1 .. Snap - 1 :
          /\ mtab = {[k |-> w[s].k, s |-> s, put |-> w[s].put] : s \in flushed + 1 .. Snap}
          /\ blocks \in Tables({[k |-> w[s].k, s |-> s, put |-> w[s].put] : s \in 1 .. flushed})
    BY DEF IterInit
  <1>2. PICK ent : ent = [s \in 1 .. Snap |-> [k |-> w[s].k, s |-> s, put |-> w[s].put]]
    OBVIOUS
  <1>3. \A s \in 1 .. Snap : ent[s] \in Ent /\ ent[s].s = s /\ ent[s].k \in ScanKeys
    <2> SUFFICES ASSUME NEW s \in 1 .. Snap PROVE ent[s] \in Ent /\ ent[s].s = s /\ ent[s].k \in ScanKeys
      OBVIOUS
    <2>1. w[s] \in [k : ScanKeys, put : BOOLEAN]
      BY <1>1
    <2>2. w[s].k \in ScanKeys /\ w[s].k \in Nat /\ w[s].put \in BOOLEAN /\ s \in Nat
      <3>1. w[s].k \in ScanKeys /\ w[s].put \in BOOLEAN
        BY <2>1
      <3>2. ScanKeys \subseteq Nat /\ Snap \in Nat
        BY ScanAssumption
      <3>3. s \in Nat
        BY <3>2
      <3> QED
        BY <3>1, <3>2, <3>3
    <2>3. ent[s] = [k |-> w[s].k, s |-> s, put |-> w[s].put]
      BY <1>2
    <2>4. [k |-> w[s].k, s |-> s, put |-> w[s].put] \in Ent
      BY <2>2 DEF Ent
    <2> QED
      BY <2>2, <2>3, <2>4
  <1> DEFINE es == {ent[s] : s \in 1 .. flushed}
             all == {ent[s] : s \in 1 .. Snap}
  <1>4. mtab = {ent[s] : s \in flushed + 1 .. Snap} /\ blocks \in Tables(es)
    <2>1. flushed \in Nat /\ flushed < Snap /\ Snap \in Nat
      BY ScanAssumption
    <2>2. \A s \in flushed + 1 .. Snap : ent[s] = [k |-> w[s].k, s |-> s, put |-> w[s].put]
      BY <1>2, <2>1
    <2>3. \A s \in 1 .. flushed : ent[s] = [k |-> w[s].k, s |-> s, put |-> w[s].put]
      BY <1>2, <2>1
    <2>4. {ent[s] : s \in flushed + 1 .. Snap} = {[k |-> w[s].k, s |-> s, put |-> w[s].put] : s \in flushed + 1 .. Snap}
      BY <2>2
    <2>5. es = {[k |-> w[s].k, s |-> s, put |-> w[s].put] : s \in 1 .. flushed}
      BY <2>3
    <2> QED
      BY <1>1, <2>4, <2>5, Zenon
  <1>5. Sorted(all)
    <2>1. ent \in Surjection(1 .. Snap, all)
      BY <1>2 DEF Surjection
    <2>2. IsFiniteSet(1 .. Snap)
      BY ScanAssumption, FS_Interval
    <2>3. IsFiniteSet(all)
      BY <2>1, <2>2, FS_Surjection
    <2> QED
      BY <1>3, <2>3 DEF Sorted
  <1>6. es \in SUBSET all /\ mtab \in SUBSET all /\ es \cap mtab = {}
    BY <1>3, <1>4, ScanAssumption
  <1>7. \A e \in all : Visible(e)
    BY <1>3, ScanAssumption DEF Visible
  <1>8. PICK ends \in SUBSET es, bad \in 0 .. Cardinality(es) : blocks = Table(es, ends, bad)
    <2> HIDE DEF es
    <2>1. PICK S : S = es
      OBVIOUS
    <2>2. blocks \in Tables(S)
      BY <1>4, <2>1
    <2>3. \E ends \in SUBSET S, bad \in 0 .. Cardinality(S) : blocks = Table(S, ends, bad)
      BY <2>2 DEF Tables
    <2> QED
      BY <2>1, <2>3
  <1> HIDE DEF es, all
  <1>9. BlocksInv /\ \A i \in DOMAIN blocks : Es(i) \subseteq es
    BY <1>5, <1>6, <1>7, <1>8, SortedPart, TableIs
  <1>10. RunsInv
    <2>1. Run(1) = mtab /\ Run(2) \subseteq es /\ Readable \in SUBSET all
      BY <1>6, <1>9 DEF Run, Readable
    <2> QED
      BY <1>5, <1>6, <1>9, <2>1, SortedPart DEF RunsInv
  <1>11. MergeInv(mi)
    <2>1. /\ mi.cur = 0 /\ mi.fwd /\ DOMAIN mi = {"ch", "cur", "fwd"} /\ DOMAIN mi.ch = 1 .. 2
          /\ mi.ch[1] = [e |-> Nil, b |-> 0, err |-> FALSE] /\ mi.ch[2] = [e |-> Nil, b |-> 0, err |-> FALSE]
      BY <1>0
    <2>2. \A c \in 1 .. 2 : mi.ch[c] = [e |-> Nil, b |-> 0, err |-> FALSE]
      BY <2>1
    <2>3. PICK child : child = [e |-> Nil, b |-> 0, err |-> FALSE]
      OBVIOUS
    <2>4. DOMAIN child = {"e", "b", "err"} /\ child.e = Nil /\ child.b = 0 /\ child.err \in BOOLEAN
      BY <2>3
    <2>5. \A c \in 1 .. 2 : mi.ch[c] = child
      BY <2>2, <2>3
    <2>6. \A c \in 1 .. 2 : ChildInv(c, child)
      BY <2>4 DEF ChildInv
    <2> QED
      BY <2>1, <2>4, <2>5, <2>6 DEF MergeInv
  <1>12. DBIterInv(mi, di, goal.key)
    <2>1. 0 \notin KeysFrom(0)
      BY <1>10, SnapshotFacts, ScanAssumption
    <2>2. DBIterType(di)
      BY <1>0 DEF DBIterType, Unset
    <2>3. di.at = "idle" /\ ~di.valid /\ goal.key = 0
      BY <1>0 DEF Unset
    <2> QED
      BY <2>1, <2>2, <2>3 DEF DBIterInv, IdleInv
  <1>13. ErrorInv(mi, di, goal.all) /\ GoalType
    BY <1>0 DEF ErrorInv, GoalType
  <1> QED
    BY <1>10, <1>11, <1>12, <1>13 DEF IterInv

LEMMA IterNextInv == IterInv /\ [IterNext]_ivars => IterInv'
  <1> SUFFICES ASSUME IterInv, [IterNext]_ivars PROVE IterInv'
    OBVIOUS
  <1>1. CASE Call
    <2>0. di.at = "idle" /\ mtab' = mtab /\ blocks' = blocks
      BY <1>1 DEF Call
    <2>1. ASSUME NEW t \in Targets, CallSeek(t),
                 goal' = [key |-> Min({k \in ShownKeys : k >= t} \cup {NoKey}), all |-> FALSE]
          PROVE  IterInv'
      BY <2>0, <2>1, CallSeekInv
    <2>2. ASSUME CallSeekToFirst, goal' = [key |-> Min(ShownKeys \cup {NoKey}), all |-> ~mi.ch[2].err]
          PROVE  IterInv'
      BY <2>0, <2>2, CallSeekToFirstInv
    <2>3. ASSUME CallSeekToLast, goal' = [key |-> Max(ShownKeys \cup {0}), all |-> FALSE]
          PROVE  IterInv'
      BY <2>0, <2>3, CallSeekToLastInv
    <2>4. ASSUME CallNext, goal' = [goal EXCEPT !.key = Min({k \in ShownKeys : k > @} \cup {NoKey})]
          PROVE  IterInv'
      BY <2>0, <2>4, CallNextInv
    <2>5. ASSUME CallPrev, goal' = [key |-> Max({k \in ShownKeys : k < goal.key} \cup {0}), all |-> FALSE]
          PROVE  IterInv'
      BY <2>0, <2>5, CallPrevInv
    <2> QED
      BY <1>1, <2>1, <2>2, <2>3, <2>4, <2>5 DEF Call
  <1>2. CASE FindNextUserEntry
    BY <1>2, FindNextUserEntryInv
  <1>3. CASE ScanBack
    BY <1>3, ScanBackInv
  <1>4. CASE FindPrevUserEntry
    BY <1>4, FindPrevUserEntryInv
  <1>5. ASSUME NEW k \in ScanKeys, Insert(k) PROVE IterInv'
    BY <1>5, InsertInv
  <1>6. CASE UNCHANGED ivars
    <2>1. mtab' = mtab /\ blocks' = blocks /\ mi' = mi /\ di' = di /\ goal' = goal
      BY <1>6 DEF ivars
    <2>2. MergeInv(mi') /\ DBIterInv(mi', di', goal'.key) /\ ErrorInv(mi', di', goal'.all) /\ GoalType' /\ RunsInv
      BY <2>1 DEF IterInv, GoalType
    <2> QED
      BY <2>1, <2>2, IteratorStep
  <1> QED
    BY <1>1, <1>2, <1>3, <1>4, <1>5, <1>6 DEF IterNext

\* An iterator shows what its snapshot holds.  Between two calls it is at the
\* key it should be at, with the value of the snapshot, in any order of Seek,
\* Next and Prev, over any table and memtable, for any number of writes that
\* are inserted while it moves; and a scan over all keys that missed a block
\* of the table says so (db_iter.cc, merger.cc, two_level_iterator.cc).
THEOREM ScansShowTheSnapshot == IterSpec => []IteratorIsRight
  <1>1. IterInv => IteratorIsRight
    <2> SUFFICES ASSUME IterInv PROVE IteratorIsRight
      OBVIOUS
    <2>0. RunsInv /\ MergeInv(mi) /\ DBIterInv(mi, di, goal.key) /\ ErrorInv(mi, di, goal.all)
      BY DEF IterInv
    <2>1. /\ ShownKeys = KeysFrom(0) /\ KeysFrom(0) = {e.k : e \in Shows}
          /\ \A x \in Shows : Newest(x.k) = x
      BY <2>0, SnapshotFacts
    <2>2. IterIsRight
      <3> SUFFICES ASSUME di.at = "idle"
                   PROVE  /\ di.valid <=> goal.key \in ShownKeys
                          /\ di.valid => /\ (IF di.fwd THEN Entry(mi).k ELSE di.key) = goal.key
                                         /\ (IF di.fwd THEN Entry(mi).s ELSE di.val) = Newest(goal.key).s
        BY DEF IterIsRight
      <3>0. IdleInv(Entry(mi), mi.fwd, di, goal.key) /\ di.valid \in BOOLEAN /\ di.fwd \in BOOLEAN
        BY <2>0 DEF DBIterInv, DBIterType
      <3>1. CASE ~di.valid
        BY <2>1, <3>0, <3>1 DEF IdleInv
      <3>2. CASE di.valid /\ di.fwd
        BY <2>1, <3>0, <3>2 DEF IdleInv
      <3>3. CASE di.valid /\ ~di.fwd
        <4>1. PICK x \in Shows : SavedIs(Entry(mi), di, x) /\ goal.key = di.key
          BY <3>0, <3>3 DEF IdleInv
        <4>2. x.k = goal.key /\ x.s = di.val
          BY <4>1 DEF SavedIs
        <4> QED
          BY <2>1, <3>3, <4>1, <4>2
      <3> QED
        BY <3>0, <3>1, <3>2, <3>3
    <2>3. ScanReportsErrors
      <3> SUFFICES ASSUME di.at = "idle", goal.all, ~di.valid, NEW i \in DOMAIN blocks, Es(i) = {}
                   PROVE  mi.ch[2].err
        BY DEF ScanReportsErrors
      <3>1. Entry(mi) = Nil /\ BlocksSeen(mi.ch[2])
        BY <2>0 DEF ErrorInv
      <3>2. mi.ch[2].e = Nil /\ mi.ch[2].b \in Int
        BY <2>0, <3>1 DEF MergeInv, ChildInv
      <3> QED
        BY <2>0, <3>1, <3>2, RunFacts DEF BlocksSeen
    <2> QED
      BY <2>2, <2>3 DEF IteratorIsRight
  <1> QED
    BY <1>1, IterInitInv, IterNextInv, PTL DEF IterSpec
=============================================================================
