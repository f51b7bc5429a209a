--------------------------- MODULE SSDBZsetProofs ---------------------------
(***************************************************************************)
(* The three copies of a zset agree as long as no read fails, and ranks    *)
(* and scans, which read the index only, follow the scores.  After failed  *)
(* reads zfix still repairs what it promises to, and pages are still those *)
(* of the index.  All of it for every set of keys, every width of the      *)
(* scores and every neighbouring zset.                                     *)
(***************************************************************************)
EXTENDS SSDBZset, FiniteSetTheorems, WellFoundedInduction, TLAPS

(***************************************************************************)
(* Row keys: the byte order of the index is the order of the scores.       *)
(***************************************************************************)

\* Row keys of one zset compare like their scores, then like their keys.
LEMMA EncodeOrder ==
  ASSUME NEW j \in Int, NEW k \in Int, NEW s \in Score, NEW t \in Score
  PROVE  Before(encode_zscore_key(j, s), encode_zscore_key(k, t))
           <=> s < t \/ (s = t /\ j < k)
  <1> DEFINE p == encode_zscore_key(j, s)
             q == encode_zscore_key(k, t)
  <1>1. /\ p.name = Name /\ p.key = j /\ p.bits = encode_score(s)
        /\ p.sign = (IF s < 0 THEN 0 ELSE 1)
        /\ q.name = Name /\ q.key = k /\ q.bits = encode_score(t)
        /\ q.sign = (IF t < 0 THEN 0 ELSE 1)
    BY DEF encode_zscore_key
  <1> HIDE DEF p, q
  <1>2. Before(p, q) <=> s < t \/ (s = t /\ j < k)
    BY <1>1, ScoreAssumption, NameAssumption DEF Before, encode_score, Score, ScoreMin
  <1> QED
    BY <1>2 DEF p, q

\* A row key of the index gives back what it was made of.
LEMMA DecodeEncode ==
  ASSUME NEW k, NEW s \in Score
  PROVE  /\ decode_score(encode_zscore_key(k, s).bits) = s
         /\ encode_zscore_key(k, s).key = k
         /\ encode_zscore_key(k, s).name = Name
  BY ScoreAssumption DEF decode_score, encode_zscore_key, encode_score, Score, ScoreMin

\* Whatever a caller passes, zset stores an int64_t.
LEMMA FilterType == ASSUME NEW x \in Int PROVE filter_score(x) \in Score
  BY ScoreAssumption DEF filter_score, Score, ScoreMin

\* The sum of zincr is an int64_t too, wrapped around or not.
LEMMA AddType ==
  ASSUME NEW s \in Score, NEW t \in Score PROVE AddInt64(s, t) \in Score
  BY ScoreAssumption DEF AddInt64, Score, ScoreMin

(***************************************************************************)
(* The index rows of a set of keys.                                        *)
(***************************************************************************)

RowsOf(S) == {encode_zscore_key(k, zsetRow[k]) : k \in S}

\* The three copies agree, and nothing else is in the index.
Healthy ==
  /\ zsetRow \in [Key -> Score \cup {NoScore}]
  /\ zscoreRow = Others \cup RowsOf(Members)
  /\ zsizeRow = Cardinality(Members)

\* Failures are never forgotten; until the first one the copies agree.
Inv == faults \in Nat /\ (faults = 0 => Healthy)

\* Keys lie strictly between the empty string and "\xff".
LEMMA MemberType ==
  ASSUME Healthy, NEW k \in Members
  PROVE  k \in Key /\ k \in Int /\ zsetRow[k] \in Score /\ zsetRow[k] \in Int
         /\ 0 < k /\ k < Xff
  BY KeyAssumption, ScoreAssumption DEF Healthy, Members, Score, ScoreMin

\* The index rows of this zset are those of its keys.
LEMMA IndexIsRows == ASSUME Healthy PROVE Index = RowsOf(Members)
  <1>1. \A k \in Members : encode_zscore_key(k, zsetRow[k]).name = Name
    BY DEF encode_zscore_key
  <1>2. \A r \in Others : r.name # Name
    BY NameAssumption
  <1> QED
    BY <1>1, <1>2 DEF Index, RowsOf, Healthy

\* The keys can be counted.
LEMMA MembersFinite == IsFiniteSet(Members) /\ Cardinality(Members) \in Nat
  BY KeyAssumption, FS_Subset, FS_CardinalityType DEF Members

\* One row per key: as many rows as keys.
LEMMA RowsCard ==
  ASSUME Healthy, NEW S \in SUBSET Members
  PROVE  Cardinality(RowsOf(S)) = Cardinality(S)
  <1> DEFINE f == [k \in S |-> encode_zscore_key(k, zsetRow[k])]
  <1>1. IsFiniteSet(S)
    BY MembersFinite, FS_Subset
  <1>2. \A k \in S : f[k] \in RowsOf(S) /\ f[k].key = k
    BY DEF RowsOf, encode_zscore_key
  <1>3. \A r \in RowsOf(S) : \E k \in S : f[k] = r
    BY DEF RowsOf
  <1>4. f \in [S -> RowsOf(S)]
    BY <1>2
  <1> HIDE DEF f
  <1>5. f \in Bijection(S, RowsOf(S))
    BY <1>2, <1>3, <1>4 DEF Bijection, Injection, Surjection, IsInjective
  <1>6. ExistsBijection(S, RowsOf(S))
    BY <1>5 DEF ExistsBijection
  <1> QED
    BY <1>1, <1>6, FS_Bijection

(***************************************************************************)
(* The operations.                                                         *)
(***************************************************************************)

\* An empty database is healthy.
LEMMA InitInv == Init => Inv
  <1> SUFFICES ASSUME Init PROVE Healthy
    BY DEF Inv, Init
  <1>1. Members = {} /\ RowsOf(Members) = {}
    BY DEF Init, Members, RowsOf
  <1> QED
    BY <1>1, FS_EmptySet DEF Init, Healthy

\* zset_one replaces the row of the old score, and counts a new key.
LEMMA ZsetOneHealthy ==
  ASSUME Healthy, NEW k \in Key, NEW s \in Score, zset_one(k, s, FALSE, FALSE)
  PROVE  Healthy'
  <1> USE ScoreAssumption
  <1>0. s # NoScore
    BY DEF Score, ScoreMin
  <1>1. CASE zsetRow[k] = s
    BY <1>0, <1>1 DEF zset_one, Healthy, RowsOf, Members
  <1>2. CASE zsetRow[k] # s
    <2> DEFINE stale == IF zsetRow[k] = NoScore THEN {} ELSE {encode_zscore_key(k, zsetRow[k])}
    <2>1. /\ zsetRow' = [zsetRow EXCEPT ![k] = s]
          /\ zscoreRow' = (zscoreRow \ stale) \cup {encode_zscore_key(k, s)}
          /\ IF zsetRow[k] = NoScore THEN incr_zsize(1, FALSE) ELSE UNCHANGED zsizeRow
      BY <1>2 DEF zset_one
    <2>2. zsetRow' \in [Key -> Score \cup {NoScore}]
      BY <2>1 DEF Healthy
    <2>3. Members' = Members \cup {k}
      BY <1>0, <2>1 DEF Members, Healthy
    <2>4. \A j \in Members \ {k} : zsetRow'[j] = zsetRow[j]
      BY <2>1 DEF Members, Healthy
    <2>5. RowsOf(Members)' = (RowsOf(Members) \ stale) \cup {encode_zscore_key(k, s)}
      <3>1. zsetRow'[k] = s
        BY <2>1 DEF Healthy
      <3>2. \A j \in Members : \A u, v : encode_zscore_key(j, u) = encode_zscore_key(k, v) => j = k
        BY DEF encode_zscore_key
      <3>3. RowsOf(Members)' = {encode_zscore_key(j, zsetRow'[j]) : j \in Members \cup {k}}
        BY <2>3 DEF RowsOf
      <3>4. stale = {encode_zscore_key(j, zsetRow[j]) : j \in Members \cap {k}}
        BY DEF Members
      <3> HIDE DEF stale
      <3> QED
        BY <2>4, <3>1, <3>2, <3>3, <3>4 DEF RowsOf
    <2>6. zscoreRow' = Others \cup RowsOf(Members)'
      <3>1. Others \cap stale = {}
        BY NameAssumption DEF encode_zscore_key
      <3> HIDE DEF stale
      <3> QED
        BY <2>1, <2>5, <3>1 DEF Healthy
    <2>7. zsizeRow' = Cardinality(Members')
      <3>1. CASE k \in Members
        <4>1. Members' = Members /\ zsetRow[k] # NoScore
          BY <2>3, <3>1 DEF Members
        <4> QED
          BY <2>1, <4>1 DEF Healthy
      <3>2. CASE k \notin Members
        <4>1. zsetRow[k] = NoScore
          BY <3>2 DEF Members
        <4>2. zsizeRow' = zsizeRow + 1
          BY <2>1, <4>1, MembersFinite DEF incr_zsize, zsize, Healthy
        <4>3. Cardinality(Members') = Cardinality(Members) + 1
          BY <2>3, <3>2, MembersFinite, FS_AddElement
        <4> QED
          BY <4>2, <4>3 DEF Healthy
      <3> QED
        BY <3>1, <3>2
    <2> QED
      BY <2>2, <2>6, <2>7 DEF Healthy
  <1> QED
    BY <1>1, <1>2

\* zdel takes the row, its index row and one from the size.
LEMMA ZdelHealthy ==
  ASSUME Healthy, NEW k \in Key, zdel(k) PROVE Healthy'
  <1> USE ScoreAssumption
  <1>1. CASE k \notin Members
    BY <1>1 DEF zdel, rows, Healthy, RowsOf, Members
  <1>2. CASE k \in Members
    <2>1. /\ zsetRow' = [zsetRow EXCEPT ![k] = NoScore]
          /\ zscoreRow' = zscoreRow \ {encode_zscore_key(k, zsetRow[k])}
          /\ incr_zsize(-1, FALSE)
      BY <1>2 DEF zdel, zdel_one
    <2>2. zsetRow' \in [Key -> Score \cup {NoScore}]
      BY <2>1 DEF Healthy
    <2>3. Members' = Members \ {k}
      BY <2>1 DEF Members, Healthy
    <2>4. \A j \in Members \ {k} : zsetRow'[j] = zsetRow[j]
      BY <2>1 DEF Members, Healthy
    <2>5. RowsOf(Members)' = RowsOf(Members) \ {encode_zscore_key(k, zsetRow[k])}
      <3>1. \A j \in Members : \A u, v : encode_zscore_key(j, u) = encode_zscore_key(k, v) => j = k
        BY DEF encode_zscore_key
      <3>2. RowsOf(Members)' = {encode_zscore_key(j, zsetRow'[j]) : j \in Members \ {k}}
        BY <2>3 DEF RowsOf
      <3> QED
        BY <2>4, <3>1, <3>2 DEF RowsOf
    <2>6. zscoreRow' = Others \cup RowsOf(Members)'
      <3>1. encode_zscore_key(k, zsetRow[k]) \notin Others
        BY NameAssumption DEF encode_zscore_key
      <3> QED
        BY <2>1, <2>5, <3>1 DEF Healthy
    <2>7. zsizeRow' = Cardinality(Members')
      <3>1. zsizeRow' = zsizeRow - 1
        BY <2>1, MembersFinite DEF incr_zsize, zsize, Healthy
      <3>2. Cardinality(Members') = Cardinality(Members) - 1
        BY <1>2, <2>3, MembersFinite, FS_RemoveElement
      <3> QED
        BY <3>1, <3>2 DEF Healthy
    <2> QED
      BY <2>2, <2>6, <2>7 DEF Healthy
  <1> QED
    BY <1>1, <1>2

(***************************************************************************)
(* zfix, complete or cut short, finds nothing to do.                       *)
(***************************************************************************)

\* The first pass reads back the scores that are there.
LEMMA Pass1Idle ==
  ASSUME Healthy, NEW P \in SUBSET Index PROVE Pass1(P) = zsetRow
  <1>1. \A r \in P : r.key \in Members /\ r = encode_zscore_key(r.key, zsetRow[r.key])
    BY IndexIsRows DEF RowsOf, encode_zscore_key
  <1>2. ASSUME NEW k \in Key PROVE Pass1(P)[k] = zsetRow[k]
    <2>1. CASE \A r \in P : r.key # k
      BY <2>1 DEF Pass1
    <2>2. CASE \E r \in P : r.key = k
      <3> DEFINE e == encode_zscore_key(k, zsetRow[k])
                 last(r) == r.key = k /\ \A q \in P : q.key = k => q = r \/ Before(q, r)
      <3>1. k \in Members /\ e \in P /\ e.key = k
        BY <1>1, <2>2 DEF encode_zscore_key
      <3>2. \A r \in P : r.key = k => r = e
        BY <1>1
      <3> HIDE DEF e
      <3>3. (CHOOSE r \in P : last(r)) = e
        <4>1. e \in P /\ last(e)
          BY <3>1, <3>2
        <4>2. \A r \in P : last(r) => r = e
          BY <3>2
        <4> HIDE DEF last
        <4> QED
          BY <4>1, <4>2
      <3>4. Pass1(P)[k] = decode_score(e.bits)
        BY <2>2, <3>3 DEF Pass1
      <3> QED
        BY <3>1, <3>4, MemberType, DecodeEncode DEF e
    <2> QED
      BY <2>1, <2>2
  <1>3. zsetRow \in [Key -> Score \cup {NoScore}]
    BY DEF Healthy
  <1>4. Pass1(P) = [k \in Key |-> Pass1(P)[k]]
    BY DEF Pass1
  <1> HIDE DEF Pass1
  <1> QED
    BY <1>2, <1>3, <1>4

\* The second pass adds no index row.
LEMMA Pass2Idle ==
  ASSUME Healthy, NEW Q \in SUBSET Members PROVE Pass2(zsetRow, Q) = zscoreRow
  BY DEF Pass2, Healthy, RowsOf

\* Both counts of zfix are the size that is stored.
LEMMA FixSizeIdle ==
  ASSUME Healthy
  PROVE  /\ FixSize(zsizeRow, Cardinality(Index)) = zsizeRow
         /\ FixSize(zsizeRow, Cardinality(Members)) = zsizeRow
  <1>1. Cardinality(Index) = Cardinality(Members)
    BY IndexIsRows, RowsCard
  <1> QED
    BY <1>1, MembersFinite DEF FixSize, Healthy

\* zfix leaves a healthy zset alone, wherever it stops.
LEMMA ZfixIdle ==
  ASSUME Healthy, zfix \/ zfix_cut1 \/ zfix_cut2 PROVE UNCHANGED rows
  <1>1. Pass1(Index) = zsetRow
    BY Pass1Idle
  <1>2. MembersIn(zsetRow) = Members
    BY DEF MembersIn, Members
  <1>3. CASE zfix
    BY <1>1, <1>2, <1>3, Pass2Idle, FixSizeIdle DEF zfix, rows
  <1>4. CASE zfix_cut1
    BY <1>4, Pass1Idle DEF zfix_cut1, rows
  <1>5. CASE zfix_cut2
    BY <1>1, <1>2, <1>5, Pass2Idle, FixSizeIdle DEF zfix_cut2, rows
  <1> QED
    BY <1>3, <1>4, <1>5

\* Steps that leave the rows alone.
LEMMA IdleHealthy == ASSUME Healthy, UNCHANGED rows PROVE Healthy'
  BY DEF rows, Healthy, RowsOf, Members

\* Every operation keeps the invariant; one with a failed read counts it.
LEMMA NextInv == ASSUME Inv, [Next]_vars PROVE Inv'
  <1> USE FaultAssumption DEF Inv
  <1>1. CASE UNCHANGED vars
    BY <1>1, IdleHealthy DEF vars
  <1>2. ASSUME NEW k \in Key, NEW x \in Inputs, zset(k, x) PROVE Inv'
    BY <1>2, InputAssumption, FilterType, ZsetOneHealthy DEF zset
  <1>3. ASSUME NEW k \in Key, NEW x \in Inputs, zincr(k, x) PROVE Inv'
    <2>1. Healthy => NewScore(k, x) \in Score
      BY <1>3, AddType, MemberType DEF NewScore, zincr
    <2> QED
      BY <1>3, <2>1, ZsetOneHealthy DEF zincr
  <1>4. ASSUME NEW k \in Key, zdel(k) PROVE Inv'
    BY <1>4, ZdelHealthy DEF zdel
  <1>5. CASE zfix \/ zfix_cut1 \/ zfix_cut2
    <2>1. UNCHANGED faults
      BY <1>5 DEF zfix, zfix_cut1, zfix_cut2
    <2> QED
      BY <1>5, <2>1, ZfixIdle, IdleHealthy
  <1>6. CASE Fail
    BY <1>6, IdleHealthy DEF Fail
  <1>7. ASSUME Reads(1) PROVE Inv'
    BY <1>7 DEF Reads
  <1> QED
    <2>1. ASSUME NEW k \in Key, NEW x \in Inputs,
                 zset_badread(k, x) \/ zincr_badread(k, x) \/ zdel_badread(k)
          PROVE  Reads(1)
      BY <2>1 DEF zset_badread, zincr_badread, zdel_badread, zset_one_badread
    <2>2. ASSUME NEW k \in Key, zdel_badread(k) PROVE Reads(1)
      BY <2>2 DEF zdel_badread
    <2>3. zfix_badsize => Reads(1)
      BY DEF zfix_badsize
    <2> QED
      BY <1>1, <1>2, <1>3, <1>4, <1>5, <1>6, <1>7, <2>1, <2>2, <2>3 DEF Next

\* The copies agree until the first failed read: the inductive invariant.
THEOREM ZsetInv == Spec => []Inv
  BY InitInv, NextInv, PTL DEF Spec

\* The rows ZSET, the index and ZSIZE describe the same zset after every
\* sequence of zset, zincr, zdel and zfix, as long as no read has failed.
THEOREM ZsetMirror == Spec => []Mirror
  <1>1. Inv => Mirror
    BY IndexIsRows DEF Inv, Mirror, Healthy, RowsOf
  <1> QED
    BY <1>1, ZsetInv, PTL

(***************************************************************************)
(* Reading.  Rows of other names are outside every range.                  *)
(***************************************************************************)

\* A row of another zset is on the same side of all row keys of this one.
LEMMA OthersOutside ==
  ASSUME NEW r \in Others, NEW j, NEW s, NEW k, NEW t
  PROVE  /\ Before(encode_zscore_key(j, s), r) => Before(encode_zscore_key(k, t), r)
         /\ Before(r, encode_zscore_key(j, s)) => Before(r, encode_zscore_key(k, t))
  <1>1. r.name \in Nat /\ Name \in Nat /\ r.name # Name
    BY NameAssumption
  <1>2. \A u, v : encode_zscore_key(u, v).name = Name
    BY DEF encode_zscore_key
  <1> QED
    BY <1>1, <1>2 DEF Before

\* A forward scan in terms of scores.
LEMMA ForwardRows ==
  ASSUME Healthy, NEW k \in Int, NEW s \in Score, NEW t \in Score
  PROVE  ziterator(k, s, t) =
           RowsOf({j \in Members : (s < zsetRow[j] \/ (s = zsetRow[j] /\ k < j))
                                    /\ zsetRow[j] <= t})
  <1> DEFINE a == encode_zscore_key(k, s)
             b == encode_zscore_key(Xff, t)
             e(j) == encode_zscore_key(j, zsetRow[j])
             S == {j \in Members : (s < zsetRow[j] \/ (s = zsetRow[j] /\ k < j))
                                    /\ zsetRow[j] <= t}
  <1>1. ziterator(k, s, t) = {r \in zscoreRow : Before(a, r) /\ ~Before(b, r)}
    BY DEF ziterator, Forward
  <1>2. \A r \in Others : ~(Before(a, r) /\ ~Before(b, r))
    BY OthersOutside
  <1>3. ASSUME NEW j \in Members
        PROVE  Before(a, e(j)) /\ ~Before(b, e(j)) <=> j \in S
    <2>1. j \in Int /\ zsetRow[j] \in Score /\ j < Xff /\ Xff \in Int
          /\ zsetRow[j] \in Int /\ s \in Int /\ t \in Int
      BY MemberType, KeyAssumption DEF Score
    <2>2. Before(a, e(j)) <=> s < zsetRow[j] \/ (s = zsetRow[j] /\ k < j)
      BY <2>1, EncodeOrder
    <2>3. Before(b, e(j)) <=> t < zsetRow[j] \/ (t = zsetRow[j] /\ Xff < j)
      BY <2>1, EncodeOrder
    <2> HIDE DEF a, b, e
    <2>4. ~Before(b, e(j)) <=> zsetRow[j] <= t
      BY <2>1, <2>3
    <2> QED
      BY <2>2, <2>4
  <1>4. zscoreRow = Others \cup {e(j) : j \in Members} /\ RowsOf(S) = {e(j) : j \in S}
    BY DEF Healthy, RowsOf
  <1>5. S \subseteq Members
    OBVIOUS
  <1> HIDE DEF a, b, e, S
  <1>6. {r \in zscoreRow : Before(a, r) /\ ~Before(b, r)} = {e(j) : j \in S}
    BY <1>2, <1>3, <1>4, <1>5
  <1> QED
    BY <1>1, <1>4, <1>6 DEF S

\* A backward scan from the top, which never sees the highest score.
LEMMA BackwardRows ==
  ASSUME Healthy
  PROVE  RAll = RowsOf({j \in Members : zsetRow[j] < ScoreMax})
  <1> DEFINE a == encode_zscore_key(0, ScoreMax)
             b == encode_zscore_key(0, ScoreMin)
             e(j) == encode_zscore_key(j, zsetRow[j])
             S == {j \in Members : zsetRow[j] < ScoreMax}
  <1>1. RAll = {r \in zscoreRow : Before(r, a) /\ ~Before(r, b)}
    BY DEF RAll, rziterator, Backward
  <1>2. \A r \in Others : ~(Before(r, a) /\ ~Before(r, b))
    BY OthersOutside
  <1>3. ASSUME NEW j \in Members
        PROVE  Before(e(j), a) /\ ~Before(e(j), b) <=> j \in S
    <2>1. j \in Int /\ 0 < j /\ zsetRow[j] \in Score /\ zsetRow[j] \in Int
          /\ ScoreMax \in Score /\ ScoreMin \in Score /\ ScoreMin \in Int /\ ScoreMax \in Int
          /\ ScoreMin <= zsetRow[j] /\ zsetRow[j] <= ScoreMax
      BY MemberType, ScoreAssumption DEF Score, ScoreMin
    <2>2. Before(e(j), a) <=> zsetRow[j] < ScoreMax \/ (zsetRow[j] = ScoreMax /\ j < 0)
      BY <2>1, EncodeOrder
    <2>3. Before(e(j), b) <=> zsetRow[j] < ScoreMin \/ (zsetRow[j] = ScoreMin /\ j < 0)
      BY <2>1, EncodeOrder
    <2> HIDE DEF a, b, e
    <2> QED
      BY <2>1, <2>2, <2>3
  <1>4. zscoreRow = Others \cup {e(j) : j \in Members} /\ RowsOf(S) = {e(j) : j \in S}
    BY DEF Healthy, RowsOf
  <1>5. S \subseteq Members
    OBVIOUS
  <1> HIDE DEF a, b, e, S
  <1>6. {r \in zscoreRow : Before(r, a) /\ ~Before(r, b)} = {e(j) : j \in S}
    BY <1>2, <1>3, <1>4, <1>5
  <1> QED
    BY <1>1, <1>4, <1>6 DEF S

\* The scan from INT64_MIN to INT64_MAX sees every key.
LEMMA AllRows == ASSUME Healthy PROVE All = RowsOf(Members)
  <1>1. ScoreMin \in Score /\ ScoreMax \in Score /\ 0 \in Int
    BY ScoreAssumption DEF Score, ScoreMin
  <1>2. Members = {j \in Members : (ScoreMin < zsetRow[j] \/ (ScoreMin = zsetRow[j] /\ 0 < j))
                                    /\ zsetRow[j] <= ScoreMax}
    <2>1. ASSUME NEW j \in Members
          PROVE  /\ ScoreMin < zsetRow[j] \/ (ScoreMin = zsetRow[j] /\ 0 < j)
                 /\ zsetRow[j] <= ScoreMax
      BY MemberType, ScoreAssumption DEF Score, ScoreMin
    <2> QED
      BY <2>1
  <1> QED
    BY <1>1, <1>2, ForwardRows DEF All

\* A scan from a key yields exactly the keys behind it in the order of the
\* scores, up to the last score: what "won't return @key if
\* key.score=score_start" (zscan) leaves.
THEOREM ZsetScan == Spec => []ScanIsRange
  <1>1. ASSUME Healthy, NEW k \in Members, NEW to \in Score
        PROVE  zscan(k, to) =
                 {encode_zscore_key(j, zsetRow[j]) :
                    j \in {j \in Members : Less(k, j) /\ zsetRow[j] <= to}}
    <2>1. k \in Int /\ zsetRow[k] \in Score
      BY <1>1, MemberType
    <2>2. zscan(k, to) = ziterator(k, zsetRow[k], to)
      BY DEF zscan, ScanStart
    <2> QED
      BY <1>1, <2>1, <2>2, ForwardRows DEF RowsOf, Less
  <1>2. Inv => ScanIsRange
    BY <1>1 DEF Inv, ScanIsRange
  <1> QED
    BY <1>2, ZsetInv, PTL

\* The rows of a key, and the rows in front of and behind it.
LEMMA RowsAround ==
  ASSUME Healthy, NEW S \in SUBSET Members, NEW k
  PROVE  LET R == RowsOf(S)
             K == {r \in R : r.key = k}
         IN /\ k \notin S => K = {}
            /\ k \in S =>
                 /\ K # {}
                 /\ {r \in R : \A q \in K : Before(r, q)} = RowsOf({j \in S : Less(j, k)})
                 /\ {r \in R : \A q \in K : Before(q, r)} = RowsOf({j \in S : Less(k, j)})
  <1> DEFINE e(j) == encode_zscore_key(j, zsetRow[j])
             R == RowsOf(S)
             K == {r \in R : r.key = k}
  <1>1. \A T : RowsOf(T) = {e(j) : j \in T}
    BY DEF RowsOf
  <1>2. \A j : e(j).key = j
    BY DEF encode_zscore_key
  <1>3. k \notin S => K = {}
    BY <1>1, <1>2
  <1>4. ASSUME k \in S
        PROVE  /\ K # {}
               /\ {r \in R : \A q \in K : Before(r, q)} = RowsOf({j \in S : Less(j, k)})
               /\ {r \in R : \A q \in K : Before(q, r)} = RowsOf({j \in S : Less(k, j)})
    <2>1. K = {e(k)}
      <3> HIDE DEF e
      <3> QED
        BY <1>1, <1>2, <1>4
    <2>2. ASSUME NEW j \in S
          PROVE  /\ Before(e(j), e(k)) <=> Less(j, k)
                 /\ Before(e(k), e(j)) <=> Less(k, j)
      <3>1. j \in Int /\ zsetRow[j] \in Score /\ k \in Int /\ zsetRow[k] \in Score
        BY <1>4, MemberType
      <3> QED
        BY <3>1, EncodeOrder DEF Less
    <2> HIDE DEF K, e
    <2>3. {r \in R : \A q \in K : Before(r, q)} = {e(j) : j \in {j \in S : Less(j, k)}}
      BY <1>1, <2>1, <2>2
    <2>4. {r \in R : \A q \in K : Before(q, r)} = {e(j) : j \in {j \in S : Less(k, j)}}
      BY <1>1, <2>1, <2>2
    <2> QED
      BY <1>1, <2>1, <2>3, <2>4
  <1> QED
    BY <1>3, <1>4

\* zrank answers the place of a key in the order of the scores, negative ones
\* included, and -1 for a key that is absent.
THEOREM ZsetRank == Spec => []RankIsPlace
  <1>1. ASSUME Healthy, NEW k \in Key
        PROVE  zrank(k) = IF k \notin Members THEN -1
                          ELSE Cardinality({j \in Members : Less(j, k)})
    <2> DEFINE R == RowsOf(Members)
               K == {r \in R : r.key = k}
    <2>1. zrank(k) = IF K = {} THEN -1
                     ELSE Cardinality({r \in R : \A q \in K : Before(r, q)})
      BY <1>1, AllRows DEF zrank
    <2>2. /\ k \notin Members => K = {}
          /\ k \in Members =>
               /\ K # {}
               /\ {r \in R : \A q \in K : Before(r, q)} = RowsOf({j \in Members : Less(j, k)})
      BY <1>1, RowsAround
    <2>3. Cardinality(RowsOf({j \in Members : Less(j, k)})) = Cardinality({j \in Members : Less(j, k)})
      BY <1>1, RowsCard
    <2> HIDE DEF K, R
    <2> QED
      BY <2>1, <2>2, <2>3
  <1>2. Inv => RankIsPlace
    BY <1>1 DEF Inv, RankIsPlace
  <1> QED
    BY <1>2, ZsetInv, PTL

\* zrrank answers the place from the other end among the keys whose score is
\* below INT64_MAX.
THEOREM ZsetRevRank == Spec => []RevRankIsPlace
  <1>1. ASSUME Healthy, NEW k \in Key
        PROVE  LET below == {j \in Members : zsetRow[j] < ScoreMax}
               IN zrrank(k) = IF k \notin below THEN -1
                              ELSE Cardinality({j \in below : Less(k, j)})
    <2> DEFINE below == {j \in Members : zsetRow[j] < ScoreMax}
               R == RowsOf(below)
               K == {r \in R : r.key = k}
    <2>0. below \subseteq Members
      OBVIOUS
    <2>1. zrrank(k) = IF K = {} THEN -1
                      ELSE Cardinality({r \in R : \A q \in K : Before(q, r)})
      BY <1>1, BackwardRows DEF zrrank
    <2> HIDE DEF below
    <2>2. /\ k \notin below => K = {}
          /\ k \in below =>
               /\ K # {}
               /\ {r \in R : \A q \in K : Before(q, r)} = RowsOf({j \in below : Less(k, j)})
      BY <1>1, <2>0, RowsAround
    <2>3. Cardinality(RowsOf({j \in below : Less(k, j)})) = Cardinality({j \in below : Less(k, j)})
      BY <1>1, <2>0, RowsCard
    <2> HIDE DEF K, R
    <2>4. zrrank(k) = IF k \notin below THEN -1
                      ELSE Cardinality({j \in below : Less(k, j)})
      BY <2>1, <2>2, <2>3
    <2> QED
      BY <2>4 DEF below
  <1>2. Inv => RevRankIsPlace
    BY <1>1 DEF Inv, RevRankIsPlace
  <1> QED
    BY <1>2, ZsetInv, PTL

\* zrank and zrrank together, for every set of keys and every width of scores.
THEOREM ZsetRanks == Spec => []RanksArePlaces
  BY ZsetRank, ZsetRevRank, PTL DEF RanksArePlaces

(***************************************************************************)
(* After failed reads.  The copies may disagree, but every row is still    *)
(* one that some key and some score give: that is all zfix and zrange need.*)
(***************************************************************************)

\* Rows of this zset are made of a key and a score; all others are as they were.
RowsInv ==
  /\ zsetRow \in [Key -> Score \cup {NoScore}]
  /\ \A r \in zscoreRow : r \in Others \/ \E k \in Key, s \in Score : r = encode_zscore_key(k, s)

\* What zfix promises, with the rows it is about: the inductive invariant.
FixInv == RowsInv /\ Repaired

\* Every number that has an upper bound in a set has a largest one there.
LEMMA LargestScore ==
  ASSUME NEW T \in SUBSET Score, T # {}
  PROVE  \E s \in T : \A t \in T : t <= s
  <1> DEFINE D == {ScoreMax - t : t \in T}
             R == OpToRel(<, Nat)
  <1>1. \A t \in T : t \in Int /\ ScoreMax - t \in Nat
    BY ScoreAssumption DEF Score, ScoreMin
  <1>2. D \subseteq Nat /\ D # {}
    BY <1>1
  <1>3. IsWellFoundedOn(R, Nat)
    BY NatLessThanWellFounded
  <1>4. PICK m \in D : \A n \in D : ~(<<n, m>> \in R)
    BY <1>2, <1>3, WFMin
  <1>5. \A n \in Nat : n < m => <<n, m>> \in R
    BY <1>2, <1>4 DEF OpToRel
  <1>6. PICK s \in T : m = ScoreMax - s
    BY <1>4
  <1>7. ASSUME NEW t \in T PROVE t <= s
    <2>1. ScoreMax - t \in D
      OBVIOUS
    <2>2. ~(ScoreMax - t < ScoreMax - s)
      BY <1>1, <1>4, <1>5, <1>6, <2>1
    <2> QED
      BY <1>1, <2>2, ScoreAssumption
  <1> QED
    BY <1>7

\* A key is neither the empty string nor "\xff".
LEMMA KeyType == \A k \in Key : k \in Int /\ 0 < k /\ k < Xff /\ Xff \in Int
  BY KeyAssumption

\* The index rows of this zset.
LEMMA IndexRows ==
  ASSUME RowsInv, NEW r \in Index
  PROVE  \E s \in Score : r.key \in Key /\ r = encode_zscore_key(r.key, s)
  <1>1. r.name = Name /\ r \in zscoreRow /\ r \notin Others
    BY NameAssumption DEF Index
  <1>2. PICK k \in Key, s \in Score : r = encode_zscore_key(k, s)
    BY <1>1 DEF RowsInv
  <1>3. r.key = k
    BY <1>2 DEF encode_zscore_key
  <1> QED
    BY <1>2, <1>3

\* The first pass stores the highest score among the index rows of a key.
LEMMA Pass1Highest ==
  ASSUME RowsInv, NEW P \in SUBSET Index, NEW k \in Key
  PROVE  /\ (\A r \in P : r.key # k) => Pass1(P)[k] = zsetRow[k]
         /\ (\E r \in P : r.key = k) =>
              /\ Pass1(P)[k] \in Score
              /\ encode_zscore_key(k, Pass1(P)[k]) \in P
              /\ \A r \in P : r.key = k => decode_score(r.bits) <= Pass1(P)[k]
  <1>1. CASE \A r \in P : r.key # k
    BY <1>1 DEF Pass1
  <1>2. CASE \E r \in P : r.key = k
    <2> DEFINE T == {s \in Score : encode_zscore_key(k, s) \in P}
               last(r) == r.key = k /\ \A q \in P : q.key = k => q = r \/ Before(q, r)
    <2>1. ASSUME NEW r \in P, r.key = k
          PROVE  \E s \in T : r = encode_zscore_key(k, s)
      BY <2>1, IndexRows
    <2>2. T # {} /\ T \in SUBSET Score
      BY <1>2, <2>1
    <2>3. PICK s \in T : \A t \in T : t <= s
      BY <2>2, LargestScore
    <2>4. k \in Int /\ \A t \in T : t \in Score /\ t \in Int
      BY KeyAssumption DEF Score
    <2> DEFINE e == encode_zscore_key(k, s)
    <2>5. e \in P /\ e.key = k
      BY DecodeEncode, <2>4
    <2>6. ASSUME NEW q \in P, q.key = k
          PROVE  /\ q = e \/ (Before(q, e) /\ ~Before(e, q))
                 /\ decode_score(q.bits) <= s
      <3>1. PICK t \in T : q = encode_zscore_key(k, t)
        BY <2>1, <2>6
      <3>2. t <= s /\ t \in Int /\ s \in Int
        BY <2>3, <2>4
      <3>3. decode_score(q.bits) = t
        BY <3>1, <2>4, DecodeEncode
      <3>4. /\ Before(q, e) <=> t < s \/ (t = s /\ k < k)
            /\ Before(e, q) <=> s < t \/ (s = t /\ k < k)
        BY <3>1, <2>4, EncodeOrder
      <3> HIDE DEF e
      <3>5. CASE t = s
        BY <3>1, <3>2, <3>3, <3>5 DEF e
      <3>6. CASE t < s
        BY <2>4, <3>2, <3>3, <3>4, <3>6
      <3> QED
        BY <3>2, <3>5, <3>6
    <2> HIDE DEF e, T
    <2>7. (CHOOSE r \in P : last(r)) = e
      <3>1. last(e)
        BY <2>5, <2>6
      <3>2. \A r \in P : last(r) => r = e
        BY <2>5, <2>6
      <3> HIDE DEF last
      <3> QED
        BY <2>5, <3>1, <3>2
    <2>8. Pass1(P)[k] = decode_score(e.bits)
      BY <1>2, <2>7 DEF Pass1
    <2>9. Pass1(P)[k] = s
      BY <2>4, <2>8, DecodeEncode DEF e
    <2> QED
      BY <1>2, <2>4, <2>5, <2>6, <2>9 DEF e
  <1> QED
    BY <1>1, <1>2

\* The first pass leaves scores.
LEMMA Pass1Type ==
  ASSUME RowsInv, NEW P \in SUBSET Index
  PROVE  Pass1(P) \in [Key -> Score \cup {NoScore}]
  <1>1. \A k \in Key : Pass1(P)[k] \in Score \cup {NoScore}
    BY Pass1Highest DEF RowsInv
  <1>2. Pass1(P) = [k \in Key |-> Pass1(P)[k]]
    BY DEF Pass1
  <1> HIDE DEF Pass1
  <1> QED
    BY <1>1, <1>2

\* The second pass adds rows of keys and scores.
LEMMA Pass2Rows ==
  ASSUME RowsInv, NEW zr \in [Key -> Score \cup {NoScore}], NEW Q \in SUBSET MembersIn(zr),
         zscoreRow' = Pass2(zr, Q), zsetRow' = zr
  PROVE  RowsInv'
  <1>1. \A k \in Q : k \in Key /\ zr[k] \in Score
    BY DEF MembersIn
  <1> QED
    BY <1>1 DEF RowsInv, Pass2

\* zset_one, whatever its reads answer.
LEMMA ZsetOneRows ==
  ASSUME RowsInv, NEW k \in Key, NEW s \in Score,
         NEW g \in BOOLEAN, NEW f \in BOOLEAN, zset_one(k, s, g, f)
  PROVE  RowsInv'
  <1>1. \/ UNCHANGED <<zscoreRow, zsetRow>>
        \/ /\ zscoreRow' \subseteq zscoreRow \cup {encode_zscore_key(k, s)}
           /\ zsetRow' = [zsetRow EXCEPT ![k] = s]
    BY DEF zset_one
  <1> QED
    BY <1>1 DEF RowsInv

\* A failed read inside zset_one does not put foreign rows into the index.
LEMMA BadreadRows ==
  ASSUME RowsInv, NEW k \in Key, NEW s \in Score, NEW op, NEW code,
         zset_one_badread(k, s, op, code)
  PROVE  RowsInv'
  BY ZsetOneRows DEF zset_one_badread

\* The score zincr stores.
LEMMA NewScoreType ==
  ASSUME RowsInv, NEW k \in Key, NEW by \in Score PROVE NewScore(k, by) \in Score
  BY AddType DEF RowsInv, NewScore, Members

LEMMA ZdelOneRows ==
  ASSUME RowsInv, NEW k \in Key, zdel_one(k) PROVE RowsInv'
  BY DEF RowsInv, zdel_one

\* Every step of zfix, complete or cut short.
LEMMA ZfixRows ==
  ASSUME RowsInv, zfix \/ zfix_cut1 \/ zfix_cut2 \/ zfix_badsize PROVE RowsInv'
  <1>1. Pass1(Index) \in [Key -> Score \cup {NoScore}]
    BY Pass1Type
  <1>2. CASE zfix_cut1
    <2>1. PICK P \in SUBSET Index : zsetRow' = Pass1(P) /\ zscoreRow' = zscoreRow
      BY <1>2 DEF zfix_cut1
    <2>2. Pass1(P) \in [Key -> Score \cup {NoScore}]
      BY Pass1Type
    <2> QED
      BY <2>1, <2>2 DEF RowsInv
  <1>3. CASE zfix \/ zfix_cut2 \/ zfix_badsize
    <2>1. PICK Q \in SUBSET MembersIn(Pass1(Index)) :
            zscoreRow' = Pass2(Pass1(Index), Q) /\ zsetRow' = Pass1(Index)
      BY <1>3 DEF zfix, zfix_cut2, zfix_badsize
    <2> QED
      BY <1>1, <2>1, Pass2Rows
  <1> QED
    BY <1>2, <1>3

\* No operation, successful or not, puts a foreign row into the index.
LEMMA RowsStep == ASSUME RowsInv, [Next]_vars PROVE RowsInv'
  <1>1. ASSUME UNCHANGED rows PROVE RowsInv'
    BY <1>1 DEF rows, RowsInv
  <1>2. ASSUME NEW k \in Key, NEW x \in Inputs, zset(k, x) \/ zset_badread(k, x) PROVE RowsInv'
    BY <1>2, InputAssumption, FilterType, ZsetOneRows, BadreadRows DEF zset, zset_badread
  <1>3. ASSUME NEW k \in Key, NEW x \in Inputs, zincr(k, x) \/ zincr_badread(k, x) PROVE RowsInv'
    <2>1. x \in Score
      BY <1>3 DEF zincr, zincr_badread
    <2>2. NewScore(k, x) \in Score
      BY <2>1, NewScoreType
    <2> QED
      BY <1>3, <2>2, ZsetOneRows, BadreadRows DEF zincr, zincr_badread
  <1>4. ASSUME NEW k \in Key, zdel(k) \/ zdel_badread(k) PROVE RowsInv'
    BY <1>1, <1>4, ZdelOneRows DEF zdel, zdel_badread
  <1>5. CASE zfix \/ zfix_cut1 \/ zfix_cut2 \/ zfix_badsize
    BY <1>5, ZfixRows
  <1>6. CASE Fail \/ UNCHANGED vars
    BY <1>1, <1>6 DEF Fail, vars
  <1> QED
    BY <1>2, <1>3, <1>4, <1>5, <1>6 DEF Next

\* After a complete zfix the rows and the index hold the same keys.
LEMMA ZfixRepairs == ASSUME RowsInv, zfix PROVE Repaired'
  <1> DEFINE zr == Pass1(Index)
             Q  == MembersIn(zr)
  <1>1. /\ zsetRow' = zr
        /\ zscoreRow' = Pass2(zr, Q)
        /\ zsizeRow' = FixSize(FixSize(zsizeRow, Cardinality(Index)), Cardinality(Q))
        /\ ret'.code = Cardinality(Q)
    BY DEF zfix, Return
  <1>2. zr \in [Key -> Score \cup {NoScore}]
    BY Pass1Type
  <1>3. /\ \A k \in Key : (\A r \in Index : r.key # k) => zr[k] = zsetRow[k]
        /\ \A k \in Key : (\E r \in Index : r.key = k) =>
             /\ zr[k] \in Score
             /\ \A r \in Index : r.key = k => decode_score(r.bits) <= zr[k]
    BY Pass1Highest
  <1>4. \A r \in Index : r.key \in Key
    BY IndexRows
  <1> HIDE DEF zr
  <1>5. Members' = Q /\ Q \subseteq Key /\ \A k \in Q : zr[k] \in Score
    BY <1>1, <1>2 DEF Members, MembersIn
  <1>6. IsFiniteSet(Q) /\ Cardinality(Q) \in Nat
    BY <1>5, KeyAssumption, FS_Subset, FS_CardinalityType
  <1>7. Index' = Index \cup {encode_zscore_key(k, zr[k]) : k \in Q}
    <2>1. \A k : encode_zscore_key(k, zr[k]).name = Name
      BY DEF encode_zscore_key
    <2> QED
      BY <1>1, <2>1 DEF Index, Pass2
  <1>8. \A k : encode_zscore_key(k, zr[k]).key = k
    BY DEF encode_zscore_key
  <1>9. \A r \in Index : r.key \in Q
    BY <1>3, <1>4, ScoreAssumption DEF MembersIn, Score, ScoreMin
  <1>10. Members' = {r.key : r \in Index'}
    <2>1. \A r \in Index' : r.key \in Q
      BY <1>7, <1>8, <1>9
    <2>2. \A k \in Q : \E r \in Index' : r.key = k
      BY <1>7, <1>8
    <2> HIDE DEF Q
    <2> QED
      BY <1>5, <2>1, <2>2
  <1>11. ASSUME NEW k \in Q
         PROVE  /\ encode_zscore_key(k, zr[k]) \in zscoreRow'
                /\ \A r \in Index' : r.key = k => decode_score(r.bits) <= zr[k]
    <2>1. encode_zscore_key(k, zr[k]) \in zscoreRow'
      BY <1>1 DEF Pass2
    <2>2. ASSUME NEW r \in Index', r.key = k PROVE decode_score(r.bits) <= zr[k]
      <3>1. CASE r \in Index
        BY <1>3, <1>5, <2>2, <3>1
      <3>2. CASE r \notin Index
        <4>1. r = encode_zscore_key(k, zr[k])
          BY <1>7, <1>8, <2>2, <3>2
        <4>2. decode_score(r.bits) = zr[k] /\ zr[k] \in Int
          BY <1>5, <4>1, DecodeEncode DEF Score
        <4> QED
          BY <4>2
      <3> QED
        BY <3>1, <3>2
    <2> QED
      BY <2>1, <2>2
  <1>12. zsize' = Cardinality(Q)
    <2> DEFINE old == FixSize(zsizeRow, Cardinality(Index))
    <2>1. zsizeRow' = FixSize(old, Cardinality(Q))
      BY <1>1
    <2> HIDE DEF old, Q
    <2> QED
      BY <1>6, <2>1 DEF FixSize, zsize
  <1> HIDE DEF Q
  <1>13. \A k \in Members' :
           /\ encode_zscore_key(k, zsetRow'[k]) \in zscoreRow'
           /\ \A r \in Index' : r.key = k => decode_score(r.bits) <= zsetRow'[k]
    BY <1>1, <1>5, <1>11
  <1> QED
    BY <1>1, <1>5, <1>10, <1>12, <1>13 DEF Repaired

\* Only a complete zfix claims to have repaired anything.
LEMMA RepairedStep == ASSUME RowsInv, Repaired, [Next]_vars PROVE Repaired'
  <1>1. CASE UNCHANGED vars
    BY <1>1 DEF vars, rows, Repaired, Members, Index, zsize
  <1>2. CASE zfix
    BY <1>2, ZfixRepairs
  <1>3. CASE Next /\ ~zfix
    <2> DEFINE Silent == \E op, code : (op # "zfix" \/ code = -1) /\ Return(op, code)
    <2>1. ASSUME NEW k \in Key, NEW x \in Inputs, zset(k, x) \/ zincr(k, x) PROVE Silent
      BY <2>1 DEF zset, zincr
    <2>2. ASSUME NEW k \in Key, NEW x \in Inputs, zset_badread(k, x) \/ zincr_badread(k, x)
          PROVE  Silent
      BY <2>2 DEF zset_badread, zincr_badread, zset_one_badread
    <2>3. ASSUME NEW k \in Key, zdel(k) \/ zdel_badread(k) PROVE Silent
      BY <2>3 DEF zdel, zdel_badread
    <2>4. ASSUME zfix_cut1 \/ zfix_cut2 \/ zfix_badsize PROVE Silent
      BY <2>4 DEF zfix_cut1, zfix_cut2, zfix_badsize
    <2>5. ASSUME Fail PROVE Silent
      BY <2>5 DEF Fail
    <2>6. Silent
      <3> HIDE DEF Silent
      <3> QED
        BY <1>3, <2>1, <2>2, <2>3, <2>4, <2>5 DEF Next
    <2> QED
      BY <2>6 DEF Repaired, Return
  <1> QED
    BY <1>1, <1>2, <1>3

LEMMA FixInit == Init => FixInv
  BY DEF Init, FixInv, RowsInv, Repaired

\* Whatever failed reads and interrupted repairs have left, a zfix that ends
\* makes the rows ZSET and the index hold the same keys, gives every row its
\* index row with no higher one of its key, and answers the size it stored.
THEOREM ZsetRepaired == Spec => []Repaired
  <1>1. FixInv /\ [Next]_vars => FixInv'
    BY RowsStep, RepairedStep DEF FixInv
  <1>2. FixInv => Repaired
    BY DEF FixInv
  <1> QED
    BY FixInit, <1>1, <1>2, PTL DEF Spec

(***************************************************************************)
(* Pages.                                                                  *)
(***************************************************************************)

\* Half of the values of a uint64_t are more than the rows of a database.
FewRows == 2 * Cardinality(Index) <= Wrap

\* The scan from INT64_MIN to INT64_MAX sees every index row of the zset.
LEMMA AllIsIndex == ASSUME RowsInv PROVE All = Index
  <1> DEFINE a == encode_zscore_key(0, ScoreMin)
             b == encode_zscore_key(Xff, ScoreMax)
  <1>1. All = {r \in zscoreRow : Before(a, r) /\ ~Before(b, r)}
    BY DEF All, ziterator, Forward
  <1>2. \A r \in Others : ~(Before(a, r) /\ ~Before(b, r))
    BY OthersOutside
  <1>3. ASSUME NEW r \in Index PROVE Before(a, r) /\ ~Before(b, r)
    <2>1. PICK s \in Score : r.key \in Key /\ r = encode_zscore_key(r.key, s)
      BY IndexRows
    <2> DEFINE k == r.key
    <2>2. k \in Int /\ 0 < k /\ k < Xff /\ Xff \in Int
      BY <2>1, KeyType
    <2> HIDE DEF k
    <2>3. s \in Int /\ ScoreMin <= s /\ s <= ScoreMax /\ ScoreMin \in Score /\ ScoreMax \in Score
          /\ ScoreMin \in Int /\ ScoreMax \in Int
      BY ScoreAssumption DEF Score, ScoreMin
    <2>4. /\ Before(a, encode_zscore_key(k, s)) <=> ScoreMin < s \/ (ScoreMin = s /\ 0 < k)
          /\ Before(b, encode_zscore_key(k, s)) <=> ScoreMax < s \/ (ScoreMax = s /\ Xff < k)
      BY <2>2, <2>3, EncodeOrder
    <2>5. Before(a, encode_zscore_key(k, s)) /\ ~Before(b, encode_zscore_key(k, s))
      <3> HIDE DEF a, b
      <3> QED
        BY <2>2, <2>3, <2>4
    <2> QED
      BY <2>1, <2>5 DEF k
  <1>4. \A r \in zscoreRow : r \in Others \/ r \in Index
    <2>1. \A k, s : encode_zscore_key(k, s).name = Name
      BY DEF encode_zscore_key
    <2> QED
      BY <2>1 DEF RowsInv, Index
  <1>5. Index \subseteq zscoreRow
    BY DEF Index
  <1> HIDE DEF a, b
  <1> QED
    BY <1>1, <1>2, <1>3, <1>4, <1>5

\* There are finitely many index rows: one for a key and a score at most.
LEMMA IndexFinite == ASSUME RowsInv PROVE IsFiniteSet(Index)
  <1> DEFINE S == Key \X Score
             f == [p \in S |-> encode_zscore_key(p[1], p[2])]
             R == {f[p] : p \in S}
  <1>1. IsFiniteSet(Score)
    BY ScoreAssumption, FS_Interval DEF Score, ScoreMin
  <1>2. IsFiniteSet(S)
    BY <1>1, KeyAssumption, FS_Product
  <1>3. IsFiniteSet(R)
    <2>1. f \in [S -> R]
      OBVIOUS
    <2> HIDE DEF f, S
    <2>2. f \in Surjection(S, R)
      BY <2>1 DEF Surjection
    <2> QED
      BY <1>2, <2>2, FS_Surjection
  <1>4. Index \subseteq R
    <2> SUFFICES ASSUME NEW r \in Index PROVE r \in R
      OBVIOUS
    <2>1. PICK s \in Score : r.key \in Key /\ r = encode_zscore_key(r.key, s)
      BY IndexRows
    <2>2. <<r.key, s>> \in S /\ f[<<r.key, s>>] = r
      BY <2>1
    <2> HIDE DEF f, S
    <2> QED
      BY <2>2
  <1> HIDE DEF R
  <1> QED
    BY <1>3, <1>4, FS_Subset

\* A uint64_t sum as the limit of the iterator: for a row whose place is below
\* half of the range it is as good as the sum of the integers.
LEMMA PageBounds ==
  ASSUME NEW o \in Pages, NEW l \in Pages, NEW c \in Nat, 2 * c < Wrap
  PROVE  c + 1 > o /\ c + 1 <= PageLimit(o, l) <=> c \in o .. o + l - 1
  <1>1. o \in Nat /\ l \in Nat /\ o < Wrap /\ l < Wrap /\ Wrap \in Nat
    BY PageAssumption
  <1>2. CASE o + l < Wrap
    <2>1. (o + l) % Wrap = o + l
      BY <1>1, <1>2
    <2> QED
      BY <1>1, <2>1 DEF PageLimit
  <1>3. CASE ~(o + l < Wrap)
    <2>1. (o + l) % Wrap = o + l - Wrap
      BY <1>1, <1>3
    <2>2. PageLimit(o, l) = l
      BY <1>1, <2>1 DEF PageLimit
    <2> QED
      BY <1>1, <1>3, <2>2
  <1> QED
    BY <1>2, <1>3

\* The place of a row in the scan, counted from one.
LEMMA PlaceOfRow ==
  ASSUME RowsInv, NEW r \in Index
  PROVE  LET c == Cardinality({q \in Index : Before(q, r)})
         IN /\ c \in Nat /\ c < Cardinality(Index) /\ Cardinality(Index) \in Nat
            /\ Cardinality({q \in Index : q = r \/ Before(q, r)}) = c + 1
  <1> DEFINE B == {q \in Index : Before(q, r)}
             W == {q \in Index : q = r \/ Before(q, r)}
  <1>1. ~Before(r, r)
    <2>1. PICK s \in Score : r.key \in Key /\ r = encode_zscore_key(r.key, s)
      BY IndexRows
    <2> DEFINE k == r.key
    <2>2. k \in Int
      BY <2>1, KeyType
    <2> HIDE DEF k
    <2>3. ~Before(encode_zscore_key(k, s), encode_zscore_key(k, s))
      <3>1. s \in Int
        BY DEF Score
      <3> QED
        BY <2>2, <3>1, EncodeOrder
    <2> QED
      BY <2>1, <2>3 DEF k
  <1>2. W = B \cup {r} /\ r \notin B /\ B \subseteq Index /\ W \subseteq Index
    BY <1>1
  <1> HIDE DEF B, W
  <1>3. IsFiniteSet(Index) /\ IsFiniteSet(B) /\ IsFiniteSet(W)
    BY <1>2, IndexFinite, FS_Subset
  <1>4. Cardinality(B) \in Nat /\ Cardinality(W) = Cardinality(B) + 1
    BY <1>2, <1>3, FS_AddElement, FS_CardinalityType
  <1>5. Cardinality(W) <= Cardinality(Index) /\ Cardinality(Index) \in Nat
    BY <1>2, <1>3, FS_Subset, FS_CardinalityType
  <1>6. Cardinality(B) < Cardinality(Index)
    BY <1>4, <1>5
  <1> QED
    BY <1>4, <1>5, <1>6 DEF B, W

\* zrange leaves exactly the rows at the places from the offset on, as many as
\* the limit, also when their sum wraps around: in every state in which the
\* rows of the zset are at most half as many as the values of a uint64_t.
THEOREM ZsetPage == Spec => [](FewRows => RangeIsPage)
  <1>1. ASSUME RowsInv, FewRows, NEW o \in Pages, NEW l \in Pages
        PROVE  zrange(o, l) =
                 {r \in Index : Cardinality({q \in Index : Before(q, r)}) \in o .. o + l - 1}
    <2> DEFINE pos(r) == Cardinality({q \in Index : q = r \/ Before(q, r)})
               c(r) == Cardinality({q \in Index : Before(q, r)})
    <2>1. zrange(o, l) = {r \in Index : pos(r) > o /\ pos(r) <= PageLimit(o, l)}
      BY <1>1, AllIsIndex DEF zrange
    <2>2. ASSUME NEW r \in Index
          PROVE  pos(r) > o /\ pos(r) <= PageLimit(o, l) <=> c(r) \in o .. o + l - 1
      <3>1. /\ c(r) \in Nat /\ c(r) < Cardinality(Index) /\ Cardinality(Index) \in Nat
            /\ pos(r) = c(r) + 1
        BY <1>1, PlaceOfRow
      <3> HIDE DEF c, pos
      <3>2. 2 * c(r) < Wrap
        BY <1>1, <3>1, PageAssumption DEF FewRows
      <3> QED
        BY <3>1, <3>2, PageBounds
    <2> HIDE DEF c, pos
    <2>3. {r \in Index : pos(r) > o /\ pos(r) <= PageLimit(o, l)}
            = {r \in Index : c(r) \in o .. o + l - 1}
      BY <2>2
    <2> QED
      BY <2>1, <2>3 DEF c
  <1>2. RowsInv => (FewRows => RangeIsPage)
    BY <1>1 DEF RangeIsPage
  <1>3. Init => RowsInv
    BY FixInit DEF FixInv
  <1>4. RowsInv /\ [Next]_vars => RowsInv'
    BY RowsStep
  <1> QED
    BY <1>2, <1>3, <1>4, PTL DEF Spec
=============================================================================
