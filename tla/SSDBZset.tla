------------------------------ MODULE SSDBZset ------------------------------
(***************************************************************************)
(* Sorted sets: ssdb/ssdb/t_zset.{h,cpp} with the iterators they use.      *)
(* Every zset is stored three times: a row ZSET per key with its score, an *)
(* index row ZSCORE per key whose row key sorts by (name, score, key), and *)
(* a row ZSIZE with the number of keys.  Scans and ranks read the index.   *)
(*                                                                         *)
(* Every modifying operation is a Transaction, that is, one atomic step;   *)
(* zfix writes row by row and may be cut short.  A Get may fail with an    *)
(* I/O error, which the operations do not all treat as an error.  Names    *)
(* and keys are numbers that stand for their place in the byte order; 0 is *)
(* the empty string and Xff the string "\xff" that closes the ranges.      *)
(***************************************************************************)
EXTENDS Integers, FiniteSets

CONSTANTS
  Name,        \* the zset the operations are about
  Others,      \* index rows of zsets whose names are next to it
  Key,
  Xff,
  ScoreMax,    \* INT64_MAX
  NoScore,     \* a key without a row ZSET
  Inputs,      \* scores and increments that callers pass
  Pages,       \* offsets and limits of zrange and zrrange
  Wrap,        \* UINT64_MAX + 1
  MaxFaults    \* bound: how many reads and size writes may fail

ScoreMin == -(ScoreMax + 1)
Score == ScoreMin .. ScoreMax

ASSUME ScoreAssumption == ScoreMax \in Nat /\ NoScore \notin Int
ASSUME KeyAssumption == Xff \in Nat /\ Key \subseteq 1 .. Xff - 1 /\ IsFiniteSet(Key)
ASSUME NameAssumption ==
  /\ Name \in Nat
  /\ Others \subseteq [name : Nat \ {Name}, sign : {0, 1}, bits : 0 .. 2 * ScoreMax + 1, key : Key]
ASSUME InputAssumption == Inputs \subseteq Int
ASSUME PageAssumption == Wrap \in Nat /\ Pages \subseteq 0 .. Wrap - 1
ASSUME FaultAssumption == MaxFaults \in Nat

VARIABLES
  zsetRow,     \* the rows ZSET: the score of each key
  zscoreRow,   \* the row keys ZSCORE, of all zsets
  zsizeRow,    \* the row ZSIZE; 0 if there is none
  faults,      \* history: failed reads and size writes
  ret          \* the last operation and what it returned

rows == <<zsetRow, zscoreRow, zsizeRow>>
vars == <<rows, faults, ret>>

(***************************************************************************)
(* Row keys.                                                               *)
(***************************************************************************)

\* str_to_int64 of a decimal string: strtoll saturates.
filter_score(x) ==
  IF x > ScoreMax THEN ScoreMax ELSE IF x < ScoreMin THEN ScoreMin ELSE x

\* A sum of two int64_t; the build wraps around.
AddInt64(x, y) ==
  LET s == x + y
  IN IF s > ScoreMax THEN s - 2 * (ScoreMax + 1)
     ELSE IF s < ScoreMin THEN s + 2 * (ScoreMax + 1) ELSE s

\* encode_score: the bits of the int64_t as an unsigned big-endian number.
encode_score(s) == IF s < 0 THEN s + 2 * (ScoreMax + 1) ELSE s

decode_score(u) == IF u > ScoreMax THEN u - 2 * (ScoreMax + 1) ELSE u

\* Mutant: the character in front of the score left out.
encode_zscore_key_plain(k, s) ==
  [name |-> Name, sign |-> 1, bits |-> encode_score(s), key |-> k]

\* '-' sorts in front of '='.
encode_zscore_key(k, s) ==
  [name |-> Name, sign |-> IF s < 0 THEN 0 ELSE 1, bits |-> encode_score(s), key |-> k]

\* The byte order of two row keys ZSCORE.
Before(p, q) ==
  \/ p.name < q.name
  \/ p.name = q.name /\ p.sign < q.sign
  \/ p.name = q.name /\ p.sign = q.sign /\ p.bits < q.bits
  \/ p.name = q.name /\ p.sign = q.sign /\ p.bits = q.bits /\ p.key < q.key

(***************************************************************************)
(* Operations.                                                             *)
(***************************************************************************)

Members == {k \in Key : zsetRow[k] # NoScore}

\* zsize: a negative number counts as 0.
zsize == IF zsizeRow < 0 THEN 0 ELSE zsizeRow

\* incr_zsize; a failed read is -1 and is added to like any other number.
incr_zsize(incr, readFails) ==
  zsizeRow' = (IF readFails THEN -1 ELSE zsize) + incr

Reads(fail) == faults' = faults + fail /\ faults' <= MaxFaults

Return(op, code) == ret' = [op |-> op, code |-> code]

\* Mutant: the index row of the old score is left behind.
zset_one_leak(k, s, getFails, sizeFails) ==
  /\ zscoreRow' = zscoreRow \cup {encode_zscore_key(k, s)}
  /\ zsetRow' = [zsetRow EXCEPT ![k] = s]
  /\ IF ~getFails /\ k \notin Members
       THEN incr_zsize(1, sizeFails)
       ELSE UNCHANGED zsizeRow

\* zset_one, and incr_zsize for a new key.  When the read fails the old score
\* is taken to be the empty string, which is 0, and the key not to be new.
zset_one(k, s, getFails, sizeFails) ==
  LET old == IF getFails THEN 0 ELSE zsetRow[k]
      stale == IF old = NoScore THEN {} ELSE {encode_zscore_key(k, old)}
  IN /\ IF ~getFails /\ old = s
          THEN UNCHANGED <<zscoreRow, zsetRow>>
          ELSE /\ zscoreRow' = (zscoreRow \ stale) \cup {encode_zscore_key(k, s)}
               /\ zsetRow' = [zsetRow EXCEPT ![k] = s]
     /\ IF old = NoScore THEN incr_zsize(1, sizeFails) ELSE UNCHANGED zsizeRow

zset(k, x) ==
  /\ zset_one(k, filter_score(x), FALSE, FALSE)
  /\ Return("zset", IF k \in Members THEN 0 ELSE 1)
  /\ UNCHANGED faults

\* zset_one while its read of the score, or that of the size, fails.
zset_one_badread(k, s, op, updated) ==
  /\ Reads(1)
  /\ \/ zset_one(k, s, TRUE, FALSE) /\ Return(op, updated)
     \/ k \notin Members /\ zset_one(k, s, FALSE, TRUE) /\ Return(op, 1)

zset_badread(k, x) == zset_one_badread(k, filter_score(x), "zset", 0)

NewScore(k, by) == IF k \in Members THEN AddInt64(zsetRow[k], by) ELSE by

zincr(k, by) ==
  /\ by \in Score
  /\ zset_one(k, NewScore(k, by), FALSE, FALSE)
  /\ Return("zincr", 1)
  /\ UNCHANGED faults

\* Its own read of the score has succeeded, the next one fails.
zincr_badread(k, by) ==
  by \in Score /\ zset_one_badread(k, NewScore(k, by), "zincr", 1)

zdel_one(k) ==
  /\ zscoreRow' = zscoreRow \ {encode_zscore_key(k, zsetRow[k])}
  /\ zsetRow' = [zsetRow EXCEPT ![k] = NoScore]

zdel(k) ==
  /\ \/ k \in Members /\ zdel_one(k) /\ incr_zsize(-1, FALSE)
     \/ k \notin Members /\ UNCHANGED rows
  /\ Return("zdel", IF k \in Members THEN 1 ELSE 0)
  /\ UNCHANGED faults

\* zdel while a read fails: of the score, which counts as not found, or of
\* the size.
zdel_badread(k) ==
  /\ Reads(1)
  /\ \/ UNCHANGED rows /\ Return("zdel", 0)
     \/ /\ k \in Members /\ zdel_one(k) /\ incr_zsize(-1, TRUE)
        /\ Return("zdel", 1)

\* A Transaction without effect: a name or key that is empty (0) or too long
\* (-1), or commit fails (-1).
Fail == UNCHANGED <<rows, faults>> /\ \E code \in {-1, 0} : Return("refused", code)

(***************************************************************************)
(* zfix: a pass over the index that corrects the rows ZSET, a pass over    *)
(* the rows ZSET that adds index rows, and the size after each.            *)
(***************************************************************************)

Index == {r \in zscoreRow : r.name = Name}

\* The rows ZSET after the first pass has seen the index rows in P: the last
\* index row of a key wins.
Pass1(P) ==
  [k \in Key |->
     IF \A r \in P : r.key # k THEN zsetRow[k]
     ELSE decode_score((CHOOSE r \in P : r.key = k /\
                          \A q \in P : q.key = k => q = r \/ Before(q, r)).bits)]

\* The index after the second pass has seen the keys in Q.
Pass2(zr, Q) == zscoreRow \cup {encode_zscore_key(k, zr[k]) : k \in Q}

\* The row ZSIZE is rewritten when zsize() differs.
FixSize(old, size) == IF (IF old < 0 THEN 0 ELSE old) = size THEN old ELSE size

MembersIn(zr) == {k \in Key : zr[k] # NoScore}

\* Mutant: the second pass stores the number of index rows.
zfix_index ==
  LET zr == Pass1(Index)
      Q  == MembersIn(zr)
  IN /\ zsetRow' = zr
     /\ zscoreRow' = Pass2(zr, Q)
     /\ zsizeRow' = FixSize(zsizeRow, Cardinality(Index))
     /\ Return("zfix", Cardinality(Q))
     /\ UNCHANGED faults

zfix ==
  LET zr == Pass1(Index)
      Q  == MembersIn(zr)
      sz == FixSize(zsizeRow, Cardinality(Index))
  IN /\ zsetRow' = zr
     /\ zscoreRow' = Pass2(zr, Q)
     /\ zsizeRow' = FixSize(sz, Cardinality(Q))
     /\ Return("zfix", Cardinality(Q))
     /\ UNCHANGED faults

\* The first pass ends early: a Get or Put fails, or the process dies.
zfix_cut1 ==
  \E P \in SUBSET Index :
    /\ \A r \in P, q \in Index : Before(q, r) => q \in P
    /\ zsetRow' = Pass1(P)
    /\ Return("zfix", -1)
    /\ UNCHANGED <<zscoreRow, zsizeRow, faults>>

\* The second pass ends early.  Which keys it has seen by then depends on the
\* order of the rows ZSET, left open here.
zfix_cut2 ==
  LET zr == Pass1(Index)
  IN \E Q \in SUBSET MembersIn(zr) :
       /\ zsetRow' = zr
       /\ zscoreRow' = Pass2(zr, Q)
       /\ zsizeRow' = FixSize(zsizeRow, Cardinality(Index))
       /\ Return("zfix", -1)
       /\ UNCHANGED faults

\* The last write of the size fails, and zfix does not notice.
zfix_badsize ==
  LET zr == Pass1(Index)
      Q  == MembersIn(zr)
  IN /\ Reads(1)
     /\ zsetRow' = zr
     /\ zscoreRow' = Pass2(zr, Q)
     /\ zsizeRow' = FixSize(zsizeRow, Cardinality(Index))
     /\ Return("zfix_badsize", Cardinality(Q))

-----------------------------------------------------------------------------
Init ==
  /\ zsetRow = [k \in Key |-> NoScore]
  /\ zscoreRow = Others
  /\ zsizeRow = 0
  /\ faults = 0
  /\ ret = [op |-> "none", code |-> 0]

Next ==
  \/ \E k \in Key :
       \/ \E x \in Inputs : zset(k, x) \/ zset_badread(k, x) \/ zincr(k, x) \/ zincr_badread(k, x)
       \/ zdel(k) \/ zdel_badread(k)
  \/ zfix \/ zfix_cut1 \/ zfix_cut2 \/ zfix_badsize
  \/ Fail

Spec == Init /\ [][Next]_vars

-----------------------------------------------------------------------------
(***************************************************************************)
(* Reading: ziterator and what is built on it.  A forward scan yields the  *)
(* rows behind `start' up to `end', a backward scan those in front of      *)
(* `start' down to `end'; neither yields `start'.                          *)
(***************************************************************************)

Forward(start, end) == {r \in zscoreRow : Before(start, r) /\ ~Before(end, r)}
Backward(start, end) == {r \in zscoreRow : Before(r, start) /\ ~Before(r, end)}

ziterator(k, from, to) ==
  Forward(encode_zscore_key(k, from), encode_zscore_key(Xff, to))

rziterator(k, from, to) ==
  Backward(encode_zscore_key(k, from), encode_zscore_key(0, to))

All  == ziterator(0, ScoreMin, ScoreMax)
RAll == rziterator(0, ScoreMax, ScoreMin)

\* How many rows of R come before the first row of key k, in the direction
\* of the scan; -1 if there is none.  ZIterator does not compare names.
zrank(k) ==
  LET R == All
      K == {r \in R : r.key = k}
  IN IF K = {} THEN -1 ELSE Cardinality({r \in R : \A q \in K : Before(r, q)})

zrrank(k) ==
  LET R == RAll
      K == {r \in R : r.key = k}
  IN IF K = {} THEN -1 ELSE Cardinality({r \in R : \A q \in K : Before(q, r)})

\* Mutant: the limit is not raised by the offset.
PageLimit_plain(offset, limit) == limit

\* The limit of the iterator below zrange and zrrange: offset + limit unless
\* the uint64_t sum wraps around.
PageLimit(offset, limit) ==
  LET s == (offset + limit) % Wrap IN IF s > limit THEN s ELSE limit

\* The rows zrange leaves to its caller.
zrange(offset, limit) ==
  LET R == All
      pos(r) == Cardinality({q \in R : q = r \/ Before(q, r)})
  IN {r \in R : pos(r) > offset /\ pos(r) <= PageLimit(offset, limit)}

\* Mutant: the score of the key is not loaded.
ScanStart_min(k) == ScoreMin

\* zscan with a key and no score starts at the score of the key.
ScanStart(k) == IF k \in Members THEN zsetRow[k] ELSE ScoreMin

zscan(k, to) == ziterator(k, ScanStart(k), to)

-----------------------------------------------------------------------------
\* Every variable has its type; a score never leaves the range of int64_t.
TypeOK ==
  /\ zsetRow \in [Key -> Score \cup {NoScore}]
  /\ zscoreRow \subseteq [name : Nat, sign : {0, 1}, bits : 0 .. 2 * ScoreMax + 1, key : Key]
  /\ zsizeRow \in Int
  /\ faults \in 0 .. MaxFaults
  /\ ret.code \in Int

\* The three copies agree as long as no read failed: the index holds exactly
\* one row per key, under its score, and ZSIZE counts the keys.
Mirror ==
  faults = 0 =>
    /\ Index = {encode_zscore_key(k, zsetRow[k]) : k \in Members}
    /\ zsizeRow = Cardinality(Members)

\* What zfix achieves whatever state it finds: the same keys in the index and
\* in the rows ZSET, each row ZSET with its index row, no row ZSET below an
\* index row of its key, and the number it returns is the size.  (Of several
\* index rows of one key it removes none.)
Repaired ==
  ret.op = "zfix" /\ ret.code >= 0 =>
    /\ Members = {r.key : r \in Index}
    /\ \A k \in Members :
         /\ encode_zscore_key(k, zsetRow[k]) \in zscoreRow
         /\ \A r \in Index : r.key = k => decode_score(r.bits) <= zsetRow[k]
    /\ zsize = ret.code /\ ret.code = Cardinality(Members)

\* a comes before b in the order of scores, keys as the tie-break.
Less(a, b) ==
  \/ zsetRow[a] < zsetRow[b]
  \/ zsetRow[a] = zsetRow[b] /\ a < b

\* zrank is the place in the order of the scores, negative ones included, and
\* rows of neighbouring names are never counted; -1 for a key that is absent.
RankIsPlace ==
  faults = 0 => \A k \in Key :
    zrank(k) = IF k \notin Members THEN -1
               ELSE Cardinality({j \in Members : Less(j, k)})

\* zrrank is the place from the other end, among the keys below INT64_MAX: the
\* backward scan starts in front of (INT64_MAX, "") and never sees a key whose
\* score is INT64_MAX.
RevRankIsPlace ==
  faults = 0 => \A k \in Key :
    LET below == {j \in Members : zsetRow[j] < ScoreMax}
    IN zrrank(k) = IF k \notin below THEN -1
                   ELSE Cardinality({j \in below : Less(k, j)})

\* zrange is the page asked for, for every offset and limit up to UINT64_MAX,
\* even when the index disagrees with the rows ZSET.
RangeIsPage ==
  \A o, l \in Pages :
    zrange(o, l) =
      {r \in Index : Cardinality({q \in Index : Before(q, r)}) \in o .. o + l - 1}

\* "scan by score, but won't return @key if key.score=score_start": a scan
\* from a key yields the keys behind it up to the last score, and nothing else.
ScanIsRange ==
  faults = 0 => \A k \in Members, to \in Score :
    zscan(k, to) =
      {encode_zscore_key(j, zsetRow[j]) :
         j \in {j \in Members : Less(k, j) /\ zsetRow[j] <= to}}

\* A rank counts the keys in front, from either end.
RanksArePlaces == RankIsPlace /\ RevRankIsPlace
=============================================================================
