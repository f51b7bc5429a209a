-------------------------- MODULE ExpirationProofs --------------------------
(***************************************************************************)
(* Expiring keys, as long as no caller gets the mutex in the middle of a   *)
(* round: the zset, the cache and the deadlines of the callers agree, the  *)
(* thread wakes in time and no key goes before its time.  For every set of *)
(* keys, size of the cache, times to live and number of restarts.          *)
(***************************************************************************)
EXTENDS Expiration, FiniteSetTheorems, TLAPS

\* Entries of the older version and newer ones are not in the order of their
\* times in the zset, so with entries of the older version the zset must not
\* be larger than one batch.
FewOld ==
  (\E k \in Key : list[k] \in OldScores) => Cardinality(Entries(list)) <= BATCH_SIZE

(***************************************************************************)
(* The inductive invariant.                                                *)
(***************************************************************************)

\* What is cached already, and what the iterator still brings.
Cached == Entries(fast_keys) \cup Entries(snap)

\* A cached time is the one of the zset.
FastIsCopy == \A k \in Entries(fast_keys) : list[k] # 0 /\ fast_keys[k] = Real(list[k])
SnapIsCopy == \A k \in Entries(snap) : snap[k] = list[k]

\* Together they are the entries that expire first.
CachedIsPrefix ==
  \A k \in Cached, j \in Entries(list) \ Cached : Real(list[k]) <= Real(list[j])

\* The iterator is read by the end of the load only; a load begins with an
\* empty cache and leaves it empty only if there is nothing to load.
LoadInOrder ==
  /\ pc # "load" => Entries(snap) = {}
  /\ pc = "scan" => Entries(fast_keys) = {}
  /\ pc \in {"load", "expire"} /\ Cached = {} => Entries(list) = {}

TtlInv ==
  /\ TypeOK
  /\ ListIsDeadline
  /\ FastIsCopy /\ SnapIsCopy /\ CachedIsPrefix /\ LoadInOrder
  /\ WakesInTime

-----------------------------------------------------------------------------
(* Times. *)

\* An entry's time is one the clock reaches; newer entries are read as they are.
LEMMA RealType ==
  /\ Real(0) = 0
  /\ \A s \in Score : s # 0 => Real(s) \in Start .. MaxTime
  /\ \A s \in Start .. MaxTime : Real(s) = s
  /\ \A s \in Score : s \notin OldScores => Real(s) = s
  BY TimeAssumption, OldAssumption DEF Real, Score

\* What is in the zset and in memory, as numbers.
LEMMA Types ==
  ASSUME TypeOK
  PROVE  /\ Start \in Nat /\ 0 < Start /\ MaxTime \in Nat /\ INT64_MAX \in Nat
         /\ Start <= MaxTime /\ MaxTime < INT64_MAX
         /\ now \in Nat /\ Start <= now /\ now <= MaxTime
         /\ first_timeout \in Nat
         /\ \A k \in Key : /\ list[k] \in Score /\ Real(list[k]) \in Nat
                           /\ list[k] = 0 => Real(list[k]) = 0
                           /\ list[k] # 0 => Start <= Real(list[k]) /\ Real(list[k]) <= MaxTime
                           /\ fast_keys[k] \in {0} \cup Start .. MaxTime /\ fast_keys[k] \in Nat
                           /\ snap[k] \in Score
                           /\ deadline[k] \in Nat
  <1>1. /\ Start \in Nat /\ 0 < Start /\ MaxTime \in Nat /\ INT64_MAX \in Nat
        /\ Start <= MaxTime /\ MaxTime < INT64_MAX
    BY TimeAssumption
  <1>2. /\ now \in Nat /\ Start <= now /\ now <= MaxTime
        /\ first_timeout \in Nat
    BY <1>1 DEF TypeOK
  <1>3. ASSUME NEW k \in Key
        PROVE  /\ list[k] \in Score
               /\ fast_keys[k] \in {0} \cup Start .. MaxTime /\ fast_keys[k] \in Nat
               /\ snap[k] \in Score
               /\ deadline[k] \in Nat
    BY <1>1 DEF TypeOK
  <1>4. ASSUME NEW s \in Score
        PROVE  /\ Real(s) \in Nat
               /\ s = 0 => Real(s) = 0
               /\ s # 0 => Start <= Real(s) /\ Real(s) <= MaxTime
    BY <1>1, RealType
  <1> QED
    BY <1>1, <1>2, <1>3, <1>4

\* A deadline a caller can ask for.
LEMMA CallType ==
  ASSUME TypeOK, NEW ttl \in Ttls, now + ttl <= MaxTime
  PROVE  /\ now + ttl \in Start .. MaxTime /\ now + ttl \in Score /\ now + ttl \in Nat
         /\ now + ttl # 0 /\ Real(now + ttl) = now + ttl
  <1>1. ttl \in Nat
    BY TimeAssumption
  <1>2. now + ttl \in Start .. MaxTime /\ now + ttl # 0 /\ now + ttl \in Nat
    BY <1>1, Types
  <1> QED
    BY <1>2, RealType DEF Score

\* The thread that sleeps for good has nothing to wait for.
LEMMA Asleep ==
  ASSUME TtlInv, pc \in {"check", "peek"}, first_timeout = INT64_MAX
  PROVE  Entries(list) = {} /\ Entries(fast_keys) = {}
  <1>1. Entries(list) = {}
    <2> SUFFICES ASSUME NEW k \in Entries(list) PROVE FALSE
      OBVIOUS
    <2>1. first_timeout <= Real(list[k])
      BY DEF TtlInv, WakesInTime
    <2>2. k \in Key /\ list[k] # 0
      BY DEF Entries
    <2> QED
      BY <2>1, <2>2, Types DEF TtlInv
  <1>2. \A k \in Entries(fast_keys) : k \in Entries(list)
    BY DEF TtlInv, FastIsCopy, Entries
  <1> QED
    BY <1>1, <1>2

-----------------------------------------------------------------------------
(* The beginning, time, and the end of the process. *)

LEMMA NoneFacts == Entries(None) = {} /\ None \in [Key -> {0}]
  BY DEF Entries, None

\* A new handler has an empty cache and looks into the zset at once.
LEMMA FreshInv ==
  ASSUME fast_keys = None, first_timeout = 0, snap = None, pc = "check", TypeOK
  PROVE  FastIsCopy /\ SnapIsCopy /\ CachedIsPrefix /\ LoadInOrder /\ WakesInTime
  <1>1. Cached = {}
    BY NoneFacts DEF Cached
  <1>2. \A k \in Entries(list) : 0 <= Real(list[k])
    BY Types DEF Entries
  <1> QED
    BY <1>1, <1>2, NoneFacts
    DEF FastIsCopy, SnapIsCopy, CachedIsPrefix, LoadInOrder, WakesInTime

LEMMA TtlInit == Init => TtlInv
  <1> SUFFICES ASSUME Init PROVE TtlInv
    OBVIOUS
  <1>1. \A k \in Key : list[k] \in Score /\ Real(list[k]) \in {0} \cup Start .. MaxTime
    BY RealType DEF Init, Score
  <1>2. TypeOK
    <2>1. list \in [Key -> Score]
      BY DEF Init, Score
    <2>2. deadline \in [Key -> {0} \cup Start .. MaxTime]
      BY <1>1 DEF Init
    <2>3. now \in Start .. MaxTime /\ restarts \in 0 .. MaxRestarts
      BY TimeAssumption DEF Init
    <2>4. fast_keys \in [Key -> {0} \cup Start .. MaxTime] /\ snap \in [Key -> Score]
      BY DEF Init, None, Score
    <2> QED
      BY <2>1, <2>2, <2>3, <2>4 DEF Init, TypeOK, Entries
  <1>3. ListIsDeadline
    BY DEF Init, ListIsDeadline, Entries
  <1> QED
    BY <1>2, <1>3, FreshInv DEF Init, TtlInv

\* A restart, also one between the two deletions of an expiration.
LEMMA RestartInv == ASSUME TtlInv, Restart \/ RestartInExpire PROVE TtlInv'
  <1>1. /\ data' \subseteq data /\ list' = list /\ now' = now /\ deadline' = deadline
        /\ fast_keys' = None /\ first_timeout' = 0 /\ snap' = None /\ pc' = "check"
        /\ restarts' = restarts + 1 /\ restarts < MaxRestarts
    BY DEF Restart, RestartInExpire, Restarted
  <1>2. TypeOK'
    <2>1. None \in [Key -> {0} \cup Start .. MaxTime] /\ None \in [Key -> Score]
      BY DEF None, Score
    <2>2. restarts' \in 0 .. MaxRestarts
      BY <1>1, TimeAssumption DEF TtlInv, TypeOK
    <2> QED
      BY <1>1, <2>1, <2>2 DEF TtlInv, TypeOK
  <1>3. ListIsDeadline'
    BY <1>1 DEF TtlInv, TypeOK, ListIsDeadline
  <1>4. (FastIsCopy /\ SnapIsCopy /\ CachedIsPrefix /\ LoadInOrder /\ WakesInTime)'
    <2>1. Entries(fast_keys') = {} /\ Entries(snap') = {}
      BY <1>1, NoneFacts
    <2>2. Cached' = {}
      BY <2>1 DEF Cached
    <2>3. \A k \in Entries(list') : 0 <= Real(list'[k])
      BY <1>1, Types DEF Entries, TtlInv
    <2> QED
      BY <1>1, <2>1, <2>2, <2>3
      DEF FastIsCopy, SnapIsCopy, CachedIsPrefix, LoadInOrder, WakesInTime
  <1> QED
    BY <1>2, <1>3, <1>4 DEF TtlInv

\* Steps that move neither entries nor deadlines.
LEMMA TickInv == ASSUME TtlInv, Tick PROVE TtlInv'
  <1>1. now' \in Start .. MaxTime
    BY Types DEF TtlInv, Tick
  <1> QED
    BY <1>1 DEF Tick, memory, TtlInv, TypeOK, ListIsDeadline, FastIsCopy, SnapIsCopy,
                CachedIsPrefix, Cached, LoadInOrder, WakesInTime

LEMMA StutterInv == ASSUME TtlInv, UNCHANGED vars PROVE TtlInv'
  BY DEF vars, memory, TtlInv, TypeOK, ListIsDeadline, FastIsCopy, SnapIsCopy,
         CachedIsPrefix, Cached, LoadInOrder, WakesInTime

-----------------------------------------------------------------------------
(* The callers. *)

\* Between two rounds the cache alone is the prefix of the zset.
LEMMA BetweenRounds ==
  ASSUME TtlInv, pc \in {"check", "peek"}
  PROVE  /\ Entries(snap) = {} /\ Cached = Entries(fast_keys)
         /\ \A k \in Entries(fast_keys), j \in Key :
              list[j] # 0 /\ j \notin Entries(fast_keys) => fast_keys[k] <= Real(list[j])
  BY DEF TtlInv, LoadInOrder, Cached, CachedIsPrefix, FastIsCopy, Entries

\* What set_ttl makes of the cache: the new time if it is not the last one,
\* and no other new entry ...
LEMMA SetFast ==
  ASSUME TypeOK, NEW k \in Key, NEW ttl \in Ttls, now + ttl <= MaxTime, set_ttl(k, ttl)
  PROVE  /\ fast_keys' \in [Key -> {0} \cup Start .. MaxTime]
         /\ \A j \in Key : fast_keys'[j] # 0 =>
              fast_keys'[j] = IF j = k THEN now + ttl ELSE fast_keys[j]
  <1> DEFINE t == now + ttl
             f == [fast_keys EXCEPT ![k] = t]
  <1>1. t \in Start .. MaxTime
    BY CallType
  <1> HIDE DEF t
  <1>2. f \in [Key -> {0} \cup Start .. MaxTime]
    BY <1>1 DEF TypeOK
  <1>3. \/ fast_keys' = f
        \/ \E m \in Key : fast_keys' = [f EXCEPT ![m] = 0]
        \/ fast_keys' = [fast_keys EXCEPT ![k] = 0]
    BY DEF set_ttl, AddFast, Highest, Entries, t
  <1>4. fast_keys \in [Key -> {0} \cup Start .. MaxTime]
    BY DEF TypeOK
  <1>5. CASE fast_keys' = f
    BY <1>2, <1>4, <1>5 DEF t
  <1>6. CASE \E m \in Key : fast_keys' = [f EXCEPT ![m] = 0]
    BY <1>2, <1>4, <1>6 DEF t
  <1>7. CASE fast_keys' = [fast_keys EXCEPT ![k] = 0]
    BY <1>4, <1>7
  <1> QED
    BY <1>3, <1>5, <1>6, <1>7

\* ... which is again a prefix of the zset: an entry that is not cached is not
\* earlier than any that is.
LEMMA SetPrefix ==
  ASSUME TtlInv, pc \in {"check", "peek"},
         NEW k \in Key, NEW ttl \in Ttls, now + ttl <= MaxTime, set_ttl(k, ttl),
         NEW i \in Key, fast_keys'[i] # 0, NEW j \in Key, list'[j] # 0, fast_keys'[j] = 0
  PROVE  fast_keys'[i] <= Real(list'[j])
  <1> DEFINE t == now + ttl
  <1>1. TypeOK
    BY DEF TtlInv
  <1>2. t \in Nat /\ t # 0 /\ Real(t) = t
    BY <1>1, CallType
  <1>3. /\ fast_keys[i] \in Nat /\ fast_keys[j] \in Nat /\ fast_keys[k] \in Nat
        /\ Real(list[j]) \in Nat /\ Real(list[k]) \in Nat
    BY <1>1, Types
  <1>4. list'[j] = (IF j = k THEN t ELSE list[j]) /\ Real(list'[j]) = (IF j = k THEN t ELSE Real(list[j]))
    BY <1>1, <1>2 DEF set_ttl, TypeOK
  <1>5. fast_keys'[i] = IF i = k THEN t ELSE fast_keys[i]
    BY <1>1, SetFast
  <1>6. \A a, b \in Key : fast_keys[a] # 0 /\ list[b] # 0 /\ fast_keys[b] = 0
                            => fast_keys[a] <= Real(list[b])
    BY BetweenRounds DEF Entries
  <1>7. \A a \in Key : fast_keys[a] # 0 => list[a] # 0 /\ fast_keys[a] = Real(list[a])
    BY DEF TtlInv, FastIsCopy, Entries
  <1>8. fast_keys \in [Key -> {0} \cup Start .. MaxTime]
    BY <1>1 DEF TypeOK
  <1>9. CASE \E a \in Entries(fast_keys) : now + ttl <= fast_keys[a]
    <2> DEFINE f == [fast_keys EXCEPT ![k] = t]
    <2>1. PICK a \in Key : fast_keys[a] # 0 /\ t <= fast_keys[a] /\ fast_keys[a] \in Nat
      BY <1>1, <1>9, Types DEF Entries
    <2>2. AddFast(k, t)
      BY <1>9 DEF set_ttl
    <2>3. \A b \in Key : f[b] = IF b = k THEN t ELSE fast_keys[b]
      BY <1>8
    <2>4. f[k] = t /\ k \in Entries(f)
      BY <1>2, <2>3 DEF Entries
    <2>5. CASE fast_keys' = f
      <3>1. j # k /\ fast_keys[j] = 0
        BY <1>2, <2>3, <2>5
      <3>2. \A b \in Key : fast_keys[b] # 0 => fast_keys[b] <= Real(list[j])
        BY <1>4, <1>6, <3>1
      <3>3. t <= Real(list[j])
        <4>1. fast_keys[a] <= Real(list[j])
          BY <2>1, <3>2
        <4> HIDE DEF t
        <4> QED
          BY <1>2, <1>3, <2>1, <4>1
      <3> HIDE DEF t
      <3> QED
        BY <1>4, <1>5, <2>3, <2>5, <3>1, <3>2, <3>3
    <2>6. CASE \E m \in Highest(f) : fast_keys' = [f EXCEPT ![m] = 0]
      <3>1. PICK m \in Highest(f) : fast_keys' = [f EXCEPT ![m] = 0]
        BY <2>6
      <3>2. m \in Key /\ f[m] # 0 /\ \A b \in Key : f[b] # 0 => f[b] <= f[m]
        BY DEF Highest, Entries
      <3>3. \A b \in Key : fast_keys'[b] = IF b = m THEN 0 ELSE f[b]
        <4>1. f \in [Key -> {0} \cup Start .. MaxTime \cup {t}]
          BY <1>8
        <4> HIDE DEF f
        <4> QED
          BY <3>1, <3>2, <4>1
      <3>4. i # m /\ fast_keys'[i] = f[i] /\ f[i] # 0
        BY <3>3
      <3> HIDE DEF f, t
      <3>5. CASE j = m
        <4>1. f[j] = Real(list'[j])
          <5>1. CASE j = k
            BY <1>4, <2>3, <5>1
          <5>2. CASE j # k
            <6>1. f[j] = fast_keys[j] /\ fast_keys[j] # 0
              BY <2>3, <3>2, <3>5, <5>2
            <6> QED
              BY <1>4, <1>7, <5>2, <6>1
          <5> QED
            BY <5>1, <5>2
        <4> QED
          BY <3>2, <3>4, <3>5, <4>1
      <3>6. CASE j # m
        <4>1. f[j] = 0 /\ j # k
          BY <1>2, <2>3, <3>3, <3>6
        <4>2. fast_keys[j] = 0 /\ list[j] # 0 /\ Real(list'[j]) = Real(list[j])
          BY <1>4, <2>3, <4>1
        <4>3. fast_keys[a] <= Real(list[j])
          BY <1>6, <2>1, <4>2
        <4>4. t <= Real(list[j])
          BY <1>2, <1>3, <2>1, <4>3
        <4>5. i # k => fast_keys[i] <= Real(list[j])
          BY <1>6, <2>3, <3>4, <4>2
        <4> QED
          BY <2>3, <3>4, <4>2, <4>4, <4>5
      <3> QED
        BY <3>5, <3>6
    <2> QED
      BY <2>2, <2>5, <2>6 DEF AddFast
  <1>10. CASE ~\E a \in Entries(fast_keys) : now + ttl <= fast_keys[a]
    <2>1. fast_keys' = [fast_keys EXCEPT ![k] = 0]
      BY <1>10 DEF set_ttl
    <2>2. i # k /\ fast_keys'[i] = fast_keys[i] /\ fast_keys[i] # 0
      BY <1>8, <2>1
    <2>3. fast_keys[i] <= t
      <3>1. ~(t <= fast_keys[i])
        BY <1>10, <2>2 DEF Entries
      <3> HIDE DEF t
      <3> QED
        BY <1>2, <1>3, <3>1
    <2>4. j # k => fast_keys[j] = 0 /\ list[j] # 0
      BY <1>4, <1>8, <2>1
    <2> HIDE DEF t
    <2> QED
      BY <1>4, <1>6, <2>2, <2>3, <2>4
  <1> QED
    BY <1>9, <1>10

\* set_ttl.
LEMMA SetInv ==
  ASSUME TtlInv, Overlap = FALSE, NEW k \in Key, NEW ttl \in Ttls, SetX(k, ttl)
  PROVE  TtlInv'
  <1> DEFINE t == now + ttl
  <1>1. /\ pc \in {"check", "peek"} /\ pc' = pc /\ snap' = snap /\ now' = now /\ restarts' = restarts
        /\ now + ttl <= MaxTime /\ set_ttl(k, ttl)
        /\ data' = data \cup {k} /\ deadline' = [deadline EXCEPT ![k] = t]
        /\ list' = [list EXCEPT ![k] = t]
        /\ first_timeout' = IF t < first_timeout THEN t ELSE first_timeout
    BY DEF SetX, MayEnter, set_ttl
  <1>2. TypeOK
    BY DEF TtlInv
  <1>3. t \in Nat /\ t # 0 /\ Real(t) = t /\ t \in Start .. MaxTime /\ t \in Score
    BY <1>1, <1>2, CallType
  <1>4. /\ fast_keys' \in [Key -> {0} \cup Start .. MaxTime]
        /\ \A j \in Key : fast_keys'[j] # 0 =>
             fast_keys'[j] = IF j = k THEN t ELSE fast_keys[j]
    BY <1>1, <1>2, SetFast
  <1>5. \A i, j \in Key : fast_keys'[i] # 0 /\ list'[j] # 0 /\ fast_keys'[j] = 0
                            => fast_keys'[i] <= Real(list'[j])
    BY <1>1, SetPrefix
  <1> HIDE DEF t
  <1>6. \A j \in Key : /\ list'[j] = (IF j = k THEN t ELSE list[j])
                       /\ deadline'[j] = (IF j = k THEN t ELSE deadline[j])
    BY <1>1, <1>2 DEF TypeOK
  <1>7. TypeOK'
    BY <1>1, <1>2, <1>3, <1>4 DEF TypeOK
  <1>8. ListIsDeadline'
    BY <1>1, <1>3, <1>6 DEF TtlInv, ListIsDeadline, TypeOK
  <1>9. FastIsCopy'
    BY <1>3, <1>4, <1>6 DEF TtlInv, FastIsCopy, Entries
  <1>10. Entries(snap') = {}
    BY <1>1, BetweenRounds
  <1>11. SnapIsCopy' /\ LoadInOrder'
    BY <1>1, <1>10 DEF SnapIsCopy, LoadInOrder
  <1>12. CachedIsPrefix'
    <2>1. Cached' = Entries(fast_keys')
      BY <1>10 DEF Cached
    <2> QED
      BY <1>5, <1>9, <2>1 DEF CachedIsPrefix, FastIsCopy, Entries
  <1>13. WakesInTime'
    <2> SUFFICES ASSUME NEW j \in Key, list'[j] # 0 PROVE first_timeout' <= Real(list'[j])
      BY DEF WakesInTime, Entries
    <2>1. first_timeout \in Nat /\ Real(list[j]) \in Nat
      BY <1>2, Types
    <2>2. first_timeout' <= t /\ first_timeout' <= first_timeout
      BY <1>1, <1>3, <2>1
    <2>3. j # k => first_timeout <= Real(list[j])
      BY <1>1, <1>6 DEF TtlInv, WakesInTime, Entries
    <2>4. first_timeout' \in Nat
      BY <1>1, <1>3, <2>1
    <2> QED
      BY <1>3, <1>6, <2>1, <2>2, <2>3, <2>4
  <1> QED
    BY <1>7, <1>8, <1>9, <1>11, <1>12, <1>13 DEF TtlInv

\* del_ttl, for a key that stays and for one that goes.
LEMMA DelInv ==
  ASSUME TtlInv, Overlap = FALSE, NEW k \in Key, SetPlain(k) \/ Remove(k)
  PROVE  TtlInv'
  <1>1. /\ pc \in {"check", "peek"} /\ pc' = pc /\ snap' = snap /\ now' = now /\ restarts' = restarts
        /\ data' \subseteq data \cup {k} /\ deadline' = [deadline EXCEPT ![k] = 0]
        /\ first_timeout' = first_timeout /\ del_ttl(k)
    BY DEF SetPlain, Remove, MayEnter, del_ttl
  <1>2. TypeOK
    BY DEF TtlInv
  <1>3. list' = [list EXCEPT ![k] = 0] /\ fast_keys' = [fast_keys EXCEPT ![k] = 0]
    <2>1. CASE first_timeout # INT64_MAX
      BY <1>1, <2>1 DEF del_ttl
    <2>2. CASE first_timeout = INT64_MAX
      <3>1. list[k] = 0 /\ fast_keys[k] = 0
        BY <1>1, <2>2, Asleep DEF Entries
      <3>2. list' = list /\ fast_keys' = fast_keys
        BY <1>1, <2>2 DEF del_ttl
      <3> QED
        BY <1>2, <3>1, <3>2 DEF TypeOK
    <2> QED
      BY <2>1, <2>2
  <1>4. \A j \in Key : /\ list'[j] = (IF j = k THEN 0 ELSE list[j])
                       /\ fast_keys'[j] = (IF j = k THEN 0 ELSE fast_keys[j])
                       /\ deadline'[j] = (IF j = k THEN 0 ELSE deadline[j])
    BY <1>1, <1>2, <1>3 DEF TypeOK
  <1>5. TypeOK'
    <2>1. list' \in [Key -> Score]
      BY <1>2, <1>3 DEF TypeOK, Score
    <2>2. fast_keys' \in [Key -> {0} \cup Start .. MaxTime] /\ deadline' \in [Key -> {0} \cup Start .. MaxTime]
      BY <1>1, <1>2, <1>3 DEF TypeOK
    <2> QED
      BY <1>1, <1>2, <2>1, <2>2 DEF TypeOK
  <1>6. ListIsDeadline'
    <2> SUFFICES ASSUME NEW j \in data' PROVE Real(list'[j]) = deadline'[j]
      BY DEF ListIsDeadline
    <2>1. j \in Key /\ (j # k => j \in data)
      BY <1>1, <1>5 DEF TypeOK
    <2> QED
      BY <1>4, <2>1, RealType DEF TtlInv, ListIsDeadline
  <1>7. FastIsCopy'
    BY <1>4 DEF TtlInv, FastIsCopy, Entries
  <1>8. Entries(snap') = {}
    BY <1>1, BetweenRounds
  <1>9. SnapIsCopy' /\ LoadInOrder'
    BY <1>1, <1>8 DEF SnapIsCopy, LoadInOrder
  <1>10. CachedIsPrefix'
    <2>1. Cached' = Entries(fast_keys')
      BY <1>8 DEF Cached
    <2>2. \A i, j \in Key : fast_keys[i] # 0 /\ list[j] # 0 /\ fast_keys[j] = 0
                              => fast_keys[i] <= Real(list[j])
      BY <1>1, BetweenRounds DEF Entries
    <2> QED
      BY <1>4, <1>7, <2>1, <2>2 DEF CachedIsPrefix, FastIsCopy, Entries
  <1>11. WakesInTime'
    BY <1>1, <1>4 DEF TtlInv, WakesInTime, Entries
  <1> QED
    BY <1>5, <1>6, <1>7, <1>9, <1>10, <1>11 DEF TtlInv

-----------------------------------------------------------------------------
(* The thread. *)

LEMMA CheckInv == ASSUME TtlInv, Check PROVE TtlInv'
  BY DEF Check, TtlInv, TypeOK, ListIsDeadline, FastIsCopy, SnapIsCopy, CachedIsPrefix,
         Cached, LoadInOrder, WakesInTime

LEMMA PeekInv == ASSUME TtlInv, Peek PROVE TtlInv'
  <1>1. /\ pc = "peek" /\ Entries(snap) = {} /\ Cached = Entries(fast_keys)
    BY BetweenRounds DEF Peek
  <1>2. LoadInOrder'
    BY <1>1 DEF Peek, LoadInOrder, Cached
  <1> QED
    BY <1>2 DEF Peek, TtlInv, TypeOK, ListIsDeadline, FastIsCopy, SnapIsCopy, CachedIsPrefix,
                Cached, WakesInTime

\* The entries the iterator sees come before all others, whatever their
\* version; there are none only if the zset is empty.
LEMMA BatchFirst ==
  ASSUME TypeOK, FewOld, NEW B \in SUBSET Entries(list), IsBatch(B)
  PROVE  /\ \A i \in B, j \in Entries(list) \ B : Real(list[i]) <= Real(list[j])
         /\ B = {} => Entries(list) = {}
  <1>1. IsFiniteSet(Entries(list)) /\ IsFiniteSet(B) /\ B \subseteq Entries(list)
    BY KeyAssumption, FS_Subset DEF Entries
  <1>2. Cardinality(B) \in Nat /\ Cardinality(Entries(list)) \in Nat
    BY <1>1, FS_CardinalityType
  <1>3. B = {} => Entries(list) = {}
    <2>1. Cardinality({}) = 0
      BY FS_EmptySet
    <2> QED
      BY <2>1, BatchAssumption DEF IsBatch
  <1>4. CASE \E k \in Key : list[k] \in OldScores
    <2>1. Cardinality(Entries(list)) <= BATCH_SIZE
      BY <1>4 DEF FewOld
    <2>2. B # Entries(list) => Cardinality(B) < Cardinality(Entries(list))
      BY <1>1, <1>2, FS_Subset
    <2>3. B = Entries(list)
      BY <1>2, <2>1, <2>2, BatchAssumption DEF IsBatch
    <2> QED
      BY <1>3, <2>3
  <1>5. CASE \A k \in Key : list[k] \notin OldScores
    <2>1. \A k \in Entries(list) : Real(list[k]) = list[k]
      BY <1>5, Types, RealType DEF Entries
    <2> QED
      BY <1>1, <1>3, <2>1 DEF IsBatch
  <1> QED
    BY <1>4, <1>5

LEMMA ScanInv == ASSUME TtlInv, FewOld, Scan PROVE TtlInv'
  <1>1. PICK B \in SUBSET Entries(list) :
          IsBatch(B) /\ snap' = [k \in Key |-> IF k \in B THEN list[k] ELSE 0]
    BY DEF Scan
  <1>2. /\ pc = "scan" /\ pc' = "load" /\ Entries(fast_keys) = {} /\ fast_keys' = fast_keys
        /\ UNCHANGED <<data, list, now, first_timeout, restarts, deadline>>
    BY DEF Scan, TtlInv, LoadInOrder
  <1>3. TypeOK
    BY DEF TtlInv
  <1>4. /\ \A i \in B, j \in Entries(list) \ B : Real(list[i]) <= Real(list[j])
        /\ B = {} => Entries(list) = {}
    BY <1>1, <1>3, BatchFirst
  <1>5. snap' \in [Key -> Score]
    BY <1>1, <1>3 DEF TypeOK, Score
  <1>6. Entries(snap') = B /\ \A k \in B : snap'[k] = list[k]
    BY <1>1 DEF Entries
  <1>7. TypeOK'
    BY <1>2, <1>3, <1>5 DEF TypeOK
  <1>8. ListIsDeadline' /\ FastIsCopy' /\ SnapIsCopy' /\ WakesInTime'
    BY <1>2, <1>6 DEF TtlInv, ListIsDeadline, FastIsCopy, SnapIsCopy, WakesInTime
  <1>9. Cached' = B
    BY <1>2, <1>6 DEF Cached
  <1>10. CachedIsPrefix' /\ LoadInOrder'
    BY <1>2, <1>4, <1>9 DEF CachedIsPrefix, LoadInOrder
  <1> QED
    BY <1>7, <1>8, <1>10 DEF TtlInv

LEMMA LoadOneInv == ASSUME TtlInv, LoadOne PROVE TtlInv'
  <1>1. PICK k \in Lowest(snap) :
          /\ fast_keys' = [fast_keys EXCEPT ![k] = Real(snap[k])]
          /\ snap' = [snap EXCEPT ![k] = 0]
    BY DEF LoadOne
  <1>2. /\ pc = "load" /\ pc' = pc
        /\ UNCHANGED <<data, list, now, first_timeout, restarts, deadline>>
    BY DEF LoadOne
  <1>3. k \in Key /\ snap[k] # 0 /\ snap[k] = list[k] /\ TypeOK
    BY DEF Lowest, Entries, TtlInv, SnapIsCopy
  <1>4. Real(snap[k]) \in Start .. MaxTime /\ Real(snap[k]) # 0
    <2>1. snap[k] \in Score
      BY <1>3, Types
    <2> QED
      BY <1>3, <2>1, RealType, TimeAssumption
  <1>5. \A j \in Key : /\ fast_keys'[j] = (IF j = k THEN Real(list[k]) ELSE fast_keys[j])
                       /\ snap'[j] = (IF j = k THEN 0 ELSE snap[j])
    BY <1>1, <1>3 DEF TypeOK
  <1>6. TypeOK'
    <2>1. fast_keys' \in [Key -> {0} \cup Start .. MaxTime]
      BY <1>1, <1>3, <1>4 DEF TypeOK
    <2>2. snap' \in [Key -> Score]
      BY <1>1, <1>3 DEF TypeOK, Score
    <2> QED
      BY <1>2, <1>3, <2>1, <2>2 DEF TypeOK
  <1>7. ListIsDeadline' /\ WakesInTime'
    BY <1>2 DEF TtlInv, ListIsDeadline, WakesInTime
  <1>8. FastIsCopy' /\ SnapIsCopy'
    BY <1>2, <1>3, <1>5 DEF TtlInv, FastIsCopy, SnapIsCopy, Entries
  <1>9. Cached' = Cached
    BY <1>3, <1>4, <1>5 DEF Cached, Entries
  <1>10. CachedIsPrefix' /\ LoadInOrder'
    BY <1>2, <1>9 DEF TtlInv, CachedIsPrefix, LoadInOrder
  <1> QED
    BY <1>6, <1>7, <1>8, <1>10 DEF TtlInv

LEMMA LoadDoneInv == ASSUME TtlInv, LoadDone PROVE TtlInv'
  BY DEF LoadDone, TtlInv, TypeOK, ListIsDeadline, FastIsCopy, SnapIsCopy, CachedIsPrefix,
         Cached, LoadInOrder, WakesInTime

\* The key that Expire looks at: the first of all entries of the zset.
LEMMA FirstOfAll ==
  ASSUME TtlInv, pc = "expire", NEW k \in Lowest(fast_keys)
  PROVE  /\ k \in Key /\ fast_keys[k] # 0 /\ fast_keys[k] = Real(list[k]) /\ fast_keys[k] \in Nat
         /\ list[k] # 0
         /\ \A j \in Entries(list) : fast_keys[k] <= Real(list[j])
  <1>1. /\ k \in Key /\ fast_keys[k] # 0 /\ k \in Entries(fast_keys)
        /\ \A j \in Entries(fast_keys) : fast_keys[k] <= fast_keys[j]
    BY DEF Lowest, Entries
  <1>2. fast_keys[k] = Real(list[k]) /\ list[k] # 0
    BY <1>1 DEF TtlInv, FastIsCopy
  <1>3. Cached = Entries(fast_keys)
    BY DEF TtlInv, LoadInOrder, Cached
  <1>4. ASSUME NEW j \in Entries(list) PROVE fast_keys[k] <= Real(list[j])
    <2>1. CASE j \in Entries(fast_keys)
      BY <1>1, <2>1 DEF TtlInv, FastIsCopy
    <2>2. CASE j \notin Entries(fast_keys)
      BY <1>1, <1>2, <1>3, <2>2 DEF TtlInv, CachedIsPrefix
    <2> QED
      BY <2>1, <2>2
  <1>5. fast_keys[k] \in Nat
    BY <1>1, Types DEF TtlInv
  <1> QED
    BY <1>1, <1>2, <1>4, <1>5

LEMMA ExpireInv == ASSUME TtlInv, Expire PROVE TtlInv'
  <1>1. /\ pc = "expire" /\ pc' = "check"
        /\ UNCHANGED <<now, snap, restarts, deadline>>
    BY DEF Expire
  <1>2. Entries(snap) = {} /\ Cached = Entries(fast_keys)
    BY <1>1 DEF TtlInv, LoadInOrder, Cached
  <1>3. CASE /\ Entries(fast_keys) = {} /\ first_timeout' = INT64_MAX
             /\ UNCHANGED <<data, list, fast_keys>>
    <2>1. Entries(list) = {}
      BY <1>1, <1>2, <1>3 DEF TtlInv, LoadInOrder
    <2> QED
      BY <1>1, <1>2, <1>3, <2>1
      DEF TtlInv, TypeOK, ListIsDeadline, FastIsCopy, SnapIsCopy, CachedIsPrefix,
          Cached, LoadInOrder, WakesInTime
  <1>4. ASSUME NEW k \in Lowest(fast_keys), first_timeout' = fast_keys[k],
               \/ fast_keys[k] > now /\ UNCHANGED <<data, list, fast_keys>>
               \/ /\ data' = data \ {k}
                  /\ list' = [list EXCEPT ![k] = 0]
                  /\ fast_keys' = [fast_keys EXCEPT ![k] = 0]
        PROVE  TtlInv'
    <2>1. /\ k \in Key /\ fast_keys[k] # 0 /\ fast_keys[k] \in Nat
          /\ \A j \in Entries(list) : fast_keys[k] <= Real(list[j])
      BY <1>1, <1>4, FirstOfAll
    <2>2. TypeOK
      BY DEF TtlInv
    <2>3. first_timeout' \in Start .. MaxTime
      BY <1>4, <2>1, <2>2 DEF TypeOK
    <2>4. CASE UNCHANGED <<data, list, fast_keys>>
      <3>1. WakesInTime'
        BY <1>4, <2>1, <2>4 DEF WakesInTime
      <3> QED
        BY <1>1, <1>2, <2>3, <2>4, <3>1
        DEF TtlInv, TypeOK, ListIsDeadline, FastIsCopy, SnapIsCopy, CachedIsPrefix,
            Cached, LoadInOrder
    <2>5. CASE /\ data' = data \ {k}
               /\ list' = [list EXCEPT ![k] = 0]
               /\ fast_keys' = [fast_keys EXCEPT ![k] = 0]
      <3>1. \A j \in Key : /\ list'[j] = (IF j = k THEN 0 ELSE list[j])
                           /\ fast_keys'[j] = (IF j = k THEN 0 ELSE fast_keys[j])
        BY <2>2, <2>5 DEF TypeOK
      <3>2. TypeOK'
        <4>1. list' \in [Key -> Score]
          BY <2>2, <2>5 DEF TypeOK, Score
        <4>2. fast_keys' \in [Key -> {0} \cup Start .. MaxTime]
          BY <2>2, <2>5 DEF TypeOK
        <4> QED
          BY <1>1, <2>2, <2>3, <2>5, <4>1, <4>2 DEF TypeOK
      <3>3. ListIsDeadline'
        BY <1>1, <2>2, <2>5, <3>1 DEF TtlInv, ListIsDeadline, TypeOK
      <3>4. FastIsCopy'
        BY <3>1 DEF TtlInv, FastIsCopy, Entries
      <3>5. SnapIsCopy' /\ LoadInOrder'
        BY <1>1, <1>2 DEF SnapIsCopy, LoadInOrder
      <3>6. CachedIsPrefix'
        <4>1. Cached' = Entries(fast_keys')
          BY <1>1, <1>2 DEF Cached
        <4>2. \A i \in Entries(fast_keys'), j \in Entries(list') \ Entries(fast_keys') :
                /\ i \in Cached /\ j \in Entries(list) \ Cached
                /\ list'[i] = list[i] /\ list'[j] = list[j]
          BY <1>2, <3>1 DEF Entries
        <4> QED
          BY <4>1, <4>2 DEF TtlInv, CachedIsPrefix
      <3>7. WakesInTime'
        BY <1>4, <2>1, <3>1 DEF WakesInTime, Entries
      <3> QED
        BY <3>2, <3>3, <3>4, <3>5, <3>6, <3>7 DEF TtlInv
    <2> QED
      BY <1>4, <2>4, <2>5
  <1> QED
    BY <1>3, <1>4 DEF Expire

-----------------------------------------------------------------------------
(* The theorems. *)

LEMMA TtlNext ==
  ASSUME TtlInv, FewOld, Overlap = FALSE, [Next]_vars PROVE TtlInv'
  <1>1. CASE Caller
    BY <1>1, SetInv, DelInv DEF Caller
  <1>2. CASE ThreadStep
    BY <1>2, CheckInv, PeekInv, ScanInv, LoadOneInv, LoadDoneInv, ExpireInv DEF ThreadStep
  <1>3. CASE Tick \/ Restart \/ RestartInExpire
    BY <1>3, TickInv, RestartInv
  <1> QED
    BY <1>1, <1>2, <1>3, StutterInv DEF Next

LEMMA TtlAlways == ASSUME Overlap = FALSE PROVE Spec /\ []FewOld => []TtlInv
  <1>1. TtlInv /\ FewOld /\ [Next]_vars => TtlInv'
    BY TtlNext
  <1> QED
    BY TtlInit, <1>1, PTL DEF Spec

\* The zset holds the deadlines the callers asked for, and fast_keys is a true
\* copy of its first entries whenever the thread is between two rounds,
\* restarts inside a round included.
THEOREM TtlListsAgree == ASSUME Overlap = FALSE PROVE Spec /\ []FewOld => []ListsAgree
  <1>1. TtlInv => ListsAgree
    <2> SUFFICES ASSUME TtlInv, pc \in {"check", "peek"} PROVE FastIsPrefix
      BY DEF TtlInv, ListsAgree, FastIsPrefix
    <2> QED
      BY BetweenRounds DEF TtlInv, FastIsPrefix, FastIsCopy, Entries
  <1> QED
    BY <1>1, TtlAlways, PTL

\* Between two rounds the thread looks again no later than the first entry of
\* the zset expires, so that it may sleep for good only if there is none.
THEOREM TtlWakesInTime == ASSUME Overlap = FALSE PROVE Spec /\ []FewOld => []WakesInTime
  <1>1. TtlInv => WakesInTime
    BY DEF TtlInv
  <1> QED
    BY <1>1, TtlAlways, PTL

\* A key that the thread deletes, or that is gone when the process dies
\* between the two deletions, has a deadline, and it has come.
THEOREM TtlNoEarlyExpiry == ASSUME Overlap = FALSE PROVE Spec /\ []FewOld => NoEarlyExpiry
  <1>1. ASSUME TtlInv, [Next]_vars, NEW k \in data \ data', pc = "expire", pc' = "check"
        PROVE  deadline[k] # 0 /\ deadline[k] <= now
    <2>1. k \in Lowest(fast_keys) /\ fast_keys[k] <= now
      <3>1. CASE Expire
        <4>1. PICK j \in Lowest(fast_keys) :
                 \/ UNCHANGED data
                 \/ fast_keys[j] <= now /\ data' = data \ {j}
          BY <1>1, <3>1 DEF Expire
        <4> QED
          BY <1>1, <4>1
      <3>2. CASE RestartInExpire
        BY <1>1, <3>2 DEF RestartInExpire
      <3>3. CASE Restart
        BY <1>1, <3>3 DEF Restart
      <3>4. CASE Caller \/ (ThreadStep /\ ~Expire) \/ Tick \/ UNCHANGED vars
        BY <1>1, <3>4 DEF Caller, SetX, SetPlain, Remove, ThreadStep, Check, Peek, Scan, LoadOne,
                          LoadDone, Tick, vars, memory
      <3> QED
        BY <1>1, <3>1, <3>2, <3>3, <3>4 DEF Next
    <2>2. fast_keys[k] = Real(list[k]) /\ fast_keys[k] # 0
      BY <1>1, <2>1, FirstOfAll
    <2>3. Real(list[k]) = deadline[k]
      BY <1>1 DEF TtlInv, ListIsDeadline
    <2> QED
      BY <2>1, <2>2, <2>3
  <1>2. TtlInv /\ [Next]_vars =>
          [\A k \in data \ data' : pc = "expire" /\ pc' = "check" =>
             deadline[k] # 0 /\ deadline[k] <= now]_vars
    BY <1>1
  <1> QED
    BY <1>2, TtlAlways, PTL DEF Spec, NoEarlyExpiry
=============================================================================
