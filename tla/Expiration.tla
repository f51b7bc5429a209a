---------------------------- MODULE Expiration -----------------------------
(***************************************************************************)
(* Expiring keys: ExpirationHandler (ssdb/ssdb/ttl.{h,cpp}) with its       *)
(* SortedSet of the next keys to expire (util/sorted_set.cpp).  The        *)
(* expiration times of all keys are a zset in the database; fast_keys is a *)
(* cache of its lowest BATCH_SIZE entries, and first_timeout tells the     *)
(* thread when to look again.                                              *)
(*                                                                         *)
(* Callers hold the handler's mutex while they modify a key and its time   *)
(* to live, so each call is one action; the thread takes and releases the  *)
(* mutex several times in one round, so its round is several.  The callers *)
(* are not part of the repository: SetX, SetPlain and Remove are what      *)
(* set_ttl and del_ttl are for.  Times are whole numbers above 0, 0 means  *)
(* no entry.                                                               *)
(***************************************************************************)
EXTENDS Integers, FiniteSets

CONSTANTS
  Key,
  BATCH_SIZE,
  Ttls,         \* arguments of set_ttl
  Start,        \* the time at the beginning
  MaxTime,      \* bound: time stops here
  MaxRestarts,  \* bound: how often the process is restarted
  INT64_MAX,    \* first_timeout when there is nothing to expire
  OldScale,     \* an entry below Start was written by an older version, in
                \* units of OldScale (seconds instead of milliseconds)
  OldScores,    \* such entries, found in the database at the beginning
  Overlap       \* may a caller get the mutex in the middle of expire_loop?

ASSUME TimeAssumption ==
  /\ Start \in Nat \ {0} /\ MaxTime \in Nat /\ INT64_MAX \in Nat
  /\ Start <= MaxTime /\ MaxTime < INT64_MAX
  /\ Ttls \subseteq Nat
  /\ MaxRestarts \in Nat
ASSUME BatchAssumption == BATCH_SIZE \in Nat \ {0}
ASSUME OldAssumption ==
  /\ OldScale \in Nat
  /\ OldScores \subseteq 1 .. Start - 1
  /\ \A s \in OldScores : s * OldScale \in Start .. MaxTime
ASSUME OverlapAssumption == Overlap \in BOOLEAN
ASSUME KeyAssumption == IsFiniteSet(Key)

VARIABLES
  data,          \* the keys that exist
  list,          \* the zset of expiration times in the database
  now,           \* time_ms
  fast_keys,     \* the SortedSet
  first_timeout,
  snap,          \* entries the iterator of load_expiration_keys_from_db has yet to return
  pc,            \* where the thread is
  restarts,      \* how often the process was restarted
  deadline       \* history: when the callers want a key gone, 0 if never

memory == <<fast_keys, first_timeout, snap, pc>>
vars   == <<data, list, now, memory, restarts, deadline>>

None == [k \in Key |-> 0]
Entries(f) == {k \in Key : f[k] # 0}

\* The keys with the lowest and with the highest score; equal scores are
\* ordered by key, which is left open here.
Lowest(f)  == {k \in Entries(f) : \A j \in Entries(f) : f[k] <= f[j]}
Highest(f) == {k \in Entries(f) : \A j \in Entries(f) : f[j] <= f[k]}

\* Scores as load_expiration_keys_from_db reads them.
Real(s) == IF s < Start THEN s * OldScale ELSE s

-----------------------------------------------------------------------------
(* The callers. *)

MayEnter == Overlap \/ pc \in {"check", "peek"}

\* SortedSet::add, and the element behind the last one dropped.
AddFast(k, score) ==
  LET f == [fast_keys EXCEPT ![k] = score]
  IN IF Cardinality(Entries(f)) > BATCH_SIZE
       THEN \E m \in Highest(f) : fast_keys' = [f EXCEPT ![m] = 0]
       ELSE fast_keys' = f

\* first_timeout not lowered,
set_ttl_asleep(k, ttl) ==
  /\ list' = [list EXCEPT ![k] = now + ttl]
  /\ UNCHANGED first_timeout
  /\ IF \E j \in Entries(fast_keys) : now + ttl <= fast_keys[j]
       THEN AddFast(k, now + ttl)
       ELSE fast_keys' = [fast_keys EXCEPT ![k] = 0]

\* every key cached, whatever its score.
set_ttl_cache(k, ttl) ==
  /\ list' = [list EXCEPT ![k] = now + ttl]
  /\ first_timeout' = IF now + ttl < first_timeout THEN now + ttl ELSE first_timeout
  /\ IF Entries(fast_keys) # {}
       THEN AddFast(k, now + ttl)
       ELSE fast_keys' = [fast_keys EXCEPT ![k] = 0]

set_ttl(k, ttl) ==
  /\ list' = [list EXCEPT ![k] = now + ttl]
  /\ first_timeout' = IF now + ttl < first_timeout THEN now + ttl ELSE first_timeout
  /\ IF \E j \in Entries(fast_keys) : now + ttl <= fast_keys[j]
       THEN AddFast(k, now + ttl)
       ELSE fast_keys' = [fast_keys EXCEPT ![k] = 0]

del_ttl(k) ==
  /\ UNCHANGED first_timeout
  /\ IF first_timeout # INT64_MAX
       THEN /\ fast_keys' = [fast_keys EXCEPT ![k] = 0]
            /\ list' = [list EXCEPT ![k] = 0]
       ELSE UNCHANGED <<fast_keys, list>>

SetX(k, ttl) ==
  /\ MayEnter
  /\ now < MaxTime /\ now + ttl <= MaxTime
  /\ data' = data \cup {k}
  /\ deadline' = [deadline EXCEPT ![k] = now + ttl]
  /\ set_ttl(k, ttl)
  /\ UNCHANGED <<now, snap, pc, restarts>>

SetPlain(k) ==
  /\ MayEnter
  /\ data' = data \cup {k}
  /\ deadline' = [deadline EXCEPT ![k] = 0]
  /\ del_ttl(k)
  /\ UNCHANGED <<now, snap, pc, restarts>>

Remove(k) ==
  /\ MayEnter
  /\ data' = data \ {k}
  /\ deadline' = [deadline EXCEPT ![k] = 0]
  /\ del_ttl(k)
  /\ UNCHANGED <<now, snap, pc, restarts>>

-----------------------------------------------------------------------------
(* The thread: thread_func, expire_loop, load_expiration_keys_from_db.     *)
(* Every section that holds the mutex is one action.                       *)

\* It sleeps and tests again until first_timeout has come.
Check ==
  /\ pc = "check" /\ first_timeout <= now
  /\ pc' = "peek"
  /\ UNCHANGED <<data, list, now, fast_keys, first_timeout, snap, restarts, deadline>>

Peek ==
  /\ pc = "peek"
  /\ pc' = IF Entries(fast_keys) = {} THEN "scan" ELSE "expire"
  /\ UNCHANGED <<data, list, now, fast_keys, first_timeout, snap, restarts, deadline>>

\* The first entries of the zset, at most BATCH_SIZE.
IsBatch(B) ==
  /\ Cardinality(B) <= BATCH_SIZE
  /\ B # Entries(list) => Cardinality(B) = BATCH_SIZE
  /\ \A i \in B, j \in Entries(list) \ B : list[i] <= list[j]

\* The iterator is created without the mutex and sees the zset of that moment.
Scan ==
  /\ pc = "scan"
  /\ \E B \in SUBSET Entries(list) :
       /\ IsBatch(B)
       /\ snap' = [k \in Key |-> IF k \in B THEN list[k] ELSE 0]
  /\ pc' = "load"
  /\ UNCHANGED <<data, list, now, fast_keys, first_timeout, restarts, deadline>>

LoadOne ==
  /\ pc = "load"
  /\ \E k \in Lowest(snap) :
       /\ fast_keys' = [fast_keys EXCEPT ![k] = Real(snap[k])]
       /\ snap' = [snap EXCEPT ![k] = 0]
  /\ UNCHANGED <<data, list, now, first_timeout, pc, restarts, deadline>>

LoadDone ==
  /\ pc = "load" /\ Entries(snap) = {}
  /\ pc' = "expire"
  /\ UNCHANGED <<data, list, now, fast_keys, first_timeout, snap, restarts, deadline>>

\* Mutants: the score compared with the time in seconds,
Expire_seconds ==
  /\ pc = "expire"
  /\ pc' = "check"
  /\ \/ /\ Entries(fast_keys) = {}
        /\ first_timeout' = INT64_MAX
        /\ UNCHANGED <<data, list, fast_keys>>
     \/ \E k \in Lowest(fast_keys) :
          /\ first_timeout' = fast_keys[k]
          /\ \/ fast_keys[k] > now \div OldScale /\ UNCHANGED <<data, list, fast_keys>>
             \/ /\ fast_keys[k] <= now \div OldScale
                /\ data' = data \ {k}
                /\ list' = [list EXCEPT ![k] = 0]
                /\ fast_keys' = [fast_keys EXCEPT ![k] = 0]
  /\ UNCHANGED <<now, snap, restarts, deadline>>

\* a key deleted one moment too soon.
Expire_soon ==
  /\ pc = "expire"
  /\ pc' = "check"
  /\ \/ /\ Entries(fast_keys) = {}
        /\ first_timeout' = INT64_MAX
        /\ UNCHANGED <<data, list, fast_keys>>
     \/ \E k \in Lowest(fast_keys) :
          /\ first_timeout' = fast_keys[k]
          /\ \/ fast_keys[k] > now + 1 /\ UNCHANGED <<data, list, fast_keys>>
             \/ /\ fast_keys[k] <= now + 1
                /\ data' = data \ {k}
                /\ list' = [list EXCEPT ![k] = 0]
                /\ fast_keys' = [fast_keys EXCEPT ![k] = 0]
  /\ UNCHANGED <<now, snap, restarts, deadline>>

\* The second locked section: expire the first key if its time has come.
Expire ==
  /\ pc = "expire"
  /\ pc' = "check"
  /\ \/ /\ Entries(fast_keys) = {}
        /\ first_timeout' = INT64_MAX
        /\ UNCHANGED <<data, list, fast_keys>>
     \/ \E k \in Lowest(fast_keys) :
          /\ first_timeout' = fast_keys[k]
          /\ \/ fast_keys[k] > now /\ UNCHANGED <<data, list, fast_keys>>
             \/ /\ fast_keys[k] <= now
                /\ data' = data \ {k}
                /\ list' = [list EXCEPT ![k] = 0]
                /\ fast_keys' = [fast_keys EXCEPT ![k] = 0]
  /\ UNCHANGED <<now, snap, restarts, deadline>>

-----------------------------------------------------------------------------
(* Time, and the end of the process followed by a new ExpirationHandler. *)

Tick ==
  /\ now < MaxTime
  /\ now' = now + 1
  /\ UNCHANGED <<data, list, memory, restarts, deadline>>

Restarted ==
  /\ restarts < MaxRestarts
  /\ restarts' = restarts + 1
  /\ fast_keys' = None
  /\ first_timeout' = 0
  /\ snap' = None
  /\ pc' = "check"

Restart == Restarted /\ UNCHANGED <<data, list, now, deadline>>

\* The process dies between ssdb->del and ssdb->zdel.
RestartInExpire ==
  /\ pc = "expire"
  /\ \E k \in Lowest(fast_keys) : fast_keys[k] <= now /\ data' = data \ {k}
  /\ Restarted
  /\ UNCHANGED <<list, now, deadline>>

-----------------------------------------------------------------------------
\* A database, possibly of an older version, and a new handler.
Init ==
  /\ list \in [Key -> OldScores \cup {0}]
  /\ data = Entries(list)
  /\ deadline = [k \in Key |-> Real(list[k])]
  /\ now = Start
  /\ fast_keys = None /\ first_timeout = 0 /\ snap = None /\ pc = "check"
  /\ restarts = 0

Caller == \E k \in Key : SetPlain(k) \/ Remove(k) \/ \E ttl \in Ttls : SetX(k, ttl)

ThreadStep == Check \/ Peek \/ Scan \/ LoadOne \/ LoadDone \/ Expire

Next == Caller \/ ThreadStep \/ Tick \/ Restart \/ RestartInExpire

Spec == Init /\ [][Next]_vars

\* The thread runs and time passes.
FairSpec == Spec /\ WF_vars(ThreadStep) /\ WF_vars(Tick)

-----------------------------------------------------------------------------
Score == {0} \cup OldScores \cup Start .. MaxTime

\* Every variable has its type.
TypeOK ==
  /\ data \subseteq Key
  /\ list \in [Key -> Score]
  /\ now \in Start .. MaxTime
  /\ fast_keys \in [Key -> {0} \cup Start .. MaxTime]
  /\ first_timeout \in {0, INT64_MAX} \cup Start .. MaxTime
  /\ snap \in [Key -> Score]
  /\ pc \in {"check", "peek", "scan", "load", "expire"}
  /\ restarts \in 0 .. MaxRestarts
  /\ deadline \in [Key -> {0} \cup Start .. MaxTime]

\* The zset holds what the callers asked for, as long as the key exists.
ListIsDeadline == \A k \in data : Real(list[k]) = deadline[k]

\* What first_timeout is for: between two rounds the thread wakes up no later
\* than the first key of the zset expires.
WakesInTime ==
  pc \in {"check", "peek"} => \A k \in Entries(list) : first_timeout <= Real(list[k])

\* fast_keys is a true copy of the lowest entries of the zset.
FastIsPrefix ==
  pc \in {"check", "peek"} =>
    /\ \A k \in Entries(fast_keys) : list[k] # 0 /\ fast_keys[k] = Real(list[k])
    /\ \A k \in Entries(fast_keys), j \in Entries(list) \ Entries(fast_keys) :
         fast_keys[k] <= Real(list[j])

\* "fast_keys and expire_list_in_db empty" is why the thread sleeps until it
\* is told otherwise.
SleepMeansEmpty ==
  pc = "check" /\ first_timeout = INT64_MAX => Entries(list) = {} /\ Entries(fast_keys) = {}

\* A key disappears by itself only when its time has come: one whose
\* get_ttl is -1 ("the key exist but has no associated expire"), or whose
\* time was extended, stays.
NoEarlyExpiry ==
  [][\A k \in data \ data' : pc = "expire" /\ pc' = "check" =>
       deadline[k] # 0 /\ deadline[k] <= now]_vars

\* A key whose time has come disappears, unless a caller changes its mind.
Expires ==
  \A k \in Key : (k \in data /\ deadline[k] # 0 /\ deadline[k] <= now)
                   ~> (k \notin data \/ deadline[k] = 0 \/ deadline[k] > now)

\* The deadlines of the callers, the zset and fast_keys tell the same times.
ListsAgree == TypeOK /\ ListIsDeadline /\ FastIsPrefix
=============================================================================
