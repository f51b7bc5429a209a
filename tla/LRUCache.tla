------------------------------ MODULE LRUCache ------------------------------
(***************************************************************************)
(* One shard of the LRU cache of leveldb (util/cache.cc) under the cache   *)
(* of open tables (db/table_cache.cc): threads look a table up, open and   *)
(* insert it when it is missing, use it without the cache's mutex and      *)
(* release it; files that are deleted are evicted.  The hash table with    *)
(* its buckets, the two lists and the reference counts are all explicit,   *)
(* and a handle that is freed may be allocated again.                      *)
(***************************************************************************)
EXTENDS Integers, Sequences, FiniteSets, SequencesExt, FiniteSetsExt

CONSTANTS
  Users,         \* the threads
  Files,         \* file numbers, which are the keys; a number is its own hash
  Charges,       \* what an entry may cost: 1 for a table, its size for a block
  capacity_,
  MinBuckets,    \* buckets of the smallest hash table (4 in the code)
  MaxHandles,    \* bound: handles allocated at a time
  Free           \* an id that is not allocated

VARIABLES
  cache,         \* h: the handles; list_: the buckets; elems_; lru_; in_use_; usage_
  user           \* each thread: the file it wants, the handle it holds

lcvars == <<cache, user>>

ASSUME CacheAssumption ==
  /\ IsFiniteSet(Users) /\ Files \subseteq Nat \ {0}
  /\ Charges \subseteq Nat /\ Charges # {} /\ IsFiniteSet(Charges)
  /\ capacity_ \in Nat \ {0} /\ MinBuckets \in Nat \ {0} /\ MaxHandles \in Nat
ASSUME FreeAssumption == Free \notin [key : Nat, refs : Nat, in_cache : BOOLEAN, charge : Nat]

Handles == 1 .. MaxHandles
Away == [file |-> 0, handle |-> 0]

LRUCacheInit ==
  /\ cache = [h |-> [i \in Handles |-> Free], list_ |-> [b \in 0 .. MinBuckets - 1 |-> <<>>], elems_ |-> 0,
              lru_ |-> <<>>, in_use_ |-> {}, usage_ |-> 0]
  /\ user = [u \in Users |-> Away]

-----------------------------------------------------------------------------
(* HandleTable *)

length_(c) == Cardinality(DOMAIN c.list_)
Bucket(c, key) == key % length_(c)

\* FindPointer: the place of the key in its bucket, or the one behind the end.
FindPointer(c, key) ==
  LET s == c.list_[Bucket(c, key)]
      i == SelectInSeq(s, LAMBDA e : c.h[e].key = key)
  IN IF i = 0 THEN Len(s) + 1 ELSE i

TableLookup(c, key) ==
  LET s == c.list_[Bucket(c, key)]
      i == FindPointer(c, key)
  IN IF i > Len(s) THEN 0 ELSE s[i]

\* Resize, when one entry is too many: the loop that doubles the smallest
\* length ends at twice the length.  The entries are visited bucket by bucket,
\* and each goes to the front of its new bucket.
VisitedAfter(c, x, y) ==
  LET bucket(e) == Bucket(c, c.h[e].key)
      place(e) == FindPointer(c, c.h[e].key)
  IN bucket(x) > bucket(y) \/ (bucket(x) = bucket(y) /\ place(x) > place(y))

Resize(c) ==
  LET n == 2 * length_(c)
      bucket(b) == {e \in UNION {ToSet(c.list_[a]) : a \in DOMAIN c.list_} : c.h[e].key % n = b}
      filled(S) == [i \in 1 .. Cardinality(S) |->
                      CHOOSE e \in S : Cardinality({x \in S : VisitedAfter(c, x, e)}) = i - 1]
  IN [c EXCEPT !.list_ = [b \in 0 .. n - 1 |-> filled(bucket(b))]]

\* Insert: takes the place of an entry with the same key, else goes to the end.
TableInsert(c, e) ==
  LET key == c.h[e].key
      old == TableLookup(c, key)
      d == [c EXCEPT !.list_[Bucket(c, key)] =
                       IF old = 0 THEN Append(@, e) ELSE [@ EXCEPT ![FindPointer(c, key)] = e],
                     !.elems_ = @ + (IF old = 0 THEN 1 ELSE 0)]
  IN IF old = 0 /\ d.elems_ > length_(d) THEN Resize(d) ELSE d

TableRemove(c, key) ==
  IF TableLookup(c, key) = 0 THEN c
  ELSE [c EXCEPT !.list_[Bucket(c, key)] = RemoveAt(@, FindPointer(c, key)), !.elems_ = @ - 1]

-----------------------------------------------------------------------------
(* LRUCache *)

Ref(c, e) ==
  LET d == IF c.h[e].refs = 1 /\ c.h[e].in_cache
           THEN [c EXCEPT !.lru_ = RemoveFirst(@, e), !.in_use_ = @ \cup {e}] ELSE c
  IN [d EXCEPT !.h[e].refs = @ + 1]

\* Mutant: an erased entry is freed with the first client that releases it.
Unref_early(c, e) ==
  LET r == c.h[e].refs - 1 IN
    IF r = 0 \/ ~c.h[e].in_cache THEN [c EXCEPT !.h[e] = Free]
    ELSE IF r = 1 THEN [c EXCEPT !.h[e].refs = r, !.in_use_ = @ \ {e}, !.lru_ = Append(@, e)]
    ELSE [c EXCEPT !.h[e].refs = r]

\* The last reference frees the entry (and calls its deleter); the last one of
\* a client moves it to the LRU list.
Unref(c, e) ==
  LET r == c.h[e].refs - 1 IN
    IF r = 0 THEN [c EXCEPT !.h[e] = Free]
    ELSE IF r = 1 /\ c.h[e].in_cache
    THEN [c EXCEPT !.h[e].refs = r, !.in_use_ = @ \ {e}, !.lru_ = Append(@, e)]
    ELSE [c EXCEPT !.h[e].refs = r]

\* FinishErase of an entry that is out of the hash table already.
FinishErase(c, e) ==
  IF e = 0 THEN c
  ELSE Unref([c EXCEPT !.lru_ = RemoveFirst(@, e), !.in_use_ = @ \ {e}, !.h[e].in_cache = FALSE,
                       !.usage_ = @ - c.h[e].charge], e)

Erased(c, key) == FinishErase(TableRemove(c, key), TableLookup(c, key))

\* The loop of Insert and of Prune: the oldest unused entries go.
EvictAbove(limit, c, e) == IF c.usage_ > limit THEN Erased(c, c.h[e].key) ELSE c
Evicted(c, limit) == FoldLeft(LAMBDA d, e : EvictAbove(limit, d, e), c, c.lru_)

\* Insert of a new entry e, which replaces one with the same key.
CacheInserted(c, e, key, charge) ==
  LET d == [c EXCEPT !.h[e] = [key |-> key, refs |-> 2, in_cache |-> TRUE, charge |-> charge],
                     !.in_use_ = @ \cup {e}, !.usage_ = @ + charge]
  IN Evicted(FinishErase(TableInsert(d, e), TableLookup(c, key)), capacity_)

-----------------------------------------------------------------------------
(* The threads *)

\* TableCache::FindTable: the handle, or the file has to be opened.
FindTable(u, key) ==
  LET e == TableLookup(cache, key) IN
    /\ user[u] = Away
    /\ cache' = IF e = 0 THEN cache ELSE Ref(cache, e)
    /\ user' = [user EXCEPT ![u] = [file |-> key, handle |-> e]]

\* The file is open: another thread may have inserted it meanwhile.
InsertTable(u, e, charge) ==
  /\ user[u].file # 0 /\ user[u].handle = 0
  /\ cache.h[e] = Free /\ \A x \in Handles : cache.h[x] = Free => e <= x
  /\ cache' = CacheInserted(cache, e, user[u].file, charge)
  /\ user' = [user EXCEPT ![u].handle = e]

\* Opening failed; errors are not cached.
OpenFails(u) ==
  /\ user[u].file # 0 /\ user[u].handle = 0
  /\ user' = [user EXCEPT ![u] = Away]
  /\ UNCHANGED cache

\* Cache::Release, at the end of Get or when the iterator is deleted.
ReleaseTable(u) ==
  /\ user[u].handle # 0
  /\ cache' = Unref(cache, user[u].handle)
  /\ user' = [user EXCEPT ![u] = Away]

\* TableCache::Evict, for a file that is deleted.
EvictTable(key) ==
  /\ cache' = Erased(cache, key)
  /\ UNCHANGED user

Prune ==
  /\ cache' = Evicted(cache, -1)
  /\ UNCHANGED user

LRUCacheNext ==
  \/ \E u \in Users :
       \/ \E key \in Files : FindTable(u, key)
       \/ \E e \in Handles, charge \in Charges : InsertTable(u, e, charge)
       \/ OpenFails(u) \/ ReleaseTable(u)
  \/ \E key \in Files : EvictTable(key)
  \/ Prune

-----------------------------------------------------------------------------
Allocated == {e \in Handles : cache.h[e] # Free}

InCache == {e \in Allocated : cache.h[e].in_cache}

\* A handle that a thread holds is never freed, and one that neither a thread
\* nor the cache refers to always is.
HeldIsAlive == Allocated = InCache \cup {user[u].handle : u \in {v \in Users : user[v].handle # 0}}

\* The reference counts, the two lists and the hash table agree: an entry of
\* the cache is found under its key, is on the LRU list exactly when only the
\* cache refers to it, and the usage is the sum of the charges.
CacheAgrees ==
  /\ \A e \in Allocated :
       cache.h[e].refs = Cardinality({u \in Users : user[u].handle = e}) + (IF e \in InCache THEN 1 ELSE 0)
  /\ ToSet(cache.lru_) = {e \in InCache : cache.h[e].refs = 1} /\ IsInjective(cache.lru_)
  /\ cache.in_use_ = {e \in InCache : cache.h[e].refs > 1}
  /\ \A e \in InCache : TableLookup(cache, cache.h[e].key) = e
  /\ cache.elems_ = Cardinality(InCache)
  /\ cache.usage_ = MapThenSumSet(LAMBDA e : cache.h[e].charge, InCache)

\* However insertions, uses and releases follow each other, the cache holds no
\* more than its capacity or, when that is less, what the threads can hold.
CacheBounded == cache.usage_ <= Max({capacity_, Cardinality(Users) * Max(Charges)})

\* No handle is used after it is freed, none is forgotten, none is counted twice.
CacheIsSound == HeldIsAlive /\ CacheAgrees /\ CacheBounded
=============================================================================
