--------------------------- MODULE MCExpiration ----------------------------
(* Both beginnings of Expiration in one run: an empty database, or one with  *)
(* entries of an older version.  Entries of the two versions are not ordered *)
(* by time in the zset, so that with more of them than BATCH_SIZE a key may  *)
(* expire late; in a behaviour with old entries there are at most so many.   *)
EXTENDS Expiration

VARIABLE old

MCInit == Init /\ old = (Entries(list) # {}) /\ Cardinality(Entries(list)) <= BATCH_SIZE

MCNext == Next /\ UNCHANGED old /\ (old => Cardinality(Entries(list')) <= BATCH_SIZE)

MCFairSpec == MCInit /\ [][MCNext]_<<vars, old>> /\ WF_vars(ThreadStep) /\ WF_vars(Tick)
=============================================================================
