------------------------------ MODULE SkipList ------------------------------
(***************************************************************************)
(* The skip list of a memtable (db/skiplist.h): one writer at a time links *)
(* a node level by level, readers search without a lock.  Every load of a  *)
(* link by a reader and every store by the writer is a step.  Node 0 is    *)
(* the head; a node is its key.  The links of a node are uninitialized     *)
(* memory of the arena until the writer sets them.                         *)
(***************************************************************************)
EXTENDS Integers, FiniteSets, FiniteSetsExt

CONSTANTS
  ListKeys,      \* the keys inserted
  kMaxHeight,
  Null,          \* the null pointer
  Junk           \* what uninitialized memory holds

ASSUME SkipListAssumption ==
  /\ ListKeys \subseteq Nat \ {0} /\ kMaxHeight \in Nat \ {0}
  /\ Null \notin ListKeys \cup {0} /\ Junk \notin ListKeys \cup {0, Null}

VARIABLES
  link,          \* link[x][i] is x->next_[i]
  max_height_,
  wr,            \* the writer: the key it inserts (0: none), height, level, prev
  rd,            \* the reader: operation, target, where it is, its node_
  known          \* the keys that were in the list when the reader began

slvars == <<link, max_height_, wr, rd, known>>

Nodes == {0} \cup ListKeys
Heights == 0 .. kMaxHeight - 1
Resting == [at |-> "done", op |-> "last", key |-> 0, x |-> 0, level |-> 0, node |-> Null]

SkipListInit ==
  /\ link = [x \in Nodes |-> [i \in Heights |-> IF x = 0 THEN Null ELSE Junk]]
  /\ max_height_ = 1
  /\ wr = [key |-> 0, h |-> 0, i |-> 0, prev |-> [i \in Heights |-> 0]]
  /\ rd = Resting /\ known = {}

KeyIsAfterNode(key, n) == n # Null /\ n < key

\* The nodes that are linked on level i; on the lowest, those in the list.
Linked(i) == {x \in ListKeys : \E y \in Nodes : link[y][i] = x}
Inserted == Linked(0)

\* The node a search for key leaves level i at: the last one in front of it.
Preceding(i, key) ==
  CHOOSE x \in {0} \cup Linked(i) : x < key /\ ~KeyIsAfterNode(key, link[x][i])

-----------------------------------------------------------------------------
(* The writer *)

\* Insert up to the new max_height_: prev is filled from the search, and with
\* the head above it.
InsertBegin(key, h) ==
  /\ wr.key = 0 /\ key \notin Inserted
  /\ wr' = [key |-> key, h |-> h, i |-> 0,
            prev |-> [i \in Heights |-> IF i < max_height_ THEN Preceding(i, key) ELSE 0]]
  /\ max_height_' = Max({max_height_, h})
  /\ UNCHANGED <<link, rd, known>>

\* Mutant: the links are stored from the top level down.
LevelNow_down == wr.h - 1 - wr.i

\* The level the loop of Insert is at.
LevelNow == wr.i

\* NoBarrier_SetNext of the node itself ...
SetOwn ==
  /\ wr.key # 0 /\ link[wr.key][LevelNow] = Junk
  /\ link' = [link EXCEPT ![wr.key][LevelNow] = link[wr.prev[LevelNow]][LevelNow]]
  /\ UNCHANGED <<max_height_, wr, rd, known>>

\* ... then SetNext of its predecessor, which publishes it on this level.
Publish ==
  /\ wr.key # 0 /\ link[wr.key][LevelNow] # Junk
  /\ link' = [link EXCEPT ![wr.prev[LevelNow]][LevelNow] = wr.key]
  /\ wr' = IF wr.i + 1 < wr.h THEN [wr EXCEPT !.i = @ + 1] ELSE [wr EXCEPT !.key = 0]
  /\ UNCHANGED <<max_height_, rd, known>>

-----------------------------------------------------------------------------
(* The reader *)

\* A search starts at the head on the top level; the reader may still see an
\* older max_height_.
SearchBegin(op, key, top) ==
  /\ rd.at = "done" /\ top < max_height_
  /\ rd' = [at |-> "level", op |-> op, key |-> key, x |-> 0, level |-> top, node |-> Null]
  /\ known' = Inserted
  /\ UNCHANGED <<link, max_height_, wr>>

\* FindGreaterOrEqual and FindLessThan pass every node in front of the key,
\* FindLast every node.
StaysOnLevel(op, key, n) == IF op = "last" THEN n # Null ELSE KeyIsAfterNode(key, n)

\* What the iterator's node_ becomes: the head counts as no node.
NodeFound(op, x, n) == IF op = "seek" THEN n ELSE IF x = 0 THEN Null ELSE x

SearchStep ==
  LET n == link[rd.x][rd.level] IN
    /\ rd.at = "level"
    /\ rd' = IF n = Junk THEN [rd EXCEPT !.at = "crashed"]
             ELSE IF StaysOnLevel(rd.op, rd.key, n) THEN [rd EXCEPT !.x = n]
             ELSE IF rd.level > 0 THEN [rd EXCEPT !.level = @ - 1]
             ELSE [rd EXCEPT !.at = "done", !.node = NodeFound(rd.op, rd.x, n)]
    /\ UNCHANGED <<link, max_height_, wr, known>>

\* Iterator::Next, and SeekToFirst from the head.
StepNext(x) ==
  /\ rd.at = "done" /\ (x = 0 \/ x = rd.node)
  /\ rd' = [at |-> IF link[x][0] = Junk THEN "crashed" ELSE "done", op |-> "next", key |-> x,
            x |-> x, level |-> 0, node |-> link[x][0]]
  /\ known' = Inserted
  /\ UNCHANGED <<link, max_height_, wr>>

SkipListNext ==
  \/ \E key \in ListKeys, h \in 1 .. kMaxHeight : InsertBegin(key, h)
  \/ SetOwn \/ Publish \/ SearchStep
  \/ \E top \in Heights :
       \/ \E key \in ListKeys : SearchBegin("seek", key, top)
       \/ rd.node \in ListKeys /\ SearchBegin("prev", rd.node, top)
       \/ SearchBegin("last", 0, top)
  \/ \E x \in Nodes : StepNext(x)

-----------------------------------------------------------------------------
\* No reader follows a link that is not initialized: a node is reachable on a
\* level only when its links up to that level are set.
NoJunkRead == rd.at # "crashed"

\* A search misses no key that was in the list when it began, and its result
\* is in the list and on the right side of the target, whatever the writer has
\* linked meanwhile and whichever max_height_ the reader has seen.
SearchIsRight ==
  rd.at = "done" =>
    LET n == rd.node
        missed == CASE rd.op = "seek" -> {k \in known : k >= rd.key /\ (n # Null => k < n)}
                    [] rd.op = "prev" -> {k \in known : k < rd.key /\ (n # Null => k > n)}
                    [] rd.op = "last" -> {k \in known : n # Null => k > n}
                    [] rd.op = "next" -> {k \in known : k > rd.key /\ (n # Null => k < n)}
    IN /\ missed = {}
       /\ n # Null => n \in Inserted /\ (rd.op = "seek" => n >= rd.key) /\ (rd.op = "prev" => n < rd.key)

\* Readers need no lock: they see initialized links and find what they should.
LockFreeReads == NoJunkRead /\ SearchIsRight
=============================================================================
