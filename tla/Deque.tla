------------------------------- MODULE Deque -------------------------------
(***************************************************************************)
(* What a queue of SSDB promises: a sequence of items that grows and       *)
(* shrinks at both ends and may be overwritten by index, each operation    *)
(* atomic and answering with the return code of its C++ function.  Any     *)
(* modification may also fail, with -1 and without effect.                 *)
(***************************************************************************)
EXTENDS Integers, Sequences

CONSTANTS
  Item,       \* what a queue holds
  Indexes     \* arguments of qset; a negative one counts from the back

VARIABLES
  q,          \* the items, front first
  ret         \* return code and item of the last operation

vars == <<q, ret>>

Result(code) == [code |-> code, item |-> {}]
Popped(i)    == [code |-> 1, item |-> {i}]

PushBack(i)  == q' = Append(q, i) /\ ret' = Result(Len(q) + 1)

PushFront(i) == q' = <<i>> \o q /\ ret' = Result(Len(q) + 1)

PopBack ==
  /\ q # <<>>
  /\ q' = SubSeq(q, 1, Len(q) - 1)
  /\ ret' = Popped(q[Len(q)])

PopFront ==
  /\ q # <<>>
  /\ q' = Tail(q)
  /\ ret' = Popped(Head(q))

PopEmpty == q = <<>> /\ ret' = Result(0) /\ UNCHANGED q

\* Overwrite the item at position p (counted from 1).
Write(p, i) == q' = [q EXCEPT ![p] = i] /\ ret' = Result(1)

Set(x, i) ==
  \/ x >= 0 /\ x < Len(q) /\ Write(x + 1, i)
  \/ x < 0 /\ -x <= Len(q) /\ Write(Len(q) + x + 1, i)
  \/ x \notin (-Len(q)) .. (Len(q) - 1) /\ ret' = Result(0) /\ UNCHANGED q

\* An item overwritten by its stored sequence number, or a number refused.
SetBySeq(i) ==
  \/ \E p \in DOMAIN q : Write(p, i)
  \/ ret' = Result(0) /\ UNCHANGED q

\* A repair of a healthy queue: nothing happens.
Fix == ret' = Result(0) /\ UNCHANGED q

Fail == ret' = Result(-1) /\ UNCHANGED q

Init == q = <<>> /\ ret = Result(0)

Next ==
  \/ \E i \in Item : PushBack(i) \/ PushFront(i) \/ SetBySeq(i)
  \/ PopBack \/ PopFront \/ PopEmpty
  \/ \E x \in Indexes, i \in Item : Set(x, i)
  \/ Fix \/ Fail

Spec == Init /\ [][Next]_vars
=============================================================================
