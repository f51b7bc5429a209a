---------------------------- MODULE MCSSDBQueue ----------------------------
(* Values of the constants for the checks of SSDBQueue. *)
EXTENDS SSDBQueue

\* One more than the queue can hold, from either end.
MCIndexes == -6 .. 5
=============================================================================
