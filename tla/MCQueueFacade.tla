--------------------------- MODULE MCQueueFacade ---------------------------
(* Values of the constants for the checks of QueueFacade. *)
EXTENDS QueueFacade

MCItem == 1 .. MaxItem
Symmetry == Permutations(Thread)
=============================================================================
