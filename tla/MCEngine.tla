------------------------------ MODULE MCEngine ------------------------------
(* The parts of the storage engine that TLC checks together, one at a time:  *)
(* `focus' is the part a behaviour is about, and the others stay in one of   *)
(* their initial states.                                                     *)
EXTENDS DBImpl, Versions, Iterators, Snappy, TLC

VARIABLE focus

\* Words of seven bytes, the shortest ones, and runs that need several copies.
MCInputs ==
  [1 .. 7 -> {0, 1}] \cup {<<>>, <<0>>, <<1, 0>>} \cup
  {[i \in 1 .. n |-> p[((i - 1) % Len(p)) + 1]] : n \in {12, 17}, p \in {<<1>>, <<0, 1>>, <<0, 0, 1>>}}

Parts == {"db", "versions", "iterators", "snappy"}

\* Bound: calls of Write, and failures, crashes and reads, together.
MaxHistory == 4

EngineInit ==
  /\ focus \in Parts
  /\ Init /\ VersionsInit
  /\ IterInit /\ (focus # "iterators" =>
                    /\ Len(blocks) = 1 /\ Cardinality(blocks[1].es) = 1
                    /\ \A e \in mtab \cup blocks[1].es : e.put /\ e.k = Min(ScanKeys))
  /\ SnappyInit /\ (focus # "snappy" => co.input = <<>>)

EngineNext ==
  /\ UNCHANGED focus
  /\ \/ /\ focus = "db" /\ Next /\ used'.ops + used'.events <= MaxHistory
        /\ UNCHANGED <<vsvars, ivars, svars>>
     \/ focus = "versions" /\ VersionsNext /\ UNCHANGED <<vars, ivars, svars>>
     \/ focus = "iterators" /\ IterNext /\ UNCHANGED <<vars, vsvars, svars>>
     \/ focus = "snappy" /\ SnappyNext /\ UNCHANGED <<vars, vsvars, ivars>>

EngineSpec == EngineInit /\ [][EngineNext]_<<focus, vars, vsvars, ivars, svars>>

Symmetry == Permutations(Writers)
=============================================================================
