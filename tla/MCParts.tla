------------------------------ MODULE MCParts -------------------------------
(* The parts around the storage engine that TLC checks together, one at a    *)
(* time: `focus' is the part a behaviour is about, and the others stay in    *)
(* one of their initial states.                                              *)
EXTENDS SSDBHash, Facade, SkipList, LRUCache, WorkerPool, PosixEnv, LogFormat, TableFormat,
        DataKeys, Records

VARIABLE focus

\* Every opener in a process of its own, or all in one.
MCPlacements == {[t \in Openers |-> t], [t \in Openers |-> CHOOSE o \in Openers : TRUE]}
MCLimits == {-1, 0, 1, 2}
MCKeys == {<<>>, <<0>>, <<0, 0>>, <<2>>}

MCWords == {<<97>>, <<97, Equals>>, <<Xff, 97>>,
            <<97, Equals, 97, 97, 97>>, <<97, 97, 97, Equals, 97>>}
MCSlices == {<<>>, <<7, 0, 1, 2>>}
MCFile(l, n) ==
  [level |-> l, number |-> n, file_size |-> 127, smallest |-> <<1>>, largest |-> <<2, 4, 0, 0>>]
MCEdits == {
  NoEdit,
  [NoEdit EXCEPT !.comparator = <<<<3, 3>>>>, !.log_number = <<4>>, !.prev_log_number = <<0>>,
                 !.next_file_number = <<127>>, !.last_sequence = <<15>>],
  [NoEdit EXCEPT !.log_number = <<16>>, !.deleted_files = {<<6, 3>>, <<0, 64>>},
                 !.new_files = <<MCFile(6, 63)>>],
  [NoEdit EXCEPT !.compact_pointers = <<<<6, <<1, 2>>>>, <<0, <<>>>>>>,
                 !.new_files = <<MCFile(0, 1), MCFile(5, 4)>>]}

Parts == {"hash", "facade", "skiplist", "cache", "pool", "env", "log", "table", "keys", "records"}

PartsInit ==
  /\ focus \in Parts
  /\ Init /\ SkipListInit /\ LRUCacheInit /\ PoolInit /\ LogInit /\ TableInit
  /\ DataKeysInit /\ RecordsInit
  /\ FacadeInit /\ (focus = "facade" \/ topic = "key")
  /\ PosixInit /\ (focus = "env" \/ (area = "lock" /\ \A t \in Openers : ProcessOf(t) = t))

PartsNext ==
  /\ UNCHANGED focus
  /\ \/ focus = "hash" /\ Next /\ UNCHANGED <<fvars, slvars, lcvars, wpvars, pevars, lfvars, tfvars, dkvars, rcvars>>
     \/ focus = "facade" /\ FacadeNext /\ UNCHANGED <<vars, slvars, lcvars, wpvars, pevars, lfvars, tfvars, dkvars, rcvars>>
     \/ focus = "skiplist" /\ SkipListNext /\ UNCHANGED <<vars, fvars, lcvars, wpvars, pevars, lfvars, tfvars, dkvars, rcvars>>
     \/ focus = "cache" /\ LRUCacheNext /\ UNCHANGED <<vars, fvars, slvars, wpvars, pevars, lfvars, tfvars, dkvars, rcvars>>
     \/ focus = "pool" /\ PoolNext /\ UNCHANGED <<vars, fvars, slvars, lcvars, pevars, lfvars, tfvars, dkvars, rcvars>>
     \/ focus = "env" /\ PosixNext /\ UNCHANGED <<vars, fvars, slvars, lcvars, wpvars, lfvars, tfvars, dkvars, rcvars>>
     \/ focus = "log" /\ LogNext /\ UNCHANGED <<vars, fvars, slvars, lcvars, wpvars, pevars, tfvars, dkvars, rcvars>>
     \/ focus = "table" /\ TableNext /\ UNCHANGED <<vars, fvars, slvars, lcvars, wpvars, pevars, lfvars, dkvars, rcvars>>
     \/ focus = "keys" /\ DataKeysNext /\ UNCHANGED <<vars, fvars, slvars, lcvars, wpvars, pevars, lfvars, tfvars, rcvars>>
     \/ focus = "records" /\ RecordsNext /\ UNCHANGED <<vars, fvars, slvars, lcvars, wpvars, pevars, lfvars, tfvars, dkvars>>

\* The fairness is that of SSDBHash.
PartsSpec ==
  /\ PartsInit /\ [][PartsNext]_<<focus, vars, fvars, slvars, lcvars, wpvars, pevars, lfvars, tfvars, dkvars, rcvars>>
  /\ \A t \in Clearers : WF_vars(hclear(t))
=============================================================================
