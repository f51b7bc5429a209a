------------------------------- MODULE DBImpl -------------------------------
(***************************************************************************)
(* The write path of leveldb (db_impl.cc with the parts of version_set.cc, *)
(* builder.cc and filename.cc it calls): writers that queue up and commit  *)
(* in groups, the log and the two memtables, the background thread that    *)
(* turns a memtable or older tables into a new table, the manifest, and    *)
(* what Recover makes of the directory after a crash.  One step is what a  *)
(* thread does between two points where it releases mutex_.                *)
(*                                                                         *)
(* A batch holds one entry of one key, <<sequence, operation>>; a table is *)
(* the set of its entries (Versions models keys, levels and the dropping   *)
(* of hidden entries).  reuse_logs and paranoid_checks are off, as SSDBImpl::open    *)
(* leaves them.                                                            *)
(***************************************************************************)
EXTENDS Integers, Sequences, FiniteSets, SequencesExt, FiniteSetsExt, Functions

CONSTANTS
  Writers,      \* threads that call Write
  BufferSize,   \* write_buffer_size, in batches
  MaxGroup,     \* max_size of BuildBatchGroup, in batches
  L0_CompactionTrigger, L0_SlowdownWritesTrigger, L0_StopWritesTrigger,
  MaxOps,       \* bound: calls of Write
  MaxEvents,    \* bound: crashes, closings, failing calls and reads together
  None

\* db/dbformat.h: 4 and 64.
ASSUME TriggerAssumption ==
  /\ L0_CompactionTrigger \in Nat /\ L0_StopWritesTrigger \in Nat
  /\ L0_CompactionTrigger <= L0_StopWritesTrigger

VARIABLES
  disk,    \* the directory: logs, tables, manifests, CURRENT
  db,      \* the fields of DBImpl and VersionSet
  memtab,  \* the memtables, by the number of the log that feeds them
  writers, \* writers_, the queue
  wr,      \* the Writer of each thread and where its call of Write stands
  bg,      \* the background thread
  rd,      \* a Get or an iterator: what it pinned
  acked,   \* entries whose Write returned OK, with the writer's own sync flag
  used     \* what is used of the bounds

vars == <<disk, db, memtab, writers, wr, bg, rd, acked, used>>

-----------------------------------------------------------------------------
\* Functions with changing domains: files and memtables come and go.
Without(f, S) == Restrict(f, DOMAIN f \ S)
With(f, n, v) == [x \in DOMAIN f \cup {n} |-> IF x = n THEN v ELSE f[x]]

Seqno(e) == e[1]
Idle == [pc |-> "idle", id |-> 0, sync |-> FALSE, null |-> FALSE,
         delay |-> FALSE, force |-> FALSE, group |-> {}, last |-> 0, ok |-> TRUE, serr |-> FALSE]
NoWork == [pc |-> "idle", ret |-> "end", n |-> 0, out |-> 0, ins |-> {}, ok |-> TRUE,
           edit |-> None]
Closed == [phase |-> "closed", mem |-> 0, imm |-> 0, logno |-> 0, vlog |-> 0,
           files |-> {}, next |-> 2, last |-> 0, man |-> 0, err |-> FALSE,
           sched |-> FALSE, shut |-> FALSE, pend |-> {}, todo |-> {}, max |-> 0]
NoReader == [on |-> FALSE, snap |-> 0, mems |-> {}, files |-> {}]

Level0(files) == {f \in files : f[2] = 0}
Numbers(files) == {f[1] : f \in files}
TablesOf(files) == UNION {disk.tabs[n] : n \in Numbers(files) \cap DOMAIN disk.tabs}
Content == TablesOf(db.files) \cup UNION {memtab[m] : m \in DOMAIN memtab \cap {db.mem, db.imm}}

-----------------------------------------------------------------------------
\* Mutant: the deleted files of the edits are forgotten.
SaveTo_keep(edits) == UNION {edits[i].add : i \in DOMAIN edits}

\* Builder::Apply for one edit after the other, and SaveTo: a file that an
\* edit adds stays unless a later one deletes it.
SaveTo(edits) ==
  UNION {{f \in edits[i].add : \A j \in i + 1 .. Len(edits) : f[1] \notin edits[j].del} :
           i \in DOMAIN edits}

\* The loop of VersionSet::Recover: later edits overwrite the numbers.
ReadManifest(m) ==
  LET edits == disk.mans[m].edits
  IN  [files |-> SaveTo(edits), log |-> Last(edits).log,
       next |-> Last(edits).next, last |-> Last(edits).last]

\* The logs Recover replays.
LogsFrom(log) == {n \in DOMAIN disk.logs : n >= log}
Safe(n) == UNION {r.es : r \in {x \in ToSet(disk.logs[n].recs) : x.safe}}

\* DB::Open succeeds on this directory: CURRENT names a manifest that has the
\* required records, and no file of the version is missing.
Recoverable ==
  /\ disk.cur \in DOMAIN disk.mans
  /\ disk.mans[disk.cur].edits # <<>>
  /\ Numbers(ReadManifest(disk.cur).files) \subseteq DOMAIN disk.tabs

\* What it would then read, at least.
WouldRecover ==
  LET v == ReadManifest(disk.cur) IN
    TablesOf(v.files) \cup UNION {Safe(n) : n \in LogsFrom(v.log)}

-----------------------------------------------------------------------------
\* MaybeScheduleCompaction, for the state d of the database.
NeedsCompaction(d) == Cardinality(Level0(d.files)) >= L0_CompactionTrigger

MaybeSchedule(d) ==
  [d EXCEPT !.sched = @ \/ (/\ ~d.shut /\ ~d.err
                            /\ d.imm # 0 \/ NeedsCompaction(d))]

\* bg_cv_.SignalAll.
WakeAll(w) ==
  [t \in Writers |-> IF w[t].pc = "bgwait" THEN [w[t] EXCEPT !.pc = "room"] ELSE w[t]]

\* AddLiveFiles: the current version, the one a reader pinned and the input
\* version of a compaction.
AddLiveFiles(d, ins) == Numbers(d.files) \cup Numbers(rd.files) \cup Numbers(ins)

\* Mutant: the outputs that are still being written are not live.
Obsolete_pending(d, ins) ==
  [logs |-> {n \in DOMAIN disk.logs : n < d.vlog},
   tabs |-> DOMAIN disk.tabs \ Numbers(d.files),
   mans |-> {n \in DOMAIN disk.mans : n < d.man}]

\* DeleteObsoleteFiles: which files go.
Obsolete(d, ins) ==
  [logs |-> {n \in DOMAIN disk.logs : n < d.vlog},
   tabs |-> DOMAIN disk.tabs \ (AddLiveFiles(d, ins) \cup d.pend),
   mans |-> {n \in DOMAIN disk.mans : n < d.man}]

DeleteObsoleteFiles(d, ins) ==
  disk' = IF d.err THEN disk
          ELSE LET o == Obsolete(d, ins) IN
            [disk EXCEPT !.logs = Without(@, o.logs), !.tabs = Without(@, o.tabs),
                         !.mans = Without(@, o.mans)]

\* A file-system call may fail, the process may crash and a reader may come as
\* long as the bound allows.
MayFail(ok) == ok \/ used.events < MaxEvents
Count(ok) == used' = [used EXCEPT !.events = IF ok THEN @ ELSE @ + 1]

-----------------------------------------------------------------------------
(* Writers *)

\* DBImpl::Write, up to the first wait: queue up.  TEST_CompactMemTable
\* passes a NULL batch.
Write(w, sync, null) ==
  /\ db.phase = "open" /\ ~db.shut /\ wr[w].pc = "idle" /\ used.ops < MaxOps
  /\ used' = [used EXCEPT !.ops = @ + 1]
  /\ writers' = Append(writers, w)
  /\ wr' = [wr EXCEPT ![w] = [Idle EXCEPT !.pc = IF writers = <<>> THEN "room" ELSE "queued",
                               !.id = used.ops + 1, !.sync = sync, !.null = null,
                               !.delay = ~null, !.force = null]]
  /\ UNCHANGED <<disk, db, memtab, bg, rd, acked>>

\* Mutant: the new head of the queue is not signalled.
Pop_silent(k, w) ==
  /\ writers' = SubSeq(writers, k + 1, Len(writers))
  /\ wr' = [t \in Writers |-> IF t \in ToSet(SubSeq(writers, 1, k)) THEN Idle ELSE w[t]]

\* The end of Write: the first k writers are done, the next one is woken.
Pop(k, w) ==
  /\ writers' = SubSeq(writers, k + 1, Len(writers))
  /\ wr' = [t \in Writers |->
              CASE t \in ToSet(SubSeq(writers, 1, k)) -> Idle
                [] Len(writers) > k /\ t = writers[k + 1] -> [w[t] EXCEPT !.pc = "room"]
                [] OTHER -> w[t]]

\* MakeRoomForWrite, one turn of its loop.
Leader(w) == wr[w].pc = "room" /\ db.phase = "open"
MustDelay(w) ==
  wr[w].delay /\ Cardinality(Level0(db.files)) >= L0_SlowdownWritesTrigger
HasRoom(w) == ~wr[w].force /\ Cardinality(memtab[db.mem]) <= BufferSize

RoomError(w) ==
  /\ Leader(w) /\ db.err
  /\ Pop(1, wr)
  /\ UNCHANGED <<disk, db, memtab, bg, rd, acked, used>>

\* SleepForMicroseconds(1000) without the mutex, once.
RoomDelay(w) ==
  /\ Leader(w) /\ ~db.err /\ MustDelay(w)
  /\ wr' = [wr EXCEPT ![w].delay = FALSE]
  /\ UNCHANGED <<disk, db, memtab, writers, bg, rd, acked, used>>

\* bg_cv_.Wait: a memtable is waiting for the background thread, or there
\* are too many level-0 files.
RoomWait(w) ==
  /\ Leader(w) /\ ~db.err /\ ~MustDelay(w) /\ ~HasRoom(w)
  /\ db.imm # 0 \/ Cardinality(Level0(db.files)) >= L0_StopWritesTrigger
  /\ wr' = [wr EXCEPT ![w].pc = "bgwait"]
  /\ UNCHANGED <<disk, db, memtab, writers, bg, rd, acked, used>>

CanSwitch == db.imm = 0 /\ Cardinality(Level0(db.files)) < L0_StopWritesTrigger

\* A new log and memtable; the old memtable becomes imm_.
RoomSwitch(w) ==
  /\ Leader(w) /\ ~db.err /\ ~MustDelay(w) /\ ~HasRoom(w) /\ CanSwitch
  /\ disk' = [disk EXCEPT !.logs = With(@, db.next, [recs |-> <<>>, synced |-> 0, torn |-> FALSE])]
  /\ memtab' = With(memtab, db.next, {})
  /\ db' = MaybeSchedule([db EXCEPT !.next = @ + 1, !.logno = db.next,
                                    !.imm = db.mem, !.mem = db.next])
  /\ wr' = [wr EXCEPT ![w].force = FALSE]
  /\ UNCHANGED <<writers, bg, rd, acked, used>>

\* The log file cannot be created: the number goes back, the write fails.
RoomSwitchFails(w) ==
  /\ Leader(w) /\ ~db.err /\ ~MustDelay(w) /\ ~HasRoom(w) /\ CanSwitch
  /\ MayFail(FALSE) /\ Count(FALSE)
  /\ Pop(1, wr)
  /\ UNCHANGED <<disk, db, memtab, bg, rd, acked>>

\* A NULL batch only asked for a new memtable.
RoomForNull(w) ==
  /\ Leader(w) /\ ~db.err /\ ~MustDelay(w) /\ HasRoom(w) /\ wr[w].null
  /\ Pop(1, wr)
  /\ UNCHANGED <<disk, db, memtab, bg, rd, acked, used>>

\* The writers among the first i of the queue that have a batch.
Batches(i) == {j \in 1 .. i : ~wr[writers[j]].null}

\* The i-th writer may join the group: no sync write in a group that is not
\* synced, and the batch does not grow past its maximum.
Joins(i, first) ==
  /\ wr[writers[i]].sync => wr[first].sync
  /\ wr[writers[i]].null \/ Cardinality(Batches(i)) <= MaxGroup

\* BuildBatchGroup: how many writers the group takes from the queue.
BuildBatchGroup(first) ==
  Max({n \in 1 .. Len(writers) : \A i \in 2 .. n : Joins(i, first)})

\* The leader fixes the group and its sequence numbers; then, without the
\* mutex, AddRecord, and Sync for a sync leader.  A failed append may leave
\* nothing, half a record or all of it behind, so that the reader may or may
\* not find it and the ones after it.  Only recovery reads the log, so that
\* this is one step.
LogGroup(w, added, ok) ==
  /\ Leader(w) /\ ~db.err /\ ~MustDelay(w) /\ HasRoom(w) /\ ~wr[w].null
  /\ MayFail(added /\ ok) /\ Count(added /\ ok)
  /\ ok => added
  /\ added /\ ~ok => wr[w].sync
  /\ LET n == BuildBatchGroup(w)
         group == {<<db.last + Cardinality(Batches(i)), wr[writers[i]].id>> : i \in Batches(n)}
         log == disk.logs[db.logno]
     IN /\ wr' = [wr EXCEPT ![w] = [@ EXCEPT !.pc = "insert", !.last = n, !.group = group,
                                             !.ok = ok, !.serr = added /\ ~ok]]
        /\ disk' = [disk EXCEPT !.logs[db.logno] =
             [recs |-> Append(log.recs, [es |-> group, safe |-> added /\ ~log.torn]),
              synced |-> IF wr[w].sync /\ ok THEN Len(log.recs) + 1 ELSE log.synced,
              torn |-> log.torn \/ ~added]]
  /\ UNCHANGED <<db, memtab, writers, bg, rd, acked>>

\* InsertInto(updates, mem_), still without the mutex.
InsertInto(w) ==
  /\ wr[w].pc = "insert"
  /\ memtab' = IF wr[w].ok THEN [memtab EXCEPT ![db.mem] = @ \cup wr[w].group] ELSE memtab
  /\ wr' = [wr EXCEPT ![w].pc = "publish"]
  /\ UNCHANGED <<disk, db, writers, bg, rd, acked, used>>

\* SetLastSequence(last_sequence + Count(updates)), whatever the status.
NewLast(w) == db.last + Cardinality(wr[w].group)

\* Back under the mutex: a failed Sync stops all later writes; publish the
\* sequence, answer the group.
Publish(w) ==
  /\ wr[w].pc = "publish"
  /\ db' = [db EXCEPT !.last = NewLast(w), !.err = @ \/ wr[w].serr]
  /\ acked' = acked \cup
       {[e |-> e, sync |-> \E t \in Writers : wr[t].id = e[2] /\ wr[t].sync] :
         e \in {x \in wr[w].group : wr[w].ok /\ x \in Safe(db.logno)}}
  /\ Pop(wr[w].last, wr)
  /\ UNCHANGED <<disk, memtab, bg, rd, used>>

-----------------------------------------------------------------------------
(* The background thread *)

\* The end of BackgroundCall.
EndCall(d, w) ==
  /\ db' = MaybeSchedule([d EXCEPT !.sched = FALSE])
  /\ wr' = WakeAll(w)
  /\ bg' = NoWork

\* BackgroundCall with nothing to do, or too late.
BackgroundNothing ==
  /\ db.phase = "open" /\ db.sched /\ bg.pc = "idle"
  /\ db.shut \/ db.err \/ (db.imm = 0 /\ ~NeedsCompaction(db))
  /\ EndCall(db, wr)
  /\ UNCHANGED <<disk, memtab, writers, rd, acked, used>>

\* NewFileNumber and pending_outputs_.
NextNumber(d) == [d EXCEPT !.next = @ + 1, !.pend = @ \cup {d.next}]

\* BuildTable: the table is synced before it is used; a failure removes the
\* file, and an empty memtable makes none.
BuildTable(dk, n, es, ok) == IF ok /\ es # {} THEN [dk EXCEPT !.tabs = With(@, n, es)] ELSE dk

\* CompactMemTable up to the Lock in WriteLevel0Table; called by
\* BackgroundCompaction and, for its priority, from the loop of
\* DoCompactionWork.
CompactMemTable(ok) ==
  /\ db.phase = "open" /\ db.imm # 0 /\ ~db.shut
  /\ \/ db.sched /\ bg.pc = "idle" /\ ~db.err
     \/ bg.pc \in {"work", "output"}
  /\ MayFail(ok) /\ Count(ok)
  /\ bg' = [bg EXCEPT !.pc = "apply", !.n = db.next, !.ok = ok,
                      !.ret = IF bg.pc = "idle" THEN "end" ELSE bg.pc]
  /\ db' = NextNumber(db)
  /\ disk' = BuildTable(disk, db.next, memtab[db.imm], ok)
  /\ UNCHANGED <<memtab, writers, wr, rd, acked>>

\* edit.SetLogNumber(logfile_number_): earlier logs are no longer needed.
EditLog == db.logno

\* PickLevelForMemTableOutput when all entries are of one key: a table may
\* skip level 0 only when it overlaps no other.
OutputLevel == IF db.files = {} THEN 1 ELSE 0

\* An edit and the numbers LogAndApply adds to it.
Edit(d, add, del, log) == [add |-> add, del |-> del, log |-> log, next |-> d.next, last |-> d.last]

\* LogAndApply without the mutex: the record goes to the manifest and is
\* synced.  A record whose Sync failed may still be there.
LogEdit(dk, edit, added, ok) ==
  [dk EXCEPT !.mans[db.man] =
     [edits |-> IF added THEN Append(@.edits, edit) ELSE @.edits,
      synced |-> IF ok THEN Len(@.edits) + 1 ELSE @.synced]]

\* WriteLevel0Table after its Lock, and LogAndApply up to its Lock.
ApplyMemTable(added, ok) ==
  /\ bg.pc = "apply" /\ bg.ok /\ ~db.shut
  /\ ok => added
  /\ MayFail(ok) /\ Count(ok)
  /\ LET d == [db EXCEPT !.pend = @ \ {bg.n}]
         edit == Edit(d, {f \in {<<bg.n, OutputLevel>>} : bg.n \in DOMAIN disk.tabs}, {}, EditLog)
     IN /\ db' = d
        /\ disk' = LogEdit(disk, edit, added, ok)
        /\ bg' = [bg EXCEPT !.pc = "install", !.edit = edit, !.ok = ok]
  /\ UNCHANGED <<memtab, writers, wr, rd, acked>>

\* Back from CompactMemTable, in BackgroundCall or in DoCompactionWork, which
\* wakes the writers.
Return(d) ==
  IF bg.ret = "end" THEN EndCall(d, wr)
  ELSE db' = d /\ wr' = WakeAll(wr) /\ bg' = [bg EXCEPT !.pc = bg.ret, !.edit = None]

\* WriteLevel0Table failed, or the database is being closed.
FailMemTable ==
  /\ bg.pc = "apply" /\ (~bg.ok \/ db.shut)
  /\ Return([db EXCEPT !.pend = @ \ {bg.n}, !.err = TRUE])
  /\ UNCHANGED <<disk, memtab, writers, rd, acked, used>>

\* AppendVersion(v) and the new log number.
Installed(d) ==
  [d EXCEPT !.files = {f \in @ : f[1] \notin bg.edit.del} \cup bg.edit.add, !.vlog = bg.edit.log]

\* The end of CompactMemTable: commit to the new state and clean up, or stop.
InstallMemTable ==
  /\ bg.pc = "install" /\ bg.ret # "cleanup"
  /\ LET d == IF bg.ok THEN [Installed(db) EXCEPT !.imm = 0] ELSE [db EXCEPT !.err = TRUE] IN
       /\ Return(d)
       /\ memtab' = Without(memtab, DOMAIN memtab \ ({d.mem, d.imm} \cup rd.mems))
       /\ DeleteObsoleteFiles(d, bg.ins)
  /\ UNCHANGED <<writers, rd, acked, used>>

\* PickCompaction and the start of DoCompactionWork.
StartCompaction ==
  /\ db.phase = "open" /\ db.sched /\ bg.pc = "idle" /\ ~db.shut /\ ~db.err
  /\ db.imm = 0 /\ NeedsCompaction(db)
  /\ bg' = [bg EXCEPT !.pc = "work", !.ins = db.files]
  /\ UNCHANGED <<disk, db, memtab, writers, wr, rd, acked, used>>

\* OpenCompactionOutputFile: the number is pending, the file is there and
\* still empty.
OpenCompactionOutputFile ==
  /\ bg.pc = "work" /\ ~db.shut
  /\ bg' = [bg EXCEPT !.pc = "output", !.out = db.next]
  /\ db' = NextNumber(db)
  /\ disk' = [disk EXCEPT !.tabs = With(@, db.next, {})]
  /\ UNCHANGED <<memtab, writers, wr, rd, acked, used>>

\* The rest of the loop, FinishCompactionOutputFile, then
\* InstallCompactionResults up to the Lock of LogAndApply.
FinishCompaction(added, ok) ==
  /\ bg.pc = "output" /\ ~db.shut
  /\ ok => added
  /\ MayFail(ok) /\ Count(ok)
  /\ bg.out \in DOMAIN disk.tabs
  /\ LET edit == Edit(db, {<<bg.out, 1>>}, Numbers(bg.ins), db.vlog) IN
       /\ disk' = LogEdit([disk EXCEPT !.tabs[bg.out] = TablesOf(bg.ins)], edit, added, ok)
       /\ bg' = [bg EXCEPT !.pc = "install", !.ret = "cleanup", !.ok = ok, !.edit = edit]
  /\ UNCHANGED <<db, memtab, writers, wr, rd, acked>>

\* CleanupCompaction, ReleaseInputs and DeleteObsoleteFiles.
Cleanup(d) ==
  LET e == [d EXCEPT !.pend = @ \ {bg.out}] IN EndCall(e, wr) /\ DeleteObsoleteFiles(e, {})

\* The loop stopped: an output could not be written, or the destructor came.
FailCompaction ==
  /\ bg.pc \in {"work", "output"}
  /\ db.shut \/ bg.out \notin DOMAIN disk.tabs \cup {0} \/ MayFail(FALSE)
  /\ Count(db.shut)
  /\ Cleanup([db EXCEPT !.err = TRUE])
  /\ UNCHANGED <<memtab, writers, rd, acked>>

\* The end of InstallCompactionResults.
InstallCompaction ==
  /\ bg.pc = "install" /\ bg.ret = "cleanup"
  /\ Cleanup(IF bg.ok THEN Installed(db) ELSE [db EXCEPT !.err = TRUE])
  /\ UNCHANGED <<memtab, writers, rd, acked, used>>

-----------------------------------------------------------------------------
(* Readers *)

\* Get and NewInternalIterator: under the mutex, take the last sequence and a
\* reference to both memtables and to the current version.
ReadBegin ==
  /\ db.phase = "open" /\ ~db.shut /\ ~rd.on /\ MayFail(FALSE) /\ Count(FALSE)
  /\ rd' = [on |-> TRUE, snap |-> db.last, files |-> db.files,
            mems |-> {db.mem, db.imm} \ {0}]
  /\ UNCHANGED <<disk, db, memtab, writers, wr, bg, acked>>

\* Unref under the mutex: the end of Get, CleanupIteratorState.
ReadEnd ==
  /\ rd.on
  /\ rd' = NoReader
  /\ memtab' = Without(memtab, DOMAIN memtab \ {db.mem, db.imm})
  /\ UNCHANGED <<disk, db, writers, wr, bg, acked, used>>

-----------------------------------------------------------------------------
(* Closing and crashing *)

\* ~DBImpl: set shutting_down_ and wait for the background thread.  The
\* caller has no Write or Get under way.
CloseBegin ==
  /\ db.phase = "open" /\ ~db.shut /\ ~rd.on /\ writers = <<>>
  /\ MayFail(FALSE) /\ Count(FALSE)
  /\ db' = [db EXCEPT !.shut = TRUE]
  /\ UNCHANGED <<disk, memtab, writers, wr, bg, rd, acked>>

LoseMemory ==
  /\ db' = Closed /\ memtab' = <<>> /\ writers' = <<>>
  /\ wr' = [w \in Writers |-> Idle] /\ bg' = NoWork /\ rd' = NoReader

CloseEnd ==
  /\ db.phase = "open" /\ db.shut /\ ~db.sched
  /\ LoseMemory
  /\ UNCHANGED <<disk, acked, used>>

\* The process dies: the kernel still writes what it was given.
Crash ==
  /\ db.phase # "closed"
  /\ MayFail(FALSE) /\ Count(FALSE)
  /\ LoseMemory
  /\ UNCHANGED <<disk, acked>>

\* What was not synced is gone.
Cut(log) == [log EXCEPT !.recs = SubSeq(log.recs, 1, log.synced)]
CutManifest(m) == [m EXCEPT !.edits = SubSeq(m.edits, 1, m.synced)]

\* The machine stops: of each log and manifest at least the synced part is
\* left.  Writes without sync may be lost (include/leveldb/options.h).
PowerLoss ==
  /\ MayFail(FALSE) /\ Count(FALSE)
  /\ \E keep \in [DOMAIN disk.logs -> BOOLEAN], kept \in [DOMAIN disk.mans -> BOOLEAN] :
       disk' = [disk EXCEPT
         !.logs = [n \in DOMAIN @ |-> IF keep[n] THEN @[n] ELSE Cut(@[n])],
         !.mans = [n \in DOMAIN @ |-> IF kept[n] THEN @[n] ELSE CutManifest(@[n])]]
  /\ acked' = {a \in acked : a.sync}
  /\ LoseMemory

-----------------------------------------------------------------------------
(* DB::Open *)

\* NewDB: a first manifest, which nobody syncs, and CURRENT.
NewDB ==
  /\ db.phase = "closed" /\ disk.cur = 0
  /\ disk' = [disk EXCEPT !.cur = 1, !.mans = With(@, 1, [synced |-> 0,
                edits |-> <<[add |-> {}, del |-> {}, log |-> 0, next |-> 2, last |-> 0]>>])]
  /\ UNCHANGED <<db, memtab, writers, wr, bg, rd, acked, used>>

LogsToReplay(v) == LogsFrom(v.log)

\* VersionSet::Recover, and the list of the logs to replay.
Recover ==
  /\ db.phase = "closed" /\ disk.cur # 0 /\ Recoverable
  /\ LET v == ReadManifest(disk.cur) IN
       db' = [Closed EXCEPT !.phase = "replay", !.files = v.files, !.vlog = v.log,
                !.man = v.next, !.next = v.next + 1, !.last = v.last,
                !.todo = LogsToReplay(v)]
  /\ memtab' = With(memtab, 0, {})
  /\ UNCHANGED <<disk, writers, wr, bg, rd, acked, used>>

\* VersionSet::Recover answers Corruption: a record or a file is missing.
RecoverFails ==
  /\ db.phase = "closed" /\ disk.cur # 0 /\ ~Recoverable
  /\ UNCHANGED vars

\* RecoverLogFile, for the oldest log that is left: replay it into a memtable,
\* write it as a level-0 table, and mark the number of the log as used.  After a torn record the
\* reader may or may not find the others.
RecoverLogFile ==
  /\ db.phase = "replay"
  /\ \E l \in {x \in db.todo : \A y \in db.todo : x <= y} :
     LET n == db.next IN
     \E es \in {Safe(l), UNION {r.es : r \in ToSet(disk.logs[l].recs)}} :
       /\ disk' = BuildTable(disk, n, es, TRUE)
       /\ db' = [db EXCEPT !.todo = @ \ {l},
                   !.next = Max({l + 1, n + (IF es = {} THEN 0 ELSE 1)}),
                   !.files = IF es = {} THEN @ ELSE @ \cup {<<n, 0>>},
                   !.max = Max({@} \cup {Seqno(e) : e \in es})]
  /\ UNCHANGED <<memtab, writers, wr, bg, rd, acked, used>>

\* A new log and memtable.
OpenLog ==
  /\ db.phase = "replay" /\ db.todo = {}
  /\ disk' = [disk EXCEPT !.logs = With(@, db.next, [recs |-> <<>>, synced |-> 0, torn |-> FALSE])]
  /\ db' = [db EXCEPT !.phase = "save", !.last = Max({@, db.max}), !.next = @ + 1,
                      !.logno = db.next, !.mem = db.next]
  /\ memtab' = [n \in {db.next} |-> {}]
  /\ UNCHANGED <<writers, wr, bg, rd, acked, used>>

\* LogAndApply with a new manifest: the snapshot and the edit, synced.
OpenManifest ==
  /\ db.phase = "save"
  /\ disk' = [disk EXCEPT !.mans = With(@, db.man,
                [synced |-> 1, edits |-> <<Edit(db, db.files, {}, db.logno)>>])]
  /\ db' = [db EXCEPT !.phase = "current"]
  /\ UNCHANGED <<memtab, writers, wr, bg, rd, acked, used>>

\* SetCurrentFile renames a synced temporary file; then the version is
\* installed and the old files go.
OpenCurrent ==
  /\ db.phase = "current"
  /\ disk' = [disk EXCEPT !.cur = db.man]
  /\ db' = [db EXCEPT !.phase = "clean", !.vlog = db.logno]
  /\ UNCHANGED <<memtab, writers, wr, bg, rd, acked, used>>

OpenClean ==
  /\ db.phase = "clean"
  /\ DeleteObsoleteFiles(db, {})
  /\ db' = MaybeSchedule([db EXCEPT !.phase = "open"])
  /\ UNCHANGED <<memtab, writers, wr, bg, rd, acked, used>>

\* A step of Open fails and the DBImpl is deleted.
OpenFails ==
  /\ db.phase \in {"replay", "save", "current"} /\ MayFail(FALSE) /\ Count(FALSE)
  /\ disk' = IF db.phase = "current" THEN [disk EXCEPT !.mans = Without(@, {db.man})] ELSE disk
  /\ LoseMemory
  /\ UNCHANGED acked

-----------------------------------------------------------------------------
Init ==
  /\ disk = [logs |-> <<>>, tabs |-> <<>>, mans |-> <<>>, cur |-> 0]
  /\ db = Closed /\ memtab = <<>> /\ writers = <<>>
  /\ wr = [w \in Writers |-> Idle] /\ bg = NoWork /\ rd = NoReader
  /\ acked = {} /\ used = [ops |-> 0, events |-> 0]

\* What a thread inside Write does next.
Step(w) ==
  \/ RoomError(w) \/ RoomDelay(w) \/ RoomWait(w) \/ RoomSwitch(w) \/ RoomForNull(w)
  \/ RoomSwitchFails(w) \/ InsertInto(w) \/ Publish(w)
  \/ \E added, ok \in BOOLEAN : LogGroup(w, added, ok)

Background ==
  \/ BackgroundNothing \/ FailMemTable \/ InstallMemTable \/ StartCompaction
  \/ OpenCompactionOutputFile \/ FailCompaction \/ InstallCompaction
  \/ \E ok \in BOOLEAN : CompactMemTable(ok)
  \/ \E added, ok \in BOOLEAN : ApplyMemTable(added, ok) \/ FinishCompaction(added, ok)

Open ==
  \/ NewDB \/ Recover \/ RecoverFails \/ RecoverLogFile \/ OpenLog
  \/ OpenManifest \/ OpenCurrent \/ OpenClean

Next ==
  \/ \E w \in Writers : Step(w) \/ Write(w, FALSE, TRUE) \/ \E sync \in BOOLEAN : Write(w, sync, FALSE)
  \/ Background \/ ReadBegin \/ ReadEnd
  \/ CloseBegin \/ CloseEnd \/ Crash \/ PowerLoss \/ Open \/ OpenFails

Spec == Init /\ [][Next]_vars

-----------------------------------------------------------------------------
\* Every variable has its type.
TypeOK ==
  /\ DOMAIN disk.mans \subseteq Nat /\ disk.cur \in Nat
  /\ \A l \in DOMAIN disk.logs : disk.logs[l].synced \in 0 .. Len(disk.logs[l].recs)
  /\ \A m \in DOMAIN disk.mans : disk.mans[m].synced \in 0 .. Len(disk.mans[m].edits)
  /\ ToSet(writers) \subseteq Writers /\ DOMAIN wr = Writers
  /\ db.pend \subseteq 0 .. db.next - 1 /\ db.imm < db.next /\ db.mem < db.next

\* At any moment, were the process to stop there, DB::Open would find every
\* write that was answered with OK (options.h: no writes will be lost if just
\* the process crashes; a sync write also survives the machine).
Durable == acked # {} => Recoverable /\ {a.e : a \in acked} \subseteq WouldRecover

\* While the database is open, a read finds every answered write.
ReadYourWrites == db.phase = "open" => {a.e : a \in acked} \subseteq Content

\* A sequence number is never given to two entries, whatever failed or was
\* lost before: the order of two writes of a key is never ambiguous.
SeqUnique ==
  \A a, b \in Content \cup {x.e : x \in acked} : Seqno(a) = Seqno(b) => a = b

\* What a Get or an iterator pinned holds exactly the entries up to its
\* snapshot, while groups are inserted, memtables and tables are replaced and
\* files are deleted around it.
ReadsSnapshot ==
  rd.on => LET upTo(S) == {e \in S : Seqno(e) <= rd.snap} IN
    upTo(Content) = upTo(TablesOf(rd.files) \cup UNION {memtab[m] : m \in rd.mems})

\* Nobody waits for nobody: the head of the queue is never asleep on its own
\* condition variable, and when it waits for the background thread a call of
\* that thread is pending, which ends with a signal.
NobodyForgotten ==
  writers # <<>> =>
    /\ wr[Head(writers)].pc # "queued"
    /\ wr[Head(writers)].pc = "bgwait" => db.sched
    /\ \A w \in Writers : wr[w].pc # "idle" <=> w \in ToSet(writers)

\* What Write has answered is kept: in memory and on disk, under one number.
AnswersKept == TypeOK /\ Durable /\ ReadYourWrites /\ SeqUnique
=============================================================================
