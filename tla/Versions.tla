------------------------------ MODULE Versions ------------------------------
(***************************************************************************)
(* The tree of tables of leveldb (version_set.cc and the parts of          *)
(* db_impl.cc and memtable.cc that read and compact it): memtables, levels *)
(* of tables, snapshots, the choice of a compaction, what it drops and how *)
(* it splits its output, and Get, which looks for a key level by level.    *)
(*                                                                         *)
(* An entry is [k, s, put]: user key, sequence number, value or deletion;  *)
(* the value written with sequence s is s.  The size of a file is its      *)
(* number of entries.  DBImpl models the steps of the threads; here a      *)
(* compaction is a start and an end, between which writes, snapshots and   *)
(* the flush of a memtable happen.                                         *)
(***************************************************************************)
EXTENDS Integers, Sequences, FiniteSets, SequencesExt, FiniteSetsExt

CONSTANTS
  MaxKey,                    \* user keys are 1 .. MaxKey
  MaxSeq,                    \* bound: writes
  MaxSnapshots,              \* bound: snapshots held at a time
  NumLevels,                 \* config::kNumLevels
  MaxMemCompactLevel,        \* config::kMaxMemCompactLevel
  kL0_CompactionTrigger,      \* config::kL0_CompactionTrigger
  MaxBytesForLevel,          \* size limit of level 1 and above
  MaxOutputFileSize,         \* Compaction::MaxOutputFileSize
  MaxGrandParentOverlap,     \* MaxGrandParentOverlapBytes
  ExpandedLimit,             \* ExpandedCompactionByteSizeLimit
  FlushInManual,             \* a memtable may fill up during a manual compaction
  NoFile

VARIABLES
  mem, imm,   \* the memtables: sets of entries; imm = NoFile if there is none
  files,      \* current_->files_: for each level a sequence of files
  next,       \* next_file_number_
  last,       \* last_sequence_
  snaps,      \* snapshots_
  ptr,        \* compact_pointer_, 0 when empty
  ftc,        \* file_to_compact_ and its level
  comp,       \* the running compaction
  hist        \* every write so far: the key and kind of sequence s

vsvars == <<mem, imm, files, next, last, snaps, ptr, ftc, comp, hist>>

Levels == 0 .. NumLevels - 1
Keys == 1 .. MaxKey

-----------------------------------------------------------------------------
(* Internal keys and files *)

\* InternalKeyComparator::Compare(a, b) < 0: by user key, then newest first.
Less(a, b) == a.k < b.k \/ (a.k = b.k /\ a.s > b.s)
SmallestKey(f) == CHOOSE e \in f.es : \A x \in f.es \ {e} : Less(e, x)
LargestKey(f) == CHOOSE e \in f.es : \A x \in f.es \ {e} : Less(x, e)
InOrder(es) == SetToSortSeq(es, Less)


TotalFileSize(fs) == MapThenSumSet(LAMBDA f : Cardinality(f.es), ToSet(fs))

\* FindFile: the first file whose largest key is not below e.
FindFile(fs, e) == Min({i \in 1 .. Len(fs) : ~Less(LargestKey(fs[i]), e)} \cup {Len(fs) + 1})

\* AfterFile, BeforeFile, SomeFileOverlapsRange: user keys lo .. hi meet a
\* file; from level 1 up only the first candidate is looked at.
Overlaps(f, lo, hi) == lo <= LargestKey(f).k /\ SmallestKey(f).k <= hi
OverlapInLevel(fs, level, lo, hi) ==
  IF level = 0 THEN \E f \in ToSet(fs) : Overlaps(f, lo, hi)
  ELSE LET i == FindFile(fs, [k |-> lo, s |-> MaxSeq + 1, put |-> TRUE]) IN
         i <= Len(fs) /\ SmallestKey(fs[i]).k <= hi

\* The range [lo, hi], widened at level 0 until no further file overlaps it.
Widen(fs, level, lo, hi) ==
  LET hull(r) == LET F == {f \in ToSet(fs) : Overlaps(f, r[1], r[2])} IN
        <<Min({r[1]} \cup {SmallestKey(f).k : f \in F}), Max({r[2]} \cup {LargestKey(f).k : f \in F})>>
      r[i \in 0 .. Len(fs)] == IF i = 0 THEN <<lo, hi>> ELSE hull(r[i - 1])
  IN IF level = 0 THEN r[Len(fs)] ELSE <<lo, hi>>

\* Version::GetOverlappingInputs.
GetOverlappingInputs(level, lo, hi) ==
  LET r == Widen(files[level], level, lo, hi) IN
    SelectSeq(files[level], LAMBDA f : Overlaps(f, r[1], r[2]))

\* VersionSet::GetRange and GetRange2, as the user keys they span.
Lowest(fs) == Min({SmallestKey(f).k : f \in ToSet(fs)})

Highest(fs) == Max({LargestKey(f).k : f \in ToSet(fs)})

-----------------------------------------------------------------------------
(* Reading *)

\* The first entry at or after [k, snap] in a sorted run, if it is of key k.
NewestIn(es, k, snap) == {e \in es : e.k = k /\ e.s <= snap /\ \A x \in es : x.k = k /\ x.s <= snap => x.s <= e.s}

\* The files Version::Get reads, in this order: at level 0 all that may hold
\* the key, newest first, below it at most one per level.
Candidates(fs, k, snap) ==
  LET level0 == SetToSortSeq({f \in ToSet(fs[0]) : Overlaps(f, k, k)}, LAMBDA a, b : a.num > b.num)
      at(l) == LET i == FindFile(fs[l], [k |-> k, s |-> snap, put |-> TRUE]) IN
                 IF i <= Len(fs[l]) /\ SmallestKey(fs[l][i]).k <= k THEN <<fs[l][i]>> ELSE <<>>
  IN level0 \o FlattenSeq([l \in 1 .. NumLevels - 1 |-> at(l)])

\* Version::Get: the answer of the first file that has one.
VersionGet(fs, k, snap) ==
  LET c == Candidates(fs, k, snap)
      i == SelectInSeq(c, LAMBDA f : NewestIn(f.es, k, snap) # {})
  IN IF i = 0 THEN {} ELSE NewestIn(c[i].es, k, snap)

\* DBImpl::Get: the memtable, then the immutable one, then the tables.
\* MemTable::Get finds a deletion too, which ends the search.
Lookup(k, snap) ==
  CASE NewestIn(mem, k, snap) # {} -> NewestIn(mem, k, snap)
    [] imm # NoFile /\ NewestIn(imm, k, snap) # {} -> NewestIn(imm, k, snap)
    [] OTHER -> VersionGet(files, k, snap)

ValueOf(found) == {e.s : e \in {x \in found : x.put}}

\* What the writes say: the newest one up to the snapshot.
Expected(k, snap) ==
  LET S == {s \in 1 .. snap : hist[s].k = k} IN
    IF S = {} \/ ~hist[Max(S)].put THEN {} ELSE {Max(S)}

AllEntries ==
  mem \cup (IF imm = NoFile THEN {} ELSE imm) \cup UNION {UNION {f.es : f \in ToSet(files[l])} : l \in Levels}

\* Version::UpdateStats, after a Get that read two files or a sample of an
\* iterator that found two (RecordReadSample): the first of them may have used
\* up its allowed seeks.
UpdateStats(k, snap) ==
  LET c == Candidates(files, k, snap) IN
    /\ ftc = NoFile /\ Len(c) >= 2
    /\ ftc' = [f |-> c[1], level |-> CHOOSE l \in Levels : c[1] \in ToSet(files[l])]
    /\ UNCHANGED <<mem, imm, files, next, last, snaps, ptr, comp, hist>>

-----------------------------------------------------------------------------
(* Writing and snapshots *)

\* MemTable::Add of a write.  Bound: only keys that were written are deleted.
Add(k, put) ==
  /\ last < MaxSeq /\ (put \/ Expected(k, last) # {})
  /\ last' = last + 1
  /\ mem' = mem \cup {[k |-> k, s |-> last + 1, put |-> put]}
  /\ hist' = Append(hist, [k |-> k, put |-> put])
  /\ UNCHANGED <<imm, files, next, snaps, ptr, ftc, comp>>

SwitchMemTable ==
  /\ imm = NoFile /\ mem # {}
  /\ imm' = mem /\ mem' = {}
  /\ UNCHANGED <<files, next, last, snaps, ptr, ftc, comp, hist>>

GetSnapshot ==
  /\ Cardinality(snaps) < MaxSnapshots /\ last \notin snaps
  /\ snaps' = snaps \cup {last}
  /\ UNCHANGED <<mem, imm, files, next, last, ptr, ftc, comp, hist>>

ReleaseSnapshot(s) ==
  /\ s \in snaps
  /\ snaps' = snaps \ {s}
  /\ UNCHANGED <<mem, imm, files, next, last, ptr, ftc, comp, hist>>

-----------------------------------------------------------------------------
(* New versions *)

\* VersionSet::Builder: drop and add files, ordered by smallest key and number.
Rebuild(fs, del, add) ==
  SetToSortSeq({f \in ToSet(fs) : f.num \notin del} \cup add,
    LAMBDA a, b : Less(SmallestKey(a), SmallestKey(b)) \/ (SmallestKey(a) = SmallestKey(b) /\ a.num < b.num))

\* A memtable's table may go one level further down.
MayDescend(level, lo, hi) ==
  /\ ~OverlapInLevel(files[level + 1], level + 1, lo, hi)
  /\ level + 2 < NumLevels => TotalFileSize(GetOverlappingInputs(level + 2, lo, hi)) <= MaxGrandParentOverlap

\* Version::PickLevelForMemTableOutput.
PickLevel(lo, hi) ==
  IF OverlapInLevel(files[0], 0, lo, hi) THEN 0
  ELSE Max({l \in 0 .. MaxMemCompactLevel : \A j \in 0 .. l - 1 : MayDescend(j, lo, hi)})

\* VersionSet::NewFileNumber: the number after the one it gives out.
NewFileNumber == next + 1

\* CompactMemTable: also while another compaction runs.
FlushMemTable ==
  /\ imm # NoFile
  /\ comp # NoFile /\ comp.manual => FlushInManual
  /\ LET f == [num |-> next, es |-> imm]
         l == PickLevel(SmallestKey(f).k, LargestKey(f).k)
     IN files' = [files EXCEPT ![l] = Rebuild(@, {}, {f})]
  /\ imm' = NoFile /\ next' = NewFileNumber /\ ftc' = NoFile
  /\ UNCHANGED <<mem, last, snaps, ptr, comp, hist>>

-----------------------------------------------------------------------------
(* Choosing a compaction *)

\* VersionSet::Finalize: the level with the best ratio of size to limit.
Score(l) == IF l = 0 THEN Len(files[0]) * MaxBytesForLevel
            ELSE TotalFileSize(files[l]) * kL0_CompactionTrigger
CompactionLevel == Min({l \in 0 .. NumLevels - 2 : \A j \in 0 .. NumLevels - 2 : Score(j) <= Score(l)})
SizeCompaction == Score(CompactionLevel) >= kL0_CompactionTrigger * MaxBytesForLevel

\* SetupOtherInputs: the files of the next level, more files of this one if
\* that adds none of the next, and the grandparents.
SetupOtherInputs(level, in0, manual) ==
  LET in1 == GetOverlappingInputs(level + 1, Lowest(in0), Highest(in0))
      all == in0 \o in1
      more0 == GetOverlappingInputs(level, Lowest(all), Highest(all))
      more1 == GetOverlappingInputs(level + 1, Lowest(more0), Highest(more0))
      expand == /\ in1 # <<>> /\ Len(more0) > Len(in0)
                /\ TotalFileSize(in1) + TotalFileSize(more0) < ExpandedLimit
                /\ Len(more1) = Len(in1)
      i0 == IF expand THEN more0 ELSE in0
      i1 == IF expand THEN more1 ELSE in1
      gp == IF level + 2 < NumLevels
            THEN GetOverlappingInputs(level + 2, Lowest(i0 \o i1), Highest(i0 \o i1)) ELSE <<>>
  IN [level |-> level, in0 |-> i0, in1 |-> i1, gp |-> gp, manual |-> manual, base |-> files,
      smallest |-> IF snaps = {} THEN last ELSE Min(snaps)]

\* Files of level 0 may overlap each other: take all of them.
Level0Inputs(level, f) ==
  IF level = 0 THEN GetOverlappingInputs(0, SmallestKey(f).k, LargestKey(f).k) ELSE <<f>>

\* PickCompaction for a size compaction: the first file after the pointer.
PickFile(level) ==
  LET i == SelectInSeq(files[level], LAMBDA f : ptr[level] = NoFile \/ Less(ptr[level], LargestKey(f))) IN
    files[level][IF i = 0 THEN 1 ELSE i]

\* The largest key of the inputs: where the next compaction of the level begins.
PointerAfter(c) == CHOOSE e \in {LargestKey(f) : f \in ToSet(c.in0)} :
                     \A f \in ToSet(c.in0) : LargestKey(f) = e \/ Less(LargestKey(f), e)

Begin(c) ==
  /\ comp' = c
  /\ ptr' = [ptr EXCEPT ![c.level] = PointerAfter(c)]
  /\ UNCHANGED <<mem, imm, files, next, last, snaps, ftc, hist>>

\* BackgroundCompaction works on a memtable first.
PickCompaction ==
  /\ comp = NoFile /\ imm = NoFile
  /\ \/ /\ SizeCompaction
        /\ Begin(SetupOtherInputs(CompactionLevel, Level0Inputs(CompactionLevel, PickFile(CompactionLevel)), FALSE))
     \/ /\ ~SizeCompaction /\ ftc # NoFile
        /\ Begin(SetupOtherInputs(ftc.level, Level0Inputs(ftc.level, ftc.f), FALSE))

\* DBImpl::CompactRange for a level that is above the deepest one with files,
\* over all keys: the inputs of a level below 0 are cut at a total size.
CompactRange(level) ==
  /\ comp = NoFile /\ imm = NoFile /\ files[level] # <<>>
  /\ \E l \in level + 1 .. NumLevels - 1 : l = 1 \/ files[l] # <<>>
  /\ LET all == files[level]
         n == Min({i \in 1 .. Len(all) : TotalFileSize(SubSeq(all, 1, i)) >= MaxOutputFileSize} \cup {Len(all)})
     IN Begin(SetupOtherInputs(level, IF level = 0 THEN all ELSE SubSeq(all, 1, n), TRUE))

-----------------------------------------------------------------------------
(* Doing it *)

IsTrivialMove(c) ==
  ~c.manual /\ Len(c.in0) = 1 /\ c.in1 = <<>> /\ TotalFileSize(c.gp) <= MaxGrandParentOverlap

\* IsBaseLevelForKey: no level below the output's may hold the key.
IsBaseLevelForKey(c, k) ==
  \A l \in c.level + 2 .. NumLevels - 1 : \A f \in ToSet(c.base[l]) : ~Overlaps(f, k, k)

\* Mutant: rule (A) compares the entry itself, not the newer one of the key.
Hidden_self(c, es, e) == \E x \in es : x.k = e.k /\ x.s > e.s /\ e.s <= c.smallest

\* Rule (A): the next newer entry of the key is visible to every snapshot.
Hidden(c, es, e) ==
  LET newer == {x.s : x \in {y \in es : y.k = e.k /\ y.s > e.s}} IN
    newer # {} /\ Min(newer) <= c.smallest

\* A deletion that hides nothing any more.
ObsoleteKey(c, e) == ~e.put /\ e.s <= c.smallest /\ IsBaseLevelForKey(c, e.k)

\* One turn of the loop of DoCompactionWork: ShouldStopBefore, then add the
\* entry unless it is dropped, and close an output that is large enough.
Output(c, es, o, e) ==
  LET g == Min({i \in o.g .. Len(c.gp) : ~Less(LargestKey(c.gp[i]), e)} \cup {Len(c.gp) + 1})
      over == o.over + (IF o.seen THEN TotalFileSize(SubSeq(c.gp, o.g, g - 1)) ELSE 0)
      stop == over > MaxGrandParentOverlap
      cut == IF stop /\ o.cur # {} THEN [o EXCEPT !.outs = Append(@, o.cur), !.cur = {}] ELSE o
      cur == IF Hidden(c, es, e) \/ ObsoleteKey(c, e) THEN cut.cur ELSE cut.cur \cup {e}
      full == Cardinality(cur) >= MaxOutputFileSize
  IN [g |-> g, over |-> IF stop THEN 0 ELSE over, seen |-> TRUE,
      outs |-> IF full THEN Append(cut.outs, cur) ELSE cut.outs, cur |-> IF full THEN {} ELSE cur]

\* DoCompactionWork: the contents of the output files.
Outputs(c) ==
  LET es == UNION {f.es : f \in ToSet(c.in0 \o c.in1)}
      o == FoldLeft(LAMBDA o, e : Output(c, es, o, e),
                    [g |-> 1, over |-> 0, seen |-> FALSE, outs |-> <<>>, cur |-> {}], InOrder(es))
  IN IF o.cur = {} THEN o.outs ELSE Append(o.outs, o.cur)

Nums(fs) == {f.num : f \in ToSet(fs)}

\* A single file that overlaps nothing below moves down as it is.
TrivialMove ==
  /\ comp # NoFile /\ IsTrivialMove(comp)
  /\ LET l == comp.level IN
       files' = [files EXCEPT ![l] = Rebuild(@, Nums(comp.in0), {}),
                              ![l + 1] = Rebuild(@, {}, ToSet(comp.in0))]
  /\ comp' = NoFile /\ ftc' = NoFile
  /\ UNCHANGED <<mem, imm, next, last, snaps, ptr, hist>>

\* InstallCompactionResults.
InstallOutputs ==
  /\ comp # NoFile /\ ~IsTrivialMove(comp)
  /\ LET l == comp.level
         o == Outputs(comp)
         new == {[num |-> next + i - 1, es |-> o[i]] : i \in DOMAIN o}
     IN /\ files' = [files EXCEPT ![l] = Rebuild(@, Nums(comp.in0), {}),
                                  ![l + 1] = Rebuild(@, Nums(comp.in1), new)]
        /\ next' = next + Len(o)
  /\ comp' = NoFile /\ ftc' = NoFile
  /\ UNCHANGED <<mem, imm, last, snaps, ptr, hist>>

-----------------------------------------------------------------------------
VersionsInit ==
  /\ mem = {} /\ imm = NoFile /\ files = [l \in Levels |-> <<>>]
  /\ next = 1 /\ last = 0 /\ snaps = {} /\ ptr = [l \in Levels |-> NoFile]
  /\ ftc = NoFile /\ comp = NoFile /\ hist = <<>>

VersionsNext ==
  \/ \E k \in Keys, put \in BOOLEAN : Add(k, put)
  \/ SwitchMemTable \/ FlushMemTable \/ PickCompaction
  \/ \E l \in 0 .. NumLevels - 2 : CompactRange(l)
  \/ TrivialMove \/ InstallOutputs \/ GetSnapshot
  \/ \E s \in snaps : ReleaseSnapshot(s)
  \/ \E k \in Keys, snap \in snaps \cup {last} : UpdateStats(k, snap)

VersionsSpec == VersionsInit /\ [][VersionsNext]_vsvars

-----------------------------------------------------------------------------
\* Every variable has its type, and no file is empty.
FilesTypeOK ==
  /\ last \in 0 .. MaxSeq /\ Len(hist) = last /\ snaps \subseteq 0 .. last
  /\ \A l \in Levels : \A f \in ToSet(files[l]) : f.num < next /\ f.es # {}

\* Get answers what the newest write up to its snapshot said, in every state
\* of flushes and compactions and for every snapshot that is held.
GetIsRight ==
  \A k \in Keys, snap \in snaps \cup {last} : ValueOf(Lookup(k, snap)) = Expected(k, snap)

\* So does an iterator, which merges all entries: no compaction drops one that
\* a snapshot needs, and none brings a deleted key back.
ScanIsRight ==
  \A k \in Keys, snap \in snaps \cup {last} : ValueOf(NewestIn(AllEntries, k, snap)) = Expected(k, snap)

\* Make sure there is no overlap in levels > 0 (Builder::SaveTo): what the
\* binary search for a key relies on.
LevelsDisjoint ==
  \A l \in 1 .. NumLevels - 1 : \A i \in 1 .. Len(files[l]) - 1 :
    Less(LargestKey(files[l][i]), SmallestKey(files[l][i + 1]))

\* In every shape of the tree a read finds the newest write up to its
\* snapshot, one key at a time or in a scan.
TreeIsRight == FilesTypeOK /\ LevelsDisjoint /\ GetIsRight /\ ScanIsRight
=============================================================================
