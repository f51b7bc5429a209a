---------------------------- MODULE DBImplProofs ----------------------------
(***************************************************************************)
(* Nobody in the write path of leveldb waits for ever for a signal that is *)
(* not on its way: NobodyForgotten.                                        *)
(*                                                                         *)
(* Signals are sent by whoever leaves the queue (to the new head) and by   *)
(* the background thread at the end of its call (to the leader in          *)
(* MakeRoomForWrite).  So the invariant describes the queue as a whole,    *)
(* only its head being awake, and says that a call of the background       *)
(* thread is pending whenever there is something that a leader may come to *)
(* wait for.  A leader waits for fewer level-0 files, and the thread is    *)
(* called for them by comparing the same number with a smaller limit: the  *)
(* comparison makes sense for finite versions only, which after a restart  *)
(* come out of the manifest.                                               *)
(*                                                                         *)
(* And a reader keeps its snapshot: ReadsSnapshot.  A reader pins the      *)
(* memtables and the version it found; meanwhile the database moves on.    *)
(* The second invariant says that what is to come has a number that nobody *)
(* knows yet (files) or that lies above every snapshot (entries), and that *)
(* a new table, from the moment it is written, holds exactly what it will  *)
(* replace.  File numbers come from the manifest after a restart, so that  *)
(* the invariant reaches into every edit of every manifest.                *)
(***************************************************************************)
EXTENDS DBImpl, FiniteSetTheorems, SequenceTheorems, WellFoundedInduction, TLAPS

-----------------------------------------------------------------------------
(* The invariant *)

\* The records keep their fields.
FieldsInv ==
  /\ DOMAIN db = DOMAIN Closed /\ DOMAIN bg = DOMAIN NoWork
  /\ db.sched \in BOOLEAN /\ db.shut \in BOOLEAN /\ db.err \in BOOLEAN
  /\ bg.ret \in {"end", "work", "output", "cleanup"}
  /\ DOMAIN wr = Writers /\ \A w \in Writers : DOMAIN wr[w] = DOMAIN Idle

\* A manifest is a sequence of edits that add finitely many files each, of
\* which the first ones are synced.
FiniteEdits(edits) == \E S : edits \in Seq(S) /\ \A e \in S : IsFiniteSet(e.add)
Manifest(m) ==
  /\ DOMAIN m = {"edits", "synced"}
  /\ FiniteEdits(m.edits) /\ m.synced \in 0 .. Len(m.edits)

\* Versions are finite, on disk, in memory and on their way.
DiskInv(dk) ==
  /\ DOMAIN dk = {"logs", "tabs", "mans", "cur"}
  /\ \A m \in DOMAIN dk.mans : Manifest(dk.mans[m])

VersionsInv ==
  /\ DiskInv(disk)
  /\ IsFiniteSet(db.files)
  /\ bg.pc = "install" => IsFiniteSet(bg.edit.add)

\* The writers in the queue are those inside Write, each once; all but the
\* head wait for a signal; and the group that the head commits is a front part
\* of the queue.
WritersInv ==
  /\ writers \in Seq(Writers)
  /\ \A i, j \in 1 .. Len(writers) : writers[i] = writers[j] => i = j
  /\ \A w \in Writers : wr[w].pc # "idle" <=> \E i \in 1 .. Len(writers) : writers[i] = w
  /\ \A i \in 1 .. Len(writers) : wr[writers[i]].pc = "queued" <=> i # 1
  /\ \A w \in Writers : wr[w].pc \in {"insert", "publish"} => wr[w].last \in 1 .. Len(writers)

\* What a leader may wait for, the background thread has been called for.
HasWork(d) ==
  d.phase = "open" /\ ~d.shut /\ ~d.err /\ (d.imm # 0 \/ NeedsCompaction(d))

CallsInv ==
  /\ writers # <<>> => db.phase = "open" /\ ~db.shut
  /\ bg.pc # "idle" => db.phase = "open" /\ db.sched
  /\ HasWork(db) => db.sched
  /\ \A w \in Writers : wr[w].pc = "bgwait" => db.sched

DBInv == FieldsInv /\ VersionsInv /\ WritersInv /\ CallsInv

-----------------------------------------------------------------------------
(* Finite manifests *)

LEMMA EmptyManifest ==
  ASSUME NEW e, IsFiniteSet(e.add) PROVE FiniteEdits(<<e>>) /\ Len(<<e>>) = 1
  <1>1. <<e>> \in Seq({e}) /\ Len(<<e>>) = 1
    OBVIOUS
  <1>2. \A x \in {e} : IsFiniteSet(x.add)
    OBVIOUS
  <1>3. FiniteEdits(<<e>>)
    <2> DEFINE edits == <<e>>
               S == {e}
    <2>1. edits \in Seq(S) /\ \A x \in S : IsFiniteSet(x.add)
      BY <1>1, <1>2
    <2> HIDE DEF edits, S
    <2>2. FiniteEdits(edits)
      BY <2>1 DEF FiniteEdits
    <2> QED
      BY <2>2 DEF edits
  <1> QED
    BY <1>1, <1>3

LEMMA AppendEdit ==
  ASSUME NEW edits, FiniteEdits(edits), NEW e, IsFiniteSet(e.add)
  PROVE  FiniteEdits(Append(edits, e)) /\ Len(Append(edits, e)) = Len(edits) + 1 /\ Len(edits) \in Nat
  <1>1. PICK S : edits \in Seq(S) /\ \A x \in S : IsFiniteSet(x.add)
    BY DEF FiniteEdits
  <1>2. Len(edits) \in Nat /\ \A i \in 1 .. Len(edits) : edits[i] \in S \cup {e}
    BY <1>1, LenProperties, ElementOfSeq
  <1>3. edits \in Seq(S \cup {e})
    BY <1>1
  <1>4. Append(edits, e) \in Seq(S \cup {e}) /\ Len(Append(edits, e)) = Len(edits) + 1
    BY <1>3, AppendProperties
  <1>5. \A x \in S \cup {e} : IsFiniteSet(x.add)
    BY <1>1
  <1> QED
    BY <1>2, <1>4, <1>5 DEF FiniteEdits

LEMMA FrontOfManifest ==
  ASSUME NEW edits, FiniteEdits(edits), NEW n \in 0 .. Len(edits)
  PROVE  FiniteEdits(SubSeq(edits, 1, n)) /\ n \in 0 .. Len(SubSeq(edits, 1, n))
  <1>1. PICK S : edits \in Seq(S) /\ \A x \in S : IsFiniteSet(x.add)
    BY DEF FiniteEdits
  <1>2. Len(edits) \in Nat /\ n \in Nat /\ \A i \in 1 .. n : edits[i] \in S
    BY <1>1, LenProperties, ElementOfSeq
  <1>3. SubSeq(edits, 1, n) \in Seq(S) /\ Len(SubSeq(edits, 1, n)) = IF 1 <= n THEN n - 1 + 1 ELSE 0
    BY <1>2, SubSeqProperties
  <1>4. n \in 0 .. Len(SubSeq(edits, 1, n))
    BY <1>2, <1>3
  <1>5. FiniteEdits(SubSeq(edits, 1, n))
    BY <1>1, <1>3 DEF FiniteEdits
  <1> QED
    BY <1>4, <1>5

\* What Recover reads from a manifest is finite.
LEMMA FiniteRecovery ==
  ASSUME NEW edits, FiniteEdits(edits) PROVE IsFiniteSet(SaveTo(edits))
  <1>1. PICK S : edits \in Seq(S) /\ \A x \in S : IsFiniteSet(x.add)
    BY DEF FiniteEdits
  <1>2. DOMAIN edits = 1 .. Len(edits) /\ Len(edits) \in Nat
        /\ \A i \in DOMAIN edits : edits[i] \in S
    BY <1>1, LenProperties, ElementOfSeq
  <1> DEFINE stays(i) == {f \in edits[i].add : \A j \in i + 1 .. Len(edits) : f[1] \notin edits[j].del}
             parts == {stays(i) : i \in DOMAIN edits}
             g == [i \in DOMAIN edits |-> stays(i)]
  <1>3. g \in Surjection(DOMAIN edits, parts)
    BY DEF Surjection
  <1>4. IsFiniteSet(DOMAIN edits)
    BY <1>2, FS_Interval
  <1>5. IsFiniteSet(parts)
    BY <1>3, <1>4, FS_Surjection
  <1>6. \A T \in parts : IsFiniteSet(T)
    <2> SUFFICES ASSUME NEW i \in DOMAIN edits PROVE IsFiniteSet(stays(i))
      OBVIOUS
    <2>1. IsFiniteSet(edits[i].add) /\ stays(i) \in SUBSET edits[i].add
      BY <1>1, <1>2
    <2> QED
      BY <2>1, FS_Subset
  <1>7. IsFiniteSet(UNION parts)
    BY <1>5, <1>6, FS_UNION
  <1> QED
    BY <1>7 DEF SaveTo

\* The number of level-0 files, so that the limits compare.
LEMMA Level0Count ==
  ASSUME NEW files, IsFiniteSet(files)
  PROVE  Cardinality(Level0(files)) \in Nat
  <1>1. Level0(files) \in SUBSET files
    BY DEF Level0
  <1> QED
    BY <1>1, FS_Subset, FS_CardinalityType

-----------------------------------------------------------------------------
(* The queue *)

\* Whoever is awake inside Write is the head of the queue.
LEMMA OnlyTheHead ==
  ASSUME WritersInv, NEW w \in Writers, wr[w].pc \notin {"idle", "queued"}
  PROVE  /\ Len(writers) \in Nat /\ Len(writers) >= 1 /\ writers # <<>>
         /\ writers[1] = w
  <1>1. PICK i \in 1 .. Len(writers) : writers[i] = w
    BY DEF WritersInv
  <1>2. i = 1
    BY <1>1 DEF WritersInv
  <1>3. Len(writers) \in Nat
    BY LenProperties DEF WritersInv
  <1>4. writers # <<>>
    BY <1>1, <1>3, EmptySeq
  <1> QED
    BY <1>1, <1>2, <1>3, <1>4

\* A step that neither lets anybody in or out of the queue nor wakes a writer
\* behind the head.
LEMMA SameQueue ==
  ASSUME WritersInv, writers' = writers,
         \A t \in Writers : wr'[t].pc = "idle" <=> wr[t].pc = "idle",
         \A t \in Writers : wr'[t].pc = "queued" <=> wr[t].pc = "queued",
         \A t \in Writers : wr'[t].pc \in {"insert", "publish"} => wr'[t].last \in 1 .. Len(writers)
  PROVE  WritersInv'
  <1>1. \A i \in 1 .. Len(writers) : writers[i] \in Writers
    BY ElementOfSeq DEF WritersInv
  <1> QED
    BY <1>1 DEF WritersInv

LEMMA JoinQueue ==
  ASSUME WritersInv, FieldsInv, NEW w \in Writers, wr[w].pc = "idle", NEW r,
         writers' = Append(writers, w), wr' = [wr EXCEPT ![w] = r],
         r.pc = IF writers = <<>> THEN "room" ELSE "queued"
  PROVE  WritersInv'
  <1> DEFINE n == Len(writers)
  <1>1. /\ writers' \in Seq(Writers) /\ n \in Nat /\ Len(writers') = n + 1
        /\ \A i \in 1 .. n : writers'[i] = writers[i]
        /\ writers'[n + 1] = w
    BY AppendProperties, LenProperties DEF WritersInv
  <1>2. \A i \in 1 .. n : writers[i] # w /\ writers[i] \in Writers
    BY ElementOfSeq DEF WritersInv
  <1>3. wr'[w] = r /\ \A t \in Writers : t # w => wr'[t] = wr[t]
    BY DEF FieldsInv
  <1>4. writers = <<>> <=> n = 0
    BY EmptySeq DEF WritersInv
  <1> HIDE DEF n
  <1>5. 1 .. n + 1 = 1 .. n \cup {n + 1}
    BY <1>1
  <1>6. \A i, j \in 1 .. n + 1 : writers'[i] = writers'[j] => i = j
    BY <1>1, <1>2, <1>5 DEF WritersInv, n
  <1>7. \A t \in Writers : wr'[t].pc # "idle" <=> \E i \in 1 .. n + 1 : writers'[i] = t
    <2> TAKE t \in Writers
    <2>1. CASE t = w
      BY <1>1, <1>3, <1>5, <2>1
    <2>2. CASE t # w
      <3>1. wr'[t].pc # "idle" <=> \E i \in 1 .. n : writers[i] = t
        BY <1>3, <2>2 DEF WritersInv, n
      <3> QED
        BY <1>1, <1>5, <2>2, <3>1
    <2> QED
      BY <2>1, <2>2
  <1>8. \A i \in 1 .. n + 1 : wr'[writers'[i]].pc = "queued" <=> i # 1
    <2> TAKE i \in 1 .. n + 1
    <2>1. CASE i \in 1 .. n
      BY <1>1, <1>2, <1>3, <2>1 DEF WritersInv, n
    <2>2. CASE i = n + 1
      BY <1>1, <1>3, <1>4, <2>2
    <2> QED
      BY <1>5, <2>1, <2>2
  <1>9. \A t \in Writers : wr'[t].pc \in {"insert", "publish"} => wr'[t].last \in 1 .. n + 1
    <2> SUFFICES ASSUME NEW t \in Writers, wr'[t].pc \in {"insert", "publish"}
                 PROVE  wr'[t].last \in 1 .. n + 1
      OBVIOUS
    <2>1. t # w
      BY <1>3
    <2>2. wr[t].last \in 1 .. n /\ wr'[t].last = wr[t].last
      BY <1>3, <2>1 DEF WritersInv, n
    <2> QED
      BY <1>5, <2>2
  <1> QED
    BY <1>1, <1>6, <1>7, <1>8, <1>9 DEF WritersInv

\* The first k writers leave, and the next one is woken.
LEMMA LeaveQueue ==
  ASSUME WritersInv, FieldsInv, NEW k \in 1 .. Len(writers), Pop(k, wr)
  PROVE  /\ WritersInv'
         /\ DOMAIN wr' = Writers /\ \A t \in Writers : DOMAIN wr'[t] = DOMAIN Idle
         /\ \A t \in Writers : wr'[t].pc \in {"idle", "room", "queued"}
         /\ writers # <<>>
  <1> DEFINE n == Len(writers)
  <1>1. /\ n \in Nat /\ n >= 1 /\ k \in Nat /\ k >= 1 /\ k <= n /\ writers # <<>>
        /\ DOMAIN writers = 1 .. n
        /\ \A i \in 1 .. n : writers[i] \in Writers
    BY LenProperties, ElementOfSeq, EmptySeq DEF WritersInv
  <1>2. /\ writers' \in Seq(Writers) /\ Len(writers') = n - k
        /\ \A i \in 1 .. n - k : writers'[i] = writers[k + i]
    <2>1. \A i \in k + 1 .. n : writers[i] \in Writers
      BY <1>1
    <2>2. writers' = SubSeq(writers, k + 1, n) /\ k + 1 \in Int /\ n \in Int
      BY <1>1 DEF Pop
    <2>3. /\ writers' \in Seq(Writers)
          /\ Len(writers') = IF k + 1 <= n THEN n - (k + 1) + 1 ELSE 0
          /\ \A i \in 1 .. n - (k + 1) + 1 : writers'[i] = writers[(k + 1) + i - 1]
      BY <2>1, <2>2, SubSeqProperties
    <2> HIDE DEF n
    <2> QED
      BY <1>1, <2>3
  <1>3. ToSet(SubSeq(writers, 1, k)) = {writers[i] : i \in 1 .. k}
    <2> DEFINE front == SubSeq(writers, 1, k)
    <2>1. \A i \in 1 .. k : writers[i] \in Writers
      BY <1>1
    <2>2. front \in Seq(Writers) /\ Len(front) = k /\ \A i \in 1 .. k : front[i] = writers[i]
      BY <1>1, <2>1, SubSeqProperties
    <2>3. DOMAIN front = 1 .. k
      BY <2>2, LenProperties
    <2> HIDE DEF front
    <2> QED
      BY <2>2, <2>3 DEF ToSet, front
  <1>4. wr' = [t \in Writers |->
                 CASE t \in {writers[i] : i \in 1 .. k} -> Idle
                   [] n > k /\ t = writers[k + 1] -> [wr[t] EXCEPT !.pc = "room"]
                   [] OTHER -> wr[t]]
    BY <1>3 DEF Pop
  <1> HIDE DEF n
  <1>5. \A i \in 1 .. k : wr'[writers[i]] = Idle
    <2> TAKE i \in 1 .. k
    <2>1. i \in 1 .. n
      BY <1>1
    <2>2. writers[i] \in Writers /\ writers[i] \in {writers[j] : j \in 1 .. k}
      BY <1>1, <2>1
    <2>3. ~(n > k /\ writers[i] = writers[k + 1])
      <3> SUFFICES ASSUME n > k PROVE writers[i] # writers[k + 1]
        OBVIOUS
      <3>1. k + 1 \in 1 .. n /\ i # k + 1
        BY <1>1
      <3> QED
        BY <2>1, <3>1 DEF WritersInv, n
    <2> QED
      BY <1>4, <2>2, <2>3
  <1>6. n > k => wr'[writers[k + 1]] = [wr[writers[k + 1]] EXCEPT !.pc = "room"]
    <2> SUFFICES ASSUME n > k PROVE wr'[writers[k + 1]] = [wr[writers[k + 1]] EXCEPT !.pc = "room"]
      OBVIOUS
    <2>1. k + 1 \in 1 .. n /\ \A i \in 1 .. k : i \in 1 .. n /\ i # k + 1
      BY <1>1
    <2>2. writers[k + 1] \notin {writers[i] : i \in 1 .. k} /\ writers[k + 1] \in Writers
      BY <1>1, <2>1 DEF WritersInv, n
    <2> QED
      BY <1>4, <2>2
  <1>7. \A i \in k + 2 .. n : wr'[writers[i]] = wr[writers[i]]
    <2> TAKE i \in k + 2 .. n
    <2>1. i \in 1 .. n /\ k + 1 \in 1 .. n /\ i # k + 1 /\ \A j \in 1 .. k : j \in 1 .. n /\ i # j
      BY <1>1
    <2>2. writers[i] # writers[k + 1] /\ writers[i] \notin {writers[j] : j \in 1 .. k}
          /\ writers[i] \in Writers
      BY <1>1, <2>1 DEF WritersInv, n
    <2> QED
      BY <1>4, <2>2
  <1>8. \A t \in Writers : (\A i \in 1 .. n : t # writers[i]) => wr'[t] = wr[t] /\ wr[t].pc = "idle"
    <2> SUFFICES ASSUME NEW t \in Writers, \A i \in 1 .. n : t # writers[i]
                 PROVE  wr'[t] = wr[t] /\ wr[t].pc = "idle"
      OBVIOUS
    <2>1. wr[t].pc = "idle"
      BY DEF WritersInv, n
    <2>2. t \notin {writers[i] : i \in 1 .. k} /\ ~(n > k /\ t = writers[k + 1])
      BY <1>1
    <2> QED
      BY <1>4, <2>1, <2>2
  <1>9. \A i \in k + 2 .. n : wr[writers[i]].pc = "queued"
    BY <1>1 DEF WritersInv, n
  <1>10. \A i \in 1 .. k : wr'[writers[i]].pc = "idle"
    BY <1>5 DEF Idle
  <1>11. n > k => wr'[writers[k + 1]].pc = "room" /\ DOMAIN wr'[writers[k + 1]] = DOMAIN Idle
    <2> SUFFICES ASSUME n > k
                 PROVE  wr'[writers[k + 1]].pc = "room" /\ DOMAIN wr'[writers[k + 1]] = DOMAIN Idle
      OBVIOUS
    <2>1. k + 1 \in 1 .. n
      BY <1>1
    <2>2. DOMAIN wr[writers[k + 1]] = DOMAIN Idle
      BY <1>1, <2>1 DEF FieldsInv
    <2>3. "pc" \in DOMAIN Idle
      BY DEF Idle
    <2> QED
      BY <1>6, <2>2, <2>3
  <1>12. \A t \in Writers : DOMAIN wr'[t] = DOMAIN Idle
    <2> TAKE t \in Writers
    <2>1. CASE \E i \in 1 .. k : t = writers[i]
      BY <1>5, <2>1
    <2>2. CASE n > k /\ t = writers[k + 1]
      BY <1>11, <2>2
    <2>3. CASE \E i \in k + 2 .. n : t = writers[i]
      BY <1>7, <2>3 DEF FieldsInv
    <2>4. CASE \A i \in 1 .. n : t # writers[i]
      BY <1>8, <2>4 DEF FieldsInv
    <2> QED
      BY <1>1, <2>1, <2>2, <2>3, <2>4
  <1>13. \A i, j \in 1 .. n - k : writers'[i] = writers'[j] => i = j
    <2> SUFFICES ASSUME NEW i \in 1 .. n - k, NEW j \in 1 .. n - k, writers'[i] = writers'[j] PROVE i = j
      OBVIOUS
    <2>1. writers[k + i] = writers[k + j] /\ k + i \in 1 .. n /\ k + j \in 1 .. n
      BY <1>1, <1>2
    <2>2. k + i = k + j
      BY <2>1 DEF WritersInv, n
    <2> QED
      BY <1>1, <2>2
  <1>14. \A t \in Writers : wr'[t].pc # "idle" <=> \E i \in 1 .. n - k : writers'[i] = t
    <2> TAKE t \in Writers
    <2>1. CASE \E i \in 1 .. k : t = writers[i]
      <3>1. PICK j \in 1 .. k : t = writers[j]
        BY <2>1
      <3>2. wr'[t].pc = "idle"
        BY <1>10, <3>1
      <3>3. ASSUME NEW i \in 1 .. n - k, writers'[i] = t PROVE FALSE
        <4>1. writers[k + i] = writers[j] /\ k + i \in 1 .. n /\ j \in 1 .. n /\ k + i # j
          BY <1>1, <1>2, <3>1, <3>3
        <4> QED
          BY <4>1 DEF WritersInv, n
      <3> QED
        BY <3>2, <3>3
    <2>2. CASE n > k /\ t = writers[k + 1]
      <3>1. wr'[t].pc = "room"
        BY <1>11, <2>2
      <3>2. 1 \in 1 .. n - k /\ writers'[1] = t
        BY <1>1, <1>2, <2>2
      <3> QED
        BY <3>1, <3>2
    <2>3. CASE \E i \in k + 2 .. n : t = writers[i]
      <3>1. PICK i \in k + 2 .. n : t = writers[i]
        BY <2>3
      <3>2. wr'[t].pc = "queued"
        BY <1>7, <1>9, <3>1
      <3>3. i - k \in 1 .. n - k /\ k + (i - k) = i
        BY <1>1
      <3>4. writers'[i - k] = t
        BY <1>2, <3>1, <3>3
      <3> QED
        BY <3>2, <3>3, <3>4
    <2>4. CASE \A i \in 1 .. n : t # writers[i]
      <3>1. wr'[t].pc = "idle"
        BY <1>8, <2>4
      <3>2. \A i \in 1 .. n - k : writers'[i] # t
        BY <1>1, <1>2, <2>4
      <3> QED
        BY <3>1, <3>2
    <2> QED
      BY <1>1, <2>1, <2>2, <2>3, <2>4
  <1>15. \A i \in 1 .. n - k : wr'[writers'[i]].pc = IF i = 1 THEN "room" ELSE "queued"
    <2> TAKE i \in 1 .. n - k
    <2>1. CASE i = 1
      BY <1>1, <1>2, <1>11, <2>1
    <2>2. CASE i # 1
      <3>1. k + i \in k + 2 .. n
        BY <1>1, <2>2
      <3> QED
        BY <1>2, <1>7, <1>9, <2>2, <3>1
    <2> QED
      BY <2>1, <2>2
  <1>16. \A t \in Writers : wr'[t].pc \in {"idle", "room", "queued"}
    BY <1>14, <1>15
  <1>17. WritersInv'
    BY <1>2, <1>13, <1>14, <1>15, <1>16 DEF WritersInv
  <1> QED
    BY <1>1, <1>4, <1>12, <1>16, <1>17

-----------------------------------------------------------------------------
(* Calls of the background thread *)

\* What is the same for the database before and after a step, as far as the
\* calls are concerned.
Alike(d, e) ==
  /\ DOMAIN d = DOMAIN Closed
  /\ d.phase = e.phase /\ d.shut = e.shut /\ d.sched \in BOOLEAN /\ d.err \in BOOLEAN

LEMMA ScheduleWhenNeeded ==
  ASSUME NEW d, DOMAIN d = DOMAIN Closed, d.sched \in BOOLEAN, d.shut \in BOOLEAN, d.err \in BOOLEAN
  PROVE  LET e == MaybeSchedule(d)
         IN /\ DOMAIN e = DOMAIN Closed
            /\ e.phase = d.phase /\ e.shut = d.shut /\ e.err = d.err /\ e.files = d.files
            /\ e.imm = d.imm /\ e.sched \in BOOLEAN
            /\ d.sched => e.sched
            /\ HasWork(e) => e.sched
  <1>1. DOMAIN Closed = {"phase", "mem", "imm", "logno", "vlog", "files", "next", "last", "man",
                         "err", "sched", "shut", "pend", "todo", "max"}
    BY DEF Closed
  <1> DEFINE e == MaybeSchedule(d)
  <1>2. e.sched = (d.sched \/ (~d.shut /\ ~d.err /\ (d.imm # 0 \/ NeedsCompaction(d))))
    BY <1>1 DEF MaybeSchedule
  <1>3. /\ DOMAIN e = DOMAIN Closed
        /\ e.phase = d.phase /\ e.shut = d.shut /\ e.err = d.err /\ e.files = d.files
        /\ e.imm = d.imm
    BY <1>1 DEF MaybeSchedule
  <1> HIDE DEF e
  <1>4. NeedsCompaction(e) <=> NeedsCompaction(d)
    BY <1>3 DEF NeedsCompaction
  <1>5. HasWork(e) => e.sched
    BY <1>2, <1>3, <1>4 DEF HasWork
  <1>6. e.sched \in BOOLEAN /\ (d.sched => e.sched)
    BY <1>2
  <1> QED
    BY <1>3, <1>5, <1>6 DEF e

\* A leader that must wait for the background thread has called it.
LEMMA WaitIsForACall ==
  ASSUME DBInv, NEW w \in Writers, Leader(w), ~db.err,
         db.imm # 0 \/ Cardinality(Level0(db.files)) >= L0_StopWritesTrigger
  PROVE  db.sched
  <1>1. writers # <<>>
    BY OnlyTheHead DEF DBInv, Leader
  <1>2. Cardinality(Level0(db.files)) \in Nat
    BY Level0Count DEF DBInv, VersionsInv
  <1>3. Cardinality(Level0(db.files)) >= L0_StopWritesTrigger => NeedsCompaction(db)
    BY <1>2, TriggerAssumption DEF NeedsCompaction
  <1>4. HasWork(db)
    BY <1>1, <1>3 DEF HasWork, DBInv, CallsInv
  <1> QED
    BY <1>4 DEF DBInv, CallsInv

LEMMA NobodyWaitsWhenEmpty ==
  ASSUME WritersInv, writers = <<>>
  PROVE  \A w \in Writers : wr[w].pc = "idle"
  <1>1. Len(writers) = 0
    BY EmptySeq
  <1> QED
    BY <1>1 DEF WritersInv

\* WakeAll wakes the leader that waits for the background thread, nobody else.
LEMMA AllAwake ==
  ASSUME DBInv, writers' = writers, wr' = WakeAll(wr)
  PROVE  /\ WritersInv'
         /\ DOMAIN wr' = Writers /\ \A w \in Writers : DOMAIN wr'[w] = DOMAIN Idle
         /\ \A w \in Writers : wr'[w].pc # "bgwait"
  <1>1. "pc" \in DOMAIN Idle /\ "last" \in DOMAIN Idle
    BY DEF Idle
  <1>2. DOMAIN wr' = Writers
    BY DEF WakeAll
  <1>3. ASSUME NEW w \in Writers
        PROVE  /\ wr[w].pc = "bgwait" => wr'[w] = [wr[w] EXCEPT !.pc = "room"]
               /\ wr[w].pc # "bgwait" => wr'[w] = wr[w]
               /\ DOMAIN wr[w] = DOMAIN Idle
    BY DEF WakeAll, DBInv, FieldsInv
  <1>4. ASSUME NEW w \in Writers
        PROVE  /\ wr[w].pc = "bgwait" => wr'[w].pc = "room"
               /\ wr[w].pc # "bgwait" => wr'[w].pc = wr[w].pc /\ wr'[w].last = wr[w].last
               /\ DOMAIN wr'[w] = DOMAIN Idle
    BY <1>1, <1>3
  <1>5. WritersInv'
    <2>1. \A w \in Writers : wr[w].pc \in {"insert", "publish"} => wr[w].last \in 1 .. Len(writers)
      BY DEF DBInv, WritersInv
    <2>2. \A w \in Writers : wr'[w].pc \in {"insert", "publish"} => wr'[w].last \in 1 .. Len(writers)
      BY <1>4, <2>1
    <2>3. \A w \in Writers : (wr'[w].pc = "idle" <=> wr[w].pc = "idle")
                              /\ (wr'[w].pc = "queued" <=> wr[w].pc = "queued")
      BY <1>4
    <2> QED
      BY <2>2, <2>3, SameQueue DEF DBInv
  <1> QED
    BY <1>2, <1>4, <1>5

\* The end of a background call.
LEMMA EndOfCall ==
  ASSUME DBInv, NEW d, Alike(d, db), db.phase = "open", IsFiniteSet(d.files), DiskInv(disk'),
         EndCall(d, wr), writers' = writers
  PROVE  DBInv'
  <1> DEFINE c == [d EXCEPT !.sched = FALSE]
  <1>1. DOMAIN Closed = {"phase", "mem", "imm", "logno", "vlog", "files", "next", "last", "man",
                         "err", "sched", "shut", "pend", "todo", "max"}
    BY DEF Closed
  <1>2. /\ DOMAIN c = DOMAIN Closed /\ c.sched = FALSE
        /\ c.phase = db.phase /\ c.shut = db.shut /\ c.files = d.files /\ c.err = d.err
    BY <1>1 DEF Alike
  <1>3. c.shut \in BOOLEAN /\ c.err \in BOOLEAN /\ c.sched \in BOOLEAN
    BY <1>2 DEF DBInv, FieldsInv, Alike
  <1>4. db' = MaybeSchedule(c)
    BY DEF EndCall
  <1> HIDE DEF c
  <1>5. /\ DOMAIN db' = DOMAIN Closed
        /\ db'.phase = c.phase /\ db'.shut = c.shut /\ db'.err = c.err /\ db'.files = c.files
        /\ db'.sched \in BOOLEAN
        /\ HasWork(db') => db'.sched
    BY <1>2, <1>3, <1>4, ScheduleWhenNeeded
  <1>6. /\ WritersInv'
        /\ DOMAIN wr' = Writers /\ \A w \in Writers : DOMAIN wr'[w] = DOMAIN Idle
        /\ \A w \in Writers : wr'[w].pc # "bgwait"
    BY AllAwake DEF EndCall
  <1>7. bg' = NoWork /\ bg'.pc = "idle" /\ bg'.ret = "end" /\ DOMAIN bg' = DOMAIN NoWork
    BY DEF EndCall, NoWork
  <1>8. FieldsInv'
    BY <1>2, <1>3, <1>5, <1>6, <1>7 DEF FieldsInv
  <1>9. VersionsInv'
    BY <1>2, <1>5, <1>7 DEF VersionsInv
  <1>10. CallsInv'
    <2>1. writers' # <<>> => db'.phase = "open" /\ ~db'.shut
      BY <1>2, <1>5 DEF DBInv, CallsInv
    <2> QED
      BY <2>1, <1>5, <1>6, <1>7 DEF CallsInv, HasWork, NeedsCompaction
  <1> QED
    BY <1>6, <1>8, <1>9, <1>10 DEF DBInv

\* Back in the loop of a compaction, the call goes on.
LEMMA ReturnKeeps ==
  ASSUME DBInv, NEW d, Alike(d, db), bg.pc # "idle", d.sched = db.sched,
         IsFiniteSet(d.files), DiskInv(disk'), Return(d), writers' = writers
  PROVE  DBInv'
  <1>1. db.phase = "open" /\ db.sched
    BY DEF DBInv, CallsInv
  <1>2. CASE bg.ret = "end"
    BY <1>1, <1>2, EndOfCall DEF Return
  <1>3. CASE bg.ret # "end"
    <2>1. db' = d /\ wr' = WakeAll(wr) /\ bg' = [bg EXCEPT !.pc = bg.ret, !.edit = None]
      BY <1>3 DEF Return
    <2>2. /\ bg'.pc = bg.ret /\ bg'.ret = bg.ret /\ DOMAIN bg' = DOMAIN NoWork
          /\ bg'.pc # "install" /\ bg.ret \in {"end", "work", "output", "cleanup"}
      <3>1. DOMAIN NoWork = {"pc", "ret", "n", "out", "ins", "ok", "edit"}
        BY DEF NoWork
      <3>2. bg.ret \in {"end", "work", "output", "cleanup"} /\ DOMAIN bg = DOMAIN NoWork
        BY DEF DBInv, FieldsInv
      <3> QED
        BY <2>1, <3>1, <3>2
    <2>3. /\ WritersInv'
          /\ DOMAIN wr' = Writers /\ \A w \in Writers : DOMAIN wr'[w] = DOMAIN Idle
          /\ \A w \in Writers : wr'[w].pc # "bgwait"
      BY <2>1, AllAwake
    <2>4. db'.phase = db.phase /\ db'.shut = db.shut /\ db'.sched = db.sched
      BY <2>1 DEF Alike
    <2>5. FieldsInv'
      <3>1. db'.sched \in BOOLEAN /\ db'.shut \in BOOLEAN /\ db'.err \in BOOLEAN
            /\ DOMAIN db' = DOMAIN Closed
        BY <2>1, <2>4 DEF Alike, DBInv, FieldsInv
      <3> QED
        BY <2>2, <2>3, <3>1 DEF FieldsInv
    <2>6. VersionsInv'
      BY <2>1, <2>2 DEF VersionsInv
    <2>7. CallsInv'
      <3>1. writers' # <<>> => db'.phase = "open" /\ ~db'.shut
        BY <2>4 DEF DBInv, CallsInv
      <3>2. db'.phase = "open" /\ db'.sched
        BY <1>1, <2>4
      <3> QED
        BY <3>1, <3>2 DEF CallsInv
    <2> QED
      BY <2>3, <2>5, <2>6, <2>7 DEF DBInv
  <1> QED
    BY <1>2, <1>3

\* A step of the background thread within its call, or of nobody in Write.
LEMMA Quiet ==
  ASSUME DBInv, UNCHANGED <<writers, wr>>, Alike(db', db), db'.shut = db.shut,
         db'.sched = db.sched, db'.err = db.err, db'.imm = db.imm, db'.files = db.files,
         DiskInv(disk'), DOMAIN bg' = DOMAIN NoWork,
         bg'.ret \in {"end", "work", "output", "cleanup"},
         bg'.pc # "idle" => db.phase = "open" /\ db.sched,
         bg'.pc = "install" => IsFiniteSet(bg'.edit.add)
  PROVE  DBInv'
  <1>1. FieldsInv'
    BY DEF DBInv, FieldsInv, Alike
  <1>2. VersionsInv'
    BY DEF DBInv, VersionsInv
  <1>3. WritersInv'
    BY DEF DBInv, WritersInv
  <1>4. HasWork(db') => db'.sched
    BY DEF HasWork, NeedsCompaction, Alike, DBInv, CallsInv
  <1>5. CallsInv'
    <2>1. writers' # <<>> => db'.phase = "open" /\ ~db'.shut
      BY DEF DBInv, CallsInv, Alike
    <2>2. bg'.pc # "idle" => db'.phase = "open" /\ db'.sched
      BY DEF Alike
    <2>3. \A w \in Writers : wr'[w].pc = "bgwait" => db'.sched
      BY DEF DBInv, CallsInv
    <2> QED
      BY <1>4, <2>1, <2>2, <2>3 DEF CallsInv, HasWork, NeedsCompaction
  <1> QED
    BY <1>1, <1>2, <1>3, <1>5 DEF DBInv

\* A step while the database is not open.
LEMMA NotOpen ==
  ASSUME DBInv, UNCHANGED <<writers, wr, bg>>, db.phase # "open", db'.phase # "open",
         DOMAIN db' = DOMAIN Closed, db'.sched \in BOOLEAN, db'.shut \in BOOLEAN, db'.err \in BOOLEAN,
         IsFiniteSet(db'.files), DiskInv(disk')
  PROVE  DBInv'
  <1>1. writers = <<>> /\ bg.pc = "idle"
    BY DEF DBInv, CallsInv
  <1>2. \A w \in Writers : wr[w].pc = "idle"
    BY <1>1, NobodyWaitsWhenEmpty DEF DBInv
  <1>3. FieldsInv'
    BY DEF DBInv, FieldsInv
  <1>4. VersionsInv'
    BY <1>1 DEF DBInv, VersionsInv
  <1>5. WritersInv'
    BY DEF DBInv, WritersInv
  <1>6. CallsInv'
    BY <1>1, <1>2 DEF CallsInv, HasWork
  <1> QED
    BY <1>3, <1>4, <1>5, <1>6 DEF DBInv

LEMMA MemoryLost ==
  ASSUME LoseMemory, DiskInv(disk') PROVE DBInv'
  <1>1. /\ db' = Closed /\ writers' = <<>> /\ wr' = [w \in Writers |-> Idle] /\ bg' = NoWork
        /\ db'.phase = "closed" /\ db'.files = {} /\ bg'.pc = "idle" /\ bg'.ret = "end"
        /\ db'.sched = FALSE /\ db'.shut = FALSE /\ db'.err = FALSE
        /\ \A w \in Writers : wr'[w] = Idle /\ wr'[w].pc = "idle"
    BY DEF LoseMemory, Closed, NoWork, Idle
  <1>2. FieldsInv'
    BY <1>1 DEF FieldsInv
  <1>3. VersionsInv'
    BY <1>1, FS_EmptySet DEF VersionsInv
  <1>4. WritersInv'
    <2>1. writers' \in Seq(Writers) /\ Len(writers') = 0
      BY <1>1, EmptySeq
    <2> QED
      BY <1>1, <2>1 DEF WritersInv
  <1>5. CallsInv'
    BY <1>1 DEF CallsInv, HasWork
  <1> QED
    BY <1>2, <1>3, <1>4, <1>5 DEF DBInv

-----------------------------------------------------------------------------
(* The directory *)

LEMMA SameManifests ==
  ASSUME NEW dk, DiskInv(dk), NEW e, DOMAIN e = DOMAIN dk, e.mans = dk.mans
  PROVE  DiskInv(e)
  BY DEF DiskInv

LEMMA FewerManifests ==
  ASSUME NEW dk, DiskInv(dk), NEW e, DOMAIN e = DOMAIN dk, NEW S, e.mans = Without(dk.mans, S)
  PROVE  DiskInv(e)
  BY DEF DiskInv, Without, Restrict

LEMMA NewManifest ==
  ASSUME NEW dk, DiskInv(dk), NEW e, DOMAIN e = DOMAIN dk, NEW n, NEW m, Manifest(m),
         e.mans = With(dk.mans, n, m)
  PROVE  DiskInv(e)
  BY DEF DiskInv, With

LEMMA SnapshotManifest ==
  ASSUME NEW edit, IsFiniteSet(edit.add), NEW n \in 0 .. 1
  PROVE  Manifest([synced |-> n, edits |-> <<edit>>])
  <1>1. FiniteEdits(<<edit>>) /\ Len(<<edit>>) = 1
    BY EmptyManifest
  <1> DEFINE edits == <<edit>>
  <1> HIDE DEF edits
  <1>2. n \in 0 .. Len(edits)
    BY <1>1 DEF edits
  <1>3. Manifest([synced |-> n, edits |-> edits])
    BY <1>1, <1>2 DEF Manifest, edits
  <1> QED
    BY <1>3 DEF edits

LEMMA CleanDirectory ==
  ASSUME DiskInv(disk), NEW d, NEW ins, DeleteObsoleteFiles(d, ins) PROVE DiskInv(disk')
  <1>1. CASE d.err
    BY <1>1 DEF DeleteObsoleteFiles
  <1>2. CASE ~d.err
    <2> DEFINE o == Obsolete(d, ins)
    <2>1. DOMAIN disk' = DOMAIN disk /\ disk'.mans = Without(disk.mans, o.mans)
      BY <1>2 DEF DeleteObsoleteFiles, DiskInv
    <2> QED
      BY <2>1, FewerManifests
  <1> QED
    BY <1>1, <1>2

LEMMA TableBuilt ==
  ASSUME NEW dk, DiskInv(dk), NEW n, NEW es, NEW ok PROVE DiskInv(BuildTable(dk, n, es, ok))
  <1>1. DOMAIN BuildTable(dk, n, es, ok) = DOMAIN dk /\ BuildTable(dk, n, es, ok).mans = dk.mans
    BY DEF BuildTable, DiskInv
  <1> QED
    BY <1>1, SameManifests

LEMMA EditLogged ==
  ASSUME NEW dk, DiskInv(dk), NEW edit, IsFiniteSet(edit.add), NEW added \in BOOLEAN, NEW ok \in BOOLEAN,
         ok => added
  PROVE  DiskInv(LogEdit(dk, edit, added, ok))
  <1> DEFINE e == LogEdit(dk, edit, added, ok)
  <1>1. DOMAIN e = DOMAIN dk /\ DOMAIN e.mans = DOMAIN dk.mans
        /\ \A m \in DOMAIN dk.mans : m # db.man => e.mans[m] = dk.mans[m]
    BY DEF LogEdit, DiskInv
  <1>2. ASSUME db.man \in DOMAIN dk.mans PROVE Manifest(e.mans[db.man])
    <2> DEFINE m == dk.mans[db.man]
    <2>1. FiniteEdits(m.edits) /\ m.synced \in 0 .. Len(m.edits)
      BY <1>2 DEF DiskInv, Manifest
    <2>2. /\ FiniteEdits(Append(m.edits, edit))
          /\ Len(Append(m.edits, edit)) = Len(m.edits) + 1 /\ Len(m.edits) \in Nat
      BY <2>1, AppendEdit
    <2>3. e.mans[db.man] = [edits |-> IF added THEN Append(m.edits, edit) ELSE m.edits,
                            synced |-> IF ok THEN Len(m.edits) + 1 ELSE m.synced]
      BY <1>2 DEF LogEdit, DiskInv
    <2> HIDE DEF e, m
    <2>4. CASE added
      <3> DEFINE longer == Append(m.edits, edit)
      <3>1. e.mans[db.man] = [edits |-> longer, synced |-> IF ok THEN Len(m.edits) + 1 ELSE m.synced]
        BY <2>3, <2>4
      <3>2. FiniteEdits(longer) /\ Len(longer) = Len(m.edits) + 1
        BY <2>2
      <3> HIDE DEF longer
      <3>3. e.mans[db.man].synced \in 0 .. Len(longer)
        BY <2>1, <2>2, <3>1, <3>2
      <3>4. DOMAIN e.mans[db.man] = {"edits", "synced"} /\ e.mans[db.man].edits = longer
        BY <3>1
      <3> QED
        BY <3>2, <3>3, <3>4 DEF Manifest
    <2>5. CASE ~added
      <3>1. e.mans[db.man] = [edits |-> m.edits, synced |-> m.synced]
        BY <2>3, <2>5
      <3> QED
        BY <2>1, <3>1 DEF Manifest
    <2> QED
      BY <2>4, <2>5
  <1> HIDE DEF e
  <1>3. DiskInv(e)
    BY <1>1, <1>2 DEF DiskInv
  <1> QED
    BY <1>3 DEF e

-----------------------------------------------------------------------------
(* The steps of the writers *)

\* A leader goes on; the queue stays.
LEMMA LeaderGoesOn ==
  ASSUME DBInv, NEW w \in Writers, wr[w].pc \notin {"idle", "queued"},
         NEW r, DOMAIN r = DOMAIN Idle, r.pc \notin {"idle", "queued"},
         r.pc \in {"insert", "publish"} => r.last \in 1 .. Len(writers),
         r.pc = "bgwait" => db.sched,
         wr' = [wr EXCEPT ![w] = r], writers' = writers, bg' = bg, DiskInv(disk'),
         Alike(db', db), db.sched => db'.sched, HasWork(db') => db'.sched, db'.files = db.files
  PROVE  DBInv'
  <1>1. /\ DOMAIN wr' = Writers /\ wr'[w] = r
        /\ \A t \in Writers : t # w => wr'[t] = wr[t]
    BY DEF DBInv, FieldsInv
  <1>2. FieldsInv'
    <2>1. \A t \in Writers : DOMAIN wr'[t] = DOMAIN Idle
      BY <1>1 DEF DBInv, FieldsInv
    <2>2. db'.shut \in BOOLEAN
      BY DEF DBInv, FieldsInv, Alike
    <2> QED
      BY <1>1, <2>1, <2>2 DEF DBInv, FieldsInv, Alike
  <1>3. VersionsInv'
    BY DEF DBInv, VersionsInv
  <1>4. WritersInv'
    <2>1. \A t \in Writers : wr[t].pc \in {"insert", "publish"} => wr[t].last \in 1 .. Len(writers)
      BY DEF DBInv, WritersInv
    <2>2. \A t \in Writers : wr'[t].pc \in {"insert", "publish"} => wr'[t].last \in 1 .. Len(writers)
      BY <1>1, <2>1
    <2>3. \A t \in Writers : (wr'[t].pc = "idle" <=> wr[t].pc = "idle")
                              /\ (wr'[t].pc = "queued" <=> wr[t].pc = "queued")
      BY <1>1
    <2> QED
      BY <2>2, <2>3, SameQueue DEF DBInv
  <1>5. CallsInv'
    <2>1. writers' # <<>> => db'.phase = "open" /\ ~db'.shut
      BY DEF DBInv, CallsInv, Alike
    <2>2. bg'.pc # "idle" => db'.phase = "open" /\ db'.sched
      BY DEF DBInv, CallsInv, Alike
    <2>3. \A t \in Writers : wr'[t].pc = "bgwait" => db'.sched
      BY <1>1 DEF DBInv, CallsInv
    <2>4. (HasWork(db) => db.sched)'
      OBVIOUS
    <2> QED
      BY <2>1, <2>2, <2>3, <2>4 DEF CallsInv
  <1> QED
    BY <1>2, <1>3, <1>4, <1>5 DEF DBInv

\* The front of the queue is answered.
LEMMA GroupLeaves ==
  ASSUME DBInv, NEW k \in 1 .. Len(writers), Pop(k, wr), bg' = bg, disk' = disk,
         Alike(db', db), db'.sched = db.sched, db'.files = db.files, db'.imm = db.imm,
         db.err => db'.err
  PROVE  DBInv'
  <1>1. /\ WritersInv'
        /\ DOMAIN wr' = Writers /\ \A t \in Writers : DOMAIN wr'[t] = DOMAIN Idle
        /\ \A t \in Writers : wr'[t].pc # "bgwait"
        /\ writers # <<>>
    BY LeaveQueue DEF DBInv
  <1>2. FieldsInv'
    BY <1>1 DEF DBInv, FieldsInv, Alike
  <1>3. VersionsInv'
    BY DEF DBInv, VersionsInv
  <1>4. HasWork(db') => db'.sched
    BY DEF HasWork, NeedsCompaction, Alike, DBInv, CallsInv
  <1>5. CallsInv'
    <2>1. db'.phase = "open" /\ ~db'.shut
      BY <1>1 DEF DBInv, CallsInv, Alike
    <2>2. bg'.pc # "idle" => db'.phase = "open" /\ db'.sched
      BY DEF DBInv, CallsInv, Alike
    <2>3. (HasWork(db) => db.sched)'
      BY <1>4
    <2> QED
      BY <1>1, <2>1, <2>2, <2>3 DEF CallsInv
  <1> QED
    BY <1>1, <1>2, <1>3, <1>5 DEF DBInv

\* BuildBatchGroup takes at least the leader, nobody who is not there and nobody
\* who may not join.
LEMMA GroupIsInTheQueue ==
  ASSUME NEW n \in Nat, n >= 1, Len(writers) = n, NEW w
  PROVE  BuildBatchGroup(w) \in 1 .. n /\ \A i \in 2 .. BuildBatchGroup(w) : Joins(i, w)
  <1> DEFINE S == {k \in 1 .. n : \A i \in 2 .. k : Joins(i, w)}
             T == {n - k : k \in S}
             R == OpToRel(<, Nat)
  <1>1. 1 \in S
    BY DEF Joins
  <1>2. \A k \in S : k \in 1 .. n /\ k \in Nat /\ n - k \in Nat
    <2> SUFFICES ASSUME NEW k \in 1 .. n PROVE k \in Nat /\ n - k \in Nat
      OBVIOUS
    <2> QED
      OBVIOUS
  <1>3. BuildBatchGroup(w) = Max(S)
    BY DEF BuildBatchGroup
  <1> HIDE DEF S
  <1>4. T \subseteq Nat /\ T # {}
    BY <1>1, <1>2
  <1>5. IsWellFoundedOn(R, Nat)
    BY NatLessThanWellFounded
  <1>6. PICK m \in T : \A x \in T : ~(<<x, m>> \in R)
    BY <1>4, <1>5, WFMin
  <1>7. \A x \in Nat : x < m => <<x, m>> \in R
    BY <1>4, <1>6 DEF OpToRel
  <1>8. PICK k \in S : m = n - k
    BY <1>6
  <1>9. ASSUME NEW y \in S PROVE k >= y
    <2>1. ~(n - y < n - k)
      BY <1>4, <1>6, <1>7, <1>8
    <2>2. k \in Nat /\ y \in Nat
      BY <1>2
    <2> QED
      BY <2>1, <2>2
  <1>10. Max(S) \in S
    BY <1>9 DEF Max
  <1>11. \A j \in S : \A i \in 2 .. j : Joins(i, w)
    BY DEF S
  <1> QED
    BY <1>2, <1>3, <1>10, <1>11

\* A thread calls Write.
LEMMA WriteKeeps ==
  ASSUME DBInv, NEW w \in Writers, NEW sync \in BOOLEAN, NEW null \in BOOLEAN, Write(w, sync, null)
  PROVE  DBInv'
  <1> DEFINE r == [Idle EXCEPT !.pc = IF writers = <<>> THEN "room" ELSE "queued",
                               !.id = used.ops + 1, !.sync = sync, !.null = null,
                               !.delay = ~null, !.force = null]
  <1>1. /\ db.phase = "open" /\ ~db.shut /\ wr[w].pc = "idle"
        /\ writers' = Append(writers, w) /\ wr' = [wr EXCEPT ![w] = r]
        /\ UNCHANGED <<disk, db, bg>>
    BY DEF Write
  <1>2. DOMAIN r = DOMAIN Idle /\ r.pc = IF writers = <<>> THEN "room" ELSE "queued"
    BY DEF Idle
  <1> HIDE DEF r
  <1>3. WritersInv'
    BY <1>1, <1>2, JoinQueue DEF DBInv
  <1>4. wr'[w] = r /\ DOMAIN wr' = Writers /\ \A t \in Writers : t # w => wr'[t] = wr[t]
    BY <1>1 DEF DBInv, FieldsInv
  <1>5. FieldsInv'
    BY <1>1, <1>2, <1>4 DEF DBInv, FieldsInv
  <1>6. VersionsInv'
    BY <1>1 DEF DBInv, VersionsInv
  <1>7. CallsInv'
    <2>1. \A t \in Writers : wr'[t].pc = "bgwait" => wr[t].pc = "bgwait"
      BY <1>2, <1>4
    <2> QED
      BY <1>1, <2>1 DEF DBInv, CallsInv, HasWork, NeedsCompaction
  <1> QED
    BY <1>3, <1>5, <1>6, <1>7 DEF DBInv

\* The fields of a Writer, for the updates below.
LEMMA WriterFields ==
  DOMAIN Idle = {"pc", "id", "sync", "null", "delay", "force", "group", "last", "ok", "serr"}
  BY DEF Idle

\* The database as it is goes with itself.
LEMMA SameDatabase ==
  ASSUME DBInv, db' = db PROVE Alike(db', db) /\ (HasWork(db') => db'.sched)
  BY DEF DBInv, FieldsInv, CallsInv, HasWork, NeedsCompaction, Alike

LEMMA LeaderStep ==
  ASSUME DBInv, NEW w \in Writers, RoomDelay(w) \/ RoomWait(w) \/ InsertInto(w)
  PROVE  DBInv'
  <1>1. DOMAIN wr[w] = DOMAIN Idle
    BY DEF DBInv, FieldsInv
  <1>2. DiskInv(disk)
    BY DEF DBInv, VersionsInv
  <1>3. CASE RoomDelay(w)
    <2> DEFINE r == [wr[w] EXCEPT !.delay = FALSE]
    <2>1. wr' = [wr EXCEPT ![w] = r] /\ wr[w].pc = "room" /\ UNCHANGED <<disk, db, writers, bg>>
      BY <1>3 DEF RoomDelay, Leader
    <2>2. DOMAIN r = DOMAIN Idle /\ r.pc = "room"
      BY <1>1, <2>1, WriterFields
    <2> HIDE DEF r
    <2> QED
      BY <1>2, <2>1, <2>2, SameDatabase, LeaderGoesOn
  <1>4. CASE RoomWait(w)
    <2> DEFINE r == [wr[w] EXCEPT !.pc = "bgwait"]
    <2>1. wr' = [wr EXCEPT ![w] = r] /\ wr[w].pc = "room" /\ UNCHANGED <<disk, db, writers, bg>>
      BY <1>4 DEF RoomWait, Leader
    <2>2. DOMAIN r = DOMAIN Idle /\ r.pc = "bgwait"
      BY <1>1, WriterFields
    <2>3. db.sched
      BY <1>4, WaitIsForACall DEF RoomWait
    <2> HIDE DEF r
    <2> QED
      BY <1>2, <2>1, <2>2, <2>3, SameDatabase, LeaderGoesOn
  <1>5. CASE InsertInto(w)
    <2> DEFINE r == [wr[w] EXCEPT !.pc = "publish"]
    <2>1. wr' = [wr EXCEPT ![w] = r] /\ wr[w].pc = "insert" /\ UNCHANGED <<disk, db, writers, bg>>
      BY <1>5 DEF InsertInto
    <2>2. DOMAIN r = DOMAIN Idle /\ r.pc = "publish" /\ r.last = wr[w].last
      BY <1>1, WriterFields
    <2>3. r.last \in 1 .. Len(writers)
      BY <2>1, <2>2 DEF DBInv, WritersInv
    <2> HIDE DEF r
    <2> QED
      BY <1>2, <2>1, <2>2, <2>3, SameDatabase, LeaderGoesOn
  <1> QED
    BY <1>3, <1>4, <1>5

LEMMA LogGroupKeeps ==
  ASSUME DBInv, NEW w \in Writers, NEW added \in BOOLEAN, NEW ok \in BOOLEAN, LogGroup(w, added, ok)
  PROVE  DBInv'
  <1> DEFINE n == BuildBatchGroup(w)
  <1>1. DOMAIN wr[w] = DOMAIN Idle /\ wr[w].pc = "room"
    BY DEF DBInv, FieldsInv, LogGroup, Leader
  <1>2. n \in 1 .. Len(writers)
    <2>1. Len(writers) \in Nat /\ Len(writers) >= 1
      BY <1>1, OnlyTheHead DEF DBInv
    <2> QED
      BY <2>1, GroupIsInTheQueue
  <1>3. \E group : wr' = [wr EXCEPT ![w] = [@ EXCEPT !.pc = "insert", !.last = n, !.group = group,
                                                   !.ok = ok, !.serr = added /\ ~ok]]
    BY DEF LogGroup
  <1>4. \E log : disk' = [disk EXCEPT !.logs[db.logno] = log]
    BY DEF LogGroup
  <1>5. UNCHANGED <<db, writers, bg>>
    BY DEF LogGroup
  <1> HIDE DEF n
  <1>6. PICK group : wr' = [wr EXCEPT ![w] = [@ EXCEPT !.pc = "insert", !.last = n, !.group = group,
                                                   !.ok = ok, !.serr = added /\ ~ok]]
    BY <1>3
  <1> DEFINE r == [wr[w] EXCEPT !.pc = "insert", !.last = n, !.group = group,
                                !.ok = ok, !.serr = added /\ ~ok]
  <1>7. wr' = [wr EXCEPT ![w] = r]
    BY <1>6
  <1>8. DOMAIN r = DOMAIN Idle /\ r.pc = "insert" /\ r.last = n
    BY <1>1, WriterFields
  <1>9. DiskInv(disk')
    <2>1. DiskInv(disk) /\ DOMAIN disk' = DOMAIN disk /\ disk'.mans = disk.mans
      BY <1>4 DEF DBInv, VersionsInv, DiskInv
    <2> QED
      BY <2>1, SameManifests
  <1> HIDE DEF r
  <1> QED
    BY <1>1, <1>2, <1>5, <1>7, <1>8, <1>9, SameDatabase, LeaderGoesOn

LEMMA RoomSwitchKeeps ==
  ASSUME DBInv, NEW w \in Writers, RoomSwitch(w) PROVE DBInv'
  <1> DEFINE r == [wr[w] EXCEPT !.force = FALSE]
             d == [db EXCEPT !.next = @ + 1, !.logno = db.next, !.imm = db.mem, !.mem = db.next]
  <1>1. /\ wr' = [wr EXCEPT ![w] = r] /\ wr[w].pc = "room" /\ UNCHANGED <<writers, bg>>
        /\ db' = MaybeSchedule(d)
    BY DEF RoomSwitch, Leader
  <1>2. DOMAIN r = DOMAIN Idle /\ r.pc = "room"
    <2>1. DOMAIN wr[w] = DOMAIN Idle
      BY DEF DBInv, FieldsInv
    <2> QED
      BY <1>1, <2>1, WriterFields
  <1>3. /\ DOMAIN d = DOMAIN Closed /\ d.phase = db.phase /\ d.shut = db.shut /\ d.err = db.err
        /\ d.sched = db.sched /\ d.files = db.files
    <2>1. DOMAIN db = DOMAIN Closed
      BY DEF DBInv, FieldsInv
    <2> QED
      BY <2>1 DEF Closed
  <1>4. DiskInv(disk')
    <2>1. DiskInv(disk) /\ DOMAIN disk' = DOMAIN disk /\ disk'.mans = disk.mans
      BY DEF RoomSwitch, DBInv, VersionsInv, DiskInv
    <2> QED
      BY <2>1, SameManifests
  <1>5. d.sched \in BOOLEAN /\ d.shut \in BOOLEAN /\ d.err \in BOOLEAN
    BY <1>3 DEF DBInv, FieldsInv
  <1> HIDE DEF r, d
  <1>6. /\ DOMAIN db' = DOMAIN Closed
        /\ db'.phase = d.phase /\ db'.shut = d.shut /\ db'.err = d.err /\ db'.files = d.files
        /\ db'.sched \in BOOLEAN
        /\ d.sched => db'.sched
        /\ HasWork(db') => db'.sched
    BY <1>1, <1>3, <1>5, ScheduleWhenNeeded
  <1>7. Alike(db', db) /\ (db.sched => db'.sched) /\ db'.files = db.files
    BY <1>3, <1>5, <1>6 DEF Alike
  <1> QED
    BY <1>1, <1>2, <1>4, <1>6, <1>7, LeaderGoesOn

\* The head alone gives up, or has nothing to write.
LEMMA LeaderLeaves ==
  ASSUME DBInv, NEW w \in Writers, RoomError(w) \/ RoomSwitchFails(w) \/ RoomForNull(w)
  PROVE  DBInv'
  <1>1. wr[w].pc = "room" /\ Pop(1, wr) /\ UNCHANGED <<disk, db, bg>>
    BY DEF RoomError, RoomSwitchFails, RoomForNull, Leader
  <1>2. 1 \in 1 .. Len(writers)
    <2>1. Len(writers) \in Nat /\ Len(writers) >= 1
      BY <1>1, OnlyTheHead DEF DBInv
    <2> QED
      BY <2>1
  <1> QED
    BY <1>1, <1>2, SameDatabase, GroupLeaves

LEMMA PublishKeeps ==
  ASSUME DBInv, NEW w \in Writers, Publish(w) PROVE DBInv'
  <1>1. /\ Pop(wr[w].last, wr) /\ UNCHANGED <<disk, bg>> /\ wr[w].pc = "publish"
        /\ db' = [db EXCEPT !.last = NewLast(w), !.err = @ \/ wr[w].serr]
    BY DEF Publish
  <1>2. wr[w].last \in 1 .. Len(writers)
    BY <1>1 DEF DBInv, WritersInv
  <1>3. /\ DOMAIN db' = DOMAIN Closed /\ db'.phase = db.phase /\ db'.shut = db.shut
        /\ db'.sched = db.sched /\ db'.files = db.files /\ db'.imm = db.imm
        /\ db'.err = (db.err \/ wr[w].serr)
    <2>1. DOMAIN db = DOMAIN Closed
      BY DEF DBInv, FieldsInv
    <2> QED
      BY <1>1, <2>1 DEF Closed
  <1>4. Alike(db', db) /\ (db.err => db'.err)
    BY <1>3 DEF Alike, DBInv, FieldsInv
  <1> QED
    BY <1>1, <1>2, <1>3, <1>4, GroupLeaves

LEMMA StepKeeps ==
  ASSUME DBInv, NEW w \in Writers, Step(w) PROVE DBInv'
  BY LeaderStep, LogGroupKeeps, RoomSwitchKeeps, LeaderLeaves, PublishKeeps DEF Step

-----------------------------------------------------------------------------
(* The steps of the background thread *)

LEMMA DatabaseFields ==
  DOMAIN Closed = {"phase", "mem", "imm", "logno", "vlog", "files", "next", "last", "man",
                   "err", "sched", "shut", "pend", "todo", "max"}
  BY DEF Closed

LEMMA WorkFields ==
  DOMAIN NoWork = {"pc", "ret", "n", "out", "ins", "ok", "edit"}
  BY DEF NoWork

\* The state of the background thread within a call.
LEMMA WithinACall ==
  ASSUME DBInv, UNCHANGED <<writers, wr>>, DiskInv(disk'), Alike(db', db),
         db'.sched = db.sched, db'.err = db.err, db'.imm = db.imm, db'.files = db.files,
         DOMAIN bg' = DOMAIN NoWork, bg'.ret \in {"end", "work", "output", "cleanup"},
         db.phase = "open", db.sched, bg'.pc = "install" => IsFiniteSet(bg'.edit.add)
  PROVE  DBInv'
  <1>1. db'.shut = db.shut
    BY DEF Alike
  <1> QED
    BY <1>1, Quiet

LEMMA CompactMemTableKeeps ==
  ASSUME DBInv, NEW ok \in BOOLEAN, CompactMemTable(ok) PROVE DBInv'
  <1>1. /\ db' = NextNumber(db) /\ UNCHANGED <<writers, wr>>
        /\ disk' = BuildTable(disk, db.next, memtab[db.imm], ok)
        /\ bg' = [bg EXCEPT !.pc = "apply", !.n = db.next, !.ok = ok,
                            !.ret = IF bg.pc = "idle" THEN "end" ELSE bg.pc]
        /\ db.phase = "open" /\ bg.pc \in {"idle", "work", "output"}
        /\ bg.pc = "idle" => db.sched
    BY DEF CompactMemTable
  <1>2. db.sched
    BY <1>1 DEF DBInv, CallsInv
  <1>3. /\ DOMAIN bg' = DOMAIN NoWork /\ bg'.pc = "apply"
        /\ bg'.ret \in {"end", "work", "output", "cleanup"}
    <2>1. DOMAIN bg = DOMAIN NoWork
      BY DEF DBInv, FieldsInv
    <2> QED
      BY <1>1, <2>1, WorkFields
  <1>4. /\ DOMAIN db' = DOMAIN Closed /\ db'.phase = db.phase /\ db'.shut = db.shut
        /\ db'.sched = db.sched /\ db'.err = db.err /\ db'.imm = db.imm /\ db'.files = db.files
    <2>1. DOMAIN db = DOMAIN Closed
      BY DEF DBInv, FieldsInv
    <2> QED
      BY <1>1, <2>1, DatabaseFields DEF NextNumber
  <1>5. Alike(db', db)
    BY <1>4 DEF Alike, DBInv, FieldsInv
  <1>6. DiskInv(disk')
    BY <1>1, TableBuilt DEF DBInv, VersionsInv
  <1> QED
    BY <1>1, <1>2, <1>3, <1>4, <1>5, <1>6, WithinACall

LEMMA ApplyMemTableKeeps ==
  ASSUME DBInv, NEW added \in BOOLEAN, NEW ok \in BOOLEAN, ApplyMemTable(added, ok) PROVE DBInv'
  <1> DEFINE d == [db EXCEPT !.pend = @ \ {bg.n}]
             new == {f \in {<<bg.n, OutputLevel>>} : bg.n \in DOMAIN disk.tabs}
             edit == Edit(d, new, {}, EditLog)
  <1>1. /\ bg.pc = "apply" /\ (ok => added) /\ UNCHANGED <<writers, wr>>
        /\ db' = d /\ disk' = LogEdit(disk, edit, added, ok)
        /\ bg' = [bg EXCEPT !.pc = "install", !.edit = edit, !.ok = ok]
    BY DEF ApplyMemTable
  <1>2. IsFiniteSet(edit.add)
    <2>1. new \in SUBSET {<<bg.n, OutputLevel>>} /\ edit.add = new
      BY DEF Edit
    <2>2. IsFiniteSet({<<bg.n, OutputLevel>>})
      BY FS_Singleton
    <2> HIDE DEF new, edit
    <2> QED
      BY <2>1, <2>2, FS_Subset
  <1>3. db.phase = "open" /\ db.sched
    BY <1>1 DEF DBInv, CallsInv
  <1>4. /\ DOMAIN db' = DOMAIN Closed /\ db'.phase = db.phase /\ db'.shut = db.shut
        /\ db'.sched = db.sched /\ db'.err = db.err /\ db'.imm = db.imm /\ db'.files = db.files
    <2>1. DOMAIN db = DOMAIN Closed
      BY DEF DBInv, FieldsInv
    <2> QED
      BY <1>1, <2>1, DatabaseFields
  <1>5. Alike(db', db)
    BY <1>4 DEF Alike, DBInv, FieldsInv
  <1> HIDE DEF edit
  <1>6. DiskInv(disk')
    BY <1>1, <1>2, EditLogged DEF DBInv, VersionsInv
  <1>7. /\ DOMAIN bg' = DOMAIN NoWork /\ bg'.edit = edit
        /\ bg'.ret \in {"end", "work", "output", "cleanup"}
    <2>1. DOMAIN bg = DOMAIN NoWork /\ bg.ret \in {"end", "work", "output", "cleanup"}
      BY DEF DBInv, FieldsInv
    <2> QED
      BY <1>1, <2>1, WorkFields
  <1> QED
    BY <1>1, <1>2, <1>3, <1>4, <1>5, <1>6, <1>7, WithinACall

LEMMA FailMemTableKeeps ==
  ASSUME DBInv, FailMemTable PROVE DBInv'
  <1> DEFINE d == [db EXCEPT !.pend = @ \ {bg.n}, !.err = TRUE]
  <1>1. bg.pc # "idle" /\ Return(d) /\ UNCHANGED <<disk, writers>>
    BY DEF FailMemTable
  <1>2. /\ DOMAIN d = DOMAIN Closed /\ d.phase = db.phase /\ d.shut = db.shut
        /\ d.sched = db.sched /\ d.err = TRUE /\ d.files = db.files
    <2>1. DOMAIN db = DOMAIN Closed
      BY DEF DBInv, FieldsInv
    <2> QED
      BY <2>1, DatabaseFields
  <1> HIDE DEF d
  <1>3. Alike(d, db) /\ IsFiniteSet(d.files) /\ DiskInv(disk')
    BY <1>1, <1>2 DEF Alike, DBInv, FieldsInv, VersionsInv
  <1> QED
    BY <1>1, <1>2, <1>3, ReturnKeeps

\* The version a finished edit installs.
LEMMA InstalledVersion ==
  ASSUME DBInv, bg.pc = "install"
  PROVE  LET d == Installed(db)
         IN /\ DOMAIN d = DOMAIN Closed /\ d.phase = db.phase /\ d.shut = db.shut
            /\ d.sched = db.sched /\ d.err = db.err /\ IsFiniteSet(d.files)
  <1> DEFINE d == Installed(db)
  <1>1. DOMAIN db = DOMAIN Closed
    BY DEF DBInv, FieldsInv
  <1>2. /\ DOMAIN d = DOMAIN Closed /\ d.phase = db.phase /\ d.shut = db.shut
        /\ d.sched = db.sched /\ d.err = db.err
        /\ d.files = {f \in db.files : f[1] \notin bg.edit.del} \cup bg.edit.add
    BY <1>1, DatabaseFields DEF Installed
  <1>3. IsFiniteSet(d.files)
    <2> DEFINE kept == {f \in db.files : f[1] \notin bg.edit.del}
    <2>1. IsFiniteSet(db.files) /\ IsFiniteSet(bg.edit.add) /\ kept \in SUBSET db.files
      BY DEF DBInv, VersionsInv
    <2>2. IsFiniteSet(kept)
      BY <2>1, FS_Subset
    <2>3. d.files = kept \cup bg.edit.add
      BY <1>2
    <2> HIDE DEF kept, d
    <2> QED
      BY <2>1, <2>2, <2>3, FS_Union
  <1> QED
    BY <1>2, <1>3

LEMMA InstallMemTableKeeps ==
  ASSUME DBInv, InstallMemTable PROVE DBInv'
  <1> DEFINE d == IF bg.ok THEN [Installed(db) EXCEPT !.imm = 0] ELSE [db EXCEPT !.err = TRUE]
  <1>1. /\ bg.pc = "install" /\ Return(d) /\ UNCHANGED writers
        /\ DeleteObsoleteFiles(d, bg.ins)
    BY DEF InstallMemTable
  <1>2. /\ DOMAIN d = DOMAIN Closed /\ d.phase = db.phase /\ d.shut = db.shut
        /\ d.sched = db.sched /\ d.err \in BOOLEAN /\ IsFiniteSet(d.files)
    <2>1. CASE bg.ok
      <3> DEFINE v == Installed(db)
      <3>1. /\ DOMAIN v = DOMAIN Closed /\ v.phase = db.phase /\ v.shut = db.shut
            /\ v.sched = db.sched /\ v.err = db.err /\ IsFiniteSet(v.files)
        BY <1>1, InstalledVersion
      <3>2. d = [v EXCEPT !.imm = 0]
        BY <2>1
      <3> HIDE DEF v, d
      <3>3. /\ DOMAIN d = DOMAIN Closed /\ d.phase = v.phase /\ d.shut = v.shut
            /\ d.sched = v.sched /\ d.err = v.err /\ d.files = v.files
        BY <3>1, <3>2, DatabaseFields
      <3> QED
        BY <3>1, <3>3 DEF DBInv, FieldsInv
    <2>2. CASE ~bg.ok
      <3>1. DOMAIN db = DOMAIN Closed /\ d = [db EXCEPT !.err = TRUE]
        BY <2>2 DEF DBInv, FieldsInv
      <3> HIDE DEF d
      <3>2. /\ DOMAIN d = DOMAIN Closed /\ d.phase = db.phase /\ d.shut = db.shut
            /\ d.sched = db.sched /\ d.err = TRUE /\ d.files = db.files
        BY <3>1, DatabaseFields
      <3> QED
        BY <3>2 DEF DBInv, VersionsInv
    <2> QED
      BY <2>1, <2>2
  <1> HIDE DEF d
  <1>3. Alike(d, db)
    BY <1>2 DEF Alike, DBInv, FieldsInv
  <1>4. DiskInv(disk')
    BY <1>1, CleanDirectory DEF DBInv, VersionsInv
  <1> QED
    BY <1>1, <1>2, <1>3, <1>4, ReturnKeeps

LEMMA BackgroundNothingKeeps ==
  ASSUME DBInv, BackgroundNothing PROVE DBInv'
  <1>1. db.phase = "open" /\ EndCall(db, wr) /\ UNCHANGED <<disk, writers>>
    BY DEF BackgroundNothing
  <1>2. Alike(db, db) /\ IsFiniteSet(db.files) /\ DiskInv(disk')
    BY <1>1 DEF Alike, DBInv, FieldsInv, VersionsInv
  <1> QED
    BY <1>1, <1>2, EndOfCall

LEMMA StartCompactionKeeps ==
  ASSUME DBInv, StartCompaction PROVE DBInv'
  <1>1. /\ db.phase = "open" /\ db.sched /\ UNCHANGED <<disk, db, writers, wr>>
        /\ bg' = [bg EXCEPT !.pc = "work", !.ins = db.files]
    BY DEF StartCompaction
  <1>2. DOMAIN bg = DOMAIN NoWork /\ bg.ret \in {"end", "work", "output", "cleanup"}
    BY DEF DBInv, FieldsInv
  <1>3. /\ DOMAIN bg' = DOMAIN NoWork /\ bg'.pc = "work"
        /\ bg'.ret \in {"end", "work", "output", "cleanup"}
    BY <1>1, <1>2, WorkFields
  <1>4. Alike(db', db) /\ DiskInv(disk')
    BY <1>1 DEF Alike, DBInv, FieldsInv, VersionsInv
  <1> QED
    BY <1>1, <1>3, <1>4, WithinACall

LEMMA OpenOutputKeeps ==
  ASSUME DBInv, OpenCompactionOutputFile PROVE DBInv'
  <1>1. /\ bg.pc = "work" /\ UNCHANGED <<writers, wr>> /\ db' = NextNumber(db)
        /\ bg' = [bg EXCEPT !.pc = "output", !.out = db.next]
        /\ disk' = [disk EXCEPT !.tabs = With(@, db.next, {})]
    BY DEF OpenCompactionOutputFile
  <1>2. db.phase = "open" /\ db.sched
    BY <1>1 DEF DBInv, CallsInv
  <1>3. /\ DOMAIN bg' = DOMAIN NoWork /\ bg'.pc = "output"
        /\ bg'.ret \in {"end", "work", "output", "cleanup"}
    <2>1. DOMAIN bg = DOMAIN NoWork /\ bg.ret \in {"end", "work", "output", "cleanup"}
      BY DEF DBInv, FieldsInv
    <2> QED
      BY <1>1, <2>1, WorkFields
  <1>4. /\ DOMAIN db' = DOMAIN Closed /\ db'.phase = db.phase /\ db'.shut = db.shut
        /\ db'.sched = db.sched /\ db'.err = db.err /\ db'.imm = db.imm /\ db'.files = db.files
    <2>1. DOMAIN db = DOMAIN Closed
      BY DEF DBInv, FieldsInv
    <2> QED
      BY <1>1, <2>1, DatabaseFields DEF NextNumber
  <1>5. Alike(db', db)
    BY <1>4 DEF Alike, DBInv, FieldsInv
  <1>6. DiskInv(disk')
    <2>1. DiskInv(disk) /\ DOMAIN disk' = DOMAIN disk /\ disk'.mans = disk.mans
      BY <1>1 DEF DBInv, VersionsInv, DiskInv
    <2> QED
      BY <2>1, SameManifests
  <1> QED
    BY <1>1, <1>2, <1>3, <1>4, <1>5, <1>6, WithinACall

LEMMA FinishCompactionKeeps ==
  ASSUME DBInv, NEW added \in BOOLEAN, NEW ok \in BOOLEAN, FinishCompaction(added, ok) PROVE DBInv'
  <1> DEFINE edit == Edit(db, {<<bg.out, 1>>}, Numbers(bg.ins), db.vlog)
             dk == [disk EXCEPT !.tabs[bg.out] = TablesOf(bg.ins)]
  <1>1. /\ bg.pc = "output" /\ (ok => added) /\ UNCHANGED <<db, writers, wr>>
        /\ disk' = LogEdit(dk, edit, added, ok)
        /\ bg' = [bg EXCEPT !.pc = "install", !.ret = "cleanup", !.ok = ok, !.edit = edit]
    BY DEF FinishCompaction
  <1>2. IsFiniteSet(edit.add)
    BY FS_Singleton DEF Edit
  <1>3. db.phase = "open" /\ db.sched
    BY <1>1 DEF DBInv, CallsInv
  <1>4. DiskInv(dk)
    <2>1. DiskInv(disk) /\ DOMAIN dk = DOMAIN disk /\ dk.mans = disk.mans
      BY DEF DBInv, VersionsInv, DiskInv
    <2> HIDE DEF dk
    <2> QED
      BY <2>1, SameManifests
  <1> HIDE DEF edit, dk
  <1>5. DiskInv(disk')
    BY <1>1, <1>2, <1>4, EditLogged
  <1>6. /\ DOMAIN bg' = DOMAIN NoWork /\ bg'.edit = edit
        /\ bg'.ret \in {"end", "work", "output", "cleanup"}
    <2>1. DOMAIN bg = DOMAIN NoWork
      BY DEF DBInv, FieldsInv
    <2> QED
      BY <1>1, <2>1, WorkFields
  <1>7. Alike(db', db)
    BY <1>1 DEF Alike, DBInv, FieldsInv
  <1> QED
    BY <1>1, <1>2, <1>3, <1>5, <1>6, <1>7, WithinACall

\* The end of a compaction, good or bad.
LEMMA CleanupKeeps ==
  ASSUME DBInv, NEW d, DOMAIN d = DOMAIN Closed, d.phase = db.phase, d.shut = db.shut,
         d.sched = db.sched, d.err \in BOOLEAN, IsFiniteSet(d.files),
         bg.pc # "idle", Cleanup(d), writers' = writers
  PROVE  DBInv'
  <1> DEFINE e == [d EXCEPT !.pend = @ \ {bg.out}]
  <1>1. EndCall(e, wr) /\ DeleteObsoleteFiles(e, {})
    BY DEF Cleanup
  <1>2. /\ DOMAIN e = DOMAIN Closed /\ e.phase = d.phase /\ e.shut = d.shut
        /\ e.sched = d.sched /\ e.err = d.err /\ e.files = d.files
    BY DatabaseFields
  <1> HIDE DEF e
  <1>3. Alike(e, db)
    BY <1>2 DEF Alike, DBInv, FieldsInv
  <1>4. DiskInv(disk')
    BY <1>1, CleanDirectory DEF DBInv, VersionsInv
  <1>5. db.phase = "open"
    BY DEF DBInv, CallsInv
  <1> QED
    BY <1>1, <1>2, <1>3, <1>4, <1>5, EndOfCall

LEMMA EndOfCompactionKeeps ==
  ASSUME DBInv, FailCompaction \/ InstallCompaction PROVE DBInv'
  <1> DEFINE f == [db EXCEPT !.err = TRUE]
  <1>1. DOMAIN db = DOMAIN Closed
    BY DEF DBInv, FieldsInv
  <1>2. /\ DOMAIN f = DOMAIN Closed /\ f.phase = db.phase /\ f.shut = db.shut
        /\ f.sched = db.sched /\ f.err \in BOOLEAN /\ f.files = db.files
    BY <1>1, DatabaseFields
  <1>3. IsFiniteSet(f.files)
    BY <1>2 DEF DBInv, VersionsInv
  <1>4. CASE FailCompaction
    <2>1. bg.pc # "idle" /\ Cleanup(f) /\ writers' = writers
      BY <1>4 DEF FailCompaction
    <2> HIDE DEF f
    <2> QED
      BY <1>2, <1>3, <2>1, CleanupKeeps
  <1>5. CASE InstallCompaction /\ bg.ok
    <2> DEFINE d == Installed(db)
    <2>1. bg.pc = "install" /\ Cleanup(d) /\ writers' = writers
      BY <1>5 DEF InstallCompaction
    <2>2. /\ DOMAIN d = DOMAIN Closed /\ d.phase = db.phase /\ d.shut = db.shut
          /\ d.sched = db.sched /\ d.err = db.err /\ IsFiniteSet(d.files)
      BY <2>1, InstalledVersion
    <2> HIDE DEF d
    <2>3. d.err \in BOOLEAN
      BY <2>2 DEF DBInv, FieldsInv
    <2> QED
      BY <2>1, <2>2, <2>3, CleanupKeeps
  <1>6. CASE InstallCompaction /\ ~bg.ok
    <2>1. bg.pc = "install" /\ Cleanup(f) /\ writers' = writers
      BY <1>6 DEF InstallCompaction
    <2> HIDE DEF f
    <2> QED
      BY <1>2, <1>3, <2>1, CleanupKeeps
  <1> QED
    BY <1>4, <1>5, <1>6

LEMMA BackgroundKeeps ==
  ASSUME DBInv, Background PROVE DBInv'
  BY BackgroundNothingKeeps, FailMemTableKeeps, InstallMemTableKeeps, StartCompactionKeeps,
     OpenOutputKeeps, EndOfCompactionKeeps, CompactMemTableKeeps, ApplyMemTableKeeps,
     FinishCompactionKeeps DEF Background

-----------------------------------------------------------------------------
(* Readers, the end of the process, and DB::Open *)

LEMMA ReaderKeeps ==
  ASSUME DBInv, ReadBegin \/ ReadEnd \/ RecoverFails \/ UNCHANGED vars PROVE DBInv'
  <1>1. UNCHANGED <<disk, db, writers, wr, bg>>
    BY DEF ReadBegin, ReadEnd, RecoverFails, vars
  <1> QED
    BY <1>1 DEF DBInv, FieldsInv, VersionsInv, WritersInv, CallsInv, HasWork, NeedsCompaction

LEMMA CloseBeginKeeps ==
  ASSUME DBInv, CloseBegin PROVE DBInv'
  <1>1. /\ db.phase = "open" /\ writers = <<>> /\ UNCHANGED <<disk, writers, wr, bg>>
        /\ db' = [db EXCEPT !.shut = TRUE]
    BY DEF CloseBegin
  <1>2. /\ DOMAIN db' = DOMAIN Closed /\ db'.phase = db.phase /\ db'.shut = TRUE
        /\ db'.sched = db.sched /\ db'.err = db.err /\ db'.files = db.files
    <2>1. DOMAIN db = DOMAIN Closed
      BY DEF DBInv, FieldsInv
    <2> QED
      BY <1>1, <2>1, DatabaseFields
  <1>3. \A w \in Writers : wr[w].pc = "idle"
    BY <1>1, NobodyWaitsWhenEmpty DEF DBInv
  <1>4. FieldsInv'
    BY <1>1, <1>2 DEF DBInv, FieldsInv
  <1>5. VersionsInv'
    BY <1>1, <1>2 DEF DBInv, VersionsInv
  <1>6. WritersInv'
    BY <1>1 DEF DBInv, WritersInv
  <1>7. CallsInv'
    <2>1. bg'.pc # "idle" => db'.phase = "open" /\ db'.sched
      BY <1>1, <1>2 DEF DBInv, CallsInv
    <2> QED
      BY <1>1, <1>2, <1>3, <2>1 DEF CallsInv, HasWork
  <1> QED
    BY <1>4, <1>5, <1>6, <1>7 DEF DBInv

\* The machine stops: a manifest keeps at least what was synced.
LEMMA PowerLossManifests ==
  ASSUME DBInv, PowerLoss PROVE DiskInv(disk')
  <1>1. PICK keep \in [DOMAIN disk.logs -> BOOLEAN], kept \in [DOMAIN disk.mans -> BOOLEAN] :
         disk' = [disk EXCEPT
           !.logs = [n \in DOMAIN @ |-> IF keep[n] THEN @[n] ELSE Cut(@[n])],
           !.mans = [n \in DOMAIN @ |-> IF kept[n] THEN @[n] ELSE CutManifest(@[n])]]
    BY DEF PowerLoss
  <1>2. DiskInv(disk)
    BY DEF DBInv, VersionsInv
  <1>3. /\ DOMAIN disk' = DOMAIN disk
        /\ disk'.mans = [n \in DOMAIN disk.mans |-> IF kept[n] THEN disk.mans[n]
                                                   ELSE CutManifest(disk.mans[n])]
    BY <1>1, <1>2 DEF DiskInv
  <1>4. ASSUME NEW n \in DOMAIN disk.mans PROVE Manifest(disk'.mans[n])
    <2> DEFINE m == disk.mans[n]
    <2>1. Manifest(m)
      BY <1>2 DEF DiskInv
    <2>2. DOMAIN m = {"edits", "synced"} /\ FiniteEdits(m.edits) /\ m.synced \in 0 .. Len(m.edits)
      BY <2>1 DEF Manifest
    <2>3. CASE kept[n]
      BY <1>3, <2>1, <2>3
    <2>4. CASE ~kept[n]
      <3> DEFINE front == SubSeq(m.edits, 1, m.synced)
      <3>1. FiniteEdits(front) /\ m.synced \in 0 .. Len(front)
        BY <2>2, FrontOfManifest
      <3>2. disk'.mans[n] = [m EXCEPT !.edits = front]
        BY <1>3, <2>4 DEF CutManifest
      <3> HIDE DEF front, m
      <3>3. /\ DOMAIN disk'.mans[n] = {"edits", "synced"}
            /\ disk'.mans[n].edits = front /\ disk'.mans[n].synced = m.synced
        BY <2>2, <3>2
      <3> QED
        BY <3>1, <3>3 DEF Manifest
    <2> QED
      BY <2>3, <2>4
  <1>5. DOMAIN disk'.mans = DOMAIN disk.mans
    BY <1>3
  <1> QED
    BY <1>2, <1>3, <1>4, <1>5 DEF DiskInv

LEMMA EndKeeps ==
  ASSUME DBInv, CloseEnd \/ Crash \/ PowerLoss \/ OpenFails PROVE DBInv'
  <1>1. DiskInv(disk)
    BY DEF DBInv, VersionsInv
  <1>2. CASE CloseEnd \/ Crash
    BY <1>1, <1>2, MemoryLost DEF CloseEnd, Crash
  <1>3. CASE PowerLoss
    <2>1. DiskInv(disk')
      BY <1>3, PowerLossManifests
    <2> QED
      BY <1>3, <2>1, MemoryLost DEF PowerLoss
  <1>4. CASE OpenFails
    <2>1. LoseMemory
          /\ disk' = IF db.phase = "current" THEN [disk EXCEPT !.mans = Without(@, {db.man})] ELSE disk
      BY <1>4 DEF OpenFails
    <2>2. CASE db.phase = "current"
      <3>1. DOMAIN disk' = DOMAIN disk /\ disk'.mans = Without(disk.mans, {db.man})
        BY <1>1, <2>1, <2>2 DEF DiskInv
      <3> QED
        BY <1>1, <2>1, <3>1, FewerManifests, MemoryLost
    <2>3. CASE db.phase # "current"
      BY <1>1, <2>1, <2>3, MemoryLost
    <2> QED
      BY <2>2, <2>3
  <1> QED
    BY <1>2, <1>3, <1>4

LEMMA NewDBKeeps ==
  ASSUME DBInv, NewDB PROVE DBInv'
  <1> DEFINE edit == [add |-> {}, del |-> {}, log |-> 0, next |-> 2, last |-> 0]
             m == [synced |-> 0, edits |-> <<edit>>]
  <1>1. /\ db.phase = "closed" /\ UNCHANGED <<db, writers, wr, bg>>
        /\ disk' = [disk EXCEPT !.cur = 1, !.mans = With(@, 1, m)]
    BY DEF NewDB
  <1>2. Manifest(m)
    <2>1. IsFiniteSet(edit.add)
      BY FS_EmptySet
    <2>2. 0 \in 0 .. 1 /\ 1 \in 0 .. 1
      OBVIOUS
    <2> HIDE DEF edit
    <2> QED
      BY <2>1, <2>2, SnapshotManifest
  <1> HIDE DEF m
  <1>3. DiskInv(disk) /\ DOMAIN disk' = DOMAIN disk /\ disk'.mans = With(disk.mans, 1, m)
    BY <1>1 DEF DBInv, VersionsInv, DiskInv
  <1>4. DiskInv(disk')
    BY <1>2, <1>3, NewManifest
  <1>5. db' = db /\ db.phase # "open" /\ db'.phase # "open"
    BY <1>1
  <1> QED
    BY <1>1, <1>4, <1>5, NotOpen DEF DBInv, FieldsInv, VersionsInv

LEMMA RecoverKeeps ==
  ASSUME DBInv, Recover PROVE DBInv'
  <1> DEFINE edits == disk.mans[disk.cur].edits
             v == ReadManifest(disk.cur)
  <1>1. /\ db.phase = "closed" /\ Recoverable /\ UNCHANGED <<disk, writers, wr, bg>>
        /\ db' = [Closed EXCEPT !.phase = "replay", !.files = v.files, !.vlog = v.log,
                !.man = v.next, !.next = v.next + 1, !.last = v.last, !.todo = LogsToReplay(v)]
    BY DEF Recover
  <1>2. v.files = SaveTo(edits)
    BY DEF ReadManifest
  <1>3. IsFiniteSet(v.files)
    <2>1. FiniteEdits(edits)
      BY <1>1 DEF Recoverable, DBInv, VersionsInv, DiskInv, Manifest
    <2> HIDE DEF edits
    <2> QED
      BY <1>2, <2>1, FiniteRecovery
  <1> HIDE DEF v
  <1>4. /\ DOMAIN db' = DOMAIN Closed /\ db'.phase = "replay" /\ db'.files = v.files
        /\ db'.sched = FALSE /\ db'.shut = FALSE /\ db'.err = FALSE
    BY <1>1 DEF Closed
  <1>5. db.phase # "open" /\ db'.phase # "open" /\ DiskInv(disk')
    BY <1>1, <1>4 DEF DBInv, VersionsInv
  <1> QED
    BY <1>1, <1>3, <1>4, <1>5, NotOpen

LEMMA RecoverLogFileKeeps ==
  ASSUME DBInv, RecoverLogFile PROVE DBInv'
  <1>1. db.phase = "replay" /\ UNCHANGED <<writers, wr, bg>>
    BY DEF RecoverLogFile
  <1>2. PICK l, es :
          /\ disk' = BuildTable(disk, db.next, es, TRUE)
          /\ db' = [db EXCEPT !.todo = @ \ {l},
                      !.next = Max({l + 1, db.next + (IF es = {} THEN 0 ELSE 1)}),
                      !.files = IF es = {} THEN @ ELSE @ \cup {<<db.next, 0>>},
                      !.max = Max({@} \cup {Seqno(e) : e \in es})]
    BY DEF RecoverLogFile
  <1>3. DOMAIN db = DOMAIN Closed
    BY DEF DBInv, FieldsInv
  <1>4. /\ DOMAIN db' = DOMAIN Closed /\ db'.phase = db.phase /\ db'.sched = db.sched
        /\ db'.shut = db.shut /\ db'.err = db.err
        /\ db'.files = IF es = {} THEN db.files ELSE db.files \cup {<<db.next, 0>>}
    BY <1>2, <1>3, DatabaseFields
  <1>5. IsFiniteSet(db'.files)
    BY <1>4, FS_AddElement DEF DBInv, VersionsInv
  <1>6. DiskInv(disk')
    BY <1>2, TableBuilt DEF DBInv, VersionsInv
  <1>7. db'.sched \in BOOLEAN /\ db'.shut \in BOOLEAN /\ db'.err \in BOOLEAN
    BY <1>4 DEF DBInv, FieldsInv
  <1>8. db.phase # "open" /\ db'.phase # "open"
    BY <1>1, <1>4
  <1> QED
    BY <1>1, <1>4, <1>5, <1>6, <1>7, <1>8, NotOpen

LEMMA OpenLogKeeps ==
  ASSUME DBInv, OpenLog PROVE DBInv'
  <1>1. /\ db.phase = "replay" /\ UNCHANGED <<writers, wr, bg>>
        /\ \E log : disk' = [disk EXCEPT !.logs = log]
        /\ db' = [db EXCEPT !.phase = "save", !.last = Max({@, db.max}), !.next = @ + 1,
                            !.logno = db.next, !.mem = db.next]
    BY DEF OpenLog
  <1>2. DOMAIN db = DOMAIN Closed
    BY DEF DBInv, FieldsInv
  <1>3. /\ DOMAIN db' = DOMAIN Closed /\ db'.phase = "save" /\ db'.sched = db.sched
        /\ db'.shut = db.shut /\ db'.err = db.err /\ db'.files = db.files
    BY <1>1, <1>2, DatabaseFields
  <1>4. DiskInv(disk')
    <2>1. DiskInv(disk) /\ DOMAIN disk' = DOMAIN disk /\ disk'.mans = disk.mans
      BY <1>1 DEF DBInv, VersionsInv, DiskInv
    <2> QED
      BY <2>1, SameManifests
  <1>5. /\ db'.sched \in BOOLEAN /\ db'.shut \in BOOLEAN /\ db'.err \in BOOLEAN
        /\ IsFiniteSet(db'.files)
    BY <1>3 DEF DBInv, FieldsInv, VersionsInv
  <1>6. db.phase # "open" /\ db'.phase # "open"
    BY <1>1, <1>3
  <1> QED
    BY <1>1, <1>3, <1>4, <1>5, <1>6, NotOpen

LEMMA OpenManifestKeeps ==
  ASSUME DBInv, OpenManifest PROVE DBInv'
  <1> DEFINE edit == Edit(db, db.files, {}, db.logno)
             m == [synced |-> 1, edits |-> <<edit>>]
  <1>1. /\ db.phase = "save" /\ UNCHANGED <<writers, wr, bg>>
        /\ disk' = [disk EXCEPT !.mans = With(@, db.man, m)]
        /\ db' = [db EXCEPT !.phase = "current"]
    BY DEF OpenManifest
  <1>2. DOMAIN db = DOMAIN Closed
    BY DEF DBInv, FieldsInv
  <1>3. /\ DOMAIN db' = DOMAIN Closed /\ db'.phase = "current" /\ db'.sched = db.sched
        /\ db'.shut = db.shut /\ db'.err = db.err /\ db'.files = db.files
    BY <1>1, <1>2, DatabaseFields
  <1>4. Manifest(m)
    <2>1. IsFiniteSet(edit.add)
      BY DEF Edit, DBInv, VersionsInv
    <2>2. 0 \in 0 .. 1 /\ 1 \in 0 .. 1
      OBVIOUS
    <2> HIDE DEF edit
    <2> QED
      BY <2>1, <2>2, SnapshotManifest
  <1> HIDE DEF m
  <1>5. DiskInv(disk) /\ DOMAIN disk' = DOMAIN disk /\ disk'.mans = With(disk.mans, db.man, m)
    BY <1>1 DEF DBInv, VersionsInv, DiskInv
  <1>6. DiskInv(disk')
    BY <1>4, <1>5, NewManifest
  <1>7. /\ db'.sched \in BOOLEAN /\ db'.shut \in BOOLEAN /\ db'.err \in BOOLEAN
        /\ IsFiniteSet(db'.files)
    BY <1>3 DEF DBInv, FieldsInv, VersionsInv
  <1>8. db.phase # "open" /\ db'.phase # "open"
    BY <1>1, <1>3
  <1> QED
    BY <1>1, <1>3, <1>6, <1>7, <1>8, NotOpen

LEMMA OpenCurrentKeeps ==
  ASSUME DBInv, OpenCurrent PROVE DBInv'
  <1>1. /\ db.phase = "current" /\ UNCHANGED <<writers, wr, bg>>
        /\ disk' = [disk EXCEPT !.cur = db.man]
        /\ db' = [db EXCEPT !.phase = "clean", !.vlog = db.logno]
    BY DEF OpenCurrent
  <1>2. DOMAIN db = DOMAIN Closed
    BY DEF DBInv, FieldsInv
  <1>3. /\ DOMAIN db' = DOMAIN Closed /\ db'.phase = "clean" /\ db'.sched = db.sched
        /\ db'.shut = db.shut /\ db'.err = db.err /\ db'.files = db.files
    BY <1>1, <1>2, DatabaseFields
  <1>4. DiskInv(disk')
    <2>1. DiskInv(disk) /\ DOMAIN disk' = DOMAIN disk /\ disk'.mans = disk.mans
      BY <1>1 DEF DBInv, VersionsInv, DiskInv
    <2> QED
      BY <2>1, SameManifests
  <1>5. /\ db'.sched \in BOOLEAN /\ db'.shut \in BOOLEAN /\ db'.err \in BOOLEAN
        /\ IsFiniteSet(db'.files)
    BY <1>3 DEF DBInv, FieldsInv, VersionsInv
  <1>6. db.phase # "open" /\ db'.phase # "open"
    BY <1>1, <1>3
  <1> QED
    BY <1>1, <1>3, <1>4, <1>5, <1>6, NotOpen

\* The database is open, and what its files ask for has been scheduled.
LEMMA OpenCleanKeeps ==
  ASSUME DBInv, OpenClean PROVE DBInv'
  <1> DEFINE d == [db EXCEPT !.phase = "open"]
  <1>1. /\ db.phase = "clean" /\ UNCHANGED <<writers, wr, bg>>
        /\ DeleteObsoleteFiles(db, {}) /\ db' = MaybeSchedule(d)
    BY DEF OpenClean
  <1>2. /\ DOMAIN d = DOMAIN Closed /\ d.phase = "open" /\ d.sched = db.sched
        /\ d.shut = db.shut /\ d.err = db.err /\ d.files = db.files
    <2>1. DOMAIN db = DOMAIN Closed
      BY DEF DBInv, FieldsInv
    <2> QED
      BY <2>1, DatabaseFields
  <1> HIDE DEF d
  <1>3. d.sched \in BOOLEAN /\ d.shut \in BOOLEAN /\ d.err \in BOOLEAN
    BY <1>2 DEF DBInv, FieldsInv
  <1>4. /\ DOMAIN db' = DOMAIN Closed /\ db'.files = d.files
        /\ db'.shut = d.shut /\ db'.err = d.err
        /\ db'.sched \in BOOLEAN
        /\ HasWork(db') => db'.sched
    BY <1>1, <1>2, <1>3, ScheduleWhenNeeded
  <1>5. writers = <<>> /\ bg.pc = "idle" /\ \A w \in Writers : wr[w].pc = "idle"
    BY <1>1, NobodyWaitsWhenEmpty DEF DBInv, CallsInv
  <1>6. FieldsInv'
    BY <1>1, <1>2, <1>4 DEF DBInv, FieldsInv
  <1>7. VersionsInv'
    <2>1. DiskInv(disk')
      BY <1>1, CleanDirectory DEF DBInv, VersionsInv
    <2> QED
      BY <1>1, <1>2, <1>4, <1>5, <2>1 DEF DBInv, VersionsInv
  <1>8. WritersInv'
    BY <1>1 DEF DBInv, WritersInv
  <1>9. CallsInv'
    <2>1. (HasWork(db) => db.sched)'
      BY <1>4
    <2> QED
      BY <1>1, <1>5, <2>1 DEF CallsInv
  <1> QED
    BY <1>6, <1>7, <1>8, <1>9 DEF DBInv

-----------------------------------------------------------------------------
LEMMA InitKeeps == Init => DBInv
  <1> SUFFICES ASSUME Init PROVE DBInv
    OBVIOUS
  <1>1. /\ disk = [logs |-> <<>>, tabs |-> <<>>, mans |-> <<>>, cur |-> 0]
        /\ db = Closed /\ writers = <<>> /\ bg = NoWork
        /\ wr = [w \in Writers |-> Idle]
        /\ db.phase = "closed" /\ db.files = {} /\ bg.pc = "idle" /\ bg.ret = "end"
        /\ db.sched = FALSE /\ db.shut = FALSE /\ db.err = FALSE
        /\ \A w \in Writers : wr[w] = Idle /\ wr[w].pc = "idle"
    BY DEF Init, Closed, NoWork, Idle
  <1>2. FieldsInv
    BY <1>1 DEF FieldsInv
  <1>3. VersionsInv
    <2>1. DOMAIN disk = {"logs", "tabs", "mans", "cur"} /\ DOMAIN disk.mans = {}
      BY <1>1
    <2> QED
      BY <1>1, <2>1, FS_EmptySet DEF VersionsInv, DiskInv
  <1>4. WritersInv
    <2>1. writers \in Seq(Writers) /\ Len(writers) = 0
      BY <1>1, EmptySeq
    <2> QED
      BY <1>1, <2>1 DEF WritersInv
  <1>5. CallsInv
    BY <1>1 DEF CallsInv, HasWork
  <1> QED
    BY <1>2, <1>3, <1>4, <1>5 DEF DBInv

LEMMA NextKeeps == DBInv /\ [Next]_vars => DBInv'
  <1> SUFFICES ASSUME DBInv, [Next]_vars PROVE DBInv'
    OBVIOUS
  <1>1. CASE \E w \in Writers : Step(w) \/ Write(w, FALSE, TRUE) \/ \E sync \in BOOLEAN : Write(w, sync, FALSE)
    BY <1>1, StepKeeps, WriteKeeps
  <1>2. CASE Background
    BY <1>2, BackgroundKeeps
  <1>3. CASE ReadBegin \/ ReadEnd \/ UNCHANGED vars
    BY <1>3, ReaderKeeps
  <1>4. CASE CloseBegin
    BY <1>4, CloseBeginKeeps
  <1>5. CASE CloseEnd \/ Crash \/ PowerLoss \/ OpenFails
    BY <1>5, EndKeeps
  <1>6. CASE Open
    BY <1>6, NewDBKeeps, RecoverKeeps, ReaderKeeps, RecoverLogFileKeeps, OpenLogKeeps,
       OpenManifestKeeps, OpenCurrentKeeps, OpenCleanKeeps DEF Open
  <1> QED
    BY <1>1, <1>2, <1>3, <1>4, <1>5, <1>6 DEF Next

LEMMA InvForgetsNobody == DBInv => NobodyForgotten
  <1> SUFFICES ASSUME DBInv, writers # <<>>
               PROVE  /\ wr[Head(writers)].pc # "queued"
                      /\ wr[Head(writers)].pc = "bgwait" => db.sched
                      /\ \A w \in Writers : wr[w].pc # "idle" <=> w \in ToSet(writers)
    BY DEF NobodyForgotten
  <1>1. writers \in Seq(Writers)
    BY DEF DBInv, WritersInv
  <1>2. /\ Len(writers) \in Nat \ {0} /\ DOMAIN writers = 1 .. Len(writers)
        /\ Head(writers) = writers[1]
    BY <1>1, EmptySeq, LenProperties
  <1>3. 1 \in 1 .. Len(writers) /\ writers[1] \in Writers
    BY <1>1, <1>2, ElementOfSeq
  <1>4. wr[writers[1]].pc # "queued"
    BY <1>3 DEF DBInv, WritersInv
  <1>5. wr[writers[1]].pc = "bgwait" => db.sched
    BY <1>3 DEF DBInv, CallsInv
  <1>6. \A w \in Writers : wr[w].pc # "idle" <=> w \in ToSet(writers)
    BY <1>2 DEF DBInv, WritersInv, ToSet
  <1> QED
    BY <1>2, <1>4, <1>5, <1>6

\* Nobody in Write waits for nobody, for any number of writers, limits and
\* group sizes, whatever fails, crashes or is reopened: the head of the queue
\* has been woken, and when it waits in MakeRoomForWrite a background call is
\* pending, which ends with SignalAll.
THEOREM WritersAreWoken == Spec => []NobodyForgotten
  <1>1. Init => DBInv
    BY InitKeeps
  <1>2. DBInv /\ [Next]_vars => DBInv'
    BY NextKeeps
  <1>3. DBInv => NobodyForgotten
    BY InvForgetsNobody
  <1> QED
    BY <1>1, <1>2, <1>3, PTL DEF Spec

-----------------------------------------------------------------------------
(* What reads rest on *)

\* The numbers of these files have all been given.
Below(files, n) == \A f \in files : f[1] \in Nat /\ f[1] < n

\* An edit knows a next number above those of all files added so far.
Numbered(edits) ==
  \A i \in 1 .. Len(edits) :
    /\ edits[i].next \in Nat /\ edits[i].last \in Nat
    /\ \A j \in i .. Len(edits) : Below(edits[i].add, edits[j].next)

Entries(es) == IsFiniteSet(es) /\ \A e \in es : Seqno(e) \in Nat

LogFile(log) ==
  /\ DOMAIN log = {"recs", "synced", "torn"}
  /\ \E S : log.recs \in Seq(S)
  /\ log.synced \in 0 .. Len(log.recs)
  /\ \A i \in 1 .. Len(log.recs) : Entries(log.recs[i].es)

\* What outlives the process.
DirectoryInv(dk) ==
  /\ \A l \in DOMAIN dk.logs : l \in Nat /\ LogFile(dk.logs[l])
  /\ \A m \in DOMAIN dk.mans : Numbered(dk.mans[m].edits)

\* A new number is new, also to the manifest and to the directory.
NumbersInv ==
  /\ db.next \in Nat /\ db.next > 0 /\ db.last \in Nat /\ db.max \in Nat
  /\ Below(db.files, db.next) /\ Below(rd.files, db.next)
  /\ db.phase = "replay" => db.todo \subseteq DOMAIN disk.logs
  /\ db.phase \in {"current", "clean", "open"} /\ db.man \in DOMAIN disk.mans =>
       \A i \in 1 .. Len(disk.mans[db.man].edits) : Below(disk.mans[db.man].edits[i].add, db.next)
  /\ db.phase = "open" => \A n \in DOMAIN disk.tabs : n \in Nat /\ n < db.next
  /\ db.phase # "open" => db.pend = {} /\ ~db.err /\ rd = NoReader /\ db.imm = 0

MemtablesInv ==
  db.phase \in {"save", "current", "clean", "open"} =>
    /\ DOMAIN memtab \subseteq 1 .. db.next - 1
    /\ db.mem \in DOMAIN memtab /\ db.imm \in DOMAIN memtab \cup {0} /\ db.mem # db.imm

\* What the tables of some files hold, and what a reader can find.
TabsIn(tabs, files) == UNION {tabs[n] : n \in Numbers(files) \cap DOMAIN tabs}
ContentOf(tabs, files, mt, ms) == TabsIn(tabs, files) \cup UNION {mt[m] : m \in DOMAIN mt \cap ms}
Seen == ContentOf(disk.tabs, db.files, memtab, {db.mem, db.imm})
Pinned == TabsIn(disk.tabs, rd.files) \cup UNION {memtab[m] : m \in rd.mems}

\* The background thread is in a compaction; it has an output file; it is
\* writing out the immutable memtable.
Compacting == bg.pc \in {"work", "output"} \/ (bg.pc \in {"apply", "install"} /\ bg.ret # "end")
HasOutput == bg.pc = "output" \/ (bg.pc \in {"apply", "install"} /\ bg.ret \in {"output", "cleanup"})
Flushing == bg.pc \in {"apply", "install"} /\ bg.ret # "cleanup"

\* The new tables hold what they replace, and nobody knows them yet.
JobInv ==
  /\ bg.pc = "apply" => bg.ret # "cleanup"
  /\ Compacting => bg.ins \subseteq db.files
  /\ HasOutput => /\ bg.out \in Nat /\ bg.out < db.next
                  /\ bg.out \notin Numbers(db.files) /\ bg.out \notin Numbers(rd.files)
  /\ Flushing =>
       /\ bg.n \in Nat /\ bg.n < db.next /\ (HasOutput => bg.n # bg.out) /\ db.imm # 0
       /\ bg.pc = "apply" /\ bg.ok => TabsIn(disk.tabs, {<<bg.n, 0>>}) = memtab[db.imm]
       /\ bg.pc = "install" => bg.edit.del = {} /\ \A f \in bg.edit.add : f[1] = bg.n
       /\ bg.pc = "install" /\ bg.ok => TabsIn(disk.tabs, bg.edit.add) = memtab[db.imm]
  /\ bg.pc = "install" /\ bg.ret = "cleanup" =>
       /\ bg.edit.add = {<<bg.out, 1>>} /\ bg.edit.del = Numbers(bg.ins)
       /\ bg.out \in DOMAIN disk.tabs /\ disk.tabs[bg.out] = TabsIn(disk.tabs, bg.ins)

\* The group that the head inserts lies above every snapshot.
GroupsInv ==
  \A w \in Writers : wr[w].pc \in {"insert", "publish"} =>
    Entries(wr[w].group) /\ (wr[w].pc = "insert" => \A e \in wr[w].group : Seqno(e) > db.last)

ReaderInv ==
  /\ ~rd.on => rd = NoReader
  /\ rd.on => /\ rd.snap \in Nat /\ rd.snap <= db.last /\ rd.mems \subseteq DOMAIN memtab
              /\ \A e : Seqno(e) <= rd.snap => (e \in Seen <=> e \in Pinned)

ReadsInv == DirectoryInv(disk) /\ NumbersInv /\ MemtablesInv /\ JobInv /\ GroupsInv /\ ReaderInv

-----------------------------------------------------------------------------
(* Numbers *)

LEMMA MaxOfTwo ==
  ASSUME NEW a \in Nat, NEW b \in Nat
  PROVE  Max({a, b}) \in Nat /\ Max({a, b}) >= a /\ Max({a, b}) >= b
  <1>1. \E x \in {a, b} : \A y \in {a, b} : x >= y
    <2>1. CASE a >= b
      BY <2>1
    <2>2. CASE ~(a >= b)
      BY <2>2
    <2> QED
      BY <2>1, <2>2
  <1>2. Max({a, b}) \in {a, b} /\ \A y \in {a, b} : Max({a, b}) >= y
    BY <1>1 DEF Max
  <1> QED
    BY <1>2

\* A finite set of numbers has a largest one: otherwise take a smallest set
\* that has none and one number out of it.
LEMMA FiniteMax ==
  ASSUME NEW S \in SUBSET Nat, IsFiniteSet(S), S # {}
  PROVE  Max(S) \in Nat /\ \A y \in S : Max(S) >= y
  <1> DEFINE HasMax(T) == \E x \in T : \A y \in T : x >= y
             Bad(T) == T \in SUBSET Nat /\ IsFiniteSet(T) /\ T # {} /\ ~HasMax(T)
             B == {n \in Nat : \E T : Bad(T) /\ Cardinality(T) = n}
             R == OpToRel(<, Nat)
  <1>1. B = {}
    <2> SUFFICES ASSUME B # {} PROVE FALSE
      OBVIOUS
    <2>1. B \subseteq Nat /\ IsWellFoundedOn(R, Nat)
      BY NatLessThanWellFounded
    <2>2. PICK n \in B : \A m \in B : ~(<<m, n>> \in R)
      <3> HIDE DEF B, R
      <3> QED
        BY <2>1, WFMin
    <2>3. n \in Nat /\ \A m \in B : ~(m < n)
      BY <2>2 DEF OpToRel
    <2>4. PICK T : Bad(T) /\ Cardinality(T) = n
      BY <2>2
    <2>5. PICK x \in T : x \in Nat
      BY <2>4
    <2>6. IsFiniteSet(T \ {x}) /\ Cardinality(T \ {x}) = n - 1
      BY <2>4, <2>5, FS_RemoveElement
    <2>7. n - 1 \in Nat
      BY <2>6, FS_CardinalityType
    <2>8. ~Bad(T \ {x})
      <3>1. n - 1 < n
        BY <2>3
      <3>2. n - 1 \notin B
        BY <2>3, <3>1
      <3> QED
        BY <2>6, <2>7, <3>2
    <2>9. CASE T \ {x} = {}
      <3>1. \A y \in T : y = x
        BY <2>9
      <3>2. HasMax(T)
        BY <2>5, <3>1
      <3> QED
        BY <2>4, <3>2
    <2>10. CASE T \ {x} # {}
      <3>1. HasMax(T \ {x})
        BY <2>4, <2>6, <2>8, <2>10
      <3>2. PICK y \in T \ {x} : \A z \in T \ {x} : y >= z
        BY <3>1
      <3>3. y \in Nat /\ x \in Nat
        BY <2>4, <2>5, <3>2
      <3>4. HasMax(T)
        <4>1. CASE y >= x
          BY <3>2, <4>1
        <4>2. CASE ~(y >= x)
          <5>1. \A z \in T : z \in Nat
            BY <2>4
          <5>2. \A z \in T : x >= z
            BY <3>2, <3>3, <4>2, <5>1
          <5> QED
            BY <2>5, <5>2
        <4> QED
          BY <4>1, <4>2
      <3> QED
        BY <2>4, <3>4
    <2> QED
      BY <2>9, <2>10
  <1>2. Cardinality(S) \in Nat
    BY FS_CardinalityType
  <1>3. HasMax(S)
    BY <1>1, <1>2
  <1>4. Max(S) \in S /\ \A y \in S : Max(S) >= y
    BY <1>3 DEF Max
  <1> QED
    BY <1>4

-----------------------------------------------------------------------------
(* Tables *)

LEMMA SameTabs ==
  ASSUME NEW t, NEW u, NEW F,
         \A n \in Numbers(F) : (n \in DOMAIN u <=> n \in DOMAIN t) /\ (n \in DOMAIN t => u[n] = t[n])
  PROVE  TabsIn(u, F) = TabsIn(t, F)
  BY DEF TabsIn

LEMMA TabsOfBoth ==
  ASSUME NEW t, NEW F, NEW G PROVE TabsIn(t, F \cup G) = TabsIn(t, F) \cup TabsIn(t, G)
  BY DEF TabsIn, Numbers

\* A table under a new number changes no other.
LEMMA OneMoreTab ==
  ASSUME NEW t, NEW n, NEW v, NEW F, n \notin Numbers(F)
  PROVE  TabsIn(With(t, n, v), F) = TabsIn(t, F)
  BY DEF TabsIn, With

LEMMA BelowIsNew ==
  ASSUME NEW F, NEW n \in Nat, Below(F, n) PROVE \A m \in Nat : m >= n => m \notin Numbers(F)
  BY DEF Below, Numbers

LEMMA BelowMore ==
  ASSUME NEW F, NEW n \in Nat, NEW m \in Nat, Below(F, n), n <= m PROVE Below(F, m)
  BY DEF Below

-----------------------------------------------------------------------------
(* The directory *)

LEMMA SameDirectory ==
  ASSUME NEW dk, DirectoryInv(dk), NEW e, e.logs = dk.logs, e.mans = dk.mans PROVE DirectoryInv(e)
  BY DEF DirectoryInv

LEMMA FewerFiles ==
  ASSUME NEW dk, DirectoryInv(dk), NEW e, NEW S, NEW T,
         e.logs = Without(dk.logs, S), e.mans = Without(dk.mans, T)
  PROVE  DirectoryInv(e)
  BY DEF DirectoryInv, Without, Restrict

\* A new log is empty.
LEMMA NewLog ==
  ASSUME NEW dk, DirectoryInv(dk), NEW e, NEW n \in Nat, e.mans = dk.mans,
         e.logs = With(dk.logs, n, [recs |-> <<>>, synced |-> 0, torn |-> FALSE])
  PROVE  DirectoryInv(e)
  <1> DEFINE log == [recs |-> <<>>, synced |-> 0, torn |-> FALSE]
  <1>1. LogFile(log)
    <2>1. /\ log.recs \in Seq({}) /\ Len(log.recs) = 0 /\ DOMAIN log = {"recs", "synced", "torn"}
          /\ log.synced = 0
      BY EmptySeq
    <2> HIDE DEF log
    <2>2. \A i \in 1 .. Len(log.recs) : Entries(log.recs[i].es)
      BY <2>1
    <2> QED
      BY <2>1, <2>2 DEF LogFile
  <1> HIDE DEF log
  <1>2. \A l \in DOMAIN e.logs : e.logs[l] = IF l = n THEN log ELSE dk.logs[l]
    BY DEF With, log
  <1>3. \A l \in DOMAIN e.logs : l = n \/ l \in DOMAIN dk.logs
    BY DEF With
  <1> QED
    BY <1>1, <1>2, <1>3 DEF DirectoryInv

LEMMA NewNumberedManifest ==
  ASSUME NEW dk, DirectoryInv(dk), NEW e, NEW n, NEW m, Numbered(m.edits), e.logs = dk.logs,
         e.mans = With(dk.mans, n, m)
  PROVE  DirectoryInv(e)
  BY DEF DirectoryInv, With

LEMMA OneEdit ==
  ASSUME NEW edit, edit.next \in Nat, edit.last \in Nat, Below(edit.add, edit.next)
  PROVE  Numbered(<<edit>>)
  <1> DEFINE edits == <<edit>>
  <1>1. Len(edits) = 1 /\ edits[1] = edit
    OBVIOUS
  <1> HIDE DEF edits
  <1>2. \A i \in 1 .. Len(edits) : \A j \in i .. Len(edits) : i = 1 /\ j = 1
    BY <1>1
  <1>3. \A i \in 1 .. Len(edits) : i = 1
    BY <1>1
  <1>4. Numbered(edits)
    BY <1>1, <1>2, <1>3 DEF Numbered
  <1> QED
    BY <1>4 DEF edits

LEMMA OneMoreEdit ==
  ASSUME NEW edits, FiniteEdits(edits), Numbered(edits), NEW edit, edit.next \in Nat, edit.last \in Nat,
         Below(edit.add, edit.next), \A i \in 1 .. Len(edits) : Below(edits[i].add, edit.next)
  PROVE  /\ Numbered(Append(edits, edit))
         /\ \A i \in 1 .. Len(Append(edits, edit)) : Below(Append(edits, edit)[i].add, edit.next)
  <1> DEFINE n == Len(edits)
             more == Append(edits, edit)
  <1>1. PICK S : edits \in Seq(S)
    BY DEF FiniteEdits
  <1>2. \A i \in 1 .. n : edits[i] \in S \cup {edit}
    BY <1>1, ElementOfSeq, LenProperties
  <1>3. edits \in Seq(S \cup {edit}) /\ n \in Nat
    BY <1>1, LenProperties
  <1>4. Len(more) = n + 1 /\ more[n + 1] = edit /\ \A i \in 1 .. n : more[i] = edits[i]
    BY <1>3, AppendProperties
  <1> HIDE DEF n, more
  <1>5. \A i \in 1 .. n + 1 : i \in 1 .. n \/ i = n + 1
    BY <1>3
  <1>6. \A i \in 1 .. n + 1 : Below(more[i].add, edit.next)
    BY <1>4, <1>5 DEF n
  <1>7. Numbered(more)
    <2> SUFFICES ASSUME NEW i \in 1 .. n + 1
                 PROVE  /\ more[i].next \in Nat /\ more[i].last \in Nat
                        /\ \A j \in i .. n + 1 : Below(more[i].add, more[j].next)
      BY <1>4 DEF Numbered
    <2>1. more[i].next \in Nat /\ more[i].last \in Nat
      BY <1>4, <1>5 DEF Numbered, n
    <2>2. ASSUME NEW j \in i .. n + 1 PROVE Below(more[i].add, more[j].next)
      <3>1. CASE j = n + 1
        BY <1>4, <1>6, <3>1
      <3>2. CASE j # n + 1
        <4>1. i \in 1 .. n /\ j \in i .. n /\ j \in 1 .. n
          BY <1>3, <3>2
        <4> QED
          BY <1>4, <4>1 DEF Numbered, n
      <3> QED
        BY <3>1, <3>2
    <2> QED
      BY <2>1, <2>2
  <1> QED
    BY <1>4, <1>6, <1>7 DEF more

\* A prefix of a manifest is one.
LEMMA FrontNumbered ==
  ASSUME NEW edits, FiniteEdits(edits), Numbered(edits), NEW k \in 0 .. Len(edits)
  PROVE  Numbered(SubSeq(edits, 1, k))
  <1>1. PICK S : edits \in Seq(S)
    BY DEF FiniteEdits
  <1>2. Len(edits) \in Nat /\ k \in Nat /\ \A i \in 1 .. k : edits[i] \in S
    BY <1>1, LenProperties, ElementOfSeq
  <1> DEFINE front == SubSeq(edits, 1, k)
  <1>3. Len(front) = IF 1 <= k THEN k - 1 + 1 ELSE 0
    BY <1>2, SubSeqProperties
  <1>4. \A i \in 1 .. k - 1 + 1 : front[i] = edits[1 + i - 1]
    BY <1>2, SubSeqProperties
  <1> HIDE DEF front
  <1>5. Len(front) = k /\ \A i \in 1 .. k : front[i] = edits[i]
    BY <1>2, <1>3, <1>4
  <1>6. \A i \in 1 .. k : \A j \in i .. k : i \in 1 .. Len(edits) /\ j \in i .. Len(edits) /\ j \in 1 .. k
    BY <1>2
  <1>7. \A i \in 1 .. k : i \in 1 .. Len(edits)
    BY <1>2
  <1>8. Numbered(front)
    BY <1>5, <1>6, <1>7 DEF Numbered
  <1> QED
    BY <1>8 DEF front

\* One more record, and another end of the synced part.
LEMMA OneMoreRecord ==
  ASSUME NEW log, LogFile(log), NEW es, Entries(es), NEW b, NEW k \in 0 .. Len(log.recs) + 1, NEW c
  PROVE  LogFile([recs |-> Append(log.recs, [es |-> es, safe |-> b]), synced |-> k, torn |-> c])
  <1> DEFINE n == Len(log.recs)
             r == [es |-> es, safe |-> b]
             more == Append(log.recs, r)
  <1>1. PICK S : log.recs \in Seq(S)
    BY DEF LogFile
  <1>2. \A i \in 1 .. n : log.recs[i] \in S \cup {r}
    BY <1>1, ElementOfSeq, LenProperties
  <1>3. log.recs \in Seq(S \cup {r}) /\ n \in Nat
    BY <1>1, LenProperties
  <1>4. /\ more \in Seq(S \cup {r})
        /\ Len(more) = n + 1 /\ more[n + 1] = r /\ \A i \in 1 .. n : more[i] = log.recs[i]
    BY <1>3, AppendProperties
  <1>5. r.es = es
    OBVIOUS
  <1> HIDE DEF n, more, r
  <1>6. \A i \in 1 .. n + 1 : i \in 1 .. n \/ i = n + 1
    BY <1>3
  <1>7. \A i \in 1 .. n + 1 : Entries(more[i].es)
    BY <1>4, <1>5, <1>6 DEF LogFile, n
  <1> DEFINE new == [recs |-> more, synced |-> k, torn |-> c]
  <1>8. DOMAIN new = {"recs", "synced", "torn"} /\ new.recs = more /\ new.synced = k
    OBVIOUS
  <1> HIDE DEF new
  <1>9. LogFile(new)
    BY <1>4, <1>7, <1>8 DEF LogFile, n
  <1> QED
    BY <1>9 DEF new, more, r

LEMMA FrontOfLog ==
  ASSUME NEW log, LogFile(log) PROVE LogFile(Cut(log))
  <1> DEFINE k == log.synced
             front == SubSeq(log.recs, 1, k)
  <1>1. PICK S : log.recs \in Seq(S)
    BY DEF LogFile
  <1>2. Len(log.recs) \in Nat /\ k \in Nat /\ k <= Len(log.recs)
        /\ \A i \in 1 .. k : log.recs[i] \in S
    <2>1. k \in 0 .. Len(log.recs)
      BY DEF LogFile
    <2> QED
      BY <1>1, <2>1, LenProperties, ElementOfSeq
  <1>3. front \in Seq(S) /\ Len(front) = IF 1 <= k THEN k - 1 + 1 ELSE 0
    BY <1>2, SubSeqProperties
  <1>4. \A i \in 1 .. k - 1 + 1 : front[i] = log.recs[1 + i - 1]
    BY <1>2, SubSeqProperties
  <1>5. Cut(log) = [log EXCEPT !.recs = front]
    BY DEF Cut
  <1>6. DOMAIN Cut(log) = {"recs", "synced", "torn"} /\ Cut(log).recs = front /\ Cut(log).synced = k
    BY <1>5 DEF LogFile
  <1> HIDE DEF front
  <1>7. Len(front) = k /\ \A i \in 1 .. k : front[i] = log.recs[i] /\ i \in 1 .. Len(log.recs)
    BY <1>2, <1>3, <1>4
  <1>8. \A i \in 1 .. k : Entries(front[i].es)
    BY <1>7 DEF LogFile
  <1>9. k \in 0 .. Len(front)
    BY <1>2, <1>7
  <1> HIDE DEF k
  <1> QED
    BY <1>3, <1>6, <1>7, <1>8, <1>9 DEF LogFile

\* The entries of some records together, as Recover reads them.
LEMMA EntriesOfLog ==
  ASSUME NEW log, LogFile(log), NEW R \in SUBSET ToSet(log.recs)
  PROVE  Entries(UNION {r.es : r \in R})
  <1>1. PICK S : log.recs \in Seq(S)
    BY DEF LogFile
  <1>2. DOMAIN log.recs = 1 .. Len(log.recs) /\ Len(log.recs) \in Nat
    BY <1>1, LenProperties
  <1> DEFINE all == ToSet(log.recs)
             parts == {r.es : r \in R}
             f == [i \in 1 .. Len(log.recs) |-> log.recs[i]]
             g == [r \in R |-> r.es]
  <1>3. all = {log.recs[i] : i \in 1 .. Len(log.recs)}
    BY <1>2 DEF ToSet
  <1>4. f \in Surjection(1 .. Len(log.recs), all)
    BY <1>3 DEF Surjection
  <1>5. IsFiniteSet(1 .. Len(log.recs))
    BY <1>2, FS_Interval
  <1>6. IsFiniteSet(all)
    BY <1>4, <1>5, FS_Surjection
  <1>7. IsFiniteSet(R)
    BY <1>6, FS_Subset
  <1>8. g \in Surjection(R, parts)
    BY DEF Surjection
  <1>9. IsFiniteSet(parts)
    BY <1>7, <1>8, FS_Surjection
  <1>10. \A r \in R : Entries(r.es)
    BY <1>3 DEF LogFile
  <1>11. \A T \in parts : IsFiniteSet(T)
    BY <1>10 DEF Entries
  <1>12. IsFiniteSet(UNION parts)
    BY <1>9, <1>11, FS_UNION
  <1>13. \A e \in UNION parts : Seqno(e) \in Nat
    BY <1>10 DEF Entries
  <1> QED
    BY <1>12, <1>13 DEF Entries

\* The largest sequence number, and one more number.
LEMMA MaxSeqno ==
  ASSUME NEW es, Entries(es), NEW n \in Nat
  PROVE  LET m == Max({n} \cup {Seqno(e) : e \in es})
         IN  m \in Nat /\ m >= n /\ \A e \in es : m >= Seqno(e)
  <1> DEFINE nos == {Seqno(e) : e \in es}
             g == [e \in es |-> Seqno(e)]
             S == {n} \cup nos
  <1>1. g \in Surjection(es, nos)
    BY DEF Surjection
  <1>2. IsFiniteSet(nos)
    BY <1>1, FS_Surjection DEF Entries
  <1>3. IsFiniteSet(nos \cup {n})
    BY <1>2, FS_AddElement
  <1>4. S = nos \cup {n}
    OBVIOUS
  <1>5. S \in SUBSET Nat /\ IsFiniteSet(S) /\ S # {}
    BY <1>3, <1>4 DEF Entries
  <1>6. n \in S /\ \A e \in es : Seqno(e) \in S
    OBVIOUS
  <1> HIDE DEF S
  <1>7. Max(S) \in Nat /\ \A y \in S : Max(S) >= y
    BY <1>5, FiniteMax
  <1>8. Max(S) >= n /\ \A e \in es : Max(S) >= Seqno(e)
    BY <1>6, <1>7
  <1> QED
    BY <1>7, <1>8 DEF S

-----------------------------------------------------------------------------
(* Steps that move little *)

SameView(d, e) ==
  /\ d.phase = e.phase /\ d.mem = e.mem /\ d.imm = e.imm /\ d.files = e.files /\ d.next = e.next
  /\ d.last = e.last /\ d.man = e.man /\ d.max = e.max /\ d.todo = e.todo

LEMMA OnlySchedules ==
  ASSUME NEW d, DOMAIN d = DOMAIN Closed
  PROVE  LET e == MaybeSchedule(d)
         IN DOMAIN e = DOMAIN Closed /\ SameView(e, d) /\ e.pend = d.pend /\ e.err = d.err
  BY DatabaseFields DEF MaybeSchedule, SameView

LEMMA CallEnds ==
  ASSUME NEW d, DOMAIN d = DOMAIN Closed, NEW w, EndCall(d, w)
  PROVE  SameView(db', d) /\ db'.pend = d.pend /\ db'.err = d.err /\ bg' = NoWork
  <1> DEFINE c == [d EXCEPT !.sched = FALSE]
  <1>1. DOMAIN c = DOMAIN Closed /\ SameView(c, d) /\ c.pend = d.pend /\ c.err = d.err
    BY DatabaseFields DEF SameView
  <1> HIDE DEF c
  <1>2. SameView(MaybeSchedule(c), c) /\ MaybeSchedule(c).pend = c.pend /\ MaybeSchedule(c).err = c.err
    BY <1>1, OnlySchedules
  <1>3. db' = MaybeSchedule(c) /\ bg' = NoWork
    BY DEF EndCall, c
  <1> QED
    BY <1>1, <1>2, <1>3 DEF SameView

\* Whatever is new lies above the snapshot.
LEMMA SnapshotFrame ==
  ASSUME ReaderInv, rd' = rd, db.last \in Nat, db'.last \in Nat, db.last <= db'.last,
         rd.on => rd.mems \subseteq DOMAIN memtab',
         \A e : rd.on /\ Seqno(e) <= rd.snap =>
                  (e \in Seen' <=> e \in Seen) /\ (e \in Pinned' <=> e \in Pinned)
  PROVE  ReaderInv'
  BY DEF ReaderInv

LEMMA SameGroups ==
  ASSUME GroupsInv, db'.last = db.last,
         \A t \in Writers : wr'[t].pc \in {"insert", "publish"} =>
                              wr'[t].pc = wr[t].pc /\ wr'[t].group = wr[t].group
  PROVE  GroupsInv'
  BY DEF GroupsInv

LEMMA AwakeGroups ==
  ASSUME DBInv, GroupsInv, db'.last = db.last, wr' = WakeAll(wr) PROVE GroupsInv'
  <1>1. ASSUME NEW w \in Writers, wr'[w].pc \in {"insert", "publish"}
        PROVE  wr'[w].pc = wr[w].pc /\ wr'[w].group = wr[w].group
    <2>1. DOMAIN wr[w] = DOMAIN Idle
      BY DEF DBInv, FieldsInv
    <2>2. wr[w].pc = "bgwait" => wr'[w].pc = "room"
      BY <2>1, WriterFields DEF WakeAll
    <2>3. wr[w].pc # "bgwait" => wr'[w] = wr[w]
      BY DEF WakeAll
    <2> QED
      BY <1>1, <2>2, <2>3
  <1> QED
    BY <1>1, SameGroups

\* A step that moves neither files nor memtables nor numbers.
LEMMA Unmoved ==
  ASSUME ReadsInv, UNCHANGED <<disk, memtab, rd>>, SameView(db', db), db.phase = "open",
         JobInv', GroupsInv'
  PROVE  ReadsInv'
  <1>1. DirectoryInv(disk)'
    BY DEF ReadsInv
  <1>2. NumbersInv'
    BY DEF ReadsInv, NumbersInv, SameView
  <1>3. MemtablesInv'
    BY DEF ReadsInv, MemtablesInv, SameView
  <1>4. ReaderInv'
    <2>1. Seen' = Seen /\ Pinned' = Pinned
      BY DEF Seen, Pinned, SameView
    <2>2. ReaderInv /\ db.last \in Nat /\ db'.last = db.last /\ rd' = rd /\ memtab' = memtab
      BY DEF ReadsInv, NumbersInv, SameView
    <2>3. db.last <= db'.last /\ (rd.on => rd.mems \subseteq DOMAIN memtab')
      BY <2>2 DEF ReaderInv
    <2> QED
      BY <2>1, <2>2, <2>3, SnapshotFrame
  <1> QED
    BY <1>1, <1>2, <1>3, <1>4 DEF ReadsInv

LEMMA SameReads ==
  ASSUME ReaderInv, UNCHANGED <<memtab, rd>>, disk'.tabs = disk.tabs, SameView(db', db)
  PROVE  ReaderInv'
  <1>1. Seen' = Seen /\ Pinned' = Pinned
    BY DEF Seen, Pinned, SameView
  <1> QED
    BY <1>1 DEF ReaderInv, SameView

LEMMA SameJob ==
  ASSUME JobInv, UNCHANGED <<disk, memtab, rd, bg>>,
         db'.files = db.files, db'.next = db.next, db'.imm = db.imm
  PROVE  JobInv'
  BY DEF JobInv, Compacting, HasOutput, Flushing

LEMMA NoJob ==
  ASSUME bg' = NoWork PROVE JobInv'
  BY DEF JobInv, Compacting, HasOutput, Flushing, NoWork

-----------------------------------------------------------------------------
(* The steps of the writers *)

\* The group that leaves takes its entries along, and nobody else has any.
LEMMA NoGroups ==
  ASSUME DBInv, NEW k \in 1 .. Len(writers), Pop(k, wr) PROVE GroupsInv'
  <1>1. \A t \in Writers : wr'[t].pc \in {"idle", "room", "queued"}
    BY LeaveQueue DEF DBInv
  <1> QED
    BY <1>1 DEF GroupsInv

LEMMA QuietWriter ==
  ASSUME DBInv, ReadsInv, NEW w \in Writers,
         \/ RoomError(w) \/ RoomDelay(w) \/ RoomWait(w) \/ RoomForNull(w) \/ RoomSwitchFails(w)
         \/ \E sync, null \in BOOLEAN : Write(w, sync, null)
  PROVE  ReadsInv'
  <1>1. UNCHANGED <<disk, db, memtab, bg, rd>> /\ db.phase = "open"
    BY DEF RoomError, RoomDelay, RoomWait, RoomForNull, RoomSwitchFails, Write, Leader
  <1>2. DOMAIN wr = Writers /\ DOMAIN wr[w] = DOMAIN Idle
    BY DEF DBInv, FieldsInv
  <1>3. GroupsInv'
    <2>1. CASE RoomError(w) \/ RoomForNull(w) \/ RoomSwitchFails(w)
      <3>1. wr[w].pc = "room" /\ Pop(1, wr)
        BY <2>1 DEF RoomError, RoomSwitchFails, RoomForNull, Leader
      <3>2. Len(writers) \in Nat /\ Len(writers) >= 1
        BY <3>1, OnlyTheHead DEF DBInv
      <3>3. 1 \in 1 .. Len(writers)
        BY <3>2
      <3> QED
        BY <3>1, <3>3, NoGroups
    <2>2. CASE ~(RoomError(w) \/ RoomForNull(w) \/ RoomSwitchFails(w))
      <3>1. \E r : wr' = [wr EXCEPT ![w] = r] /\ r.pc \notin {"insert", "publish"}
        <4>1. CASE RoomDelay(w)
          <5> DEFINE r == [wr[w] EXCEPT !.delay = FALSE]
          <5>1. wr' = [wr EXCEPT ![w] = r] /\ r.pc = "room"
            BY <4>1, <1>2, WriterFields DEF RoomDelay, Leader
          <5> QED
            BY <5>1
        <4>2. CASE RoomWait(w)
          <5> DEFINE r == [wr[w] EXCEPT !.pc = "bgwait"]
          <5>1. wr' = [wr EXCEPT ![w] = r] /\ r.pc = "bgwait"
            BY <4>2, <1>2, WriterFields DEF RoomWait
          <5> QED
            BY <5>1
        <4>3. ASSUME NEW sync, NEW null, Write(w, sync, null)
              PROVE  \E r : wr' = [wr EXCEPT ![w] = r] /\ r.pc \notin {"insert", "publish"}
          <5> DEFINE r == [Idle EXCEPT !.pc = IF writers = <<>> THEN "room" ELSE "queued",
                                       !.id = used.ops + 1, !.sync = sync, !.null = null,
                                       !.delay = ~null, !.force = null]
          <5>1. wr' = [wr EXCEPT ![w] = r] /\ r.pc \in {"room", "queued"}
            BY <4>3 DEF Write, Idle
          <5> QED
            BY <5>1
        <4> QED
          BY <2>2, <4>1, <4>2, <4>3
      <3>2. PICK r : wr' = [wr EXCEPT ![w] = r] /\ r.pc \notin {"insert", "publish"}
        BY <3>1
      <3>3. \A t \in Writers : wr'[t] = IF t = w THEN r ELSE wr[t]
        BY <1>2, <3>2
      <3> QED
        BY <1>1, <3>2, <3>3, SameGroups DEF ReadsInv
    <2> QED
      BY <2>1, <2>2
  <1>4. JobInv' /\ SameView(db', db)
    BY <1>1, SameJob DEF ReadsInv, SameView
  <1> QED
    BY <1>1, <1>3, <1>4, Unmoved

\* The numbers of a group follow the last one published.
LEMMA GroupEntries ==
  ASSUME NEW last \in Nat, NEW n \in Nat
  PROVE  LET group == {<<last + Cardinality(Batches(i)), wr[writers[i]].id>> : i \in Batches(n)}
         IN  Entries(group) /\ \A e \in group : Seqno(e) > last
  <1> DEFINE entry(i) == <<last + Cardinality(Batches(i)), wr[writers[i]].id>>
             group == {entry(i) : i \in Batches(n)}
             g == [i \in Batches(n) |-> entry(i)]
  <1>1. IsFiniteSet(1 .. n)
    BY FS_Interval
  <1>2. Batches(n) \in SUBSET (1 .. n)
    BY DEF Batches
  <1>3. IsFiniteSet(Batches(n))
    BY <1>1, <1>2, FS_Subset
  <1>4. g \in Surjection(Batches(n), group)
    BY DEF Surjection
  <1>5. IsFiniteSet(group)
    BY <1>3, <1>4, FS_Surjection
  <1>6. ASSUME NEW i \in Batches(n) PROVE Seqno(entry(i)) \in Nat /\ Seqno(entry(i)) > last
    <2>1. i \in 1 .. n /\ i \in Nat
      BY <1>2
    <2>2. Batches(i) \in SUBSET (1 .. i) /\ IsFiniteSet(1 .. i)
      BY <2>1, FS_Interval DEF Batches
    <2>3. i \in Batches(i)
      BY <2>1 DEF Batches
    <2>4. IsFiniteSet(Batches(i))
      BY <2>2, FS_Subset
    <2>5. Cardinality(Batches(i)) \in Nat /\ Cardinality(Batches(i)) # 0
      BY <2>3, <2>4, FS_CardinalityType, FS_EmptySet
    <2>6. Seqno(entry(i)) = last + Cardinality(Batches(i))
      BY DEF Seqno
    <2> QED
      BY <2>5, <2>6
  <1> HIDE DEF entry
  <1> QED
    BY <1>5, <1>6 DEF Entries, entry

LEMMA LogGroupReads ==
  ASSUME DBInv, ReadsInv, NEW w \in Writers, NEW added \in BOOLEAN, NEW ok \in BOOLEAN,
         LogGroup(w, added, ok)
  PROVE  ReadsInv'
  <1> DEFINE n == BuildBatchGroup(w)
             group == {<<db.last + Cardinality(Batches(i)), wr[writers[i]].id>> : i \in Batches(n)}
             log == disk.logs[db.logno]
             new == [recs |-> Append(log.recs, [es |-> group, safe |-> added /\ ~log.torn]),
                     synced |-> IF wr[w].sync /\ ok THEN Len(log.recs) + 1 ELSE log.synced,
                     torn |-> log.torn \/ ~added]
             r == [wr[w] EXCEPT !.pc = "insert", !.last = n, !.group = group, !.ok = ok,
                                !.serr = added /\ ~ok]
  <1>1. /\ wr' = [wr EXCEPT ![w] = r] /\ disk' = [disk EXCEPT !.logs[db.logno] = new]
        /\ UNCHANGED <<db, memtab, bg, rd>> /\ db.phase = "open" /\ wr[w].pc = "room"
    BY DEF LogGroup, Leader
  <1>2. db.last \in Nat
    BY DEF ReadsInv, NumbersInv
  <1>3. n \in Nat
    <2>1. Len(writers) \in Nat /\ Len(writers) >= 1
      BY <1>1, OnlyTheHead DEF DBInv
    <2>2. n \in 1 .. Len(writers)
      BY <2>1, GroupIsInTheQueue
    <2> QED
      BY <2>1, <2>2
  <1> HIDE DEF n
  <1>4. Entries(group) /\ \A e \in group : Seqno(e) > db.last
    BY <1>2, <1>3, GroupEntries
  <1> HIDE DEF group
  <1>5. r.pc = "insert" /\ r.group = group
    <2>1. DOMAIN wr[w] = DOMAIN Idle
      BY DEF DBInv, FieldsInv
    <2> QED
      BY <2>1, WriterFields
  <1> HIDE DEF r
  <1>6. GroupsInv'
    <2>1. DOMAIN wr = Writers
      BY DEF DBInv, FieldsInv
    <2>2. \A t \in Writers : wr'[t] = IF t = w THEN r ELSE wr[t]
      BY <1>1, <2>1
    <2>3. GroupsInv
      BY DEF ReadsInv
    <2>4. ASSUME NEW t \in Writers, wr'[t].pc \in {"insert", "publish"}
          PROVE  Entries(wr'[t].group)
                 /\ (wr'[t].pc = "insert" => \A e \in wr'[t].group : Seqno(e) > db'.last)
      <3>1. CASE t = w
        BY <1>1, <1>4, <1>5, <2>2, <3>1
      <3>2. CASE t # w
        BY <1>1, <2>2, <2>3, <2>4, <3>2 DEF GroupsInv
      <3> QED
        BY <3>1, <3>2
    <2> QED
      BY <2>4 DEF GroupsInv
  <1>7. DirectoryInv(disk')
    <2>1. DirectoryInv(disk) /\ DOMAIN disk = {"logs", "tabs", "mans", "cur"}
      BY DEF ReadsInv, DBInv, VersionsInv, DiskInv
    <2>2. disk'.mans = disk.mans /\ disk'.logs = [disk.logs EXCEPT ![db.logno] = new]
      BY <1>1, <2>1
    <2>3. ASSUME db.logno \in DOMAIN disk.logs PROVE LogFile(new)
      <3>1. LogFile(log)
        BY <2>1, <2>3 DEF DirectoryInv
      <3> DEFINE b == added /\ ~log.torn
                 k == IF wr[w].sync /\ ok THEN Len(log.recs) + 1 ELSE log.synced
                 c == log.torn \/ ~added
      <3>2. k \in 0 .. Len(log.recs) + 1
        <4>1. Len(log.recs) \in Nat /\ log.synced \in 0 .. Len(log.recs)
          BY <3>1, LenProperties DEF LogFile
        <4> HIDE DEF log
        <4> QED
          BY <4>1
      <3>3. new = [recs |-> Append(log.recs, [es |-> group, safe |-> b]), synced |-> k, torn |-> c]
        OBVIOUS
      <3> HIDE DEF b, k, c, new, log
      <3> QED
        BY <1>4, <3>1, <3>2, <3>3, OneMoreRecord
    <2> HIDE DEF new
    <2> QED
      BY <2>1, <2>2, <2>3 DEF DirectoryInv
  <1>8. disk'.tabs = disk.tabs /\ disk'.mans = disk.mans
    BY <1>1 DEF DBInv, VersionsInv, DiskInv
  <1> HIDE DEF new
  <1>9. NumbersInv'
    BY <1>1, <1>8 DEF ReadsInv, NumbersInv
  <1>10. MemtablesInv'
    BY <1>1 DEF ReadsInv, MemtablesInv
  <1>11. JobInv'
    BY <1>1, <1>8 DEF ReadsInv, JobInv, Compacting, HasOutput, Flushing
  <1>12. ReaderInv'
    BY <1>1, <1>8 DEF ReadsInv, ReaderInv, Seen, Pinned
  <1> QED
    BY <1>6, <1>7, <1>9, <1>10, <1>11, <1>12 DEF ReadsInv

LEMMA InsertIntoReads ==
  ASSUME DBInv, ReadsInv, NEW w \in Writers, InsertInto(w) PROVE ReadsInv'
  <1> DEFINE r == [wr[w] EXCEPT !.pc = "publish"]
             S == IF wr[w].ok THEN wr[w].group ELSE {}
  <1>1. /\ wr' = [wr EXCEPT ![w] = r] /\ wr[w].pc = "insert" /\ UNCHANGED <<disk, db, bg, rd>>
        /\ memtab' = IF wr[w].ok THEN [memtab EXCEPT ![db.mem] = @ \cup wr[w].group] ELSE memtab
    BY DEF InsertInto
  <1>2. r.pc = "publish" /\ r.group = wr[w].group
    <2>1. DOMAIN wr[w] = DOMAIN Idle
      BY DEF DBInv, FieldsInv
    <2> QED
      BY <2>1, WriterFields
  <1> HIDE DEF r
  <1>3. db.phase = "open"
    <2>1. writers # <<>>
      BY <1>1, OnlyTheHead DEF DBInv
    <2> QED
      BY <2>1 DEF DBInv, CallsInv
  <1>4. \A e \in S : Seqno(e) \in Nat /\ Seqno(e) > db.last
    BY <1>1 DEF ReadsInv, GroupsInv, Entries
  <1>5. /\ DOMAIN memtab' = DOMAIN memtab
        /\ \A m \in DOMAIN memtab : memtab'[m] = IF m = db.mem THEN memtab[m] \cup S ELSE memtab[m]
    BY <1>1
  <1> HIDE DEF S
  <1>6. GroupsInv'
    <2>1. \A t \in Writers : wr'[t] = IF t = w THEN r ELSE wr[t]
      BY <1>1 DEF DBInv, FieldsInv
    <2>2. Entries(wr[w].group)
      BY <1>1 DEF ReadsInv, GroupsInv
    <2> QED
      BY <1>1, <1>2, <2>1, <2>2 DEF ReadsInv, GroupsInv
  <1>7. DirectoryInv(disk') /\ NumbersInv'
    BY <1>1 DEF ReadsInv, NumbersInv
  <1>8. MemtablesInv'
    BY <1>1, <1>5 DEF ReadsInv, MemtablesInv
  <1>9. JobInv'
    <2>1. Flushing => memtab'[db.imm] = memtab[db.imm]
      BY <1>3, <1>5 DEF ReadsInv, MemtablesInv, JobInv
    <2> QED
      BY <1>1, <2>1 DEF ReadsInv, JobInv, Compacting, HasOutput, Flushing
  <1>10. ReaderInv'
    <2>1. db.last \in Nat /\ db'.last = db.last /\ rd' = rd /\ ReaderInv
      BY <1>1 DEF ReadsInv, NumbersInv
    <2>2. rd.on => rd.mems \subseteq DOMAIN memtab'
      BY <1>5, <2>1 DEF ReaderInv
    <2>3. ASSUME NEW e, rd.on, Seqno(e) <= rd.snap
          PROVE  (e \in Seen' <=> e \in Seen) /\ (e \in Pinned' <=> e \in Pinned)
      <3>1. e \notin S
        BY <1>4, <2>1, <2>3 DEF ReaderInv
      <3>2. \A m \in DOMAIN memtab : e \in memtab'[m] <=> e \in memtab[m]
        BY <1>5, <3>1
      <3>3. e \in Seen' <=> e \in Seen
        BY <1>1, <1>5, <3>2 DEF Seen, ContentOf
      <3>4. rd.mems \subseteq DOMAIN memtab
        BY <2>1, <2>3 DEF ReaderInv
      <3>5. e \in Pinned' <=> e \in Pinned
        BY <1>1, <3>2, <3>4 DEF Pinned
      <3> QED
        BY <3>3, <3>5
    <2>4. db.last <= db'.last
      BY <2>1
    <2> QED
      BY <2>1, <2>2, <2>3, <2>4, SnapshotFrame
  <1> QED
    BY <1>6, <1>7, <1>8, <1>9, <1>10 DEF ReadsInv

LEMMA PublishReads ==
  ASSUME DBInv, ReadsInv, NEW w \in Writers, Publish(w) PROVE ReadsInv'
  <1>1. /\ Pop(wr[w].last, wr) /\ UNCHANGED <<disk, memtab, bg, rd>> /\ wr[w].pc = "publish"
        /\ db' = [db EXCEPT !.last = NewLast(w), !.err = @ \/ wr[w].serr]
    BY DEF Publish
  <1>2. wr[w].last \in 1 .. Len(writers)
    BY <1>1 DEF DBInv, WritersInv
  <1>3. db.phase = "open"
    <2>1. writers # <<>>
      BY <1>1, OnlyTheHead DEF DBInv
    <2> QED
      BY <2>1 DEF DBInv, CallsInv
  <1>4. /\ db'.phase = db.phase /\ db'.mem = db.mem /\ db'.imm = db.imm /\ db'.files = db.files
        /\ db'.next = db.next /\ db'.man = db.man /\ db'.max = db.max /\ db'.todo = db.todo
        /\ db'.last = NewLast(w)
    BY <1>1, DatabaseFields DEF DBInv, FieldsInv
  <1>5. db.last \in Nat /\ NewLast(w) \in Nat /\ db.last <= NewLast(w)
    <2>1. IsFiniteSet(wr[w].group)
      BY <1>1 DEF ReadsInv, GroupsInv, Entries
    <2>2. Cardinality(wr[w].group) \in Nat
      BY <2>1, FS_CardinalityType
    <2>3. db.last \in Nat
      BY DEF ReadsInv, NumbersInv
    <2> QED
      BY <2>2, <2>3 DEF NewLast
  <1>6. GroupsInv'
    BY <1>1, <1>2, NoGroups
  <1>7. DirectoryInv(disk')
    BY <1>1 DEF ReadsInv
  <1>8. NumbersInv'
    BY <1>1, <1>3, <1>4, <1>5 DEF ReadsInv, NumbersInv
  <1>9. MemtablesInv'
    BY <1>1, <1>4 DEF ReadsInv, MemtablesInv
  <1>10. JobInv'
    BY <1>1, <1>4, SameJob DEF ReadsInv
  <1>11. ReaderInv'
    <2>1. Seen' = Seen /\ Pinned' = Pinned
      BY <1>1, <1>4 DEF Seen, Pinned
    <2>2. ReaderInv /\ rd' = rd /\ (rd.on => rd.mems \subseteq DOMAIN memtab')
      BY <1>1 DEF ReadsInv, ReaderInv
    <2> QED
      BY <1>4, <1>5, <2>1, <2>2, SnapshotFrame
  <1> QED
    BY <1>6, <1>7, <1>8, <1>9, <1>10, <1>11 DEF ReadsInv

\* The new log and the new memtable have a number that nobody knows.
LEMMA RoomSwitchReads ==
  ASSUME DBInv, ReadsInv, NEW w \in Writers, RoomSwitch(w) PROVE ReadsInv'
  <1> DEFINE r == [wr[w] EXCEPT !.force = FALSE]
             d == [db EXCEPT !.next = @ + 1, !.logno = db.next, !.imm = db.mem, !.mem = db.next]
             log == [recs |-> <<>>, synced |-> 0, torn |-> FALSE]
  <1>1. /\ wr' = [wr EXCEPT ![w] = r] /\ wr[w].pc = "room" /\ db.phase = "open"
        /\ UNCHANGED <<bg, rd>> /\ db.imm = 0
        /\ db' = MaybeSchedule(d)
        /\ disk' = [disk EXCEPT !.logs = With(@, db.next, log)]
        /\ memtab' = With(memtab, db.next, {})
    BY DEF RoomSwitch, Leader, CanSwitch
  <1>2. /\ DOMAIN d = DOMAIN Closed /\ d.phase = db.phase /\ d.mem = db.next /\ d.imm = db.mem
        /\ d.files = db.files /\ d.next = db.next + 1 /\ d.last = db.last /\ d.man = db.man
        /\ d.max = db.max /\ d.todo = db.todo
    BY DatabaseFields DEF DBInv, FieldsInv
  <1> HIDE DEF d
  <1>3. /\ db'.phase = "open" /\ db'.mem = db.next /\ db'.imm = db.mem
        /\ db'.files = db.files /\ db'.next = db.next + 1 /\ db'.last = db.last /\ db'.man = db.man
        /\ db'.max = db.max /\ db'.todo = db.todo
    BY <1>1, <1>2, OnlySchedules DEF SameView
  <1>4. /\ disk'.tabs = disk.tabs /\ disk'.mans = disk.mans
        /\ disk'.logs = With(disk.logs, db.next, log)
    BY <1>1 DEF DBInv, VersionsInv, DiskInv
  <1>5. db.next \in Nat /\ db.next > 0 /\ db.last \in Nat
    BY DEF ReadsInv, NumbersInv
  <1>6. DirectoryInv(disk')
    BY <1>4, <1>5, NewLog DEF ReadsInv
  <1>7. NumbersInv'
    <2>1. \A F : Below(F, db.next) => Below(F, db.next + 1)
      BY <1>5 DEF Below
    <2>2. \A n \in DOMAIN disk.tabs : n \in Nat /\ n < db.next + 1
      BY <1>1, <1>5 DEF ReadsInv, NumbersInv
    <2>3. db.next + 1 \in Nat /\ db.next + 1 > 0
      BY <1>5
    <2> QED
      BY <1>1, <1>3, <1>4, <2>1, <2>2, <2>3 DEF ReadsInv, NumbersInv
  <1>8. /\ DOMAIN memtab \subseteq 1 .. db.next - 1 /\ db.mem \in DOMAIN memtab
        /\ 0 \notin DOMAIN memtab /\ db.next \notin DOMAIN memtab
    BY <1>1, <1>5 DEF ReadsInv, MemtablesInv
  <1>9. /\ DOMAIN memtab' = DOMAIN memtab \cup {db.next}
        /\ memtab'[db.next] = {} /\ \A m \in DOMAIN memtab : memtab'[m] = memtab[m]
    BY <1>1, <1>8 DEF With
  <1>10. MemtablesInv'
    <2>1. DOMAIN memtab' \subseteq 1 .. (db.next + 1) - 1
      BY <1>5, <1>8, <1>9
    <2> QED
      BY <1>3, <1>8, <1>9, <2>1 DEF MemtablesInv
  <1>11. JobInv'
    <2>1. ~Flushing
      BY <1>1 DEF ReadsInv, JobInv
    <2>2. JobInv
      BY DEF ReadsInv
    <2>3. HasOutput => bg.out < db.next + 1
      BY <1>5, <2>2 DEF JobInv
    <2> QED
      BY <1>1, <1>3, <1>4, <2>1, <2>2, <2>3 DEF JobInv, Compacting, HasOutput, Flushing
  <1>12. GroupsInv'
    <2>1. DOMAIN wr[w] = DOMAIN Idle /\ DOMAIN wr = Writers
      BY DEF DBInv, FieldsInv
    <2>2. r.pc = "room"
      BY <1>1, <2>1, WriterFields
    <2> HIDE DEF r
    <2>3. \A t \in Writers : wr'[t] = IF t = w THEN r ELSE wr[t]
      BY <1>1, <2>1
    <2> QED
      BY <1>3, <2>2, <2>3, SameGroups DEF ReadsInv
  <1>13. ReaderInv'
    <2>1. Seen' = Seen
      <3>1. UNION {memtab'[m] : m \in DOMAIN memtab' \cap {db.next, db.mem}}
            = UNION {memtab[m] : m \in DOMAIN memtab \cap {db.mem, 0}}
        BY <1>8, <1>9
      <3> QED
        BY <1>1, <1>3, <1>4, <3>1 DEF Seen, ContentOf
    <2>2. ReaderInv /\ rd' = rd
      BY <1>1 DEF ReadsInv
    <2>3. rd.on => rd.mems \subseteq DOMAIN memtab' /\ Pinned' = Pinned
      <3> SUFFICES ASSUME rd.on PROVE rd.mems \subseteq DOMAIN memtab' /\ Pinned' = Pinned
        OBVIOUS
      <3>1. rd.mems \subseteq DOMAIN memtab
        BY <2>2 DEF ReaderInv
      <3>2. {memtab'[m] : m \in rd.mems} = {memtab[m] : m \in rd.mems}
        BY <1>9, <3>1
      <3> QED
        BY <1>4, <1>9, <2>2, <3>1, <3>2 DEF Pinned
    <2>4. db'.last = db.last /\ db.last <= db'.last
      BY <1>3, <1>5
    <2> QED
      BY <1>5, <2>1, <2>2, <2>3, <2>4, SnapshotFrame
  <1> QED
    BY <1>6, <1>7, <1>10, <1>11, <1>12, <1>13 DEF ReadsInv

LEMMA StepReads ==
  ASSUME DBInv, ReadsInv, NEW w \in Writers, Step(w) PROVE ReadsInv'
  BY QuietWriter, RoomSwitchReads, LogGroupReads, InsertIntoReads, PublishReads DEF Step

-----------------------------------------------------------------------------
(* The steps of the background thread *)

\* What DeleteObsoleteFiles leaves.
LEMMA WhatIsLeft ==
  ASSUME DBInv, DirectoryInv(disk), NEW d, NEW ins, DeleteObsoleteFiles(d, ins)
  PROVE  /\ DirectoryInv(disk')
         /\ DOMAIN disk'.tabs \subseteq DOMAIN disk.tabs
         /\ \A n \in Numbers(d.files) \cup Numbers(rd.files) \cup Numbers(ins) :
              (n \in DOMAIN disk'.tabs <=> n \in DOMAIN disk.tabs)
              /\ (n \in DOMAIN disk.tabs => disk'.tabs[n] = disk.tabs[n])
         /\ ~d.err => DOMAIN disk'.tabs \subseteq AddLiveFiles(d, ins) \cup d.pend
         /\ DOMAIN disk'.mans \subseteq DOMAIN disk.mans
         /\ \A m \in DOMAIN disk'.mans : disk'.mans[m] = disk.mans[m]
  <1>1. CASE d.err
    <2>1. disk' = disk
      BY <1>1 DEF DeleteObsoleteFiles
    <2> QED
      BY <1>1, <2>1
  <1>2. CASE ~d.err
    <2> DEFINE o == Obsolete(d, ins)
    <2>1. /\ disk'.logs = Without(disk.logs, o.logs) /\ disk'.tabs = Without(disk.tabs, o.tabs)
          /\ disk'.mans = Without(disk.mans, o.mans)
      BY <1>2 DEF DeleteObsoleteFiles, DBInv, VersionsInv, DiskInv
    <2>2. o.tabs = DOMAIN disk.tabs \ (AddLiveFiles(d, ins) \cup d.pend)
      BY DEF Obsolete
    <2> HIDE DEF o
    <2>3. DirectoryInv(disk')
      BY <2>1, FewerFiles
    <2>4. /\ DOMAIN disk'.tabs = DOMAIN disk.tabs \cap (AddLiveFiles(d, ins) \cup d.pend)
          /\ \A n \in DOMAIN disk'.tabs : disk'.tabs[n] = disk.tabs[n]
      BY <2>1, <2>2 DEF Without, Restrict
    <2>5. /\ DOMAIN disk'.mans \subseteq DOMAIN disk.mans
          /\ \A m \in DOMAIN disk'.mans : disk'.mans[m] = disk.mans[m]
      BY <2>1 DEF Without, Restrict
    <2> QED
      BY <1>2, <2>3, <2>4, <2>5 DEF AddLiveFiles
  <1> QED
    BY <1>1, <1>2

\* What LogAndApply writes.
LEMMA WhatIsLogged ==
  ASSUME NEW dk, DiskInv(dk), DirectoryInv(dk), NEW edit, NEW added, NEW ok,
         edit.next = db.next, edit.last = db.last, db.next \in Nat, db.last \in Nat,
         Below(edit.add, db.next),
         db.man \in DOMAIN dk.mans =>
           \A i \in 1 .. Len(dk.mans[db.man].edits) : Below(dk.mans[db.man].edits[i].add, db.next)
  PROVE  LET e == LogEdit(dk, edit, added, ok)
         IN /\ DirectoryInv(e) /\ e.tabs = dk.tabs /\ DOMAIN e.mans = DOMAIN dk.mans
            /\ db.man \in DOMAIN dk.mans =>
                 \A i \in 1 .. Len(e.mans[db.man].edits) : Below(e.mans[db.man].edits[i].add, db.next)
  <1> DEFINE e == LogEdit(dk, edit, added, ok)
             m == dk.mans[db.man]
  <1>1. /\ e.tabs = dk.tabs /\ e.logs = dk.logs /\ DOMAIN e.mans = DOMAIN dk.mans
        /\ \A k \in DOMAIN dk.mans : k # db.man => e.mans[k] = dk.mans[k]
    BY DEF LogEdit, DiskInv
  <1>2. ASSUME db.man \in DOMAIN dk.mans
        PROVE  /\ Numbered(e.mans[db.man].edits)
               /\ \A i \in 1 .. Len(e.mans[db.man].edits) : Below(e.mans[db.man].edits[i].add, db.next)
    <2>1. e.mans[db.man].edits = IF added THEN Append(m.edits, edit) ELSE m.edits
      BY <1>2 DEF LogEdit, DiskInv
    <2>2. FiniteEdits(m.edits) /\ Numbered(m.edits)
      BY <1>2 DEF DiskInv, Manifest, DirectoryInv
    <2>3. \A i \in 1 .. Len(m.edits) : Below(m.edits[i].add, db.next)
      BY <1>2
    <2> HIDE DEF m, e
    <2>4. CASE added
      <3>1. /\ Numbered(Append(m.edits, edit))
            /\ \A i \in 1 .. Len(Append(m.edits, edit)) : Below(Append(m.edits, edit)[i].add, edit.next)
        BY <2>2, <2>3, OneMoreEdit
      <3> QED
        BY <2>1, <2>4, <3>1
    <2>5. CASE ~added
      BY <2>1, <2>2, <2>3, <2>5
    <2> QED
      BY <2>4, <2>5
  <1> HIDE DEF e, m
  <1>3. DirectoryInv(e)
    BY <1>1, <1>2 DEF DirectoryInv
  <1> QED
    BY <1>1, <1>2, <1>3 DEF e

\* The writers that wait are woken, or nothing happens to them.
LEMMA QuietGroups ==
  ASSUME DBInv, ReadsInv, db'.last = db.last, wr' = WakeAll(wr) \/ wr' = wr PROVE GroupsInv'
  <1>1. CASE wr' = WakeAll(wr)
    BY <1>1, AwakeGroups DEF ReadsInv
  <1>2. CASE wr' = wr
    BY <1>2 DEF ReadsInv, GroupsInv
  <1> QED
    BY <1>1, <1>2

\* Back from CompactMemTable: the compaction that was interrupted goes on.
LEMMA BackInTheLoop ==
  ASSUME DBInv, NEW d, DOMAIN d = DOMAIN Closed, bg.pc \in {"apply", "install"}, bg.ret # "cleanup",
         Return(d)
  PROVE  /\ SameView(db', d) /\ db'.pend = d.pend /\ db'.err = d.err /\ wr' = WakeAll(wr)
         /\ ~Flushing' /\ bg'.pc \notin {"apply", "install"}
         /\ Compacting' => Compacting /\ bg'.ins = bg.ins
         /\ HasOutput' => HasOutput /\ bg'.out = bg.out
  <1>1. CASE bg.ret = "end"
    <2>1. EndCall(d, wr)
      BY <1>1 DEF Return
    <2>2. SameView(db', d) /\ db'.pend = d.pend /\ db'.err = d.err /\ bg' = NoWork
      BY <2>1, CallEnds
    <2>3. wr' = WakeAll(wr)
      BY <2>1 DEF EndCall
    <2> QED
      BY <2>2, <2>3 DEF NoWork, Compacting, HasOutput, Flushing
  <1>2. CASE bg.ret # "end"
    <2>1. db' = d /\ wr' = WakeAll(wr) /\ bg' = [bg EXCEPT !.pc = bg.ret, !.edit = None]
      BY <1>2 DEF Return
    <2>2. bg'.pc = bg.ret /\ bg'.ins = bg.ins /\ bg'.out = bg.out /\ bg.ret \in {"work", "output"}
      BY <1>2, <2>1, WorkFields DEF DBInv, FieldsInv
    <2>3. bg'.pc \in {"work", "output"}
      BY <2>2
    <2> QED
      BY <1>2, <2>1, <2>2, <2>3 DEF SameView, Compacting, HasOutput, Flushing
  <1> QED
    BY <1>1, <1>2

LEMMA QuietBackground ==
  ASSUME DBInv, ReadsInv, BackgroundNothing \/ StartCompaction \/ FailMemTable PROVE ReadsInv'
  <1>1. DOMAIN db = DOMAIN Closed /\ DOMAIN bg = DOMAIN NoWork
    BY DEF DBInv, FieldsInv
  <1>2. CASE BackgroundNothing
    <2>1. EndCall(db, wr) /\ UNCHANGED <<disk, memtab, rd>> /\ db.phase = "open"
      BY <1>2 DEF BackgroundNothing
    <2>2. SameView(db', db) /\ bg' = NoWork
      BY <1>1, <2>1, CallEnds
    <2>3. wr' = WakeAll(wr)
      BY <2>1 DEF EndCall
    <2>4. JobInv' /\ GroupsInv'
      BY <2>2, <2>3, NoJob, QuietGroups DEF SameView
    <2> QED
      BY <2>1, <2>2, <2>4, Unmoved
  <1>3. CASE StartCompaction
    <2>1. /\ UNCHANGED <<disk, db, memtab, wr, rd>> /\ db.phase = "open"
          /\ bg' = [bg EXCEPT !.pc = "work", !.ins = db.files]
      BY <1>3 DEF StartCompaction
    <2>2. bg'.pc = "work" /\ bg'.ins = db.files
      BY <1>1, <2>1, WorkFields
    <2>3. JobInv'
      BY <2>1, <2>2 DEF JobInv, Compacting, HasOutput, Flushing
    <2>4. GroupsInv' /\ SameView(db', db)
      BY <2>1, QuietGroups DEF SameView
    <2> QED
      BY <2>1, <2>3, <2>4, Unmoved
  <1>4. CASE FailMemTable
    <2> DEFINE d == [db EXCEPT !.pend = @ \ {bg.n}, !.err = TRUE]
    <2>1. bg.pc = "apply" /\ Return(d) /\ UNCHANGED <<disk, memtab, rd>>
      BY <1>4 DEF FailMemTable
    <2>2. db.phase = "open"
      BY <2>1 DEF DBInv, CallsInv
    <2>3. DOMAIN d = DOMAIN Closed /\ SameView(d, db)
      BY <1>1, DatabaseFields DEF SameView
    <2> HIDE DEF d
    <2>4. bg.ret # "cleanup" /\ JobInv
      BY <2>1 DEF ReadsInv, JobInv
    <2>5. /\ SameView(db', d) /\ wr' = WakeAll(wr) /\ ~Flushing' /\ bg'.pc \notin {"apply", "install"}
          /\ Compacting' => Compacting /\ bg'.ins = bg.ins
          /\ HasOutput' => HasOutput /\ bg'.out = bg.out
      BY <2>1, <2>3, <2>4, BackInTheLoop
    <2>6. SameView(db', db)
      BY <2>3, <2>5 DEF SameView
    <2>7. JobInv'
      BY <2>1, <2>4, <2>5, <2>6 DEF JobInv, SameView
    <2>8. GroupsInv'
      BY <2>5, <2>6, QuietGroups DEF SameView
    <2> QED
      BY <2>1, <2>2, <2>6, <2>7, <2>8, Unmoved
  <1> QED
    BY <1>2, <1>3, <1>4

LEMMA CompactMemTableReads ==
  ASSUME DBInv, ReadsInv, NEW ok \in BOOLEAN, CompactMemTable(ok) PROVE ReadsInv'
  <1> DEFINE n == db.next
             es == memtab[db.imm]
  <1>1. /\ db' = NextNumber(db) /\ UNCHANGED <<memtab, wr, rd>>
        /\ disk' = BuildTable(disk, n, es, ok)
        /\ bg' = [bg EXCEPT !.pc = "apply", !.n = n, !.ok = ok,
                            !.ret = IF bg.pc = "idle" THEN "end" ELSE bg.pc]
        /\ db.phase = "open" /\ db.imm # 0 /\ bg.pc \in {"idle", "work", "output"}
    BY DEF CompactMemTable
  <1>2. /\ db'.phase = "open" /\ db'.mem = db.mem /\ db'.imm = db.imm /\ db'.files = db.files
        /\ db'.next = n + 1 /\ db'.last = db.last /\ db'.man = db.man /\ db'.max = db.max
        /\ db'.todo = db.todo
    BY <1>1, DatabaseFields DEF NextNumber, DBInv, FieldsInv
  <1>3. /\ bg'.pc = "apply" /\ bg'.n = n /\ bg'.ok = ok /\ bg'.ins = bg.ins /\ bg'.out = bg.out
        /\ bg'.ret = IF bg.pc = "idle" THEN "end" ELSE bg.pc
    BY <1>1, WorkFields DEF DBInv, FieldsInv
  <1>4. /\ disk'.logs = disk.logs /\ disk'.mans = disk.mans
        /\ disk'.tabs = IF ok /\ es # {} THEN With(disk.tabs, n, es) ELSE disk.tabs
    BY <1>1 DEF BuildTable, DBInv, VersionsInv, DiskInv
  <1>5. /\ n \in Nat /\ n > 0 /\ db.last \in Nat /\ Below(db.files, n) /\ Below(rd.files, n)
        /\ n \notin DOMAIN disk.tabs
        /\ \A k \in DOMAIN disk.tabs : k \in Nat /\ k < n
    BY <1>1 DEF ReadsInv, NumbersInv
  <1> HIDE DEF n, es
  <1>6. n \notin Numbers(db.files) /\ n \notin Numbers(rd.files)
    BY <1>5 DEF Below, Numbers
  <1>7. TabsIn(disk'.tabs, db.files) = TabsIn(disk.tabs, db.files)
        /\ TabsIn(disk'.tabs, rd.files) = TabsIn(disk.tabs, rd.files)
    BY <1>4, <1>6, OneMoreTab
  <1>8. DirectoryInv(disk')
    BY <1>4, SameDirectory DEF ReadsInv
  <1>9. NumbersInv'
    <2>1. \A F : Below(F, n) => Below(F, n + 1)
      BY <1>5 DEF Below
    <2>2. \A k \in DOMAIN disk'.tabs : k \in Nat /\ k < n + 1
      BY <1>4, <1>5 DEF With
    <2>3. n + 1 \in Nat /\ n + 1 > 0
      BY <1>5
    <2> QED
      BY <1>1, <1>2, <1>4, <2>1, <2>2, <2>3 DEF ReadsInv, NumbersInv, n
  <1>10. MemtablesInv'
    <2>1. DOMAIN memtab \subseteq 1 .. n - 1
      BY <1>1 DEF ReadsInv, MemtablesInv, n
    <2>2. DOMAIN memtab \subseteq 1 .. (n + 1) - 1
      BY <1>5, <2>1
    <2> QED
      BY <1>1, <1>2, <2>2 DEF ReadsInv, MemtablesInv
  <1>11. JobInv'
    <2>1. JobInv
      BY DEF ReadsInv
    <2>2. Compacting' => bg'.ins \subseteq db'.files
      BY <1>1, <1>2, <1>3, <2>1 DEF JobInv, Compacting
    <2>3. HasOutput' => /\ bg'.out \in Nat /\ bg'.out < n
                        /\ bg'.out \notin Numbers(db.files) /\ bg'.out \notin Numbers(rd.files)
      BY <1>1, <1>3, <2>1 DEF JobInv, HasOutput, n
    <2>4. HasOutput' => bg'.out < n + 1 /\ n # bg'.out
      BY <1>5, <2>3
    <2>5. bg'.ok => TabsIn(disk'.tabs, {<<n, 0>>}) = es
      <3> SUFFICES ASSUME ok PROVE TabsIn(disk'.tabs, {<<n, 0>>}) = es
        BY <1>3
      <3>1. Numbers({<<n, 0>>}) = {n}
        BY DEF Numbers
      <3>2. CASE es # {}
        <4>1. n \in DOMAIN disk'.tabs /\ disk'.tabs[n] = es
          BY <1>4, <3>2 DEF With
        <4> QED
          BY <3>1, <4>1 DEF TabsIn
      <3>3. CASE es = {}
        <4>1. n \notin DOMAIN disk'.tabs
          BY <1>4, <1>5, <3>3
        <4> QED
          BY <3>1, <3>3, <4>1 DEF TabsIn
      <3> QED
        BY <3>2, <3>3
    <2>6. bg'.ret # "cleanup" /\ n < n + 1
      BY <1>1, <1>3, <1>5
    <2> QED
      BY <1>1, <1>2, <1>3, <1>5, <2>2, <2>3, <2>4, <2>5, <2>6 DEF JobInv, es
  <1>12. GroupsInv'
    BY <1>1, <1>2, QuietGroups
  <1>13. ReaderInv'
    <2>1. Seen' = Seen /\ Pinned' = Pinned
      BY <1>1, <1>2, <1>7 DEF Seen, Pinned, ContentOf
    <2>2. ReaderInv /\ rd' = rd /\ (rd.on => rd.mems \subseteq DOMAIN memtab') /\ db.last <= db'.last
      BY <1>1, <1>2, <1>5 DEF ReadsInv, ReaderInv
    <2> QED
      BY <1>2, <1>5, <2>1, <2>2, SnapshotFrame
  <1> QED
    BY <1>8, <1>9, <1>10, <1>11, <1>12, <1>13 DEF ReadsInv

LEMMA ApplyMemTableReads ==
  ASSUME DBInv, ReadsInv, NEW added \in BOOLEAN, NEW ok \in BOOLEAN, ApplyMemTable(added, ok)
  PROVE  ReadsInv'
  <1> DEFINE new == {f \in {<<bg.n, OutputLevel>>} : bg.n \in DOMAIN disk.tabs}
             edit == Edit(db, new, {}, EditLog)
             d == [db EXCEPT !.pend = @ \ {bg.n}]
  <1>1. /\ bg.pc = "apply" /\ bg.ok /\ UNCHANGED <<memtab, wr, rd>>
        /\ db' = d
        /\ bg' = [bg EXCEPT !.pc = "install", !.edit = Edit(d, new, {}, EditLog), !.ok = ok]
        /\ disk' = LogEdit(disk, Edit(d, new, {}, EditLog), added, ok)
    BY DEF ApplyMemTable
  <1>2. SameView(db', db) /\ d.next = db.next /\ d.last = db.last
    BY <1>1, DatabaseFields DEF SameView, DBInv, FieldsInv
  <1>3. /\ disk' = LogEdit(disk, edit, added, ok)
        /\ bg' = [bg EXCEPT !.pc = "install", !.edit = edit, !.ok = ok]
    <2>1. Edit(d, new, {}, EditLog) = edit
      BY <1>2 DEF Edit
    <2> HIDE DEF d, new, edit
    <2> QED
      BY <1>1, <2>1
  <1> HIDE DEF d
  <1>4. edit.add = new /\ edit.del = {} /\ edit.next = db.next /\ edit.last = db.last
    BY DEF Edit
  <1> HIDE DEF edit
  <1>5. db.phase = "open"
    BY <1>1 DEF DBInv, CallsInv
  <1>6. /\ bg'.pc = "install" /\ bg'.edit = edit /\ bg'.ok = ok /\ bg'.ret = bg.ret
        /\ bg'.n = bg.n /\ bg'.ins = bg.ins /\ bg'.out = bg.out
    BY <1>3, WorkFields DEF DBInv, FieldsInv
  <1>7. /\ JobInv /\ Flushing /\ bg.ret # "cleanup" /\ bg.n \in Nat /\ bg.n < db.next
        /\ TabsIn(disk.tabs, {<<bg.n, 0>>}) = memtab[db.imm]
    BY <1>1 DEF ReadsInv, JobInv, Flushing
  <1>8. Below(edit.add, db.next) /\ \A f \in edit.add : f[1] = bg.n
    BY <1>4, <1>7 DEF Below
  <1>9. TabsIn(disk.tabs, edit.add) = TabsIn(disk.tabs, {<<bg.n, 0>>})
    <2>1. Numbers({<<bg.n, 0>>}) = {bg.n}
      BY DEF Numbers
    <2>2. CASE bg.n \in DOMAIN disk.tabs
      <3>1. edit.add = {<<bg.n, OutputLevel>>}
        BY <1>4, <2>2
      <3>2. Numbers(edit.add) = {bg.n}
        BY <3>1 DEF Numbers
      <3> QED
        BY <2>1, <3>2 DEF TabsIn
    <2>3. CASE bg.n \notin DOMAIN disk.tabs
      <3>1. Numbers(edit.add) = {}
        BY <1>4, <2>3 DEF Numbers
      <3> QED
        BY <2>1, <2>3, <3>1 DEF TabsIn
    <2> QED
      BY <2>2, <2>3
  <1>10. /\ DirectoryInv(disk') /\ disk'.tabs = disk.tabs /\ DOMAIN disk'.mans = DOMAIN disk.mans
         /\ db.man \in DOMAIN disk.mans =>
              \A i \in 1 .. Len(disk'.mans[db.man].edits) : Below(disk'.mans[db.man].edits[i].add, db.next)
    <2>1. DirectoryInv(disk) /\ DiskInv(disk) /\ db.next \in Nat /\ db.last \in Nat
      BY DEF ReadsInv, NumbersInv, DBInv, VersionsInv
    <2>2. db.man \in DOMAIN disk.mans =>
           \A i \in 1 .. Len(disk.mans[db.man].edits) : Below(disk.mans[db.man].edits[i].add, db.next)
      BY <1>5 DEF ReadsInv, NumbersInv
    <2> HIDE DEF new
    <2> QED
      BY <1>3, <1>4, <1>8, <2>1, <2>2, WhatIsLogged
  <1>11. NumbersInv'
    BY <1>1, <1>2, <1>5, <1>10 DEF ReadsInv, NumbersInv, SameView
  <1>12. MemtablesInv'
    BY <1>1, <1>2 DEF ReadsInv, MemtablesInv, SameView
  <1>13. JobInv'
    <2>1. (Compacting' => Compacting) /\ (HasOutput' => HasOutput) /\ bg'.pc # "apply"
      BY <1>1, <1>6 DEF Compacting, HasOutput
    <2>2. /\ db'.files = db.files /\ db'.next = db.next /\ db'.imm = db.imm
          /\ rd' = rd /\ memtab' = memtab /\ disk'.tabs = disk.tabs
      BY <1>1, <1>2, <1>10 DEF SameView
    <2>3. db.imm # 0 /\ (HasOutput => bg.n # bg.out)
      BY <1>7 DEF JobInv
    <2>4. TabsIn(disk.tabs, edit.add) = memtab[db.imm]
      BY <1>7, <1>9
    <2> HIDE DEF new
    <2> QED
      BY <1>4, <1>6, <1>7, <1>8, <2>1, <2>2, <2>3, <2>4 DEF JobInv
  <1>14. GroupsInv'
    BY <1>1, <1>2, QuietGroups DEF SameView
  <1>15. ReaderInv'
    BY <1>1, <1>2, <1>10, SameReads DEF ReadsInv
  <1> QED
    BY <1>10, <1>11, <1>12, <1>13, <1>14, <1>15 DEF ReadsInv

\* The new table takes the place of the memtable, for the readers to come; the
\* others keep what they pinned.
LEMMA InstallMemTableReads ==
  ASSUME DBInv, ReadsInv, InstallMemTable PROVE ReadsInv'
  <1> DEFINE d == IF bg.ok THEN [Installed(db) EXCEPT !.imm = 0] ELSE [db EXCEPT !.err = TRUE]
  <1>1. /\ bg.pc = "install" /\ bg.ret # "cleanup" /\ Return(d) /\ UNCHANGED rd
        /\ DeleteObsoleteFiles(d, bg.ins)
        /\ memtab' = Without(memtab, DOMAIN memtab \ ({d.mem, d.imm} \cup rd.mems))
    BY DEF InstallMemTable
  <1>2. db.phase = "open" /\ JobInv /\ Flushing
    BY <1>1 DEF DBInv, CallsInv, ReadsInv, Flushing
  <1>3. /\ bg.n \in Nat /\ bg.n < db.next /\ (HasOutput => bg.n # bg.out) /\ db.imm # 0
        /\ bg.edit.del = {} /\ \A f \in bg.edit.add : f[1] = bg.n
        /\ bg.ok => TabsIn(disk.tabs, bg.edit.add) = memtab[db.imm]
    BY <1>1, <1>2 DEF JobInv
  <1>4. /\ DOMAIN d = DOMAIN Closed
        /\ d.phase = db.phase /\ d.mem = db.mem /\ d.next = db.next /\ d.last = db.last
        /\ d.man = db.man /\ d.max = db.max /\ d.todo = db.todo /\ d.pend = db.pend
        /\ d.imm = (IF bg.ok THEN 0 ELSE db.imm)
        /\ d.files = (IF bg.ok THEN db.files \cup bg.edit.add ELSE db.files)
    <2>1. DOMAIN db = DOMAIN Closed
      BY DEF DBInv, FieldsInv
    <2>2. CASE bg.ok
      <3> DEFINE v == Installed(db)
      <3>1. v.files = {f \in db.files : f[1] \notin bg.edit.del} \cup bg.edit.add
        BY <2>1, DatabaseFields DEF Installed
      <3>2. v.files = db.files \cup bg.edit.add
        BY <1>3, <3>1
      <3>3. /\ DOMAIN v = DOMAIN Closed
            /\ v.phase = db.phase /\ v.mem = db.mem /\ v.next = db.next /\ v.last = db.last
            /\ v.man = db.man /\ v.max = db.max /\ v.todo = db.todo /\ v.pend = db.pend
        BY <2>1, DatabaseFields DEF Installed
      <3>4. d = [v EXCEPT !.imm = 0]
        BY <2>2
      <3> HIDE DEF v, d
      <3>5. /\ DOMAIN d = DOMAIN Closed /\ d.imm = 0 /\ d.files = v.files
            /\ d.phase = v.phase /\ d.mem = v.mem /\ d.next = v.next /\ d.last = v.last
            /\ d.man = v.man /\ d.max = v.max /\ d.todo = v.todo /\ d.pend = v.pend
        BY <3>3, <3>4, DatabaseFields
      <3> QED
        BY <2>2, <3>2, <3>3, <3>5
    <2>3. CASE ~bg.ok
      BY <2>1, <2>3, DatabaseFields
    <2> QED
      BY <2>2, <2>3
  <1> HIDE DEF d
  <1>5. /\ SameView(db', d) /\ db'.pend = d.pend /\ db'.err = d.err /\ wr' = WakeAll(wr)
        /\ ~Flushing' /\ bg'.pc \notin {"apply", "install"}
        /\ Compacting' => Compacting /\ bg'.ins = bg.ins
        /\ HasOutput' => HasOutput /\ bg'.out = bg.out
    BY <1>1, <1>4, BackInTheLoop
  <1>6. /\ db'.phase = "open" /\ db'.mem = db.mem /\ db'.next = db.next /\ db'.last = db.last
        /\ db'.man = db.man /\ db'.max = db.max /\ db'.todo = db.todo /\ db'.pend = db.pend
        /\ db'.imm = d.imm /\ db'.files = d.files
    BY <1>2, <1>4, <1>5 DEF SameView
  <1>7. DirectoryInv(disk)
    BY DEF ReadsInv
  <1>8. /\ DirectoryInv(disk')
        /\ DOMAIN disk'.tabs \subseteq DOMAIN disk.tabs
        /\ \A n \in Numbers(d.files) \cup Numbers(rd.files) \cup Numbers(bg.ins) :
             (n \in DOMAIN disk'.tabs <=> n \in DOMAIN disk.tabs)
             /\ (n \in DOMAIN disk.tabs => disk'.tabs[n] = disk.tabs[n])
        /\ DOMAIN disk'.mans \subseteq DOMAIN disk.mans
        /\ \A m \in DOMAIN disk'.mans : disk'.mans[m] = disk.mans[m]
    BY <1>1, <1>7, WhatIsLeft
  <1>9. Below(db'.files, db.next)
    <2>1. Below(db.files, db.next)
      BY DEF ReadsInv, NumbersInv
    <2> QED
      BY <1>3, <1>4, <1>6, <2>1 DEF Below
  <1>10. NumbersInv'
    <2>1. \A n \in DOMAIN disk'.tabs : n \in Nat /\ n < db.next
      BY <1>2, <1>8 DEF ReadsInv, NumbersInv
    <2>2. db.man \in DOMAIN disk'.mans =>
            \A i \in 1 .. Len(disk'.mans[db.man].edits) : Below(disk'.mans[db.man].edits[i].add, db.next)
      BY <1>2, <1>8 DEF ReadsInv, NumbersInv
    <2> QED
      BY <1>1, <1>6, <1>9, <2>1, <2>2 DEF ReadsInv, NumbersInv
  <1>11. /\ DOMAIN memtab \subseteq 1 .. db.next - 1 /\ db.mem \in DOMAIN memtab
         /\ db.imm \in DOMAIN memtab /\ db.mem # db.imm /\ 0 \notin DOMAIN memtab /\ db.mem # 0
    BY <1>2, <1>3 DEF ReadsInv, MemtablesInv
  <1>12. /\ DOMAIN memtab' = DOMAIN memtab \cap ({db.mem, d.imm} \cup rd.mems)
         /\ \A m \in DOMAIN memtab' : memtab'[m] = memtab[m]
    BY <1>1, <1>4 DEF Without, Restrict
  <1>13. MemtablesInv'
    <2>1. DOMAIN memtab' \subseteq 1 .. db.next - 1 /\ db.mem \in DOMAIN memtab'
      BY <1>11, <1>12
    <2>2. d.imm \in DOMAIN memtab' \cup {0} /\ db.mem # d.imm
      BY <1>4, <1>11, <1>12
    <2> QED
      BY <1>6, <2>1, <2>2 DEF MemtablesInv
  <1>14. JobInv'
    <2>1. Compacting' => bg'.ins \subseteq db'.files
      BY <1>2, <1>4, <1>5, <1>6 DEF JobInv
    <2>2. HasOutput => bg.out \notin Numbers(bg.edit.add)
      BY <1>3 DEF Numbers
    <2>3. Numbers(db'.files) \subseteq Numbers(db.files) \cup Numbers(bg.edit.add)
      BY <1>4, <1>6 DEF Numbers
    <2>4. HasOutput' => /\ bg'.out \in Nat /\ bg'.out < db.next
                        /\ bg'.out \notin Numbers(db'.files) /\ bg'.out \notin Numbers(rd.files)
      BY <1>2, <1>5, <2>2, <2>3 DEF JobInv
    <2> QED
      BY <1>1, <1>5, <1>6, <2>1, <2>4 DEF JobInv
  <1>15. GroupsInv'
    BY <1>5, <1>6, QuietGroups
  <1>16. ReaderInv'
    <2>1. /\ TabsIn(disk'.tabs, d.files) = TabsIn(disk.tabs, d.files)
          /\ TabsIn(disk'.tabs, rd.files) = TabsIn(disk.tabs, rd.files)
      BY <1>8, SameTabs
    <2>2. Seen' = Seen
      <3>1. Seen' = TabsIn(disk.tabs, d.files)
                    \cup UNION {memtab'[m] : m \in DOMAIN memtab' \cap {db.mem, d.imm}}
        BY <1>6, <2>1 DEF Seen, ContentOf
      <3>2. Seen = TabsIn(disk.tabs, db.files) \cup memtab[db.mem] \cup memtab[db.imm]
        <4>1. DOMAIN memtab \cap {db.mem, db.imm} = {db.mem, db.imm}
          BY <1>11
        <4> QED
          BY <4>1 DEF Seen, ContentOf
      <3>3. CASE bg.ok
        <4>1. DOMAIN memtab' \cap {db.mem, d.imm} = {db.mem} /\ memtab'[db.mem] = memtab[db.mem]
          BY <1>4, <1>11, <1>12, <3>3
        <4>2. Seen' = TabsIn(disk.tabs, db.files \cup bg.edit.add) \cup memtab[db.mem]
          BY <1>4, <3>1, <3>3, <4>1
        <4>3. TabsIn(disk.tabs, db.files \cup bg.edit.add)
              = TabsIn(disk.tabs, db.files) \cup memtab[db.imm]
          BY <1>3, <3>3, TabsOfBoth
        <4> QED
          BY <3>2, <4>2, <4>3
      <3>4. CASE ~bg.ok
        <4>1. /\ DOMAIN memtab' \cap {db.mem, d.imm} = {db.mem, db.imm}
              /\ memtab'[db.mem] = memtab[db.mem] /\ memtab'[db.imm] = memtab[db.imm]
          BY <1>4, <1>11, <1>12, <3>4
        <4>2. Seen' = TabsIn(disk.tabs, db.files) \cup memtab[db.mem] \cup memtab[db.imm]
          BY <1>4, <3>1, <3>4, <4>1
        <4> QED
          BY <3>2, <4>2
      <3> QED
        BY <3>3, <3>4
    <2>3. ReaderInv /\ rd' = rd /\ db.last \in Nat /\ db'.last = db.last /\ db.last <= db'.last
      BY <1>1, <1>6 DEF ReadsInv, NumbersInv
    <2>4. rd.on => rd.mems \subseteq DOMAIN memtab' /\ Pinned' = Pinned
      <3> SUFFICES ASSUME rd.on PROVE rd.mems \subseteq DOMAIN memtab' /\ Pinned' = Pinned
        OBVIOUS
      <3>1. rd.mems \subseteq DOMAIN memtab
        BY <2>3 DEF ReaderInv
      <3>2. rd.mems \subseteq DOMAIN memtab' /\ \A m \in rd.mems : memtab'[m] = memtab[m]
        BY <1>12, <3>1
      <3>3. {memtab'[m] : m \in rd.mems} = {memtab[m] : m \in rd.mems}
        BY <3>2
      <3> QED
        BY <2>1, <2>3, <3>2, <3>3 DEF Pinned
    <2> QED
      BY <2>2, <2>3, <2>4, SnapshotFrame
  <1> QED
    BY <1>8, <1>10, <1>13, <1>14, <1>15, <1>16 DEF ReadsInv

\* The output file has a new number, and nobody reads it.
LEMMA OpenOutputReads ==
  ASSUME DBInv, ReadsInv, OpenCompactionOutputFile PROVE ReadsInv'
  <1> DEFINE n == db.next
  <1>1. /\ bg.pc = "work" /\ db' = NextNumber(db) /\ UNCHANGED <<memtab, wr, rd>>
        /\ bg' = [bg EXCEPT !.pc = "output", !.out = n]
        /\ disk' = [disk EXCEPT !.tabs = With(@, n, {})]
    BY DEF OpenCompactionOutputFile
  <1>2. /\ db'.phase = db.phase /\ db'.mem = db.mem /\ db'.imm = db.imm /\ db'.files = db.files
        /\ db'.next = n + 1 /\ db'.last = db.last /\ db'.man = db.man /\ db'.max = db.max
        /\ db'.todo = db.todo
    BY <1>1, DatabaseFields DEF NextNumber, DBInv, FieldsInv
  <1>3. bg'.pc = "output" /\ bg'.out = n /\ bg'.ins = bg.ins
    BY <1>1, WorkFields DEF DBInv, FieldsInv
  <1>4. disk'.logs = disk.logs /\ disk'.mans = disk.mans /\ disk'.tabs = With(disk.tabs, n, {})
    BY <1>1 DEF DBInv, VersionsInv, DiskInv
  <1>5. db.phase = "open"
    BY <1>1 DEF DBInv, CallsInv
  <1>6. /\ n \in Nat /\ n > 0 /\ db.last \in Nat /\ Below(db.files, n) /\ Below(rd.files, n)
        /\ \A k \in DOMAIN disk.tabs : k \in Nat /\ k < n
    BY <1>5 DEF ReadsInv, NumbersInv
  <1>7. n \notin Numbers(db.files) /\ n \notin Numbers(rd.files)
    <2> HIDE DEF n
    <2> QED
      BY <1>6 DEF Below, Numbers
  <1>8. TabsIn(disk'.tabs, db.files) = TabsIn(disk.tabs, db.files)
        /\ TabsIn(disk'.tabs, rd.files) = TabsIn(disk.tabs, rd.files)
    BY <1>4, <1>7, OneMoreTab
  <1> HIDE DEF n
  <1>9. DirectoryInv(disk')
    BY <1>4, SameDirectory DEF ReadsInv
  <1>10. NumbersInv'
    <2>1. \A F : Below(F, n) => Below(F, n + 1)
      BY <1>6 DEF Below
    <2>2. \A k \in DOMAIN disk'.tabs : k \in Nat /\ k < n + 1
      BY <1>4, <1>6 DEF With
    <2>3. n + 1 \in Nat /\ n + 1 > 0
      BY <1>6
    <2> QED
      BY <1>1, <1>2, <1>4, <1>5, <2>1, <2>2, <2>3 DEF ReadsInv, NumbersInv, n
  <1>11. MemtablesInv'
    <2>1. DOMAIN memtab \subseteq 1 .. n - 1
      BY <1>5 DEF ReadsInv, MemtablesInv, n
    <2>2. DOMAIN memtab \subseteq 1 .. (n + 1) - 1
      BY <1>6, <2>1
    <2> QED
      BY <1>1, <1>2, <1>5, <2>2 DEF ReadsInv, MemtablesInv
  <1>12. JobInv'
    <2>1. bg.ins \subseteq db.files
      BY <1>1 DEF ReadsInv, JobInv, Compacting
    <2>2. n < n + 1
      BY <1>6
    <2> QED
      BY <1>1, <1>2, <1>3, <1>6, <1>7, <2>1, <2>2 DEF JobInv, Flushing
  <1>13. GroupsInv'
    BY <1>1, <1>2, QuietGroups
  <1>14. ReaderInv'
    <2>1. Seen' = Seen /\ Pinned' = Pinned
      BY <1>1, <1>2, <1>8 DEF Seen, Pinned, ContentOf
    <2>2. ReaderInv /\ rd' = rd /\ (rd.on => rd.mems \subseteq DOMAIN memtab') /\ db.last <= db'.last
      BY <1>1, <1>2, <1>6 DEF ReadsInv, ReaderInv
    <2> QED
      BY <1>2, <1>6, <2>1, <2>2, SnapshotFrame
  <1> QED
    BY <1>9, <1>10, <1>11, <1>12, <1>13, <1>14 DEF ReadsInv

LEMMA SameTables == ASSUME NEW F PROVE TablesOf(F) = TabsIn(disk.tabs, F)
  BY DEF TablesOf, TabsIn

\* The output holds what its inputs hold; it is not yet part of the version.
LEMMA FinishCompactionReads ==
  ASSUME DBInv, ReadsInv, NEW added \in BOOLEAN, NEW ok \in BOOLEAN, FinishCompaction(added, ok)
  PROVE  ReadsInv'
  <1> DEFINE edit == Edit(db, {<<bg.out, 1>>}, Numbers(bg.ins), db.vlog)
             es == TabsIn(disk.tabs, bg.ins)
             dk == [disk EXCEPT !.tabs[bg.out] = es]
  <1>1. /\ bg.pc = "output" /\ UNCHANGED <<db, memtab, wr, rd>> /\ bg.out \in DOMAIN disk.tabs
        /\ disk' = LogEdit(dk, edit, added, ok)
        /\ bg' = [bg EXCEPT !.pc = "install", !.ret = "cleanup", !.ok = ok, !.edit = edit]
    <2>1. TablesOf(bg.ins) = es
      BY SameTables
    <2> QED
      BY <2>1 DEF FinishCompaction
  <1>2. /\ edit.add = {<<bg.out, 1>>} /\ edit.del = Numbers(bg.ins)
        /\ edit.next = db.next /\ edit.last = db.last
    BY DEF Edit
  <1> HIDE DEF edit
  <1>3. /\ bg'.pc = "install" /\ bg'.ret = "cleanup" /\ bg'.ok = ok /\ bg'.edit = edit
        /\ bg'.out = bg.out /\ bg'.ins = bg.ins
    BY <1>1, WorkFields DEF DBInv, FieldsInv
  <1>4. db.phase = "open" /\ DiskInv(disk) /\ DirectoryInv(disk)
    BY <1>1 DEF DBInv, CallsInv, VersionsInv, ReadsInv
  <1>5. /\ bg.out \in Nat /\ bg.out < db.next /\ bg.ins \subseteq db.files
        /\ bg.out \notin Numbers(db.files) /\ bg.out \notin Numbers(rd.files)
    BY <1>1 DEF ReadsInv, JobInv, HasOutput, Compacting
  <1>6. /\ DOMAIN dk = DOMAIN disk /\ dk.logs = disk.logs /\ dk.mans = disk.mans
        /\ dk.tabs = [disk.tabs EXCEPT ![bg.out] = es]
    BY <1>4 DEF DiskInv
  <1> HIDE DEF dk
  <1>7. DiskInv(dk) /\ DirectoryInv(dk)
    BY <1>4, <1>6, SameManifests, SameDirectory
  <1>8. Below(edit.add, db.next)
    BY <1>2, <1>5 DEF Below
  <1>9. /\ DirectoryInv(disk') /\ disk'.tabs = dk.tabs /\ DOMAIN disk'.mans = DOMAIN disk.mans
        /\ db.man \in DOMAIN disk.mans =>
             \A i \in 1 .. Len(disk'.mans[db.man].edits) : Below(disk'.mans[db.man].edits[i].add, db.next)
    <2>1. db.next \in Nat /\ db.last \in Nat
      BY DEF ReadsInv, NumbersInv
    <2>2. db.man \in DOMAIN dk.mans =>
           \A i \in 1 .. Len(dk.mans[db.man].edits) : Below(dk.mans[db.man].edits[i].add, db.next)
      BY <1>4, <1>6 DEF ReadsInv, NumbersInv
    <2> DEFINE e == LogEdit(dk, edit, added, ok)
    <2>3. /\ DirectoryInv(e) /\ e.tabs = dk.tabs /\ DOMAIN e.mans = DOMAIN dk.mans
          /\ db.man \in DOMAIN dk.mans =>
               \A i \in 1 .. Len(e.mans[db.man].edits) : Below(e.mans[db.man].edits[i].add, db.next)
      BY <1>2, <1>7, <1>8, <2>1, <2>2, WhatIsLogged
    <2>4. disk' = e /\ dk.mans = disk.mans
      BY <1>1, <1>6
    <2> HIDE DEF e
    <2> QED
      BY <2>3, <2>4
  <1>10. bg.out \notin Numbers(bg.ins)
    BY <1>5 DEF Numbers
  <1>11. /\ DOMAIN disk'.tabs = DOMAIN disk.tabs /\ disk'.tabs[bg.out] = es
         /\ \A n \in DOMAIN disk.tabs : n # bg.out => disk'.tabs[n] = disk.tabs[n]
    BY <1>1, <1>6, <1>9
  <1> HIDE DEF es
  <1>12. /\ TabsIn(disk'.tabs, db.files) = TabsIn(disk.tabs, db.files)
         /\ TabsIn(disk'.tabs, rd.files) = TabsIn(disk.tabs, rd.files)
         /\ TabsIn(disk'.tabs, bg.ins) = TabsIn(disk.tabs, bg.ins)
    BY <1>5, <1>10, <1>11, SameTabs
  <1>13. NumbersInv'
    BY <1>1, <1>4, <1>9, <1>11 DEF ReadsInv, NumbersInv
  <1>14. MemtablesInv'
    BY <1>1 DEF ReadsInv, MemtablesInv
  <1>15. JobInv'
    <2>1. disk'.tabs[bg.out] = TabsIn(disk'.tabs, bg.ins)
      BY <1>11, <1>12 DEF es
    <2> QED
      BY <1>1, <1>2, <1>3, <1>5, <1>11, <2>1 DEF JobInv, Flushing
  <1>16. GroupsInv'
    BY <1>1, QuietGroups
  <1>17. ReaderInv'
    <2>1. Seen' = Seen /\ Pinned' = Pinned
      BY <1>1, <1>12 DEF Seen, Pinned, ContentOf
    <2>2. ReaderInv /\ rd' = rd /\ memtab' = memtab /\ db' = db
      BY <1>1 DEF ReadsInv
    <2> QED
      BY <2>1, <2>2 DEF ReaderInv
  <1> QED
    BY <1>9, <1>13, <1>14, <1>15, <1>16, <1>17 DEF ReadsInv

\* A compaction that failed leaves the version alone; its output is removed
\* by a later call, or not at all.
LEMMA FailedCompactionReads ==
  ASSUME DBInv, ReadsInv, bg.pc # "idle", Cleanup([db EXCEPT !.err = TRUE]), UNCHANGED <<memtab, rd>>
  PROVE  ReadsInv'
  <1> DEFINE f == [db EXCEPT !.err = TRUE]
             e == [f EXCEPT !.pend = @ \ {bg.out}]
  <1>1. EndCall(e, wr) /\ DeleteObsoleteFiles(e, {})
    BY DEF Cleanup
  <1>2. DOMAIN e = DOMAIN Closed /\ SameView(e, db) /\ e.err
    BY DatabaseFields DEF SameView, DBInv, FieldsInv
  <1> HIDE DEF e
  <1>3. disk' = disk
    BY <1>1, <1>2 DEF DeleteObsoleteFiles
  <1>4. SameView(db', e) /\ bg' = NoWork
    BY <1>1, <1>2, CallEnds
  <1>5. wr' = WakeAll(wr)
    BY <1>1 DEF EndCall
  <1>6. SameView(db', db) /\ db.phase = "open"
    BY <1>2, <1>4 DEF SameView, DBInv, CallsInv
  <1>7. JobInv' /\ GroupsInv'
    BY <1>4, <1>5, <1>6, NoJob, QuietGroups DEF SameView
  <1> QED
    BY <1>3, <1>6, <1>7, Unmoved

\* The output takes the place of the inputs; the inputs stay for the reader
\* that pinned them.
LEMMA InstalledCompactionReads ==
  ASSUME DBInv, ReadsInv, bg.pc = "install", bg.ret = "cleanup", Cleanup(Installed(db)),
         UNCHANGED <<memtab, rd>>
  PROVE  ReadsInv'
  <1> DEFINE v == Installed(db)
             kept == {f \in db.files : f[1] \notin Numbers(bg.ins)}
             new == {<<bg.out, 1>>}
             e == [v EXCEPT !.pend = @ \ {bg.out}]
  <1>1. /\ bg.edit.add = new /\ bg.edit.del = Numbers(bg.ins)
        /\ bg.out \in DOMAIN disk.tabs /\ disk.tabs[bg.out] = TabsIn(disk.tabs, bg.ins)
        /\ bg.ins \subseteq db.files /\ bg.out \in Nat /\ bg.out < db.next
        /\ db.phase = "open"
    BY DEF ReadsInv, JobInv, HasOutput, Compacting, DBInv, CallsInv
  <1>2. /\ DOMAIN v = DOMAIN Closed /\ v.phase = "open" /\ v.mem = db.mem /\ v.imm = db.imm
        /\ v.next = db.next /\ v.last = db.last /\ v.man = db.man /\ v.max = db.max
        /\ v.todo = db.todo
        /\ v.files = {f \in db.files : f[1] \notin bg.edit.del} \cup bg.edit.add
    BY <1>1, DatabaseFields DEF Installed, DBInv, FieldsInv
  <1>3. v.files = kept \cup new
    BY <1>1, <1>2
  <1>4. EndCall(e, wr) /\ DeleteObsoleteFiles(e, {})
    BY DEF Cleanup
  <1> HIDE DEF v
  <1>5. /\ DOMAIN e = DOMAIN Closed /\ SameView(e, v)
    BY <1>2, DatabaseFields DEF SameView
  <1> HIDE DEF e
  <1>6. SameView(db', e) /\ bg' = NoWork /\ wr' = WakeAll(wr)
    BY <1>4, <1>5, CallEnds DEF EndCall
  <1>7. /\ db'.phase = "open" /\ db'.mem = db.mem /\ db'.imm = db.imm /\ db'.next = db.next
        /\ db'.last = db.last /\ db'.man = db.man /\ db'.max = db.max /\ db'.todo = db.todo
        /\ db'.files = kept \cup new /\ e.files = kept \cup new
    BY <1>2, <1>3, <1>5, <1>6 DEF SameView
  <1>8. DirectoryInv(disk) /\ Below(db.files, db.next) /\ db.next \in Nat
    BY DEF ReadsInv, NumbersInv
  <1> HIDE DEF kept, new
  <1>9. /\ DirectoryInv(disk')
        /\ DOMAIN disk'.tabs \subseteq DOMAIN disk.tabs
        /\ \A n \in Numbers(kept \cup new) \cup Numbers(rd.files) :
             (n \in DOMAIN disk'.tabs <=> n \in DOMAIN disk.tabs)
             /\ (n \in DOMAIN disk.tabs => disk'.tabs[n] = disk.tabs[n])
        /\ DOMAIN disk'.mans \subseteq DOMAIN disk.mans
        /\ \A m \in DOMAIN disk'.mans : disk'.mans[m] = disk.mans[m]
    <2>1. /\ DirectoryInv(disk')
          /\ DOMAIN disk'.tabs \subseteq DOMAIN disk.tabs
          /\ \A n \in Numbers(e.files) \cup Numbers(rd.files) \cup Numbers({}) :
               (n \in DOMAIN disk'.tabs <=> n \in DOMAIN disk.tabs)
               /\ (n \in DOMAIN disk.tabs => disk'.tabs[n] = disk.tabs[n])
          /\ DOMAIN disk'.mans \subseteq DOMAIN disk.mans
          /\ \A m \in DOMAIN disk'.mans : disk'.mans[m] = disk.mans[m]
      BY <1>4, <1>8, WhatIsLeft
    <2>2. e.files = kept \cup new
      BY <1>7
    <2> QED
      BY <2>1, <2>2
  <1>10. /\ TabsIn(disk'.tabs, kept \cup new) = TabsIn(disk.tabs, kept \cup new)
         /\ TabsIn(disk'.tabs, rd.files) = TabsIn(disk.tabs, rd.files)
    BY <1>9, SameTabs
  <1>11. TabsIn(disk.tabs, kept \cup new) = TabsIn(disk.tabs, db.files)
    <2>1. TabsIn(disk.tabs, new) = TabsIn(disk.tabs, bg.ins)
      <3>1. Numbers(new) = {bg.out}
        BY DEF Numbers, new
      <3> QED
        BY <1>1, <3>1 DEF TabsIn
    <2>2. Numbers(db.files) = Numbers(kept) \cup Numbers(bg.ins)
      BY <1>1 DEF Numbers, kept
    <2>3. TabsIn(disk.tabs, db.files) = TabsIn(disk.tabs, kept) \cup TabsIn(disk.tabs, bg.ins)
      BY <2>2 DEF TabsIn
    <2> QED
      BY <2>1, <2>3, TabsOfBoth
  <1>12. Below(kept \cup new, db.next)
    BY <1>1, <1>8 DEF Below, kept, new
  <1>13. NumbersInv'
    <2>1. \A n \in DOMAIN disk'.tabs : n \in Nat /\ n < db.next
      BY <1>1, <1>9 DEF ReadsInv, NumbersInv
    <2>2. db.man \in DOMAIN disk'.mans =>
            \A i \in 1 .. Len(disk'.mans[db.man].edits) : Below(disk'.mans[db.man].edits[i].add, db.next)
      BY <1>1, <1>9 DEF ReadsInv, NumbersInv
    <2> QED
      BY <1>7, <1>12, <2>1, <2>2 DEF ReadsInv, NumbersInv
  <1>14. MemtablesInv'
    BY <1>1, <1>7 DEF ReadsInv, MemtablesInv
  <1>15. JobInv' /\ GroupsInv'
    BY <1>6, <1>7, NoJob, QuietGroups
  <1>16. ReaderInv'
    <2>1. Seen' = Seen /\ Pinned' = Pinned
      BY <1>7, <1>10, <1>11 DEF Seen, Pinned, ContentOf
    <2> QED
      BY <1>7, <2>1 DEF ReadsInv, ReaderInv
  <1> QED
    BY <1>9, <1>13, <1>14, <1>15, <1>16 DEF ReadsInv

LEMMA BackgroundReads ==
  ASSUME DBInv, ReadsInv, Background PROVE ReadsInv'
  <1>1. CASE FailCompaction
    <2>1. bg.pc # "idle" /\ Cleanup([db EXCEPT !.err = TRUE]) /\ UNCHANGED <<memtab, rd>>
      BY <1>1 DEF FailCompaction
    <2> QED
      BY <2>1, FailedCompactionReads
  <1>2. CASE InstallCompaction
    <2>1. /\ bg.pc = "install" /\ bg.ret = "cleanup" /\ UNCHANGED <<memtab, rd>>
          /\ Cleanup(IF bg.ok THEN Installed(db) ELSE [db EXCEPT !.err = TRUE])
      BY <1>2 DEF InstallCompaction
    <2>2. CASE bg.ok
      BY <2>1, <2>2, InstalledCompactionReads
    <2>3. CASE ~bg.ok
      BY <2>1, <2>3, FailedCompactionReads
    <2> QED
      BY <2>2, <2>3
  <1> QED
    BY <1>1, <1>2, QuietBackground, CompactMemTableReads, ApplyMemTableReads, InstallMemTableReads,
       OpenOutputReads, FinishCompactionReads DEF Background

-----------------------------------------------------------------------------
(* Readers *)

\* At the beginning a reader sees what there is.
LEMMA ReadBeginReads ==
  ASSUME DBInv, ReadsInv, ReadBegin PROVE ReadsInv'
  <1>1. /\ db.phase = "open" /\ UNCHANGED <<disk, db, memtab, wr, bg>>
        /\ rd' = [on |-> TRUE, snap |-> db.last, files |-> db.files, mems |-> {db.mem, db.imm} \ {0}]
    BY DEF ReadBegin
  <1>2. /\ rd'.on /\ rd'.snap = db.last /\ rd'.files = db.files /\ rd'.mems = {db.mem, db.imm} \ {0}
    BY <1>1
  <1>3. /\ DOMAIN memtab \subseteq 1 .. db.next - 1 /\ db.mem \in DOMAIN memtab
        /\ db.imm \in DOMAIN memtab \cup {0} /\ 0 \notin DOMAIN memtab
    BY <1>1 DEF ReadsInv, MemtablesInv
  <1>4. rd'.mems = DOMAIN memtab \cap {db.mem, db.imm}
    BY <1>2, <1>3
  <1>5. DirectoryInv(disk') /\ MemtablesInv' /\ GroupsInv'
    BY <1>1 DEF ReadsInv, MemtablesInv, GroupsInv
  <1>6. NumbersInv'
    BY <1>1, <1>2 DEF ReadsInv, NumbersInv
  <1>7. JobInv'
    BY <1>1, <1>2 DEF ReadsInv, JobInv, Compacting, HasOutput, Flushing
  <1>8. ReaderInv'
    <2>1. Seen' = Pinned'
      BY <1>1, <1>2, <1>4 DEF Seen, Pinned, ContentOf
    <2>2. db.last \in Nat /\ db.last <= db.last
      BY DEF ReadsInv, NumbersInv
    <2> QED
      BY <1>1, <1>2, <1>4, <2>1, <2>2 DEF ReaderInv
  <1> QED
    BY <1>5, <1>6, <1>7, <1>8 DEF ReadsInv

LEMMA ReadEndReads ==
  ASSUME DBInv, ReadsInv, ReadEnd PROVE ReadsInv'
  <1>1. /\ rd.on /\ rd' = NoReader /\ UNCHANGED <<disk, db, wr, bg>>
        /\ memtab' = Without(memtab, DOMAIN memtab \ {db.mem, db.imm})
    BY DEF ReadEnd
  <1>2. ~rd'.on /\ rd'.files = {}
    BY <1>1 DEF NoReader
  <1>3. db.phase = "open"
    BY <1>1 DEF ReadsInv, NumbersInv, NoReader
  <1>4. /\ DOMAIN memtab' = DOMAIN memtab \cap {db.mem, db.imm}
        /\ \A m \in DOMAIN memtab' : memtab'[m] = memtab[m]
    BY <1>1 DEF Without, Restrict
  <1>5. DirectoryInv(disk') /\ GroupsInv'
    BY <1>1 DEF ReadsInv, GroupsInv
  <1>6. NumbersInv'
    <2>1. Below({}, db.next)
      BY DEF Below
    <2> QED
      BY <1>1, <1>2, <1>3, <2>1 DEF ReadsInv, NumbersInv
  <1>7. MemtablesInv'
    BY <1>1, <1>3, <1>4 DEF ReadsInv, MemtablesInv
  <1>8. JobInv'
    <2>1. Flushing => memtab'[db.imm] = memtab[db.imm]
      BY <1>3, <1>4 DEF ReadsInv, JobInv, MemtablesInv
    <2>2. Numbers({}) = {}
      BY DEF Numbers
    <2> QED
      BY <1>1, <1>2, <2>1, <2>2 DEF ReadsInv, JobInv, Compacting, HasOutput, Flushing
  <1>9. ReaderInv'
    BY <1>1, <1>2 DEF ReaderInv
  <1> QED
    BY <1>5, <1>6, <1>7, <1>8, <1>9 DEF ReadsInv

LEMMA CloseBeginReads ==
  ASSUME DBInv, ReadsInv, CloseBegin PROVE ReadsInv'
  <1>1. /\ db.phase = "open" /\ UNCHANGED <<disk, memtab, wr, bg, rd>>
        /\ db' = [db EXCEPT !.shut = TRUE]
    BY DEF CloseBegin
  <1>2. SameView(db', db)
    BY <1>1, DatabaseFields DEF SameView, DBInv, FieldsInv
  <1>3. JobInv' /\ GroupsInv'
    BY <1>1, <1>2, SameJob, QuietGroups DEF SameView, ReadsInv
  <1> QED
    BY <1>1, <1>2, <1>3, Unmoved

-----------------------------------------------------------------------------
(* The end of the process, and DB::Open *)

\* Whatever the process knew is gone.
LEMMA ForgottenReads ==
  ASSUME LoseMemory, DirectoryInv(disk') PROVE ReadsInv'
  <1>1. /\ db' = Closed /\ memtab' = <<>> /\ bg' = NoWork /\ rd' = NoReader
        /\ \A w \in Writers : wr'[w] = Idle
    BY DEF LoseMemory
  <1>2. /\ db'.phase = "closed" /\ db'.next = 2 /\ db'.last = 0 /\ db'.max = 0 /\ db'.todo = {}
        /\ db'.files = {} /\ db'.pend = {} /\ db'.err = FALSE /\ db'.imm = 0
        /\ rd'.files = {} /\ rd'.on = FALSE /\ Idle.pc = "idle"
    BY <1>1 DEF Closed, NoReader, Idle
  <1>3. NumbersInv'
    <2>1. Below({}, 2)
      BY DEF Below
    <2> QED
      BY <1>1, <1>2, <2>1 DEF NumbersInv
  <1>4. MemtablesInv' /\ GroupsInv' /\ ReaderInv'
    BY <1>1, <1>2 DEF MemtablesInv, GroupsInv, ReaderInv
  <1>5. JobInv'
    BY <1>1, NoJob
  <1> QED
    BY <1>3, <1>4, <1>5 DEF ReadsInv

LEMMA PowerLossReads ==
  ASSUME DBInv, ReadsInv, PowerLoss PROVE ReadsInv'
  <1>1. PICK keep \in [DOMAIN disk.logs -> BOOLEAN], kept \in [DOMAIN disk.mans -> BOOLEAN] :
         disk' = [disk EXCEPT
           !.logs = [n \in DOMAIN @ |-> IF keep[n] THEN @[n] ELSE Cut(@[n])],
           !.mans = [n \in DOMAIN @ |-> IF kept[n] THEN @[n] ELSE CutManifest(@[n])]]
    BY DEF PowerLoss
  <1>2. DiskInv(disk) /\ DirectoryInv(disk) /\ LoseMemory
    BY DEF DBInv, VersionsInv, ReadsInv, PowerLoss
  <1>3. /\ disk'.logs = [n \in DOMAIN disk.logs |-> IF keep[n] THEN disk.logs[n] ELSE Cut(disk.logs[n])]
        /\ disk'.mans = [n \in DOMAIN disk.mans |-> IF kept[n] THEN disk.mans[n]
                                                   ELSE CutManifest(disk.mans[n])]
    BY <1>1, <1>2 DEF DiskInv
  <1>4. ASSUME NEW l \in DOMAIN disk'.logs PROVE l \in Nat /\ LogFile(disk'.logs[l])
    <2>1. l \in DOMAIN disk.logs
      BY <1>3
    <2>2. l \in Nat /\ LogFile(disk.logs[l])
      BY <1>2, <2>1 DEF DirectoryInv
    <2>3. LogFile(Cut(disk.logs[l]))
      BY <2>2, FrontOfLog
    <2> QED
      BY <1>3, <2>1, <2>2, <2>3
  <1>5. ASSUME NEW n \in DOMAIN disk'.mans PROVE Numbered(disk'.mans[n].edits)
    <2> DEFINE m == disk.mans[n]
               front == SubSeq(m.edits, 1, m.synced)
    <2>1. n \in DOMAIN disk.mans
      BY <1>3
    <2>2. DOMAIN m = {"edits", "synced"} /\ FiniteEdits(m.edits) /\ m.synced \in 0 .. Len(m.edits)
          /\ Numbered(m.edits)
      BY <1>2, <2>1 DEF DiskInv, Manifest, DirectoryInv
    <2>3. Numbered(front)
      BY <2>2, FrontNumbered
    <2>4. CutManifest(m) = [m EXCEPT !.edits = front]
      BY DEF CutManifest
    <2> HIDE DEF front
    <2>5. disk'.mans[n] = IF kept[n] THEN m ELSE CutManifest(m)
      BY <1>3, <2>1
    <2> HIDE DEF m
    <2>6. CutManifest(m).edits = front
      BY <2>2, <2>4
    <2> QED
      BY <2>2, <2>3, <2>5, <2>6
  <1>6. DirectoryInv(disk')
    BY <1>4, <1>5 DEF DirectoryInv
  <1> QED
    BY <1>2, <1>6, ForgottenReads

LEMMA EndReads ==
  ASSUME DBInv, ReadsInv, CloseEnd \/ Crash \/ PowerLoss \/ OpenFails PROVE ReadsInv'
  <1>1. DiskInv(disk) /\ DirectoryInv(disk)
    BY DEF DBInv, VersionsInv, ReadsInv
  <1>2. CASE CloseEnd \/ Crash
    BY <1>1, <1>2, ForgottenReads DEF CloseEnd, Crash
  <1>3. CASE OpenFails
    <2>1. LoseMemory
          /\ disk' = IF db.phase = "current" THEN [disk EXCEPT !.mans = Without(@, {db.man})] ELSE disk
      BY <1>3 DEF OpenFails
    <2>2. DirectoryInv(disk')
      <3>1. CASE db.phase = "current"
        <4>1. disk'.logs = disk.logs /\ disk'.mans = Without(disk.mans, {db.man})
          BY <1>1, <2>1, <3>1 DEF DiskInv
        <4> QED
          BY <1>1, <4>1 DEF DirectoryInv, Without, Restrict
      <3>2. CASE db.phase # "current"
        BY <1>1, <2>1, <3>2
      <3> QED
        BY <3>1, <3>2
    <2> QED
      BY <2>1, <2>2, ForgottenReads
  <1> QED
    BY <1>2, <1>3, PowerLossReads

\* While the database is being opened nobody reads and nothing is flushed.
LEMMA StillOpening ==
  ASSUME DBInv, ReadsInv, UNCHANGED <<wr, bg, rd>>, db.phase # "open", DirectoryInv(disk'),
         db'.phase # "open", db'.next \in Nat, db'.next > 0, db'.last \in Nat, db'.max \in Nat,
         db'.phase = "replay" => db'.todo \subseteq DOMAIN disk'.logs, Below(db'.files, db'.next),
         db'.pend = {}, ~db'.err, db'.imm = 0,
         db'.phase \in {"current", "clean"} /\ db'.man \in DOMAIN disk'.mans =>
           \A i \in 1 .. Len(disk'.mans[db'.man].edits) : Below(disk'.mans[db'.man].edits[i].add, db'.next),
         db'.phase \in {"save", "current", "clean"} =>
           /\ DOMAIN memtab' \subseteq 1 .. db'.next - 1
           /\ db'.mem \in DOMAIN memtab' /\ db'.mem # 0
  PROVE  ReadsInv'
  <1>1. bg.pc = "idle" /\ writers = <<>> /\ rd = NoReader
    BY DEF DBInv, CallsInv, ReadsInv, NumbersInv
  <1>2. \A w \in Writers : wr[w].pc = "idle"
    BY <1>1, NobodyWaitsWhenEmpty DEF DBInv
  <1>3. rd'.files = {} /\ ~rd'.on /\ rd' = NoReader
    BY <1>1 DEF NoReader
  <1>4. NumbersInv'
    <2>1. Below({}, db'.next)
      BY DEF Below
    <2> QED
      BY <1>3, <2>1 DEF NumbersInv
  <1>5. MemtablesInv' /\ ReaderInv'
    BY <1>3 DEF MemtablesInv, ReaderInv
  <1>6. JobInv' /\ GroupsInv'
    BY <1>1, <1>2 DEF JobInv, Compacting, HasOutput, Flushing, GroupsInv
  <1> QED
    BY <1>4, <1>5, <1>6 DEF ReadsInv

LEMMA NewDBReads ==
  ASSUME DBInv, ReadsInv, NewDB PROVE ReadsInv'
  <1> DEFINE edit == [add |-> {}, del |-> {}, log |-> 0, next |-> 2, last |-> 0]
             edits == <<edit>>
             m == [synced |-> 0, edits |-> edits]
  <1>1. /\ db.phase = "closed" /\ UNCHANGED <<db, memtab, wr, bg, rd>>
        /\ disk' = [disk EXCEPT !.cur = 1, !.mans = With(@, 1, m)]
    BY DEF NewDB
  <1>2. Numbered(edits)
    <2>1. edit.next = 2 /\ edit.last = 0 /\ edit.add = {}
      OBVIOUS
    <2> HIDE DEF edit
    <2>2. Below(edit.add, edit.next)
      BY <2>1 DEF Below
    <2> QED
      BY <2>1, <2>2, OneEdit
  <1>3. m.edits = edits
    OBVIOUS
  <1> HIDE DEF m, edits
  <1>4. disk'.logs = disk.logs /\ disk'.mans = With(disk.mans, 1, m)
    BY <1>1 DEF DBInv, VersionsInv, DiskInv
  <1>5. DirectoryInv(disk')
    BY <1>2, <1>3, <1>4, NewNumberedManifest DEF ReadsInv
  <1> QED
    BY <1>1, <1>5, StillOpening DEF ReadsInv, NumbersInv

\* The last edit knows a number above those of all files.
LEMMA RecoverReads ==
  ASSUME DBInv, ReadsInv, Recover PROVE ReadsInv'
  <1> DEFINE edits == disk.mans[disk.cur].edits
             v == ReadManifest(disk.cur)
             n == Len(edits)
  <1>1. /\ db.phase = "closed" /\ Recoverable /\ UNCHANGED <<disk, wr, bg, rd>>
        /\ db' = [Closed EXCEPT !.phase = "replay", !.files = v.files, !.vlog = v.log,
                !.man = v.next, !.next = v.next + 1, !.last = v.last, !.todo = LogsToReplay(v)]
        /\ memtab' = With(memtab, 0, {})
    BY DEF Recover
  <1>2. v.files = SaveTo(edits) /\ v.next = Last(edits).next /\ v.last = Last(edits).last
    BY DEF ReadManifest
  <1>3. FiniteEdits(edits) /\ Numbered(edits) /\ edits # <<>> /\ DirectoryInv(disk)
    BY <1>1 DEF Recoverable, DBInv, VersionsInv, DiskInv, Manifest, ReadsInv, DirectoryInv
  <1> HIDE DEF edits
  <1>4. PICK S : edits \in Seq(S)
    BY <1>3 DEF FiniteEdits
  <1>5. n \in Nat /\ n > 0 /\ DOMAIN edits = 1 .. n /\ Last(edits) = edits[n]
    <2>1. n \in Nat /\ DOMAIN edits = 1 .. n /\ n # 0
      BY <1>3, <1>4, LenProperties, EmptySeq
    <2>2. Last(edits) = edits[n]
      BY DEF Last
    <2> QED
      BY <2>1, <2>2
  <1>6. n \in 1 .. n /\ \A i \in 1 .. n : n \in i .. n
    BY <1>5
  <1>7. v.next \in Nat /\ v.last \in Nat
    BY <1>2, <1>3, <1>5, <1>6 DEF Numbered
  <1>8. Below(v.files, v.next)
    <2> SUFFICES ASSUME NEW f \in v.files PROVE f[1] \in Nat /\ f[1] < v.next
      BY DEF Below
    <2>1. PICK i \in 1 .. n : f \in edits[i].add
      BY <1>2, <1>5 DEF SaveTo
    <2>2. Below(edits[i].add, edits[n].next)
      BY <1>3, <1>6 DEF Numbered
    <2> QED
      BY <1>2, <1>5, <2>1, <2>2 DEF Below
  <1>9. LogsToReplay(v) \subseteq DOMAIN disk.logs
    BY DEF LogsToReplay, LogsFrom
  <1> HIDE DEF v, n
  <1>10. /\ db'.phase = "replay" /\ db'.files = v.files /\ db'.next = v.next + 1 /\ db'.last = v.last
         /\ db'.todo = LogsToReplay(v) /\ db'.max = 0 /\ db'.pend = {} /\ db'.err = FALSE /\ db'.imm = 0
    BY <1>1 DEF Closed
  <1>11. Below(db'.files, db'.next) /\ db'.next \in Nat /\ db'.next > 0
    BY <1>7, <1>8, <1>10 DEF Below
  <1> QED
    BY <1>1, <1>3, <1>7, <1>9, <1>10, <1>11, StillOpening

LEMMA RecoverLogFileReads ==
  ASSUME DBInv, ReadsInv, RecoverLogFile PROVE ReadsInv'
  <1>1. db.phase = "replay" /\ UNCHANGED <<memtab, wr, bg, rd>>
    BY DEF RecoverLogFile
  <1>2. PICK l \in db.todo : \E es \in {Safe(l), UNION {r.es : r \in ToSet(disk.logs[l].recs)}} :
          /\ disk' = BuildTable(disk, db.next, es, TRUE)
          /\ db' = [db EXCEPT !.todo = @ \ {l},
                      !.next = Max({l + 1, db.next + (IF es = {} THEN 0 ELSE 1)}),
                      !.files = IF es = {} THEN @ ELSE @ \cup {<<db.next, 0>>},
                      !.max = Max({@} \cup {Seqno(e) : e \in es})]
    BY DEF RecoverLogFile
  <1>3. PICK es \in {Safe(l), UNION {r.es : r \in ToSet(disk.logs[l].recs)}} :
          /\ disk' = BuildTable(disk, db.next, es, TRUE)
          /\ db' = [db EXCEPT !.todo = @ \ {l},
                      !.next = Max({l + 1, db.next + (IF es = {} THEN 0 ELSE 1)}),
                      !.files = IF es = {} THEN @ ELSE @ \cup {<<db.next, 0>>},
                      !.max = Max({@} \cup {Seqno(e) : e \in es})]
    BY <1>2
  <1> DEFINE k == db.next + (IF es = {} THEN 0 ELSE 1)
             n == Max({l + 1, k})
             top == Max({db.max} \cup {Seqno(e) : e \in es})
  <1>4. /\ db.next \in Nat /\ db.next > 0 /\ db.last \in Nat /\ db.max \in Nat
        /\ db.todo \subseteq DOMAIN disk.logs
        /\ Below(db.files, db.next) /\ db.pend = {} /\ ~db.err /\ db.imm = 0 /\ DirectoryInv(disk)
    BY <1>1 DEF ReadsInv, NumbersInv
  <1>5. l \in Nat /\ LogFile(disk.logs[l])
    BY <1>4 DEF DirectoryInv
  <1>6. Entries(es)
    <2> DEFINE recs == disk.logs[l].recs
               safe == {x \in ToSet(recs) : x.safe}
    <2>1. Entries(UNION {r.es : r \in safe}) /\ Entries(UNION {r.es : r \in ToSet(recs)})
      BY <1>5, EntriesOfLog
    <2>2. Safe(l) = UNION {r.es : r \in safe}
      BY DEF Safe
    <2> HIDE DEF safe
    <2> QED
      BY <2>1, <2>2
  <1>7. top \in Nat
    BY <1>4, <1>6, MaxSeqno
  <1>8. k \in Nat /\ k >= db.next /\ (es # {} => k > db.next)
    BY <1>4
  <1> HIDE DEF k
  <1>9. n \in Nat /\ n >= k /\ n >= l + 1
    <2>1. l + 1 \in Nat
      BY <1>5
    <2> QED
      BY <1>8, <2>1, MaxOfTwo
  <1> HIDE DEF n, top
  <1>10. /\ db'.phase = "replay" /\ db'.last = db.last /\ db'.pend = db.pend /\ db'.err = db.err
         /\ db'.imm = db.imm /\ db'.next = n /\ db'.max = top /\ db'.todo = db.todo \ {l}
         /\ db'.files = IF es = {} THEN db.files ELSE db.files \cup {<<db.next, 0>>}
    <2>1. db' = [db EXCEPT !.todo = @ \ {l}, !.next = n,
                           !.files = IF es = {} THEN @ ELSE @ \cup {<<db.next, 0>>},
                           !.max = top]
      BY <1>3 DEF n, k, top
    <2> QED
      BY <1>1, <2>1, DatabaseFields DEF DBInv, FieldsInv
  <1>11. disk'.logs = disk.logs /\ disk'.mans = disk.mans
    BY <1>3 DEF BuildTable, DBInv, VersionsInv, DiskInv
  <1>12. DirectoryInv(disk')
    BY <1>4, <1>11, SameDirectory
  <1>13. n > 0 /\ Below(db'.files, n)
    <2>1. Below(db.files, n) /\ n > 0
      BY <1>4, <1>8, <1>9 DEF Below
    <2>2. es # {} => db.next < n
      BY <1>4, <1>8, <1>9
    <2> QED
      BY <1>4, <1>10, <2>1, <2>2 DEF Below
  <1>14. db'.todo \subseteq DOMAIN disk'.logs
    BY <1>4, <1>10, <1>11
  <1> QED
    BY <1>1, <1>4, <1>7, <1>9, <1>10, <1>12, <1>13, <1>14, StillOpening

LEMMA OpenLogReads ==
  ASSUME DBInv, ReadsInv, OpenLog PROVE ReadsInv'
  <1> DEFINE n == db.next
  <1>1. /\ db.phase = "replay" /\ UNCHANGED <<wr, bg, rd>>
        /\ disk' = [disk EXCEPT !.logs = With(@, n, [recs |-> <<>>, synced |-> 0, torn |-> FALSE])]
        /\ db' = [db EXCEPT !.phase = "save", !.last = Max({@, db.max}), !.next = @ + 1,
                            !.logno = n, !.mem = n]
        /\ memtab' = [m \in {n} |-> {}]
    BY DEF OpenLog
  <1>2. /\ n \in Nat /\ n > 0 /\ db.last \in Nat /\ db.max \in Nat
        /\ Below(db.files, n) /\ db.pend = {} /\ ~db.err /\ db.imm = 0 /\ DirectoryInv(disk)
    BY <1>1 DEF ReadsInv, NumbersInv
  <1>3. Max({db.last, db.max}) \in Nat
    BY <1>2, MaxOfTwo
  <1>4. /\ db'.phase = "save" /\ db'.last = Max({db.last, db.max}) /\ db'.next = n + 1 /\ db'.mem = n
        /\ db'.files = db.files /\ db'.pend = db.pend /\ db'.err = db.err /\ db'.imm = db.imm
        /\ db'.max = db.max
    BY <1>1, DatabaseFields DEF DBInv, FieldsInv
  <1>5. /\ disk'.mans = disk.mans
        /\ disk'.logs = With(disk.logs, n, [recs |-> <<>>, synced |-> 0, torn |-> FALSE])
    BY <1>1 DEF DBInv, VersionsInv, DiskInv
  <1> HIDE DEF n
  <1>6. DirectoryInv(disk')
    BY <1>2, <1>5, NewLog
  <1>7. n + 1 \in Nat /\ n + 1 > 0 /\ Below(db.files, n + 1) /\ n \in 1 .. (n + 1) - 1 /\ n # 0
    BY <1>2 DEF Below
  <1>8. DOMAIN memtab' = {n}
    BY <1>1
  <1> QED
    BY <1>1, <1>2, <1>3, <1>4, <1>6, <1>7, <1>8, StillOpening

\* The snapshot in the new manifest names no file that is yet to come.
LEMMA OpenManifestReads ==
  ASSUME DBInv, ReadsInv, OpenManifest PROVE ReadsInv'
  <1> DEFINE edit == Edit(db, db.files, {}, db.logno)
             edits == <<edit>>
             m == [synced |-> 1, edits |-> edits]
  <1>1. /\ db.phase = "save" /\ UNCHANGED <<memtab, wr, bg, rd>>
        /\ disk' = [disk EXCEPT !.mans = With(@, db.man, m)]
        /\ db' = [db EXCEPT !.phase = "current"]
    BY DEF OpenManifest
  <1>2. /\ db.next \in Nat /\ db.next > 0 /\ db.last \in Nat /\ db.max \in Nat
        /\ Below(db.files, db.next) /\ db.pend = {} /\ ~db.err /\ db.imm = 0 /\ DirectoryInv(disk)
    BY <1>1 DEF ReadsInv, NumbersInv
  <1>3. edit.add = db.files /\ edit.next = db.next /\ edit.last = db.last
    BY DEF Edit
  <1>4. Len(edits) = 1 /\ edits[1] = edit /\ m.edits = edits
    OBVIOUS
  <1> HIDE DEF edit
  <1>5. Numbered(edits)
    BY <1>2, <1>3, OneEdit
  <1> HIDE DEF edits, m
  <1>6. /\ db'.phase = "current" /\ db'.mem = db.mem /\ db'.imm = db.imm /\ db'.files = db.files
        /\ db'.next = db.next /\ db'.last = db.last /\ db'.man = db.man /\ db'.max = db.max
        /\ db'.pend = db.pend /\ db'.err = db.err
    BY <1>1, DatabaseFields DEF DBInv, FieldsInv
  <1>7. disk'.logs = disk.logs /\ disk'.mans = With(disk.mans, db.man, m)
    BY <1>1 DEF DBInv, VersionsInv, DiskInv
  <1>8. DirectoryInv(disk')
    BY <1>2, <1>4, <1>5, <1>7, NewNumberedManifest
  <1>9. \A i \in 1 .. Len(disk'.mans[db.man].edits) : Below(disk'.mans[db.man].edits[i].add, db.next)
    <2>1. disk'.mans[db.man] = m
      BY <1>7 DEF With
    <2>2. \A i \in 1 .. Len(edits) : edits[i] = edit
      BY <1>4
    <2> QED
      BY <1>2, <1>3, <1>4, <2>1, <2>2
  <1>10. DOMAIN memtab \subseteq 1 .. db.next - 1 /\ db.mem \in DOMAIN memtab /\ db.mem # 0
    BY <1>1, <1>2 DEF ReadsInv, MemtablesInv
  <1> QED
    BY <1>1, <1>2, <1>6, <1>8, <1>9, <1>10, StillOpening

LEMMA OpenCurrentReads ==
  ASSUME DBInv, ReadsInv, OpenCurrent PROVE ReadsInv'
  <1>1. /\ db.phase = "current" /\ UNCHANGED <<memtab, wr, bg, rd>>
        /\ disk' = [disk EXCEPT !.cur = db.man]
        /\ db' = [db EXCEPT !.phase = "clean", !.vlog = db.logno]
    BY DEF OpenCurrent
  <1>2. /\ db.next \in Nat /\ db.next > 0 /\ db.last \in Nat /\ db.max \in Nat
        /\ Below(db.files, db.next) /\ db.pend = {} /\ ~db.err /\ db.imm = 0 /\ DirectoryInv(disk)
    BY <1>1 DEF ReadsInv, NumbersInv
  <1>3. /\ db'.phase = "clean" /\ db'.mem = db.mem /\ db'.imm = db.imm /\ db'.files = db.files
        /\ db'.next = db.next /\ db'.last = db.last /\ db'.man = db.man /\ db'.max = db.max
        /\ db'.pend = db.pend /\ db'.err = db.err
    BY <1>1, DatabaseFields DEF DBInv, FieldsInv
  <1>4. disk'.logs = disk.logs /\ disk'.mans = disk.mans
    BY <1>1 DEF DBInv, VersionsInv, DiskInv
  <1>5. DirectoryInv(disk')
    BY <1>2, <1>4, SameDirectory
  <1>6. db.man \in DOMAIN disk'.mans =>
          \A i \in 1 .. Len(disk'.mans[db.man].edits) : Below(disk'.mans[db.man].edits[i].add, db.next)
    BY <1>1, <1>4 DEF ReadsInv, NumbersInv
  <1>7. DOMAIN memtab \subseteq 1 .. db.next - 1 /\ db.mem \in DOMAIN memtab /\ db.mem # 0
    BY <1>1, <1>2 DEF ReadsInv, MemtablesInv
  <1> QED
    BY <1>1, <1>2, <1>3, <1>5, <1>6, <1>7, StillOpening

\* From here on there is no table with a number to come.
LEMMA OpenCleanReads ==
  ASSUME DBInv, ReadsInv, OpenClean PROVE ReadsInv'
  <1> DEFINE d == [db EXCEPT !.phase = "open"]
  <1>1. /\ db.phase = "clean" /\ UNCHANGED <<memtab, wr, bg, rd>>
        /\ DeleteObsoleteFiles(db, {}) /\ db' = MaybeSchedule(d)
    BY DEF OpenClean
  <1>2. /\ db.next \in Nat /\ db.next > 0 /\ db.last \in Nat /\ db.max \in Nat /\ rd = NoReader
        /\ Below(db.files, db.next) /\ db.pend = {} /\ ~db.err /\ db.imm = 0 /\ DirectoryInv(disk)
    BY <1>1 DEF ReadsInv, NumbersInv
  <1>3. /\ DOMAIN d = DOMAIN Closed /\ d.phase = "open" /\ d.mem = db.mem /\ d.imm = db.imm
        /\ d.files = db.files /\ d.next = db.next /\ d.last = db.last /\ d.man = db.man
        /\ d.max = db.max /\ d.todo = db.todo
    BY DatabaseFields DEF DBInv, FieldsInv
  <1> HIDE DEF d
  <1>4. /\ db'.phase = "open" /\ db'.mem = db.mem /\ db'.imm = db.imm /\ db'.files = db.files
        /\ db'.next = db.next /\ db'.last = db.last /\ db'.man = db.man /\ db'.max = db.max
    BY <1>1, <1>3, OnlySchedules DEF SameView
  <1>5. /\ DirectoryInv(disk')
        /\ DOMAIN disk'.tabs \subseteq AddLiveFiles(db, {}) \cup db.pend
        /\ DOMAIN disk'.mans \subseteq DOMAIN disk.mans
        /\ \A m \in DOMAIN disk'.mans : disk'.mans[m] = disk.mans[m]
    BY <1>1, <1>2, WhatIsLeft
  <1>6. bg.pc = "idle" /\ writers = <<>>
    BY <1>1 DEF DBInv, CallsInv
  <1>7. \A w \in Writers : wr[w].pc = "idle"
    BY <1>6, NobodyWaitsWhenEmpty DEF DBInv
  <1>8. rd'.files = {} /\ ~rd'.on /\ rd' = NoReader
    BY <1>1, <1>2 DEF NoReader
  <1>9. NumbersInv'
    <2>1. \A n \in DOMAIN disk'.tabs : n \in Nat /\ n < db.next
      <3>1. DOMAIN disk'.tabs \subseteq Numbers(db.files)
        BY <1>1, <1>2, <1>5, <1>8 DEF AddLiveFiles, Numbers
      <3> QED
        BY <1>2, <3>1 DEF Below, Numbers
    <2>2. db.man \in DOMAIN disk'.mans =>
            \A i \in 1 .. Len(disk'.mans[db.man].edits) : Below(disk'.mans[db.man].edits[i].add, db.next)
      BY <1>1, <1>5 DEF ReadsInv, NumbersInv
    <2>3. Below({}, db.next)
      BY DEF Below
    <2> QED
      BY <1>2, <1>4, <1>8, <2>1, <2>2, <2>3 DEF NumbersInv
  <1>10. MemtablesInv'
    BY <1>1, <1>4 DEF ReadsInv, MemtablesInv
  <1>11. JobInv' /\ GroupsInv' /\ ReaderInv'
    BY <1>1, <1>6, <1>7, <1>8 DEF JobInv, Compacting, HasOutput, Flushing, GroupsInv, ReaderInv
  <1> QED
    BY <1>5, <1>9, <1>10, <1>11 DEF ReadsInv

-----------------------------------------------------------------------------
LEMMA InitReads == Init => ReadsInv
  <1> SUFFICES ASSUME Init PROVE ReadsInv
    OBVIOUS
  <1>1. /\ DOMAIN disk.logs = {} /\ DOMAIN disk.mans = {}
        /\ db = Closed /\ bg = NoWork /\ rd = NoReader /\ \A w \in Writers : wr[w] = Idle
    BY DEF Init
  <1>2. /\ db.phase = "closed" /\ db.next = 2 /\ db.last = 0 /\ db.max = 0 /\ db.files = {}
        /\ db.pend = {} /\ db.err = FALSE /\ db.imm = 0
        /\ rd.files = {} /\ rd.on = FALSE /\ Idle.pc = "idle" /\ bg.pc = "idle"
    BY <1>1 DEF Closed, NoReader, Idle, NoWork
  <1>3. DirectoryInv(disk)
    BY <1>1 DEF DirectoryInv
  <1>4. NumbersInv
    <2>1. Below({}, 2)
      BY DEF Below
    <2> QED
      BY <1>1, <1>2, <2>1 DEF NumbersInv
  <1>5. MemtablesInv /\ GroupsInv /\ ReaderInv
    BY <1>1, <1>2 DEF MemtablesInv, GroupsInv, ReaderInv
  <1>6. JobInv
    BY <1>2 DEF JobInv, Compacting, HasOutput, Flushing
  <1> QED
    BY <1>3, <1>4, <1>5, <1>6 DEF ReadsInv

LEMMA NothingReads ==
  ASSUME ReadsInv, UNCHANGED vars PROVE ReadsInv'
  <1>1. UNCHANGED <<disk, db, memtab, writers, wr, bg, rd>>
    BY DEF vars
  <1>2. Seen' = Seen /\ Pinned' = Pinned
    BY <1>1 DEF Seen, Pinned
  <1> QED
    BY <1>1, <1>2 DEF ReadsInv, NumbersInv, MemtablesInv, JobInv, Compacting, HasOutput, Flushing,
       GroupsInv, ReaderInv

LEMMA NextReads == DBInv /\ ReadsInv /\ [Next]_vars => ReadsInv'
  <1> SUFFICES ASSUME DBInv, ReadsInv, [Next]_vars PROVE ReadsInv'
    OBVIOUS
  <1>1. CASE \E w \in Writers : Step(w) \/ Write(w, FALSE, TRUE) \/ \E sync \in BOOLEAN : Write(w, sync, FALSE)
    BY <1>1, StepReads, QuietWriter
  <1>2. CASE Background
    BY <1>2, BackgroundReads
  <1>3. CASE ReadBegin \/ ReadEnd \/ CloseBegin
    BY <1>3, ReadBeginReads, ReadEndReads, CloseBeginReads
  <1>4. CASE CloseEnd \/ Crash \/ PowerLoss \/ OpenFails
    BY <1>4, EndReads
  <1>5. CASE Open
    BY <1>5, NewDBReads, RecoverReads, NothingReads, RecoverLogFileReads, OpenLogReads,
       OpenManifestReads, OpenCurrentReads, OpenCleanReads DEF Open, RecoverFails
  <1> QED
    BY <1>1, <1>2, <1>3, <1>4, <1>5, NothingReads DEF Next

LEMMA InvKeepsSnapshots == ReadsInv => ReadsSnapshot
  <1> SUFFICES ASSUME ReadsInv, rd.on
               PROVE  {e \in Content : Seqno(e) <= rd.snap}
                      = {e \in TablesOf(rd.files) \cup UNION {memtab[m] : m \in rd.mems} :
                           Seqno(e) <= rd.snap}
    BY DEF ReadsSnapshot
  <1>1. Content = Seen
    BY SameTables DEF Content, Seen, ContentOf
  <1>2. TablesOf(rd.files) \cup UNION {memtab[m] : m \in rd.mems} = Pinned
    BY SameTables DEF Pinned
  <1>3. \A e : Seqno(e) <= rd.snap => (e \in Seen <=> e \in Pinned)
    BY DEF ReadsInv, ReaderInv
  <1> QED
    BY <1>1, <1>2, <1>3

\* A Get or an iterator finds what was there when it began, however many
\* groups are inserted, memtables and tables replaced and files deleted around
\* it: for any number of writers and any limits, whatever fails or crashes.
THEOREM ReadersKeepTheirSnapshot == Spec => []ReadsSnapshot
  <1>1. Init => DBInv /\ ReadsInv
    BY InitKeeps, InitReads
  <1>2. DBInv /\ ReadsInv /\ [Next]_vars => DBInv' /\ ReadsInv'
    BY NextKeeps, NextReads
  <1>3. ReadsInv => ReadsSnapshot
    BY InvKeepsSnapshots
  <1> QED
    BY <1>1, <1>2, <1>3, PTL DEF Spec
=============================================================================
