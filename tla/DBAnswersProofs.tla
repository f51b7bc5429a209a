-------------------------- MODULE DBAnswersProofs ---------------------------
(***************************************************************************)
(* What Write has answered with OK is kept: AnswersKept.                   *)
(*                                                                         *)
(* On top of the invariants of DBImplProofs, a third one follows an        *)
(* answered entry from the log and the memtable into a table and from one  *)
(* manifest to the next: each point at which the manifest may end after a  *)
(* crash (behind its synced edits a failed LogAndApply may have left more) *)
(* is a recovery that finds it, and all that some recovery could find,     *)
(* answered or not, has numbers of its own, which no later write is given. *)
(***************************************************************************)
EXTENDS DBImplProofs

-----------------------------------------------------------------------------
(* What answers rest on *)

\* The entries of a log, those its reader is sure to find, and those it finds
\* even after the machine stopped.
EntriesOf(log) == UNION {log.recs[i].es : i \in 1 .. Len(log.recs)}
SafeOf(log) == UNION {log.recs[i].es : i \in {j \in 1 .. Len(log.recs) : log.recs[j].safe}}
SyncedOf(log) == UNION {log.recs[i].es : i \in {j \in 1 .. log.synced : log.recs[j].safe}}

\* The same of all logs from a number on.
AllFrom(logs, n) == UNION {EntriesOf(logs[l]) : l \in {x \in DOMAIN logs : x >= n}}
SafeFrom(logs, n) == UNION {SafeOf(logs[l]) : l \in {x \in DOMAIN logs : x >= n}}
SyncedFrom(logs, n) == UNION {SyncedOf(logs[l]) : l \in {x \in DOMAIN logs : x >= n}}

\* The version that the first k edits of a manifest make, and the edits it may
\* end with after a crash.
FilesAt(edits, k) ==
  UNION {{f \in edits[i].add : \A j \in i + 1 .. k : f[1] \notin edits[j].del} : i \in 1 .. k}
After(files, edit) == {f \in files : f[1] \notin edit.del} \cup edit.add
Ends(m) == {k \in 1 .. Len(m.edits) : k >= m.synced}

Man(dk) == dk.mans[dk.cur]
TabsAt(dk, k) == TabsIn(dk.tabs, FilesAt(Man(dk).edits, k))
LogAt(dk, k) == Man(dk).edits[k].log

\* Everything that some recovery could find.
Reach(dk) == UNION {TabsAt(dk, k) \cup AllFrom(dk.logs, LogAt(dk, k)) : k \in Ends(Man(dk))}
Unique(S) == \A a, b \in S : Seqno(a) = Seqno(b) => a = b

\* A recovery from the first k edits finds its files, numbers that are free,
\* the entries A, and, when the logs lose what is not synced, the entries P.
Point(dk, k, A, P) ==
  /\ dk.cur < Man(dk).edits[k].next
  /\ LogAt(dk, k) \in Nat /\ LogAt(dk, k) < Man(dk).edits[k].next
  /\ Numbers(FilesAt(Man(dk).edits, k)) \subseteq DOMAIN dk.tabs
  /\ \A e \in TabsAt(dk, k) : Seqno(e) \in 0 .. Man(dk).edits[k].last
  /\ A \subseteq TabsAt(dk, k) \cup SafeFrom(dk.logs, LogAt(dk, k))
  /\ P \subseteq TabsAt(dk, k) \cup SyncedFrom(dk.logs, LogAt(dk, k))

Kept(dk, A, P) ==
  /\ dk.cur \in Nat /\ DOMAIN dk.mans \subseteq Nat
  /\ dk.cur = 0 => DOMAIN dk.logs = {} /\ A = {}
  /\ dk.cur # 0 =>
       /\ dk.cur \in DOMAIN dk.mans
       /\ A # {} => Man(dk).synced > 0
       /\ \A k \in Ends(Man(dk)) : Point(dk, k, A, P)
       /\ Unique(Reach(dk))

Answered == {a.e : a \in acked}
Promised == {a.e : a \in {x \in acked : x.sync}}
KeptInv == Kept(disk, Answered, Promised)

-----------------------------------------------------------------------------
(* Versions out of a manifest *)

LEMMA SameFilesAt ==
  ASSUME NEW a, NEW b, NEW k \in Nat, \A i \in 1 .. k : a[i] = b[i]
  PROVE  FilesAt(a, k) = FilesAt(b, k)
  <1>1. \A i \in 1 .. k : \A j \in i + 1 .. k : j \in 1 .. k
    OBVIOUS
  <1> QED
    BY <1>1 DEF FilesAt

LEMMA AddedFilesAt ==
  ASSUME NEW edits, NEW k, NEW f \in FilesAt(edits, k)
  PROVE  \E i \in 1 .. k : f \in edits[i].add
  BY DEF FilesAt

LEMMA RecoveredFiles ==
  ASSUME NEW edits, FiniteEdits(edits) PROVE SaveTo(edits) = FilesAt(edits, Len(edits))
  <1>1. PICK S : edits \in Seq(S)
    BY DEF FiniteEdits
  <1>2. DOMAIN edits = 1 .. Len(edits)
    BY <1>1, LenProperties
  <1> QED
    BY <1>2 DEF SaveTo, FilesAt

LEMMA OneEditFiles ==
  ASSUME NEW edit PROVE FilesAt(<<edit>>, 1) = edit.add
  <1> DEFINE edits == <<edit>>
  <1>1. edits[1] = edit
    OBVIOUS
  <1> HIDE DEF edits
  <1>2. \A i \in 1 .. 1 : i = 1 /\ i + 1 .. 1 = {}
    OBVIOUS
  <1>3. 1 \in 1 .. 1
    OBVIOUS
  <1>4. FilesAt(edits, 1) = edit.add
    BY <1>1, <1>2, <1>3 DEF FilesAt
  <1> QED
    BY <1>4 DEF edits

LEMMA FilesAfterEdit ==
  ASSUME NEW edits, FiniteEdits(edits), NEW edit, IsFiniteSet(edit.add)
  PROVE  LET more == Append(edits, edit)
             n == Len(edits)
         IN  /\ n \in Nat /\ Len(more) = n + 1 /\ more[n + 1] = edit
             /\ \A k \in 1 .. n : more[k] = edits[k] /\ FilesAt(more, k) = FilesAt(edits, k)
             /\ FilesAt(more, n + 1) = After(FilesAt(edits, n), edit)
  <1> DEFINE n == Len(edits)
             more == Append(edits, edit)
  <1>1. PICK S : edits \in Seq(S)
    BY DEF FiniteEdits
  <1>2. \A i \in 1 .. n : edits[i] \in S \cup {edit}
    BY <1>1, ElementOfSeq, LenProperties
  <1>3. edits \in Seq(S \cup {edit}) /\ n \in Nat
    BY <1>1, LenProperties
  <1>4. Len(more) = n + 1 /\ more[n + 1] = edit /\ \A i \in 1 .. n : more[i] = edits[i]
    BY <1>3, AppendProperties
  <1> HIDE DEF n, more
  <1>5. \A k \in 1 .. n : FilesAt(more, k) = FilesAt(edits, k)
    <2> TAKE k \in 1 .. n
    <2>1. k \in Nat /\ \A i \in 1 .. k : i \in 1 .. n
      BY <1>3
    <2>2. \A i \in 1 .. k : more[i] = edits[i]
      BY <1>4, <2>1
    <2> QED
      BY <2>1, <2>2, SameFilesAt
  <1>6. FilesAt(more, n + 1) = After(FilesAt(edits, n), edit)
    <2>1. \A i \in 1 .. n : /\ \A j \in i + 1 .. n : j \in 1 .. n /\ j \in i + 1 .. n + 1
                            /\ n + 1 \in i + 1 .. n + 1 /\ i \in 1 .. n + 1
                            /\ \A j \in i + 1 .. n + 1 : j \in i + 1 .. n \/ j = n + 1
      BY <1>3
    <2>2. \A i \in 1 .. n + 1 : i \in 1 .. n \/ i = n + 1
      BY <1>3
    <2>3. n + 1 \in 1 .. n + 1 /\ (n + 1) + 1 .. n + 1 = {}
      BY <1>3
    <2>4. ASSUME NEW f \in FilesAt(more, n + 1) PROVE f \in After(FilesAt(edits, n), edit)
      <3>1. PICK i \in 1 .. n + 1 : f \in more[i].add /\ \A j \in i + 1 .. n + 1 : f[1] \notin more[j].del
        BY DEF FilesAt
      <3>2. CASE i = n + 1
        BY <1>4, <3>1, <3>2 DEF After
      <3>3. CASE i \in 1 .. n
        <4>1. f \in edits[i].add /\ f[1] \notin edit.del /\ \A j \in i + 1 .. n : f[1] \notin edits[j].del
          BY <1>4, <2>1, <3>1, <3>3
        <4>2. f \in FilesAt(edits, n)
          BY <3>3, <4>1 DEF FilesAt
        <4> QED
          BY <4>1, <4>2 DEF After
      <3> QED
        BY <2>2, <3>2, <3>3
    <2>5. ASSUME NEW f \in After(FilesAt(edits, n), edit) PROVE f \in FilesAt(more, n + 1)
      <3>1. CASE f \in edit.add
        <4>1. f \in more[n + 1].add /\ \A j \in (n + 1) + 1 .. n + 1 : f[1] \notin more[j].del
          BY <1>4, <2>3, <3>1
        <4> QED
          BY <2>3, <4>1 DEF FilesAt
      <3>2. CASE f \in FilesAt(edits, n) /\ f[1] \notin edit.del
        <4>1. PICK i \in 1 .. n : f \in edits[i].add /\ \A j \in i + 1 .. n : f[1] \notin edits[j].del
          BY <3>2 DEF FilesAt
        <4>2. f \in more[i].add /\ \A j \in i + 1 .. n + 1 : f[1] \notin more[j].del
          BY <1>4, <2>1, <3>2, <4>1
        <4>3. i \in 1 .. n + 1
          BY <2>1
        <4> QED
          BY <4>2, <4>3 DEF FilesAt
      <3> QED
        BY <3>1, <3>2 DEF After
    <2> QED
      BY <2>4, <2>5
  <1> QED
    BY <1>3, <1>4, <1>5, <1>6 DEF n, more

\* A prefix of a manifest makes the same versions.
LEMMA FilesOfFront ==
  ASSUME NEW edits, FiniteEdits(edits), NEW n \in 0 .. Len(edits)
  PROVE  LET front == SubSeq(edits, 1, n)
         IN  Len(front) = n /\ \A k \in 1 .. n : front[k] = edits[k] /\ FilesAt(front, k) = FilesAt(edits, k)
  <1>1. PICK S : edits \in Seq(S)
    BY DEF FiniteEdits
  <1>2. Len(edits) \in Nat /\ n \in Nat /\ \A i \in 1 .. n : edits[i] \in S
    BY <1>1, LenProperties, ElementOfSeq
  <1> DEFINE front == SubSeq(edits, 1, n)
  <1>3. Len(front) = IF 1 <= n THEN n - 1 + 1 ELSE 0
    BY <1>2, SubSeqProperties
  <1>4. \A i \in 1 .. n - 1 + 1 : front[i] = edits[1 + i - 1]
    BY <1>2, SubSeqProperties
  <1> HIDE DEF front
  <1>5. Len(front) = n /\ \A i \in 1 .. n : front[i] = edits[i]
    BY <1>2, <1>3, <1>4
  <1>6. \A k \in 1 .. n : FilesAt(front, k) = FilesAt(edits, k)
    <2> TAKE k \in 1 .. n
    <2>1. k \in Nat /\ \A i \in 1 .. k : i \in 1 .. n
      BY <1>2
    <2>2. \A i \in 1 .. k : front[i] = edits[i]
      BY <1>5, <2>1
    <2> QED
      BY <2>1, <2>2, SameFilesAt
  <1> QED
    BY <1>5, <1>6 DEF front

-----------------------------------------------------------------------------
(* Logs *)

LEMMA PartsOfLog ==
  ASSUME NEW log, LogFile(log)
  PROVE  /\ SyncedOf(log) \subseteq SafeOf(log) /\ SafeOf(log) \subseteq EntriesOf(log)
         /\ log.synced = Len(log.recs) => SyncedOf(log) = SafeOf(log)
         /\ log.recs = <<>> => EntriesOf(log) = {}
         /\ \A e \in EntriesOf(log) : Seqno(e) \in Nat
  <1>1. Len(log.recs) \in Nat /\ \A i \in 1 .. log.synced : i \in 1 .. Len(log.recs)
    <2>1. Len(log.recs) \in Nat
      BY LenProperties DEF LogFile
    <2>2. log.synced \in 0 .. Len(log.recs)
      BY DEF LogFile
    <2> QED
      BY <2>1, <2>2
  <1>2. SyncedOf(log) \subseteq SafeOf(log)
    BY <1>1 DEF SyncedOf, SafeOf
  <1>3. SafeOf(log) \subseteq EntriesOf(log)
    BY DEF SafeOf, EntriesOf
  <1>4. log.recs = <<>> => EntriesOf(log) = {}
    <2> SUFFICES ASSUME log.recs = <<>> PROVE EntriesOf(log) = {}
      OBVIOUS
    <2>1. Len(log.recs) = 0
      OBVIOUS
    <2>2. 1 .. Len(log.recs) = {}
      BY <2>1
    <2> QED
      BY <2>2 DEF EntriesOf
  <1>5. \A e \in EntriesOf(log) : Seqno(e) \in Nat
    BY DEF EntriesOf, LogFile, Entries
  <1>6. log.synced = Len(log.recs) => SyncedOf(log) = SafeOf(log)
    BY DEF SyncedOf, SafeOf
  <1> QED
    BY <1>2, <1>3, <1>4, <1>5, <1>6

\* What Recover reads.
LEMMA ReadLog ==
  ASSUME NEW n, LogFile(disk.logs[n])
  PROVE  /\ Safe(n) = SafeOf(disk.logs[n])
         /\ UNION {r.es : r \in ToSet(disk.logs[n].recs)} = EntriesOf(disk.logs[n])
  <1> DEFINE recs == disk.logs[n].recs
  <1>1. PICK S : recs \in Seq(S)
    BY DEF LogFile
  <1>2. ToSet(recs) = {recs[i] : i \in 1 .. Len(recs)}
    BY <1>1, LenProperties DEF ToSet
  <1>3. Safe(n) = SafeOf(disk.logs[n])
    <2> DEFINE safe == {x \in ToSet(recs) : x.safe}
    <2>1. \A e : (\E r \in safe : e \in r.es) <=> \E i \in 1 .. Len(recs) : recs[i].safe /\ e \in recs[i].es
      BY <1>2
    <2>2. \A e : e \in Safe(n) <=> \E r \in safe : e \in r.es
      BY DEF Safe
    <2>3. \A e : e \in SafeOf(disk.logs[n]) <=> \E i \in 1 .. Len(recs) : recs[i].safe /\ e \in recs[i].es
      BY DEF SafeOf
    <2> QED
      BY <2>1, <2>2, <2>3
  <1>4. UNION {r.es : r \in ToSet(recs)} = EntriesOf(disk.logs[n])
    BY <1>2 DEF EntriesOf
  <1> QED
    BY <1>3, <1>4

LEMMA LoggedGroup ==
  ASSUME NEW log, LogFile(log), NEW es, NEW b, NEW k, NEW c,
         k = log.synced \/ k = Len(log.recs) + 1
  PROVE  LET new == [recs |-> Append(log.recs, [es |-> es, safe |-> b]), synced |-> k, torn |-> c]
         IN  /\ EntriesOf(new) = EntriesOf(log) \cup es
             /\ SafeOf(log) \subseteq SafeOf(new) /\ SyncedOf(log) \subseteq SyncedOf(new)
             /\ Len(new.recs) = Len(log.recs) + 1 /\ new.synced = k
  <1> DEFINE n == Len(log.recs)
             r == [es |-> es, safe |-> b]
             more == Append(log.recs, r)
             new == [recs |-> more, synced |-> k, torn |-> c]
  <1>1. PICK S : log.recs \in Seq(S)
    BY DEF LogFile
  <1>2. \A i \in 1 .. n : log.recs[i] \in S \cup {r}
    BY <1>1, ElementOfSeq, LenProperties
  <1>3. log.recs \in Seq(S \cup {r}) /\ n \in Nat
    BY <1>1, LenProperties
  <1>4. Len(more) = n + 1 /\ more[n + 1] = r /\ \A i \in 1 .. n : more[i] = log.recs[i]
    BY <1>3, AppendProperties
  <1>5. r.es = es /\ new.recs = more /\ new.synced = k
    OBVIOUS
  <1>6. log.synced \in 0 .. n
    BY DEF LogFile
  <1> HIDE DEF n, more, r, new
  <1>7. \A i \in 1 .. n + 1 : i \in 1 .. n \/ i = n + 1
    BY <1>3
  <1>8. (\A i \in 1 .. n : i \in 1 .. n + 1) /\ n + 1 \in 1 .. n + 1
        /\ \A i \in 1 .. log.synced : i \in 1 .. n /\ i \in 1 .. k
    BY <1>3, <1>6 DEF n
  <1>9. EntriesOf(new) = EntriesOf(log) \cup es
    <2>1. \A e : e \in EntriesOf(new) <=> \E i \in 1 .. n + 1 : e \in more[i].es
      BY <1>4, <1>5 DEF EntriesOf
    <2>2. \A e : e \in EntriesOf(log) <=> \E i \in 1 .. n : e \in log.recs[i].es
      BY DEF EntriesOf, n
    <2> QED
      BY <1>4, <1>5, <1>7, <1>8, <2>1, <2>2
  <1>10. SafeOf(log) \subseteq SafeOf(new)
    BY <1>4, <1>5, <1>8 DEF SafeOf, n
  <1>11. SyncedOf(log) \subseteq SyncedOf(new)
    BY <1>4, <1>5, <1>8 DEF SyncedOf
  <1> QED
    BY <1>4, <1>5, <1>9, <1>10, <1>11 DEF n, more, r, new

LEMMA LogIsCut ==
  ASSUME NEW log, LogFile(log)
  PROVE  /\ EntriesOf(Cut(log)) \subseteq EntriesOf(log)
         /\ SyncedOf(log) \subseteq SafeOf(Cut(log)) /\ SyncedOf(log) \subseteq SyncedOf(Cut(log))
  <1> DEFINE k == log.synced
             front == SubSeq(log.recs, 1, k)
  <1>1. PICK S : log.recs \in Seq(S)
    BY DEF LogFile
  <1>2. Len(log.recs) \in Nat /\ k \in Nat /\ k <= Len(log.recs)
        /\ \A i \in 1 .. k : log.recs[i] \in S
    <2>1. k \in 0 .. Len(log.recs)
      BY DEF LogFile
    <2> QED
      BY <1>1, <2>1, LenProperties, ElementOfSeq
  <1>3. Len(front) = IF 1 <= k THEN k - 1 + 1 ELSE 0
    BY <1>2, SubSeqProperties
  <1>4. \A i \in 1 .. k - 1 + 1 : front[i] = log.recs[1 + i - 1]
    BY <1>2, SubSeqProperties
  <1>5. Cut(log) = [log EXCEPT !.recs = front]
    BY DEF Cut
  <1>6. Cut(log).recs = front /\ Cut(log).synced = k
    BY <1>5 DEF LogFile
  <1> HIDE DEF front
  <1>7. Len(front) = k /\ \A i \in 1 .. k : front[i] = log.recs[i] /\ i \in 1 .. Len(log.recs)
    BY <1>2, <1>3, <1>4
  <1>8. EntriesOf(Cut(log)) \subseteq EntriesOf(log)
    BY <1>6, <1>7 DEF EntriesOf
  <1> HIDE DEF k
  <1>9. SyncedOf(log) = SafeOf(Cut(log)) /\ SyncedOf(log) = SyncedOf(Cut(log))
    BY <1>6, <1>7 DEF SyncedOf, SafeOf, k
  <1> QED
    BY <1>8, <1>9

LEMMA MoreLogs ==
  ASSUME NEW a, NEW b, NEW n,
         \A l \in DOMAIN a : l >= n => /\ l \in DOMAIN b
                                       /\ SafeOf(a[l]) \subseteq SafeOf(b[l])
                                       /\ SyncedOf(a[l]) \subseteq SyncedOf(b[l])
  PROVE  SafeFrom(a, n) \subseteq SafeFrom(b, n) /\ SyncedFrom(a, n) \subseteq SyncedFrom(b, n)
  BY DEF SafeFrom, SyncedFrom

LEMMA FewerEntries ==
  ASSUME NEW a, NEW b, NEW n,
         \A l \in DOMAIN a : l >= n => \/ EntriesOf(a[l]) = {}
                                       \/ l \in DOMAIN b /\ EntriesOf(a[l]) \subseteq EntriesOf(b[l])
  PROVE  AllFrom(a, n) \subseteq AllFrom(b, n)
  BY DEF AllFrom

-----------------------------------------------------------------------------
(* Steps on the directory *)

\* Fewer things to find.
LEMMA FewerUnique ==
  ASSUME NEW S, NEW T, Unique(T), S \subseteq T PROVE Unique(S)
  BY DEF Unique

LEMMA SamePoint ==
  ASSUME NEW dk, NEW ek, NEW k, ek.cur = dk.cur, Man(ek).edits[k] = Man(dk).edits[k],
         FilesAt(Man(ek).edits, k) = FilesAt(Man(dk).edits, k),
         Numbers(FilesAt(Man(dk).edits, k)) \subseteq DOMAIN dk.tabs,
         \A n \in Numbers(FilesAt(Man(dk).edits, k)) : n \in DOMAIN ek.tabs /\ ek.tabs[n] = dk.tabs[n]
  PROVE  TabsAt(ek, k) = TabsAt(dk, k) /\ LogAt(ek, k) = LogAt(dk, k)
  BY SameTabs DEF TabsAt, LogAt

LEMMA PointStays ==
  ASSUME NEW dk, NEW ek, NEW k, ek.cur = dk.cur, Man(ek).edits[k] = Man(dk).edits[k],
         FilesAt(Man(ek).edits, k) = FilesAt(Man(dk).edits, k),
         \A n \in Numbers(FilesAt(Man(dk).edits, k)) : n \in DOMAIN ek.tabs /\ ek.tabs[n] = dk.tabs[n],
         NEW A, NEW P, NEW B, NEW Q, Point(dk, k, A, P),
         B \subseteq TabsAt(dk, k) \cup SafeFrom(ek.logs, LogAt(dk, k)),
         Q \subseteq TabsAt(dk, k) \cup SyncedFrom(ek.logs, LogAt(dk, k))
  PROVE  Point(ek, k, B, Q)
  <1>1. TabsAt(ek, k) = TabsAt(dk, k) /\ LogAt(ek, k) = LogAt(dk, k)
    BY SamePoint DEF Point
  <1> QED
    BY <1>1 DEF Point

\* The manifest and its tables stay, and no log loses entries.
LEMMA StillKept ==
  ASSUME NEW dk, NEW A, NEW P, Kept(dk, A, P), dk.cur # 0,
         NEW ek, ek.cur = dk.cur, DOMAIN ek.mans \subseteq Nat, ek.cur \in DOMAIN ek.mans,
         Man(ek) = Man(dk),
         \A k \in Ends(Man(dk)) : \A n \in Numbers(FilesAt(Man(dk).edits, k)) :
           n \in DOMAIN ek.tabs /\ ek.tabs[n] = dk.tabs[n],
         \A k \in Ends(Man(dk)) :
           /\ SafeFrom(dk.logs, LogAt(dk, k)) \subseteq SafeFrom(ek.logs, LogAt(dk, k))
           /\ SyncedFrom(dk.logs, LogAt(dk, k)) \subseteq SyncedFrom(ek.logs, LogAt(dk, k))
  PROVE  /\ \A k \in Ends(Man(dk)) : TabsAt(ek, k) = TabsAt(dk, k) /\ LogAt(ek, k) = LogAt(dk, k)
         /\ Reach(ek) = UNION {TabsAt(dk, k) \cup AllFrom(ek.logs, LogAt(dk, k)) : k \in Ends(Man(dk))}
         /\ Unique(Reach(ek)) => Kept(ek, A, P)
  <1>1. \A k \in Ends(Man(dk)) : Point(dk, k, A, P)
    BY DEF Kept
  <1>2. ASSUME NEW k \in Ends(Man(dk))
        PROVE  TabsAt(ek, k) = TabsAt(dk, k) /\ LogAt(ek, k) = LogAt(dk, k) /\ Point(ek, k, A, P)
    <2>1. Point(dk, k, A, P)
      BY <1>1
    <2>2. /\ \A n \in Numbers(FilesAt(Man(dk).edits, k)) : n \in DOMAIN ek.tabs /\ ek.tabs[n] = dk.tabs[n]
          /\ FilesAt(Man(ek).edits, k) = FilesAt(Man(dk).edits, k)
          /\ Man(ek).edits[k] = Man(dk).edits[k]
      OBVIOUS
    <2>3. Numbers(FilesAt(Man(dk).edits, k)) \subseteq DOMAIN dk.tabs
      BY <2>1 DEF Point
    <2>4. TabsAt(ek, k) = TabsAt(dk, k) /\ LogAt(ek, k) = LogAt(dk, k)
      BY <2>2, <2>3, SamePoint
    <2>5. /\ A \subseteq TabsAt(dk, k) \cup SafeFrom(ek.logs, LogAt(dk, k))
          /\ P \subseteq TabsAt(dk, k) \cup SyncedFrom(ek.logs, LogAt(dk, k))
      BY <2>1 DEF Point
    <2> QED
      BY <2>1, <2>2, <2>4, <2>5, PointStays
  <1>3. Reach(ek) = UNION {TabsAt(dk, k) \cup AllFrom(ek.logs, LogAt(dk, k)) : k \in Ends(Man(dk))}
    BY <1>2 DEF Reach
  <1>4. Unique(Reach(ek)) => Kept(ek, A, P)
    BY <1>2 DEF Kept
  <1> QED
    BY <1>2, <1>3, <1>4

\* ... and none gains any.
LEMMA NothingNew ==
  ASSUME NEW dk, NEW A, NEW P, Kept(dk, A, P), dk.cur # 0,
         NEW ek, ek.cur = dk.cur, DOMAIN ek.mans \subseteq Nat, ek.cur \in DOMAIN ek.mans,
         Man(ek) = Man(dk),
         \A k \in Ends(Man(dk)) : \A n \in Numbers(FilesAt(Man(dk).edits, k)) :
           n \in DOMAIN ek.tabs /\ ek.tabs[n] = dk.tabs[n],
         \A k \in Ends(Man(dk)) :
           /\ SafeFrom(dk.logs, LogAt(dk, k)) \subseteq SafeFrom(ek.logs, LogAt(dk, k))
           /\ SyncedFrom(dk.logs, LogAt(dk, k)) \subseteq SyncedFrom(ek.logs, LogAt(dk, k))
           /\ AllFrom(ek.logs, LogAt(dk, k)) \subseteq AllFrom(dk.logs, LogAt(dk, k))
  PROVE  /\ \A k \in Ends(Man(dk)) : TabsAt(ek, k) = TabsAt(dk, k) /\ LogAt(ek, k) = LogAt(dk, k)
         /\ Reach(ek) \subseteq Reach(dk)
         /\ Kept(ek, A, P)
  <1>1. /\ \A k \in Ends(Man(dk)) : TabsAt(ek, k) = TabsAt(dk, k) /\ LogAt(ek, k) = LogAt(dk, k)
        /\ Reach(ek) = UNION {TabsAt(dk, k) \cup AllFrom(ek.logs, LogAt(dk, k)) : k \in Ends(Man(dk))}
        /\ Unique(Reach(ek)) => Kept(ek, A, P)
    BY StillKept
  <1>2. Reach(ek) \subseteq Reach(dk)
    BY <1>1 DEF Reach
  <1>3. Unique(Reach(ek))
    BY <1>2, FewerUnique DEF Kept
  <1> QED
    BY <1>1, <1>2, <1>3

\* One more edit, which may or may not be found, with the version it makes.
EditStep(dk, A, P, edit, ek, files, all) ==
  /\ Kept(dk, A, P) /\ dk.cur # 0 /\ Manifest(Man(dk)) /\ Man(dk).synced > 0
  /\ IsFiniteSet(edit.add)
  /\ ek.cur = dk.cur /\ ek.logs = dk.logs /\ DOMAIN ek.mans = DOMAIN dk.mans
  /\ \/ Man(ek).edits = Man(dk).edits /\ Man(ek).synced = Man(dk).synced
     \/ /\ Man(ek).edits = Append(Man(dk).edits, edit)
        /\ Man(ek).synced \in {Man(dk).synced, Len(Man(dk).edits) + 1}
  /\ \A k \in Ends(Man(dk)) : \A n \in Numbers(FilesAt(Man(dk).edits, k)) :
       n \in DOMAIN ek.tabs /\ ek.tabs[n] = dk.tabs[n]
  /\ files = After(FilesAt(Man(dk).edits, Len(Man(dk).edits)), edit)
  /\ dk.cur < edit.next /\ edit.log \in Nat /\ edit.log < edit.next
  /\ Numbers(files) \subseteq DOMAIN ek.tabs
  /\ \A e \in TabsIn(ek.tabs, files) : Seqno(e) \in 0 .. edit.last
  /\ A \subseteq TabsIn(ek.tabs, files) \cup SafeFrom(dk.logs, edit.log)
  /\ P \subseteq TabsIn(ek.tabs, files) \cup SyncedFrom(dk.logs, edit.log)
  /\ Unique(all) /\ Reach(dk) \subseteq all
  /\ TabsIn(ek.tabs, files) \cup AllFrom(dk.logs, edit.log) \subseteq all

LEMMA EditKept ==
  ASSUME NEW dk, NEW A, NEW P, NEW edit, NEW ek, NEW files, NEW all,
         EditStep(dk, A, P, edit, ek, files, all)
  PROVE  /\ Kept(ek, A, P) /\ Man(ek).synced > 0
         /\ \A k \in Ends(Man(ek)) :
              \/ /\ k \in Ends(Man(dk))
                 /\ Man(ek).edits[k] = Man(dk).edits[k]
                 /\ FilesAt(Man(ek).edits, k) = FilesAt(Man(dk).edits, k)
                 /\ TabsAt(ek, k) = TabsAt(dk, k)
              \/ /\ Man(ek).edits[k] = edit
                 /\ FilesAt(Man(ek).edits, k) = files
                 /\ TabsAt(ek, k) = TabsIn(ek.tabs, files)
  <1> USE DEF EditStep
  <1> DEFINE old == Man(dk).edits
             new == Man(ek).edits
             n == Len(old)
             added == new = Append(old, edit)
             ok == Man(ek).synced = n + 1
  <1>1. /\ n \in Nat
        /\ \A k \in 1 .. n : new[k] = old[k] /\ FilesAt(new, k) = FilesAt(old, k)
        /\ added => Len(new) = n + 1 /\ new[n + 1] = edit /\ FilesAt(new, n + 1) = files
        /\ ~added => Len(new) = n
    <2>1. FiniteEdits(old)
      BY DEF Manifest
    <2>2. LET more == Append(old, edit)
          IN  /\ n \in Nat /\ Len(more) = n + 1 /\ more[n + 1] = edit
              /\ \A k \in 1 .. n : more[k] = old[k] /\ FilesAt(more, k) = FilesAt(old, k)
              /\ FilesAt(more, n + 1) = After(FilesAt(old, n), edit)
      BY <2>1, FilesAfterEdit
    <2>3. new = IF added THEN Append(old, edit) ELSE old
      OBVIOUS
    <2> QED
      BY <2>2, <2>3
  <1>3. Man(dk).synced \in 0 .. n /\ Man(dk).synced > 0
    BY DEF Manifest
  <1>2. Man(ek).synced = (IF ok THEN n + 1 ELSE Man(dk).synced) /\ (ok => added)
    BY <1>1, <1>3
  <1> HIDE DEF old, new, n, added, ok
  <1>4. Man(ek).synced > 0
    BY <1>1, <1>2, <1>3
  <1>5. ASSUME NEW k \in Ends(Man(ek))
        PROVE  \/ k \in Ends(Man(dk)) /\ ~ok /\ k \in 1 .. n
               \/ k = n + 1 /\ added
    <2>1. k \in 1 .. Len(new) /\ k >= Man(ek).synced
      BY <1>5 DEF Ends, new
    <2>2. CASE ok
      <3>1. k \in 1 .. n + 1 /\ k >= n + 1
        BY <1>1, <1>2, <2>1, <2>2
      <3> QED
        BY <1>1, <1>2, <2>2, <3>1
    <2>3. CASE ~ok /\ k \in 1 .. n
      <3>1. k >= Man(dk).synced
        BY <1>2, <2>1, <2>3
      <3> QED
        BY <2>3, <3>1 DEF Ends, n, old
    <2>4. CASE ~ok /\ k \notin 1 .. n
      <3>1. added
        BY <1>1, <2>1, <2>4
      <3> QED
        BY <1>1, <2>1, <2>4, <3>1
    <2> QED
      BY <2>2, <2>3, <2>4
  <1>6. ASSUME NEW k \in Ends(Man(dk)), k \in 1 .. n
        PROVE  /\ new[k] = old[k] /\ FilesAt(new, k) = FilesAt(old, k)
               /\ TabsAt(ek, k) = TabsAt(dk, k) /\ LogAt(ek, k) = LogAt(dk, k)
               /\ Point(ek, k, A, P)
    <2>1. new[k] = old[k] /\ FilesAt(new, k) = FilesAt(old, k)
      BY <1>1, <1>6
    <2>2. Point(dk, k, A, P)
      BY <1>6 DEF Kept
    <2>3. /\ Man(ek).edits[k] = Man(dk).edits[k]
          /\ FilesAt(Man(ek).edits, k) = FilesAt(Man(dk).edits, k)
      BY <2>1 DEF old, new
    <2>4. \A m \in Numbers(FilesAt(Man(dk).edits, k)) : m \in DOMAIN ek.tabs /\ ek.tabs[m] = dk.tabs[m]
      BY <1>6
    <2>5. Numbers(FilesAt(Man(dk).edits, k)) \subseteq DOMAIN dk.tabs
      BY <2>2 DEF Point
    <2>6. TabsAt(ek, k) = TabsAt(dk, k) /\ LogAt(ek, k) = LogAt(dk, k)
      BY <2>3, <2>4, <2>5, SamePoint
    <2>7. /\ A \subseteq TabsAt(dk, k) \cup SafeFrom(ek.logs, LogAt(dk, k))
          /\ P \subseteq TabsAt(dk, k) \cup SyncedFrom(ek.logs, LogAt(dk, k))
      BY <2>2 DEF Point
    <2>8. Point(ek, k, A, P)
      BY <2>2, <2>3, <2>4, <2>7, PointStays
    <2> QED
      BY <2>1, <2>6, <2>8
  <1>7. ASSUME added
        PROVE  /\ new[n + 1] = edit /\ FilesAt(new, n + 1) = files
               /\ TabsAt(ek, n + 1) = TabsIn(ek.tabs, files) /\ LogAt(ek, n + 1) = edit.log
               /\ Point(ek, n + 1, A, P)
    <2>1. Man(ek).edits[n + 1] = edit /\ FilesAt(Man(ek).edits, n + 1) = files
      BY <1>1, <1>7 DEF new
    <2>2. TabsAt(ek, n + 1) = TabsIn(ek.tabs, files) /\ LogAt(ek, n + 1) = edit.log
      BY <2>1 DEF TabsAt, LogAt
    <2>3. Point(ek, n + 1, A, P)
      BY <2>1, <2>2 DEF Point
    <2> QED
      BY <2>1, <2>2, <2>3 DEF new
  <1>8. \A k \in Ends(Man(ek)) : Point(ek, k, A, P)
    BY <1>5, <1>6, <1>7
  <1>9. Reach(ek) \subseteq all
    <2> SUFFICES ASSUME NEW k \in Ends(Man(ek))
                 PROVE  TabsAt(ek, k) \cup AllFrom(ek.logs, LogAt(ek, k)) \subseteq all
      BY DEF Reach
    <2>1. CASE k \in Ends(Man(dk)) /\ k \in 1 .. n
      BY <1>6, <2>1 DEF Reach
    <2>2. CASE k = n + 1 /\ added
      BY <1>7, <2>2
    <2> QED
      BY <1>5, <2>1, <2>2
  <1>10. Kept(ek, A, P)
    <2>1. Unique(Reach(ek))
      BY <1>9, FewerUnique
    <2> QED
      BY <1>4, <1>8, <2>1 DEF Kept
  <1> QED
    BY <1>4, <1>5, <1>6, <1>7, <1>10 DEF old, new

-----------------------------------------------------------------------------
(* What the open database adds *)

\* The current log is the last one.
LatestLogInv ==
  db.phase \in {"save", "current", "clean", "open"} =>
    db.logno \in DOMAIN disk.logs /\ db.logno < db.next /\ \A l \in DOMAIN disk.logs : l <= db.logno

\* DB::Open loses nothing on its way from the old manifest to the new one.
Opened == TabsIn(disk.tabs, db.files)
Todo == UNION {SafeOf(disk.logs[l]) : l \in db.todo}
OpeningInv ==
  /\ db.phase = "closed" => db = Closed /\ memtab = <<>>
  /\ db.phase = "replay" => db.mem = 0 /\ \A m \in DOMAIN memtab : memtab[m] = {}
  /\ db.phase \in {"replay", "save", "current"} =>
       /\ disk.cur # 0 /\ db.man \in Nat /\ disk.cur < db.man /\ db.man < db.next
       /\ Len(Man(disk).edits) > 0
       /\ \A i \in 1 .. Len(Man(disk).edits) : Below(Man(disk).edits[i].add, db.next)
       /\ Numbers(db.files) \subseteq DOMAIN disk.tabs
       /\ Opened \subseteq Reach(disk)
       /\ \A e \in Opened : /\ Seqno(e) \in Nat
                            /\ Seqno(e) <= db.last \/ (db.phase = "replay" /\ Seqno(e) <= db.max)
       /\ \A l \in DOMAIN disk.logs : l < db.next \/ (db.phase = "replay" /\ l \in db.todo)
       /\ Answered \subseteq Opened \cup (IF db.phase = "replay" THEN Todo ELSE {})
  /\ db.phase = "replay" => \A l \in db.todo : l >= LogAt(disk, Len(Man(disk).edits))
  /\ db.phase \in {"save", "current", "clean"} =>
       disk.logs[db.logno].recs = <<>> /\ memtab[db.mem] = {}
  /\ db.phase = "current" =>
       /\ db.man \in DOMAIN disk.mans
       /\ disk.mans[db.man] = [synced |-> 1, edits |-> <<Edit(db, db.files, {}, db.logno)>>]

\* A group on its way, and an output that is being written.
InFlight(w) == wr[w].pc \in {"insert", "publish"}
Writing == bg.pc = "output" \/ (bg.pc \in {"apply", "install"} /\ bg.ret = "output")

\* What the open database could still find on disk.
Found == AllFrom(disk.logs, db.vlog) \cup UNION {TabsAt(disk, k) : k \in Ends(Man(disk))}

\* A recovery from the first k edits would find the tables of the current
\* version and the entries of the immutable memtable.
EndInv(k) ==
  /\ Man(disk).edits[k].last <= db.last
  /\ db.vlog <= LogAt(disk, k) /\ LogAt(disk, k) <= db.logno
  /\ Opened \subseteq TabsAt(disk, k)
  /\ db.imm # 0 => memtab[db.imm] \subseteq TabsAt(disk, k) \cup AllFrom(disk.logs, LogAt(disk, k))
  /\ ~db.err /\ bg.pc # "install" => FilesAt(Man(disk).edits, k) = db.files
  /\ bg.pc = "install" /\ bg.ok =>
       /\ ~db.err => FilesAt(Man(disk).edits, k) = After(db.files, bg.edit)
       /\ TabsIn(disk.tabs, bg.edit.add) \subseteq TabsAt(disk, k)
       /\ bg.edit.log <= LogAt(disk, k) /\ db.vlog <= bg.edit.log /\ bg.edit.log \in Nat

EndsInv ==
  /\ disk.cur # 0 /\ disk.cur = db.man /\ db.man < db.next
  /\ Man(disk).synced > 0 /\ db.vlog \in Nat
  /\ \A k \in Ends(Man(disk)) : EndInv(k)
  /\ Writing => \A i \in 1 .. Len(Man(disk).edits) : bg.out \notin Numbers(Man(disk).edits[i].add)

FoundInv ==
  /\ Unique(Found)
  /\ \A e \in Found : Seqno(e) <= db.last \/ \E w \in Writers : InFlight(w) /\ e \in wr[w].group

\* Answered entries are in memory or in the tables, those in the memtable also
\* in the log.
MemoryInv ==
  /\ \A e \in Answered : Seqno(e) \in 0 .. db.last
  /\ db.imm # 0 => \A e \in memtab[db.imm] : Seqno(e) \in 0 .. db.last
  /\ Answered \subseteq Content
  /\ memtab[db.mem] \subseteq EntriesOf(disk.logs[db.logno])
  /\ Answered \cap memtab[db.mem] \subseteq SafeOf(disk.logs[db.logno])
  /\ Promised \cap memtab[db.mem] \subseteq SyncedOf(disk.logs[db.logno])

OpenInv == db.phase \in {"clean", "open"} => EndsInv /\ FoundInv /\ MemoryInv

\* Calls of Write are told apart by their number, and file numbers that are
\* pending have been given.
IdsInv ==
  /\ DOMAIN used = {"ops", "events"} /\ used.ops \in Nat
  /\ \A t \in Writers : wr[t].id \in 0 .. used.ops /\ (wr[t].pc = "idle" <=> wr[t].id = 0)
  /\ \A t, u \in Writers : wr[t].id = wr[u].id /\ wr[t].id # 0 => t = u
PendInv == db.pend \subseteq 0 .. db.next - 1
PhaseInv == db.phase \in {"closed", "replay", "save", "current", "clean", "open"}

\* A group is made of batches of the writers it will answer, its numbers are
\* free, it is in the log, synced if one of them asked for it, and then in the
\* memtable.
FlightInv ==
  \A w \in Writers : InFlight(w) =>
    /\ \A e \in wr[w].group : /\ Seqno(e) \in db.last + 1 .. NewLast(w)
                              /\ \E i \in 1 .. wr[w].last : e[2] = wr[writers[i]].id
    /\ wr[w].group \subseteq EntriesOf(disk.logs[db.logno])
    /\ wr[w].ok /\ (\E i \in 1 .. wr[w].last : wr[writers[i]].sync) =>
         disk.logs[db.logno].synced = Len(disk.logs[db.logno].recs)
    /\ wr[w].pc = "publish" /\ wr[w].ok => wr[w].group \subseteq memtab[db.mem]

AnswersInv ==
  KeptInv /\ LatestLogInv /\ OpeningInv /\ OpenInv /\ IdsInv /\ PendInv /\ PhaseInv /\ FlightInv

-----------------------------------------------------------------------------
(* The calls of Write *)

SameCall(v, u) ==
  /\ v.id = u.id /\ v.sync = u.sync /\ v.group = u.group /\ v.last = u.last /\ v.ok = u.ok
  /\ v.pc \in {"idle", "insert", "publish"} \/ u.pc \in {"idle", "insert", "publish"} => v.pc = u.pc

LEMMA WokenCalls ==
  ASSUME DBInv, wr' = WakeAll(wr) \/ wr' = wr
  PROVE  \A t \in Writers : SameCall(wr'[t], wr[t])
  <1> SUFFICES ASSUME NEW t \in Writers PROVE SameCall(wr'[t], wr[t])
    OBVIOUS
  <1>1. DOMAIN wr[t] = DOMAIN Idle
    BY DEF DBInv, FieldsInv
  <1>2. wr[t].pc = "bgwait" => SameCall([wr[t] EXCEPT !.pc = "room"], wr[t])
    BY <1>1, WriterFields DEF SameCall
  <1>3. wr'[t] = wr[t] \/ (wr[t].pc = "bgwait" /\ wr'[t] = [wr[t] EXCEPT !.pc = "room"])
    BY DEF WakeAll
  <1> QED
    BY <1>2, <1>3 DEF SameCall

LEMMA LeaderCalls ==
  ASSUME DBInv, NEW w \in Writers, RoomDelay(w) \/ RoomWait(w) \/ RoomSwitch(w)
  PROVE  \A t \in Writers : SameCall(wr'[t], wr[t])
  <1>1. DOMAIN wr[w] = DOMAIN Idle /\ DOMAIN wr = Writers /\ wr[w].pc = "room"
    BY DEF DBInv, FieldsInv, RoomDelay, RoomWait, RoomSwitch, Leader
  <1>2. \E r : wr' = [wr EXCEPT ![w] = r] /\ SameCall(r, wr[w])
    <2>1. CASE RoomDelay(w)
      <3>1. SameCall([wr[w] EXCEPT !.delay = FALSE], wr[w])
        BY <1>1, WriterFields DEF SameCall
      <3> QED
        BY <2>1, <3>1 DEF RoomDelay
    <2>2. CASE RoomWait(w)
      <3>1. SameCall([wr[w] EXCEPT !.pc = "bgwait"], wr[w])
        BY <1>1, WriterFields DEF SameCall
      <3> QED
        BY <2>2, <3>1 DEF RoomWait
    <2>3. CASE RoomSwitch(w)
      <3>1. SameCall([wr[w] EXCEPT !.force = FALSE], wr[w])
        BY <1>1, WriterFields DEF SameCall
      <3> QED
        BY <2>3, <3>1 DEF RoomSwitch
    <2> QED
      BY <2>1, <2>2, <2>3
  <1>3. PICK r : wr' = [wr EXCEPT ![w] = r] /\ SameCall(r, wr[w])
    BY <1>2
  <1>4. \A t \in Writers : wr'[t] = IF t = w THEN r ELSE wr[t]
    BY <1>1, <1>3
  <1>5. \A t \in Writers : SameCall(wr[t], wr[t])
    BY DEF SameCall
  <1> QED
    BY <1>3, <1>4, <1>5

\* Whoever leaves has no call any more; the others keep theirs.
LEMMA PoppedCalls ==
  ASSUME DBInv, NEW k \in 1 .. Len(writers), Pop(k, wr)
  PROVE  /\ \A t \in Writers : wr'[t].pc \in {"idle", "room", "queued"}
         /\ \A t \in Writers : wr'[t] = Idle \/ (wr'[t].id = wr[t].id
                                               /\ (wr'[t].pc = "idle" <=> wr[t].pc = "idle"))
  <1>1. \A t \in Writers : wr'[t].pc \in {"idle", "room", "queued"}
    BY LeaveQueue DEF DBInv
  <1>2. ASSUME NEW t \in Writers
        PROVE  wr'[t] = Idle \/ (wr'[t].id = wr[t].id /\ (wr'[t].pc = "idle" <=> wr[t].pc = "idle"))
    <2>1. wr'[t] \in {Idle, [wr[t] EXCEPT !.pc = "room"], wr[t]}
      BY DEF Pop
    <2>2. CASE wr'[t] = [wr[t] EXCEPT !.pc = "room"] /\ wr'[t] # Idle /\ wr'[t] # wr[t]
      <3>1. DOMAIN wr[t] = DOMAIN Idle
        BY DEF DBInv, FieldsInv
      <3>2. wr'[t].id = wr[t].id /\ wr'[t].pc = "room"
        BY <2>2, <3>1, WriterFields
      <3>3. Len(writers) > k /\ t = writers[k + 1]
        BY <2>2 DEF Pop
      <3>4. wr[t].pc # "idle"
        <4>1. Len(writers) \in Nat
          BY LenProperties DEF DBInv, WritersInv
        <4>2. k + 1 \in 1 .. Len(writers)
          BY <3>3, <4>1
        <4> QED
          BY <3>3, <4>2 DEF DBInv, WritersInv
      <3> QED
        BY <3>2, <3>4
    <2> QED
      BY <2>1, <2>2
  <1> QED
    BY <1>1, <1>2

LEMMA IdleCall == Idle.pc = "idle" /\ Idle.id = 0 /\ Idle.sync = FALSE
  BY DEF Idle

LEMMA SameIds ==
  ASSUME IdsInv, used' = used \/ \E ok : Count(ok),
         \A t \in Writers : wr'[t] = Idle \/ (wr'[t].id = wr[t].id
                                               /\ (wr'[t].pc = "idle" <=> wr[t].pc = "idle"))
  PROVE  IdsInv'
  <1>1. ASSUME NEW t \in Writers
        PROVE  /\ wr'[t].id \in 0 .. used.ops /\ (wr'[t].pc = "idle" <=> wr'[t].id = 0)
               /\ wr'[t].id # 0 => wr'[t].id = wr[t].id
    <2>1. CASE wr'[t] = Idle
      BY <2>1, IdleCall DEF IdsInv
    <2>2. CASE wr'[t] # Idle
      BY <2>2 DEF IdsInv
    <2> QED
      BY <2>1, <2>2
  <1>2. used'.ops = used.ops /\ DOMAIN used' = {"ops", "events"}
    <2>1. ASSUME NEW ok, Count(ok) PROVE used'.ops = used.ops /\ DOMAIN used' = {"ops", "events"}
      BY <2>1 DEF Count, IdsInv
    <2> QED
      BY <2>1 DEF IdsInv
  <1> QED
    BY <1>1, <1>2 DEF IdsInv

LEMMA SameCallIds ==
  ASSUME IdsInv, used' = used \/ \E ok : Count(ok), \A t \in Writers : SameCall(wr'[t], wr[t])
  PROVE  IdsInv'
  BY SameIds DEF SameCall

LEMMA WriteIds ==
  ASSUME DBInv, IdsInv, NEW w \in Writers, NEW sync, NEW null, Write(w, sync, null) PROVE IdsInv'
  <1> DEFINE r == [Idle EXCEPT !.pc = IF writers = <<>> THEN "room" ELSE "queued",
                               !.id = used.ops + 1, !.sync = sync, !.null = null,
                               !.delay = ~null, !.force = null]
  <1>1. wr' = [wr EXCEPT ![w] = r] /\ used' = [used EXCEPT !.ops = @ + 1]
    BY DEF Write
  <1>2. r.id = used.ops + 1 /\ r.pc # "idle"
    BY DEF Idle
  <1> HIDE DEF r
  <1>3. DOMAIN used' = {"ops", "events"} /\ used'.ops = used.ops + 1 /\ used.ops \in Nat
    BY <1>1 DEF IdsInv
  <1>4. \A t \in Writers : wr'[t] = IF t = w THEN r ELSE wr[t]
    BY <1>1 DEF DBInv, FieldsInv
  <1>5. \A t \in Writers : wr[t].id \in 0 .. used.ops /\ wr[t].id # used.ops + 1
    BY <1>3 DEF IdsInv
  <1>6. \A t \in Writers : wr'[t].id \in 0 .. used.ops + 1 /\ (wr'[t].pc = "idle" <=> wr'[t].id = 0)
    <2> TAKE t \in Writers
    <2>1. CASE t = w
      BY <1>2, <1>3, <1>4, <2>1
    <2>2. CASE t # w
      BY <1>3, <1>4, <1>5, <2>2 DEF IdsInv
    <2> QED
      BY <2>1, <2>2
  <1>7. \A t, u \in Writers : wr'[t].id = wr'[u].id /\ wr'[t].id # 0 => t = u
    BY <1>2, <1>4, <1>5 DEF IdsInv
  <1> QED
    BY <1>3, <1>6, <1>7 DEF IdsInv

\* The steps at whose end nobody is in a group: those that answer writers.
LEMMA Answering ==
  ASSUME DBInv, NEW w \in Writers,
         RoomError(w) \/ RoomForNull(w) \/ RoomSwitchFails(w) \/ Publish(w)
  PROVE  \E k \in 1 .. Len(writers) : Pop(k, wr)
  <1>1. CASE Publish(w)
    <2>1. wr[w].last \in 1 .. Len(writers)
      BY <1>1 DEF Publish, DBInv, WritersInv
    <2> QED
      BY <1>1, <2>1 DEF Publish
  <1>2. CASE RoomError(w) \/ RoomForNull(w) \/ RoomSwitchFails(w)
    <2>1. wr[w].pc = "room" /\ Pop(1, wr)
      BY <1>2 DEF RoomError, RoomForNull, RoomSwitchFails, Leader
    <2>2. Len(writers) \in Nat /\ Len(writers) >= 1
      BY <2>1, OnlyTheHead DEF DBInv
    <2>3. 1 \in 1 .. Len(writers)
      BY <2>2
    <2> QED
      BY <2>1, <2>3
  <1> QED
    BY <1>1, <1>2

LEMMA StepIds ==
  ASSUME DBInv, IdsInv, NEW w \in Writers, Step(w) PROVE IdsInv'
  <1>1. CASE RoomError(w) \/ RoomForNull(w) \/ RoomSwitchFails(w) \/ Publish(w)
    <2>1. PICK k \in 1 .. Len(writers) : Pop(k, wr)
      BY <1>1, Answering
    <2>2. used' = used \/ \E ok : Count(ok)
      BY <1>1 DEF RoomError, RoomForNull, RoomSwitchFails, Publish
    <2>3. \A t \in Writers : wr'[t] = Idle \/ (wr'[t].id = wr[t].id
                                               /\ (wr'[t].pc = "idle" <=> wr[t].pc = "idle"))
      BY <2>1, PoppedCalls
    <2> QED
      BY <2>2, <2>3, SameIds
  <1>2. CASE RoomDelay(w) \/ RoomWait(w) \/ RoomSwitch(w)
    <2>1. used' = used
      BY <1>2 DEF RoomDelay, RoomWait, RoomSwitch
    <2> QED
      BY <1>2, <2>1, LeaderCalls, SameCallIds
  <1>3. ASSUME NEW r, wr' = [wr EXCEPT ![w] = r], r.id = wr[w].id, r.pc # "idle", wr[w].pc # "idle",
               used' = used \/ \E ok : Count(ok)
        PROVE  IdsInv'
    <2>1. \A t \in Writers : wr'[t] = IF t = w THEN r ELSE wr[t]
      BY <1>3 DEF DBInv, FieldsInv
    <2>2. \A t \in Writers : wr'[t].id = wr[t].id /\ (wr'[t].pc = "idle" <=> wr[t].pc = "idle")
      BY <1>3, <2>1
    <2> QED
      BY <1>3, <2>2, SameIds
  <1>4. DOMAIN wr[w] = DOMAIN Idle
    BY DEF DBInv, FieldsInv
  <1>5. CASE InsertInto(w)
    <2> DEFINE r == [wr[w] EXCEPT !.pc = "publish"]
    <2>1. wr' = [wr EXCEPT ![w] = r] /\ wr[w].pc # "idle" /\ used' = used
      BY <1>5 DEF InsertInto
    <2>2. r.id = wr[w].id /\ r.pc # "idle"
      BY <1>4, WriterFields
    <2> HIDE DEF r
    <2> QED
      BY <1>3, <2>1, <2>2
  <1>6. ASSUME NEW added \in BOOLEAN, NEW ok \in BOOLEAN, LogGroup(w, added, ok) PROVE IdsInv'
    <2> DEFINE n == BuildBatchGroup(w)
               group == {<<db.last + Cardinality(Batches(i)), wr[writers[i]].id>> : i \in Batches(n)}
               r == [wr[w] EXCEPT !.pc = "insert", !.last = n, !.group = group, !.ok = ok,
                                  !.serr = added /\ ~ok]
    <2>1. wr' = [wr EXCEPT ![w] = r] /\ wr[w].pc # "idle" /\ Count(added /\ ok)
      BY <1>6 DEF LogGroup, Leader
    <2>2. r.id = wr[w].id /\ r.pc # "idle"
      BY <1>4, WriterFields
    <2> HIDE DEF r
    <2> QED
      BY <1>3, <2>1, <2>2
  <1> QED
    BY <1>1, <1>2, <1>5, <1>6 DEF Step

LEMMA BackgroundCalls ==
  ASSUME DBInv, Background
  PROVE  /\ \A t \in Writers : SameCall(wr'[t], wr[t])
         /\ used' = used \/ \E ok : Count(ok)
         /\ UNCHANGED <<writers, rd, acked>>
  <1>1. ASSUME NEW d, Return(d) PROVE wr' = WakeAll(wr)
    BY <1>1 DEF Return, EndCall
  <1>2. ASSUME NEW d, Cleanup(d) PROVE wr' = WakeAll(wr)
    BY <1>2 DEF Cleanup, EndCall
  <1>3. wr' = WakeAll(wr) \/ wr' = wr
    BY <1>1, <1>2 DEF Background, BackgroundNothing, FailMemTable, InstallMemTable, StartCompaction,
       OpenCompactionOutputFile, FailCompaction, InstallCompaction, CompactMemTable, ApplyMemTable,
       FinishCompaction, EndCall
  <1>4. used' = used \/ \E ok : Count(ok)
    BY DEF Background, BackgroundNothing, FailMemTable, InstallMemTable, StartCompaction,
       OpenCompactionOutputFile, FailCompaction, InstallCompaction, CompactMemTable, ApplyMemTable,
       FinishCompaction
  <1>5. UNCHANGED <<writers, rd, acked>>
    BY DEF Background, BackgroundNothing, FailMemTable, InstallMemTable, StartCompaction,
       OpenCompactionOutputFile, FailCompaction, InstallCompaction, CompactMemTable, ApplyMemTable,
       FinishCompaction
  <1> QED
    BY <1>3, <1>4, <1>5, WokenCalls

LEMMA NextIds == DBInv /\ IdsInv /\ [Next]_vars => IdsInv'
  <1> SUFFICES ASSUME DBInv, IdsInv, [Next]_vars PROVE IdsInv'
    OBVIOUS
  <1>1. \A t \in Writers : SameCall(wr[t], wr[t])
    BY DEF SameCall
  <1>2. CASE UNCHANGED vars
    BY <1>1, <1>2, SameCallIds DEF vars
  <1>3. CASE Background
    BY <1>3, BackgroundCalls, SameCallIds
  <1>4. CASE ReadBegin \/ ReadEnd \/ CloseBegin \/ Open
    <2>1. wr' = wr /\ (used' = used \/ \E ok : Count(ok))
      BY <1>4 DEF ReadBegin, ReadEnd, CloseBegin, Open, NewDB, Recover, RecoverFails, RecoverLogFile,
         OpenLog, OpenManifest, OpenCurrent, OpenClean, vars
    <2> QED
      BY <1>1, <2>1, SameCallIds
  <1>5. CASE CloseEnd \/ Crash \/ PowerLoss \/ OpenFails
    <2>1. \A t \in Writers : wr'[t] = Idle
      BY <1>5 DEF CloseEnd, Crash, PowerLoss, OpenFails, LoseMemory
    <2>2. used' = used \/ \E ok : Count(ok)
      BY <1>5 DEF CloseEnd, Crash, PowerLoss, OpenFails
    <2> QED
      BY <2>1, <2>2, SameIds
  <1>6. ASSUME NEW w \in Writers, Step(w) \/ \E sync, null \in BOOLEAN : Write(w, sync, null)
        PROVE  IdsInv'
    BY <1>6, StepIds, WriteIds
  <1> QED
    BY <1>2, <1>3, <1>4, <1>5, <1>6 DEF Next

-----------------------------------------------------------------------------
(* The fields of the database *)

\* From e to d the database goes on as it was: the version, the oldest log
\* and the immutable memtable may change.
Onward(d, e) ==
  /\ DOMAIN d = DOMAIN Closed /\ d.phase = e.phase /\ d.last = e.last /\ d.logno = e.logno
  /\ d.mem = e.mem /\ d.man = e.man /\ (e.err => d.err) /\ d.next = e.next
  /\ d.pend \subseteq e.pend
SameFiles(d, e) == d.files = e.files /\ d.imm = e.imm /\ d.vlog = e.vlog

LEMMA OnwardIsTransitive ==
  ASSUME NEW d, NEW e, NEW f, Onward(d, e), Onward(e, f) PROVE Onward(d, f)
  BY DEF Onward

LEMMA OnwardCall ==
  ASSUME NEW d, DOMAIN d = DOMAIN Closed, NEW w, EndCall(d, w)
  PROVE  Onward(db', d) /\ SameFiles(db', d) /\ db'.err = d.err
  <1> DEFINE c == [d EXCEPT !.sched = FALSE]
  <1>1. Onward(c, d) /\ SameFiles(c, d) /\ DOMAIN c = DOMAIN Closed /\ c.err = d.err
    BY DatabaseFields DEF Onward, SameFiles
  <1> HIDE DEF c
  <1>2. /\ Onward(MaybeSchedule(c), c) /\ SameFiles(MaybeSchedule(c), c)
        /\ MaybeSchedule(c).err = c.err
    BY <1>1, DatabaseFields DEF Onward, SameFiles, MaybeSchedule
  <1>3. db' = MaybeSchedule(c)
    BY DEF EndCall, c
  <1> QED
    BY <1>1, <1>2, <1>3, OnwardIsTransitive DEF SameFiles

LEMMA OnwardReturn ==
  ASSUME NEW d, DOMAIN d = DOMAIN Closed, Return(d)
  PROVE  Onward(db', d) /\ SameFiles(db', d) /\ db'.err = d.err
  <1>1. CASE bg.ret = "end"
    BY <1>1, OnwardCall DEF Return
  <1>2. CASE bg.ret # "end"
    BY <1>2 DEF Return, Onward, SameFiles
  <1> QED
    BY <1>1, <1>2

LEMMA OnwardInstalled ==
  ASSUME DOMAIN db = DOMAIN Closed
  PROVE  LET d == Installed(db)
         IN  /\ Onward(d, db) /\ d.imm = db.imm /\ d.vlog = bg.edit.log /\ d.err = db.err
             /\ d.files = After(db.files, bg.edit)
  BY DatabaseFields DEF Onward, Installed, After

\* A call that fails sets bg_error_.
LEMMA OnwardFailed ==
  ASSUME DOMAIN db = DOMAIN Closed
  PROVE  LET d == [db EXCEPT !.err = TRUE] IN Onward(d, db) /\ SameFiles(d, db) /\ d.err
  BY DatabaseFields DEF Onward, SameFiles

LEMMA OnwardCleanup ==
  ASSUME NEW d, DOMAIN d = DOMAIN Closed, Cleanup(d)
  PROVE  Onward(db', d) /\ SameFiles(db', d) /\ db'.err = d.err /\ bg' = NoWork
  <1> DEFINE e == [d EXCEPT !.pend = @ \ {bg.out}]
  <1>1. Onward(e, d) /\ SameFiles(e, d) /\ DOMAIN e = DOMAIN Closed /\ e.err = d.err
    BY DatabaseFields DEF Onward, SameFiles
  <1>2. EndCall(e, wr)
    BY DEF Cleanup
  <1> HIDE DEF e
  <1>3. Onward(db', e) /\ SameFiles(db', e) /\ db'.err = e.err /\ bg' = NoWork
    BY <1>1, <1>2, OnwardCall DEF EndCall
  <1> QED
    BY <1>1, <1>3, OnwardIsTransitive DEF SameFiles

LEMMA BackgroundOnward ==
  ASSUME DBInv, Background
  PROVE  \/ Onward(db', db)
         \/ /\ db' = NextNumber(db)
            /\ OpenCompactionOutputFile \/ \E ok \in BOOLEAN : CompactMemTable(ok)
  <1>1. DOMAIN db = DOMAIN Closed
    BY DEF DBInv, FieldsInv
  <1>2. CASE BackgroundNothing
    BY <1>1, <1>2, OnwardCall DEF BackgroundNothing
  <1>3. CASE FailMemTable
    <2> DEFINE d == [db EXCEPT !.pend = @ \ {bg.n}, !.err = TRUE]
    <2>1. Onward(d, db) /\ DOMAIN d = DOMAIN Closed
      BY <1>1, DatabaseFields DEF Onward
    <2>2. Return(d)
      BY <1>3 DEF FailMemTable
    <2> HIDE DEF d
    <2> QED
      BY <2>1, <2>2, OnwardReturn, OnwardIsTransitive
  <1>4. CASE InstallMemTable
    <2> DEFINE i == Installed(db)
               d == IF bg.ok THEN [i EXCEPT !.imm = 0] ELSE [db EXCEPT !.err = TRUE]
    <2>1. Onward(i, db)
      BY <1>1, OnwardInstalled
    <2>2. Return(d)
      BY <1>4 DEF InstallMemTable
    <2> HIDE DEF i
    <2>3. Onward(d, db) /\ DOMAIN d = DOMAIN Closed
      BY <1>1, <2>1, DatabaseFields DEF Onward
    <2> HIDE DEF d
    <2> QED
      BY <2>2, <2>3, OnwardReturn, OnwardIsTransitive
  <1>5. CASE FailCompaction \/ InstallCompaction
    <2> DEFINE i == Installed(db)
               f == [db EXCEPT !.err = TRUE]
    <2>1. Onward(i, db) /\ Onward(f, db)
      BY <1>1, OnwardInstalled, OnwardFailed
    <2>2. Cleanup(i) \/ Cleanup(f)
      BY <1>5 DEF FailCompaction, InstallCompaction
    <2>3. DOMAIN i = DOMAIN Closed /\ DOMAIN f = DOMAIN Closed
      BY <2>1 DEF Onward
    <2> HIDE DEF i, f
    <2> QED
      BY <2>1, <2>2, <2>3, OnwardCleanup, OnwardIsTransitive
  <1>6. ASSUME db' = db PROVE Onward(db', db)
    BY <1>1, <1>6 DEF Onward
  <1>7. ASSUME NEW added \in BOOLEAN, NEW ok \in BOOLEAN, ApplyMemTable(added, ok)
        PROVE  Onward(db', db)
    <2>1. db' = [db EXCEPT !.pend = @ \ {bg.n}]
      BY <1>7 DEF ApplyMemTable
    <2> QED
      BY <1>1, <2>1, DatabaseFields DEF Onward
  <1> QED
    BY <1>2, <1>3, <1>4, <1>5, <1>6, <1>7
    DEF Background, StartCompaction, OpenCompactionOutputFile, CompactMemTable, FinishCompaction

\* A number that is pending has been given.
LEMMA NextPend == DBInv /\ ReadsInv /\ ReadsInv' /\ PendInv /\ [Next]_vars => PendInv'
  <1> SUFFICES ASSUME DBInv, ReadsInv, ReadsInv', PendInv, [Next]_vars, db'.phase = "open"
               PROVE  PendInv'
    BY DEF ReadsInv, NumbersInv, PendInv
  <1>1. db.next \in Nat /\ db'.next \in Nat
    BY DEF ReadsInv, NumbersInv
  <1>2. ASSUME db'.pend \subseteq db.pend, db.next <= db'.next PROVE PendInv'
    BY <1>1, <1>2 DEF PendInv
  <1>3. DOMAIN db = DOMAIN Closed
    BY DEF DBInv, FieldsInv
  <1>4. CASE db' = db
    BY <1>1, <1>2, <1>4
  <1>5. CASE Background
    <2>1. CASE Onward(db', db)
      BY <1>1, <1>2, <2>1 DEF Onward
    <2>2. CASE db' = NextNumber(db)
      <3>1. db'.next = db.next + 1 /\ db'.pend = db.pend \cup {db.next}
        BY <1>3, <2>2, DatabaseFields DEF NextNumber
      <3> QED
        BY <1>1, <3>1 DEF PendInv
    <2> QED
      BY <1>5, <2>1, <2>2, BackgroundOnward
  <1>6. CASE CloseBegin
    BY <1>1, <1>2, <1>3, <1>6, DatabaseFields DEF CloseBegin
  <1>7. ASSUME NEW w \in Writers, RoomSwitch(w) PROVE PendInv'
    <2> DEFINE d == [db EXCEPT !.next = @ + 1, !.logno = db.next, !.imm = db.mem, !.mem = db.next]
    <2>1. DOMAIN d = DOMAIN Closed /\ d.pend = db.pend /\ d.next = db.next + 1
      BY <1>3, DatabaseFields
    <2>2. db' = MaybeSchedule(d)
      BY <1>7 DEF RoomSwitch
    <2> HIDE DEF d
    <2>3. db'.pend = db.pend /\ db'.next = db.next + 1
      BY <2>1, <2>2, OnlySchedules DEF SameView
    <2> QED
      BY <1>1, <1>2, <2>3
  <1>8. ASSUME NEW w \in Writers, Publish(w) PROVE PendInv'
    <2>1. db'.pend = db.pend /\ db'.next = db.next
      BY <1>3, <1>8, DatabaseFields DEF Publish
    <2> QED
      BY <1>1, <1>2, <2>1
  <1>9. ASSUME NEW w \in Writers, Step(w) \/ \E sync, null \in BOOLEAN : Write(w, sync, null)
        PROVE  PendInv'
    BY <1>4, <1>7, <1>8, <1>9 DEF Step, RoomError, RoomDelay, RoomWait, RoomForNull, RoomSwitchFails,
       InsertInto, LogGroup, Write
  <1>10. CASE CloseEnd \/ Crash \/ PowerLoss \/ OpenFails
    <2>1. db'.phase = "closed"
      <3>1. LoseMemory
        BY <1>10 DEF CloseEnd, Crash, PowerLoss, OpenFails
      <3> QED
        BY <3>1 DEF LoseMemory, Closed
    <2> QED
      BY <2>1
  <1>11. CASE Open
    <2>1. CASE OpenClean
      <3> DEFINE d == [db EXCEPT !.phase = "open"]
      <3>1. DOMAIN d = DOMAIN Closed /\ d.pend = db.pend /\ d.next = db.next
        BY <1>3, DatabaseFields
      <3>2. db' = MaybeSchedule(d)
        BY <2>1 DEF OpenClean
      <3> HIDE DEF d
      <3>3. db'.pend = db.pend /\ db'.next = db.next
        BY <3>1, <3>2, OnlySchedules DEF SameView
      <3> QED
        BY <1>1, <1>2, <3>3
    <2>2. CASE Recover \/ OpenLog \/ OpenManifest \/ OpenCurrent \/ RecoverLogFile
      <3>1. db'.phase \in {"replay", "save", "current", "clean"}
        BY <1>3, <2>2, DatabaseFields
        DEF Recover, OpenLog, OpenManifest, OpenCurrent, RecoverLogFile
      <3> QED
        BY <3>1
    <2> QED
      BY <1>4, <1>11, <2>1, <2>2 DEF Open, NewDB, RecoverFails, vars
  <1> QED
    BY <1>4, <1>5, <1>6, <1>9, <1>10, <1>11 DEF Next, vars, ReadBegin, ReadEnd

LEMMA NextPhase == DBInv /\ PhaseInv /\ [Next]_vars => PhaseInv'
  <1> SUFFICES ASSUME DBInv, PhaseInv, [Next]_vars PROVE PhaseInv'
    OBVIOUS
  <1>1. DOMAIN db = DOMAIN Closed
    BY DEF DBInv, FieldsInv
  <1>2. ASSUME db'.phase = db.phase PROVE PhaseInv'
    BY <1>2 DEF PhaseInv
  <1>3. CASE db' = db
    BY <1>2, <1>3
  <1>4. CASE Background
    <2>1. CASE Onward(db', db)
      BY <1>2, <2>1 DEF Onward
    <2>2. CASE db' = NextNumber(db)
      BY <1>1, <1>2, <2>2, DatabaseFields DEF NextNumber
    <2> QED
      BY <1>4, <2>1, <2>2, BackgroundOnward
  <1>5. CASE CloseBegin
    BY <1>1, <1>2, <1>5, DatabaseFields DEF CloseBegin
  <1>6. ASSUME NEW w \in Writers, RoomSwitch(w) PROVE PhaseInv'
    <2> DEFINE d == [db EXCEPT !.next = @ + 1, !.logno = db.next, !.imm = db.mem, !.mem = db.next]
    <2>1. DOMAIN d = DOMAIN Closed /\ d.phase = db.phase
      BY <1>1, DatabaseFields
    <2>2. db' = MaybeSchedule(d)
      BY <1>6 DEF RoomSwitch
    <2> HIDE DEF d
    <2>3. db'.phase = db.phase
      BY <2>1, <2>2, OnlySchedules DEF SameView
    <2> QED
      BY <1>2, <2>3
  <1>7. ASSUME NEW w \in Writers, Publish(w) PROVE PhaseInv'
    BY <1>1, <1>2, <1>7, DatabaseFields DEF Publish
  <1>8. ASSUME NEW w \in Writers, Step(w) \/ \E sync, null \in BOOLEAN : Write(w, sync, null)
        PROVE  PhaseInv'
    BY <1>3, <1>6, <1>7, <1>8 DEF Step, RoomError, RoomDelay, RoomWait, RoomForNull, RoomSwitchFails,
       InsertInto, LogGroup, Write
  <1>9. CASE CloseEnd \/ Crash \/ PowerLoss \/ OpenFails
    <2>1. LoseMemory
      BY <1>9 DEF CloseEnd, Crash, PowerLoss, OpenFails
    <2> QED
      BY <2>1 DEF LoseMemory, Closed, PhaseInv
  <1>10. CASE Open
    <2>1. CASE OpenClean
      <3> DEFINE d == [db EXCEPT !.phase = "open"]
      <3>1. DOMAIN d = DOMAIN Closed /\ d.phase = "open"
        BY <1>1, DatabaseFields
      <3>2. db' = MaybeSchedule(d)
        BY <2>1 DEF OpenClean
      <3> HIDE DEF d
      <3>3. db'.phase = "open"
        BY <3>1, <3>2, OnlySchedules DEF SameView
      <3> QED
        BY <3>3 DEF PhaseInv
    <2>2. CASE Recover \/ OpenLog \/ OpenManifest \/ OpenCurrent \/ RecoverLogFile
      <3>1. db'.phase \in {"replay", "save", "current", "clean"}
        BY <1>1, <2>2, DatabaseFields
        DEF Recover, OpenLog, OpenManifest, OpenCurrent, RecoverLogFile
      <3> QED
        BY <3>1 DEF PhaseInv
    <2> QED
      BY <1>3, <1>10, <2>1, <2>2 DEF Open, NewDB, RecoverFails, vars
  <1> QED
    BY <1>3, <1>4, <1>5, <1>8, <1>9, <1>10 DEF Next, vars, ReadBegin, ReadEnd

-----------------------------------------------------------------------------
(* Steps of the open database that move little *)

\* The current memtables stay.
SameMemory(ms) ==
  \A m \in ms : /\ m \in DOMAIN memtab' <=> m \in DOMAIN memtab
                /\ m \in DOMAIN memtab => memtab'[m] = memtab[m]

LEMMA StoreStays ==
  ASSUME ReadsInv, AnswersInv, db.phase = "open", UNCHANGED <<disk, acked>>,
         Onward(db', db), SameFiles(db', db), SameMemory({db.mem, db.imm}),
         \/ bg' = bg
         \/ /\ bg.pc # "install" \/ db'.err
            /\ bg'.pc # "install" /\ (Writing' => Writing /\ bg'.out = bg.out),
         \A w \in Writers : InFlight(w) => InFlight(w)' /\ wr'[w].group = wr[w].group
  PROVE  KeptInv' /\ LatestLogInv' /\ OpeningInv' /\ OpenInv'
  <1>1. /\ db'.phase = "open" /\ db'.last = db.last /\ db'.logno = db.logno /\ db'.mem = db.mem
        /\ db'.man = db.man /\ (db.err => db'.err) /\ db'.next = db.next
        /\ db'.files = db.files /\ db'.imm = db.imm /\ db'.vlog = db.vlog
    BY DEF Onward, SameFiles
  <1>2. KeptInv'
    BY DEF AnswersInv, KeptInv, Answered, Promised
  <1>3. LatestLogInv' /\ OpeningInv'
    BY <1>1 DEF AnswersInv, LatestLogInv, OpeningInv
  <1>4. /\ db.mem \in DOMAIN memtab /\ (db.imm # 0 => db.imm \in DOMAIN memtab)
        /\ memtab'[db.mem] = memtab[db.mem] /\ (db.imm # 0 => memtab'[db.imm] = memtab[db.imm])
    BY DEF ReadsInv, MemtablesInv, SameMemory
  <1>5. Content' = Content /\ Opened' = Opened /\ Answered' = Answered /\ Promised' = Promised
        /\ Found' = Found
    <2>1. UNION {memtab'[m] : m \in DOMAIN memtab' \cap {db.mem, db.imm}}
          = UNION {memtab[m] : m \in DOMAIN memtab \cap {db.mem, db.imm}}
      BY DEF SameMemory
    <2>2. Content' = Content
      BY <1>1, <2>1 DEF Content, TablesOf
    <2>3. Opened' = Opened /\ Found' = Found
      BY <1>1 DEF Opened, Found
    <2> QED
      BY <2>2, <2>3 DEF Answered, Promised
  <1>6. EndsInv /\ FoundInv /\ MemoryInv
    BY DEF AnswersInv, OpenInv
  <1>7. EndsInv'
    <2>1. ASSUME NEW k \in Ends(Man(disk)) PROVE EndInv(k)'
      <3>1. EndInv(k)
        BY <1>6, <2>1 DEF EndsInv
      <3>2. CASE bg' = bg
        BY <1>1, <1>4, <1>5, <3>1, <3>2 DEF EndInv
      <3>3. CASE (bg.pc # "install" \/ db'.err) /\ bg'.pc # "install"
        BY <1>1, <1>4, <1>5, <3>1, <3>3 DEF EndInv
      <3> QED
        BY <3>2, <3>3
    <2>2. Writing' => Writing /\ bg'.out = bg.out
      BY DEF Writing
    <2> QED
      BY <1>1, <1>6, <2>1, <2>2 DEF EndsInv
  <1>8. FoundInv'
    BY <1>1, <1>5, <1>6 DEF FoundInv
  <1>9. MemoryInv'
    BY <1>1, <1>4, <1>5, <1>6 DEF MemoryInv
  <1> QED
    BY <1>2, <1>3, <1>7, <1>8, <1>9 DEF OpenInv

LEMMA FlightStays ==
  ASSUME DBInv, FlightInv, \A i \in 1 .. Len(writers) : writers'[i] = writers[i],
         \A t \in Writers : wr[t].pc # "idle" => SameCall(wr'[t], wr[t]),
         \A t \in Writers : wr[t].pc = "idle" => ~InFlight(t)',
         db'.last = db.last, db'.logno = db.logno, db'.mem = db.mem,
         (\E t \in Writers : InFlight(t)) =>
           disk'.logs[db.logno] = disk.logs[db.logno] /\ memtab'[db.mem] = memtab[db.mem]
  PROVE  FlightInv'
  <1> SUFFICES ASSUME NEW w \in Writers, InFlight(w)'
               PROVE  /\ \A e \in wr'[w].group : /\ Seqno(e) \in db'.last + 1 .. NewLast(w)'
                                                 /\ \E i \in 1 .. wr'[w].last : e[2] = wr'[writers'[i]].id
                      /\ wr'[w].group \subseteq EntriesOf(disk'.logs[db'.logno])
                      /\ wr'[w].ok /\ (\E i \in 1 .. wr'[w].last : wr'[writers'[i]].sync) =>
                           disk'.logs[db'.logno].synced = Len(disk'.logs[db'.logno].recs)
                      /\ wr'[w].pc = "publish" /\ wr'[w].ok => wr'[w].group \subseteq memtab'[db'.mem]
    BY DEF FlightInv
  <1>1. wr[w].pc # "idle"
    OBVIOUS
  <1>2. SameCall(wr'[w], wr[w]) /\ InFlight(w)
    BY <1>1 DEF SameCall, InFlight
  <1>3. Len(writers) \in Nat /\ wr[w].last \in 1 .. Len(writers)
    BY <1>2, LenProperties DEF DBInv, WritersInv, InFlight
  <1>4. ASSUME NEW i \in 1 .. wr[w].last
        PROVE  wr'[writers'[i]].id = wr[writers[i]].id /\ wr'[writers'[i]].sync = wr[writers[i]].sync
    <2>1. i \in 1 .. Len(writers)
      BY <1>3
    <2>2. writers'[i] = writers[i] /\ writers[i] \in Writers
      BY <2>1, ElementOfSeq DEF DBInv, WritersInv
    <2>3. wr[writers[i]].pc # "idle"
      BY <2>1, <2>2 DEF DBInv, WritersInv
    <2> QED
      BY <2>2, <2>3 DEF SameCall
  <1>5. /\ wr'[w].group = wr[w].group /\ wr'[w].last = wr[w].last /\ wr'[w].ok = wr[w].ok
        /\ wr'[w].pc = wr[w].pc /\ NewLast(w)' = NewLast(w)
    BY <1>2 DEF SameCall, NewLast, InFlight
  <1>6. disk'.logs[db.logno] = disk.logs[db.logno] /\ memtab'[db.mem] = memtab[db.mem]
    BY <1>2
  <1> QED
    BY <1>2, <1>4, <1>5, <1>6 DEF FlightInv

\* Only the head is in flight.
LEMMA NobodyInFlight ==
  ASSUME DBInv, NEW w \in Writers, wr[w].pc \notin {"idle", "queued", "insert", "publish"}
  PROVE  \A t \in Writers : ~InFlight(t)
  <1> SUFFICES ASSUME NEW t \in Writers, InFlight(t) PROVE FALSE
    OBVIOUS
  <1>1. writers[1] = w /\ writers[1] = t
    BY OnlyTheHead DEF DBInv, InFlight
  <1> QED
    BY <1>1 DEF InFlight

LEMMA NobodyFlies ==
  ASSUME DBInv, NEW k \in 1 .. Len(writers), Pop(k, wr) PROVE FlightInv' /\ \A t \in Writers : ~InFlight(t)'
  <1>1. \A t \in Writers : wr'[t].pc \in {"idle", "room", "queued"}
    BY PoppedCalls
  <1> QED
    BY <1>1 DEF FlightInv, InFlight

StoreInv == KeptInv /\ LatestLogInv /\ OpeningInv /\ OpenInv /\ FlightInv

LEMMA SameStore ==
  ASSUME DBInv, ReadsInv, AnswersInv, db.phase = "open", UNCHANGED <<disk, db, memtab, bg, acked>>,
         \A w \in Writers : InFlight(w) => InFlight(w)' /\ wr'[w].group = wr[w].group
  PROVE  KeptInv' /\ LatestLogInv' /\ OpeningInv' /\ OpenInv'
  <1>1. Onward(db', db) /\ SameFiles(db', db)
    BY DEF DBInv, FieldsInv, Onward, SameFiles
  <1>2. SameMemory({db.mem, db.imm})
    BY DEF SameMemory
  <1> QED
    BY <1>1, <1>2, StoreStays

LEMMA WaitingWriter ==
  ASSUME DBInv, ReadsInv, AnswersInv, NEW w \in Writers,
         RoomError(w) \/ RoomDelay(w) \/ RoomWait(w) \/ RoomForNull(w) \/ RoomSwitchFails(w)
  PROVE  StoreInv'
  <1>1. wr[w].pc = "room" /\ db.phase = "open" /\ UNCHANGED <<disk, db, memtab, bg, acked>>
    BY DEF RoomError, RoomDelay, RoomWait, RoomForNull, RoomSwitchFails, Leader
  <1>2. \A t \in Writers : ~InFlight(t)
    BY <1>1, NobodyInFlight
  <1>3. KeptInv' /\ LatestLogInv' /\ OpeningInv' /\ OpenInv'
    BY <1>1, <1>2, SameStore
  <1>4. FlightInv'
    <2>1. CASE RoomError(w) \/ RoomForNull(w) \/ RoomSwitchFails(w)
      BY <2>1, Answering, NobodyFlies
    <2>2. CASE RoomDelay(w) \/ RoomWait(w)
      <3>1. \A t \in Writers : SameCall(wr'[t], wr[t])
        BY <2>2, LeaderCalls
      <3>2. \A t \in Writers : ~InFlight(t)'
        BY <1>2, <3>1 DEF SameCall, InFlight
      <3> QED
        BY <3>2 DEF FlightInv
    <2> QED
      BY <2>1, <2>2
  <1> QED
    BY <1>3, <1>4 DEF StoreInv

LEMMA WriteAnswers ==
  ASSUME DBInv, ReadsInv, AnswersInv, NEW w \in Writers, NEW sync, NEW null, Write(w, sync, null)
  PROVE  StoreInv'
  <1> DEFINE r == [Idle EXCEPT !.pc = IF writers = <<>> THEN "room" ELSE "queued",
                               !.id = used.ops + 1, !.sync = sync, !.null = null,
                               !.delay = ~null, !.force = null]
  <1>1. /\ wr' = [wr EXCEPT ![w] = r] /\ wr[w].pc = "idle" /\ db.phase = "open"
        /\ writers' = Append(writers, w) /\ UNCHANGED <<disk, db, memtab, bg, acked>>
    BY DEF Write
  <1>2. r.pc \in {"room", "queued"}
    BY DEF Idle
  <1> HIDE DEF r
  <1>3. \A t \in Writers : wr'[t] = IF t = w THEN r ELSE wr[t]
    BY <1>1 DEF DBInv, FieldsInv
  <1>4. \A t \in Writers : /\ wr[t].pc # "idle" => wr'[t] = wr[t]
                           /\ wr[t].pc = "idle" => ~InFlight(t)'
    BY <1>1, <1>2, <1>3 DEF InFlight
  <1>5. \A t \in Writers : InFlight(t) => InFlight(t)' /\ wr'[t].group = wr[t].group
    BY <1>4 DEF InFlight
  <1>6. KeptInv' /\ LatestLogInv' /\ OpeningInv' /\ OpenInv'
    BY <1>1, <1>5, SameStore
  <1>7. \A i \in 1 .. Len(writers) : writers'[i] = writers[i]
    BY <1>1, AppendProperties DEF DBInv, WritersInv
  <1>8. \A t \in Writers : wr[t].pc # "idle" => SameCall(wr'[t], wr[t])
    BY <1>4 DEF SameCall
  <1>9. FlightInv'
    BY <1>1, <1>4, <1>7, <1>8, FlightStays DEF AnswersInv
  <1> QED
    BY <1>6, <1>9 DEF StoreInv

\* The background thread between two of its files, and a call of it that fails.
LEMMA QuietAnswers ==
  ASSUME DBInv, ReadsInv, AnswersInv,
         BackgroundNothing \/ StartCompaction \/ FailMemTable \/ FailCompaction
  PROVE  StoreInv'
  <1>1. DOMAIN db = DOMAIN Closed /\ DOMAIN bg = DOMAIN NoWork
    BY DEF DBInv, FieldsInv
  <1>2. \A t \in Writers : SameCall(wr'[t], wr[t])
    BY BackgroundCalls DEF Background
  <1>3. writers' = writers /\ acked' = acked
    BY BackgroundCalls DEF Background
  <1>4. NoWork.pc = "idle"
    BY DEF NoWork
  <1>5. db.phase = "open" /\ memtab' = memtab
    BY DEF BackgroundNothing, StartCompaction, FailMemTable, FailCompaction, DBInv, CallsInv
  <1>6. /\ disk' = disk /\ Onward(db', db) /\ SameFiles(db', db)
        /\ bg.pc # "install" /\ bg'.pc # "install" /\ (Writing' => Writing /\ bg'.out = bg.out)
    <2>1. CASE BackgroundNothing
      <3>1. EndCall(db, wr) /\ bg.pc = "idle" /\ disk' = disk
        BY <2>1 DEF BackgroundNothing
      <3>2. bg' = NoWork
        BY <3>1 DEF EndCall
      <3> QED
        BY <1>1, <1>4, <3>1, <3>2, OnwardCall DEF Writing
    <2>2. CASE StartCompaction
      <3>1. bg.pc = "idle" /\ disk' = disk /\ db' = db /\ bg'.pc = "work"
        BY <1>1, <2>2, WorkFields DEF StartCompaction
      <3> QED
        BY <1>1, <3>1 DEF Onward, SameFiles, Writing
    <2>3. CASE FailMemTable
      <3> DEFINE d == [db EXCEPT !.pend = @ \ {bg.n}, !.err = TRUE]
      <3>1. Return(d) /\ bg.pc = "apply" /\ disk' = disk
        BY <2>3 DEF FailMemTable
      <3>2. DOMAIN d = DOMAIN Closed /\ Onward(d, db) /\ SameFiles(d, db)
        BY <1>1, DatabaseFields DEF Onward, SameFiles
      <3> HIDE DEF d
      <3>3. Onward(db', db) /\ SameFiles(db', db)
        BY <3>1, <3>2, OnwardReturn, OnwardIsTransitive DEF SameFiles
      <3>4. bg.ret # "cleanup" /\ bg.ret \in {"end", "work", "output", "cleanup"}
        BY <3>1 DEF ReadsInv, JobInv, DBInv, FieldsInv
      <3>5. bg' = NoWork \/ (bg.ret # "end" /\ bg' = [bg EXCEPT !.pc = bg.ret, !.edit = None])
        BY <3>1 DEF Return, EndCall
      <3>6. bg'.pc = "idle" \/ (bg.ret # "end" /\ bg'.pc = bg.ret /\ bg'.out = bg.out)
        BY <1>1, <1>4, <3>5, WorkFields
      <3>7. bg.pc # "install" /\ bg'.pc # "install" /\ (Writing' => Writing /\ bg'.out = bg.out)
        BY <3>1, <3>4, <3>6 DEF Writing
      <3> QED
        BY <3>1, <3>3, <3>7
    <2>4. CASE FailCompaction
      <3> DEFINE d == [db EXCEPT !.err = TRUE]
                 e == [d EXCEPT !.pend = @ \ {bg.out}]
      <3>1. Cleanup(d) /\ bg.pc \in {"work", "output"}
        BY <2>4 DEF FailCompaction
      <3>2. DOMAIN d = DOMAIN Closed /\ Onward(d, db) /\ SameFiles(d, db)
        BY <1>1, OnwardFailed DEF Onward
      <3>3. e.err
        BY <1>1, DatabaseFields
      <3>4. DeleteObsoleteFiles(e, {})
        BY <3>1 DEF Cleanup
      <3>5. disk' = disk
        BY <3>3, <3>4 DEF DeleteObsoleteFiles
      <3> HIDE DEF d
      <3>6. Onward(db', db) /\ SameFiles(db', db) /\ bg' = NoWork
        BY <3>1, <3>2, OnwardCleanup, OnwardIsTransitive DEF SameFiles
      <3> QED
        BY <1>4, <3>1, <3>5, <3>6 DEF Writing
    <2> QED
      BY <2>1, <2>2, <2>3, <2>4
  <1>7. \A w \in Writers : InFlight(w) => InFlight(w)' /\ wr'[w].group = wr[w].group
    BY <1>2 DEF SameCall, InFlight
  <1>8. SameMemory({db.mem, db.imm})
    BY <1>5 DEF SameMemory
  <1>9. KeptInv' /\ LatestLogInv' /\ OpeningInv' /\ OpenInv'
    BY <1>3, <1>5, <1>6, <1>7, <1>8, StoreStays
  <1>10. FlightInv'
    <2>1. db'.last = db.last /\ db'.logno = db.logno /\ db'.mem = db.mem
      BY <1>6 DEF Onward
    <2>2. \A t \in Writers : wr[t].pc = "idle" => ~InFlight(t)'
      BY <1>2 DEF SameCall, InFlight
    <2> QED
      BY <1>2, <1>3, <1>5, <1>6, <2>1, <2>2, FlightStays DEF AnswersInv
  <1> QED
    BY <1>9, <1>10 DEF StoreInv

LEMMA ReaderAnswers ==
  ASSUME DBInv, ReadsInv, AnswersInv, db.phase = "open", ReadBegin \/ ReadEnd \/ CloseBegin
  PROVE  StoreInv'
  <1>1. UNCHANGED <<disk, writers, wr, bg, acked>>
    BY DEF ReadBegin, ReadEnd, CloseBegin
  <1>2. Onward(db', db) /\ SameFiles(db', db)
    <2>1. DOMAIN db = DOMAIN Closed
      BY DEF DBInv, FieldsInv
    <2>2. db' = db \/ db' = [db EXCEPT !.shut = TRUE]
      BY DEF ReadBegin, ReadEnd, CloseBegin
    <2> QED
      BY <2>1, <2>2, DatabaseFields DEF Onward, SameFiles
  <1>3. SameMemory({db.mem, db.imm})
    <2>1. memtab' = memtab \/ memtab' = Without(memtab, DOMAIN memtab \ {db.mem, db.imm})
      BY DEF ReadBegin, ReadEnd, CloseBegin
    <2> QED
      BY <2>1 DEF SameMemory, Without, Restrict
  <1>4. \A w \in Writers : InFlight(w)' = InFlight(w) /\ wr'[w].group = wr[w].group
    BY <1>1 DEF InFlight
  <1>5. KeptInv' /\ LatestLogInv' /\ OpeningInv' /\ OpenInv'
    BY <1>1, <1>2, <1>3, <1>4, StoreStays
  <1>6. FlightInv'
    <2>1. db'.last = db.last /\ db'.logno = db.logno /\ db'.mem = db.mem
      BY <1>2 DEF Onward
    <2>2. memtab'[db.mem] = memtab[db.mem]
      BY <1>3 DEF SameMemory, ReadsInv, MemtablesInv
    <2>3. \A t \in Writers : SameCall(wr'[t], wr[t]) /\ (wr[t].pc = "idle" => ~InFlight(t)')
      BY <1>1 DEF SameCall, InFlight
    <2> QED
      BY <1>1, <2>1, <2>2, <2>3, FlightStays DEF AnswersInv
  <1> QED
    BY <1>5, <1>6 DEF StoreInv

-----------------------------------------------------------------------------
(* Logs come and go, and writers *)

LEMMA OpenFacts ==
  ASSUME DBInv, ReadsInv, AnswersInv, db.phase \in {"clean", "open"}
  PROVE  /\ EndsInv /\ FoundInv /\ MemoryInv /\ KeptInv /\ Kept(disk, Answered, Promised)
         /\ disk.cur \in DOMAIN disk.mans /\ disk.cur \in Nat /\ disk.cur # 0 /\ db.man = disk.cur
         /\ DOMAIN disk.mans \subseteq Nat /\ Manifest(Man(disk)) /\ Man(disk).synced > 0
         /\ Len(Man(disk).edits) \in Ends(Man(disk))
         /\ db.vlog \in Nat /\ db.logno \in Nat /\ db.vlog <= db.logno
         /\ db.logno \in DOMAIN disk.logs /\ LogFile(disk.logs[db.logno])
         /\ db.logno < db.next /\ \A l \in DOMAIN disk.logs : l \in Nat /\ l <= db.logno
         /\ \A k \in Ends(Man(disk)) :
              /\ k \in 1 .. Len(Man(disk).edits) /\ EndInv(k) /\ Point(disk, k, Answered, Promised)
              /\ LogAt(disk, k) \in Nat /\ db.vlog <= LogAt(disk, k) /\ LogAt(disk, k) <= db.logno
         /\ EntriesOf(disk.logs[db.logno]) \subseteq Found
         /\ Reach(disk) \subseteq Found
         /\ DOMAIN disk = {"logs", "tabs", "mans", "cur"}
  <1>1. EndsInv /\ FoundInv /\ MemoryInv /\ KeptInv /\ Kept(disk, Answered, Promised)
    BY DEF AnswersInv, OpenInv, KeptInv
  <1>2. /\ disk.cur \in DOMAIN disk.mans /\ disk.cur \in Nat /\ disk.cur # 0 /\ db.man = disk.cur
        /\ DOMAIN disk.mans \subseteq Nat /\ Man(disk).synced > 0
    BY <1>1 DEF EndsInv, Kept
  <1>3. Manifest(Man(disk)) /\ DOMAIN disk = {"logs", "tabs", "mans", "cur"}
    BY <1>2 DEF DBInv, VersionsInv, DiskInv, Man
  <1>4. Len(Man(disk).edits) \in Ends(Man(disk))
    <2>1. Len(Man(disk).edits) \in Nat
      BY <1>3, LenProperties DEF Manifest, FiniteEdits
    <2>2. Man(disk).synced \in 0 .. Len(Man(disk).edits)
      BY <1>3 DEF Manifest
    <2> QED
      BY <1>2, <2>1, <2>2 DEF Ends
  <1>5. /\ db.logno \in DOMAIN disk.logs /\ LogFile(disk.logs[db.logno])
        /\ db.logno < db.next /\ \A l \in DOMAIN disk.logs : l \in Nat /\ l <= db.logno
    BY DEF AnswersInv, LatestLogInv, ReadsInv, DirectoryInv
  <1>6. ASSUME NEW k \in Ends(Man(disk))
        PROVE  /\ k \in 1 .. Len(Man(disk).edits) /\ EndInv(k) /\ Point(disk, k, Answered, Promised)
               /\ LogAt(disk, k) \in Nat /\ db.vlog <= LogAt(disk, k) /\ LogAt(disk, k) <= db.logno
    <2>1. k \in 1 .. Len(Man(disk).edits)
      BY DEF Ends
    <2>2. Point(disk, k, Answered, Promised) /\ EndInv(k)
      BY <1>1, <1>2 DEF Kept, EndsInv
    <2> QED
      BY <2>1, <2>2 DEF Point, EndInv
  <1>7. db.vlog \in Nat /\ db.logno \in Nat /\ db.vlog <= db.logno
    <2>1. db.vlog \in Nat /\ db.logno \in Nat
      BY <1>1, <1>5 DEF EndsInv
    <2> QED
      BY <1>4, <1>6, <2>1
  <1>8. EntriesOf(disk.logs[db.logno]) \subseteq Found
    BY <1>5, <1>7 DEF Found, AllFrom
  <1>9. Reach(disk) \subseteq Found
    <2> SUFFICES ASSUME NEW k \in Ends(Man(disk))
                 PROVE  TabsAt(disk, k) \subseteq Found /\ AllFrom(disk.logs, LogAt(disk, k)) \subseteq Found
      BY DEF Reach
    <2>1. \A l \in DOMAIN disk.logs : l >= LogAt(disk, k) => l >= db.vlog
      BY <1>5, <1>6, <1>7
    <2> QED
      BY <2>1 DEF Found, AllFrom
  <1> QED
    BY <1>1, <1>2, <1>3, <1>4, <1>5, <1>6, <1>7, <1>8, <1>9

\* A new log is empty, and the old one has all entries of the memtable that
\* becomes immutable.
LEMMA RoomSwitchAnswers ==
  ASSUME DBInv, ReadsInv, AnswersInv, NEW w \in Writers, RoomSwitch(w) PROVE StoreInv'
  <1> DEFINE d == [db EXCEPT !.next = @ + 1, !.logno = db.next, !.imm = db.mem, !.mem = db.next]
             log == [recs |-> <<>>, synced |-> 0, torn |-> FALSE]
  <1>1. /\ wr[w].pc = "room" /\ db.phase = "open" /\ db.imm = 0 /\ ~db.err
        /\ UNCHANGED <<writers, bg, acked>>
        /\ db' = MaybeSchedule(d)
        /\ disk' = [disk EXCEPT !.logs = With(@, db.next, log)]
        /\ memtab' = With(memtab, db.next, {})
    BY DEF RoomSwitch, Leader, CanSwitch
  <1>2. /\ DOMAIN d = DOMAIN Closed /\ d.phase = db.phase /\ d.mem = db.next /\ d.imm = db.mem
        /\ d.files = db.files /\ d.next = db.next + 1 /\ d.last = db.last /\ d.man = db.man
        /\ d.logno = db.next /\ d.vlog = db.vlog /\ d.err = db.err
    BY DatabaseFields DEF DBInv, FieldsInv
  <1> HIDE DEF d
  <1>3. /\ db'.phase = "open" /\ db'.mem = db.next /\ db'.imm = db.mem
        /\ db'.files = db.files /\ db'.next = db.next + 1 /\ db'.last = db.last /\ db'.man = db.man
        /\ db'.logno = db.next /\ db'.vlog = db.vlog /\ db'.err = db.err
    BY <1>1, <1>2, DatabaseFields DEF MaybeSchedule
  <1>4. /\ disk'.tabs = disk.tabs /\ disk'.mans = disk.mans /\ disk'.cur = disk.cur
        /\ disk'.logs = With(disk.logs, db.next, log)
    BY <1>1 DEF DBInv, VersionsInv, DiskInv
  <1>5. EndsInv /\ FoundInv /\ MemoryInv /\ KeptInv /\ Kept(disk, Answered, Promised)
    BY <1>1, OpenFacts
  <1>6. /\ db.next \in Nat /\ db.last \in Nat /\ db.logno \in Nat /\ db.vlog \in Nat
        /\ db.vlog <= db.logno /\ db.logno < db.next /\ db.logno \in DOMAIN disk.logs
        /\ \A l \in DOMAIN disk.logs : l \in Nat /\ l <= db.logno
    BY <1>1, OpenFacts DEF ReadsInv, NumbersInv
  <1>7. db.next \notin DOMAIN disk.logs /\ log.recs = <<>>
    BY <1>6
  <1>8. EntriesOf(log) = {}
    <2>1. Len(log.recs) = 0
      BY <1>7
    <2>2. 1 .. Len(log.recs) = {}
      BY <2>1
    <2> QED
      BY <2>2 DEF EntriesOf
  <1> HIDE DEF log
  <1>9. /\ DOMAIN disk'.logs = DOMAIN disk.logs \cup {db.next} /\ disk'.logs[db.next] = log
        /\ \A l \in DOMAIN disk.logs : disk'.logs[l] = disk.logs[l]
    BY <1>4, <1>7 DEF With
  <1>10. \A n : /\ SafeFrom(disk.logs, n) \subseteq SafeFrom(disk'.logs, n)
                /\ SyncedFrom(disk.logs, n) \subseteq SyncedFrom(disk'.logs, n)
                /\ AllFrom(disk'.logs, n) = AllFrom(disk.logs, n)
    <2> TAKE n
    <2>1. SafeFrom(disk.logs, n) \subseteq SafeFrom(disk'.logs, n)
          /\ SyncedFrom(disk.logs, n) \subseteq SyncedFrom(disk'.logs, n)
      BY <1>9 DEF SafeFrom, SyncedFrom
    <2>2. AllFrom(disk'.logs, n) = AllFrom(disk.logs, n)
      BY <1>8, <1>9 DEF AllFrom
    <2> QED
      BY <2>1, <2>2
  <1>11. Man(disk') = Man(disk)
    BY <1>4 DEF Man
  <1>12. /\ disk.cur # 0 /\ disk'.cur \in DOMAIN disk'.mans /\ DOMAIN disk'.mans \subseteq Nat
         /\ \A k \in Ends(Man(disk)) : Numbers(FilesAt(Man(disk).edits, k)) \subseteq DOMAIN disk.tabs
    BY <1>1, <1>4, OpenFacts DEF Point
  <1>13. /\ \A k \in Ends(Man(disk)) : TabsAt(disk', k) = TabsAt(disk, k) /\ LogAt(disk', k) = LogAt(disk, k)
         /\ Kept(disk', Answered, Promised)
    BY <1>4, <1>5, <1>10, <1>11, <1>12, NothingNew
  <1>14. KeptInv'
    BY <1>1, <1>13 DEF KeptInv, Answered, Promised
  <1>15. LatestLogInv' /\ OpeningInv'
    BY <1>3, <1>6, <1>9 DEF LatestLogInv, OpeningInv
  <1>16. Found' = Found /\ Opened' = Opened /\ Answered' = Answered /\ Promised' = Promised
    BY <1>1, <1>3, <1>4, <1>10, <1>11, <1>13 DEF Found, Opened, Answered, Promised
  <1>17. /\ DOMAIN memtab \subseteq 1 .. db.next - 1 /\ db.mem \in DOMAIN memtab
         /\ 0 \notin DOMAIN memtab /\ db.next \notin DOMAIN memtab
    BY <1>1, <1>6 DEF ReadsInv, MemtablesInv
  <1>18. /\ DOMAIN memtab' = DOMAIN memtab \cup {db.next}
         /\ memtab'[db.next] = {} /\ \A m \in DOMAIN memtab : memtab'[m] = memtab[m]
    BY <1>1, <1>17 DEF With
  <1>19. memtab[db.mem] \subseteq EntriesOf(disk.logs[db.logno])
    BY <1>5 DEF MemoryInv
  <1>20. EndsInv'
    <2>1. ASSUME NEW k \in Ends(Man(disk)) PROVE EndInv(k)'
      <3>1. EndInv(k) /\ LogAt(disk, k) <= db.logno /\ LogAt(disk, k) \in Nat
        BY <1>1, <2>1, OpenFacts
      <3>2. memtab'[db'.imm] \subseteq AllFrom(disk'.logs, LogAt(disk, k))
        <4>1. memtab'[db'.imm] = memtab[db.mem]
          BY <1>3, <1>17, <1>18
        <4>2. db.logno >= LogAt(disk, k)
          BY <1>6, <3>1
        <4>3. EntriesOf(disk.logs[db.logno]) \subseteq AllFrom(disk.logs, LogAt(disk, k))
          BY <1>6, <4>2 DEF AllFrom
        <4> QED
          BY <1>10, <1>19, <4>1, <4>3
      <3>3. LogAt(disk, k) <= db.next
        BY <1>6, <3>1
      <3>4. TabsAt(disk', k) = TabsAt(disk, k) /\ LogAt(disk', k) = LogAt(disk, k)
        BY <1>13, <2>1
      <3> QED
        BY <1>1, <1>3, <1>4, <1>11, <1>16, <3>1, <3>2, <3>3, <3>4 DEF EndInv
    <2>2. db.man < db'.next
      BY <1>3, <1>5, <1>6, <1>12, <1>1, OpenFacts DEF EndsInv
    <2> QED
      BY <1>1, <1>3, <1>4, <1>5, <1>11, <2>1, <2>2 DEF EndsInv, Writing
  <1>21. \A t \in Writers : ~InFlight(t)
    BY <1>1, NobodyInFlight
  <1>22. \A e \in Found : Seqno(e) <= db.last
    BY <1>5, <1>21 DEF FoundInv
  <1>23. FoundInv'
    BY <1>3, <1>5, <1>16, <1>22 DEF FoundInv
  <1>24. MemoryInv'
    <2>1. \A e \in memtab'[db'.imm] : Seqno(e) \in 0 .. db'.last
      <3>1. LogFile(disk.logs[db.logno]) /\ EntriesOf(disk.logs[db.logno]) \subseteq Found
        BY <1>1, OpenFacts
      <3>2. \A e \in EntriesOf(disk.logs[db.logno]) : Seqno(e) \in Nat
        BY <3>1, PartsOfLog
      <3> QED
        BY <1>3, <1>6, <1>17, <1>18, <1>19, <1>22, <3>1, <3>2
    <2>2. Content' = Content
      <3>1. UNION {memtab'[m] : m \in DOMAIN memtab' \cap {db.next, db.mem}}
            = UNION {memtab[m] : m \in DOMAIN memtab \cap {db.mem, 0}}
        BY <1>17, <1>18
      <3> QED
        BY <1>1, <1>3, <1>4, <3>1 DEF Content, TablesOf
    <2> QED
      BY <1>3, <1>5, <1>16, <1>18, <2>1, <2>2 DEF MemoryInv
  <1>25. FlightInv'
    <2>1. \A t \in Writers : SameCall(wr'[t], wr[t])
      BY LeaderCalls
    <2>2. \A t \in Writers : ~InFlight(t)'
      BY <1>21, <2>1 DEF SameCall, InFlight
    <2> QED
      BY <2>2 DEF FlightInv
  <1> QED
    BY <1>3, <1>14, <1>15, <1>20, <1>23, <1>24, <1>25 DEF StoreInv, OpenInv

-----------------------------------------------------------------------------
(* A group is committed *)

\* The batches of a group are numbered one after the other.
LEMMA GroupNumbers ==
  ASSUME DBInv, NEW last \in Nat, NEW n \in 1 .. Len(writers)
  PROVE  LET group == {<<last + Cardinality(Batches(i)), wr[writers[i]].id>> : i \in Batches(n)}
         IN  /\ Unique(group)
             /\ \A e \in group : Seqno(e) \in last + 1 .. last + Cardinality(group)
             /\ \A e \in group : \E i \in 1 .. n : e[2] = wr[writers[i]].id
  <1> DEFINE entry(i) == <<last + Cardinality(Batches(i)), wr[writers[i]].id>>
             group == {entry(i) : i \in Batches(n)}
             g == [i \in Batches(n) |-> entry(i)]
  <1>1. Len(writers) \in Nat /\ n \in Nat
    BY LenProperties DEF DBInv, WritersInv
  <1>2. Batches(n) \in SUBSET (1 .. n)
    BY DEF Batches
  <1>3. ASSUME NEW i \in Nat PROVE IsFiniteSet(Batches(i)) /\ Cardinality(Batches(i)) \in Nat
    <2>1. Batches(i) \in SUBSET (1 .. i) /\ IsFiniteSet(1 .. i)
      BY FS_Interval DEF Batches
    <2>2. IsFiniteSet(Batches(i))
      BY <2>1, FS_Subset
    <2> QED
      BY <2>2, FS_CardinalityType
  <1>4. ASSUME NEW j \in Batches(n), NEW i \in 1 .. j
        PROVE  /\ Cardinality(Batches(i)) <= Cardinality(Batches(j))
               /\ i # j => Cardinality(Batches(i)) # Cardinality(Batches(j))
    <2>1. j \in 1 .. n /\ j \in Nat /\ i \in Nat
      BY <1>1, <1>2
    <2>2. Batches(i) \in SUBSET Batches(j)
      BY <2>1 DEF Batches
    <2>3. j \in Batches(j)
      BY <2>1 DEF Batches
    <2>4. i # j => j \notin Batches(i)
      BY <2>1 DEF Batches
    <2>5. IsFiniteSet(Batches(j))
      BY <1>3, <2>1
    <2> QED
      BY <2>2, <2>3, <2>4, <2>5, FS_Subset
  <1>5. ASSUME NEW i \in Batches(n), NEW j \in Batches(n),
               Cardinality(Batches(i)) = Cardinality(Batches(j)) PROVE i = j
    <2>1. i \in 1 .. j \/ j \in 1 .. i
      BY <1>1, <1>2
    <2> QED
      BY <1>4, <1>5, <2>1
  <1>6. \A i \in Batches(n) : /\ entry(i)[1] = last + Cardinality(Batches(i))
                              /\ entry(i)[2] = wr[writers[i]].id
                              /\ i \in 1 .. n /\ i \in Nat
    BY <1>1, <1>2
  <1> HIDE DEF entry
  <1>7. ASSUME NEW i \in Batches(n), NEW j \in Batches(n), entry(i)[1] = entry(j)[1] PROVE i = j
    <2>1. Cardinality(Batches(i)) \in Nat /\ Cardinality(Batches(j)) \in Nat
      BY <1>3, <1>6
    <2>2. Cardinality(Batches(i)) = Cardinality(Batches(j))
      BY <1>6, <1>7, <2>1
    <2> QED
      BY <1>5, <2>2
  <1>8. Unique(group)
    BY <1>7 DEF Unique, Seqno
  <1>9. Cardinality(group) = Cardinality(Batches(n))
    <2>1. g \in Surjection(Batches(n), group)
      BY DEF Surjection
    <2>2. g \in Injection(Batches(n), group)
      <3>1. \A i, j \in Batches(n) : g[i] = g[j] => i = j
        BY <1>7
      <3> QED
        BY <2>1, <3>1 DEF Injection, Surjection, IsInjective
    <2>3. IsFiniteSet(Batches(n))
      BY <1>1, <1>3
    <2> HIDE DEF g, group
    <2> QED
      BY <2>1, <2>2, <2>3, FS_Surjection
  <1>10. ASSUME NEW i \in Batches(n)
         PROVE  entry(i)[1] \in last + 1 .. last + Cardinality(Batches(n))
    <2>1. i \in 1 .. n /\ i \in Nat
      BY <1>6
    <2>2. Cardinality(Batches(i)) <= Cardinality(Batches(n))
      <3>1. Batches(i) \in SUBSET Batches(n)
        BY <1>1, <2>1 DEF Batches
      <3> QED
        BY <1>1, <1>3, <3>1, FS_Subset
    <2>3. i \in Batches(i)
      BY <2>1 DEF Batches
    <2>4. Cardinality(Batches(i)) # 0
      BY <1>3, <2>1, <2>3, FS_EmptySet
    <2>5. Cardinality(Batches(i)) \in Nat /\ Cardinality(Batches(n)) \in Nat
      BY <1>1, <1>3, <2>1
    <2> QED
      BY <1>6, <2>2, <2>4, <2>5
  <1>11. \A e \in group : Seqno(e) \in last + 1 .. last + Cardinality(group)
    BY <1>9, <1>10 DEF Seqno
  <1>12. \A e \in group : \E i \in 1 .. n : e[2] = wr[writers[i]].id
    BY <1>6
  <1> QED
    BY <1>8, <1>11, <1>12 DEF entry

\* The group is in the log, and recovery may find it from now on.
LEMMA LogGroupAnswers ==
  ASSUME DBInv, ReadsInv, AnswersInv, NEW w \in Writers, NEW added \in BOOLEAN, NEW ok \in BOOLEAN,
         LogGroup(w, added, ok)
  PROVE  StoreInv'
  <1> DEFINE n == BuildBatchGroup(w)
             group == {<<db.last + Cardinality(Batches(i)), wr[writers[i]].id>> : i \in Batches(n)}
             log == disk.logs[db.logno]
             synced == IF wr[w].sync /\ ok THEN Len(log.recs) + 1 ELSE log.synced
             new == [recs |-> Append(log.recs, [es |-> group, safe |-> added /\ ~log.torn]),
                     synced |-> synced, torn |-> log.torn \/ ~added]
             r == [wr[w] EXCEPT !.pc = "insert", !.last = n, !.group = group, !.ok = ok,
                                !.serr = added /\ ~ok]
  <1>1. /\ wr' = [wr EXCEPT ![w] = r] /\ disk' = [disk EXCEPT !.logs[db.logno] = new]
        /\ UNCHANGED <<db, memtab, writers, bg, acked>> /\ db.phase = "open" /\ wr[w].pc = "room"
        /\ ~db.err
    BY DEF LogGroup, Leader
  <1>2. db.last \in Nat
    BY DEF ReadsInv, NumbersInv
  <1>3. /\ n \in 1 .. Len(writers) /\ writers[1] = w /\ Len(writers) \in Nat
        /\ \A i \in 2 .. n : wr[writers[i]].sync => wr[w].sync
    <2>1. Len(writers) \in Nat /\ Len(writers) >= 1 /\ writers[1] = w
      BY <1>1, OnlyTheHead DEF DBInv
    <2>2. n \in 1 .. Len(writers) /\ \A i \in 2 .. n : Joins(i, w)
      BY <2>1, GroupIsInTheQueue
    <2> QED
      BY <2>1, <2>2 DEF Joins
  <1> HIDE DEF n
  <1>4. /\ Unique(group)
        /\ \A e \in group : Seqno(e) \in db.last + 1 .. db.last + Cardinality(group)
        /\ \A e \in group : \E i \in 1 .. n : e[2] = wr[writers[i]].id
    BY <1>2, <1>3, GroupNumbers
  <1> HIDE DEF group
  <1>5. /\ r.pc = "insert" /\ r.group = group /\ r.last = n /\ r.ok = ok
        /\ r.id = wr[w].id /\ r.sync = wr[w].sync
    <2>1. DOMAIN wr[w] = DOMAIN Idle
      BY DEF DBInv, FieldsInv
    <2> QED
      BY <2>1, WriterFields
  <1> HIDE DEF r
  <1>6. \A t \in Writers : wr'[t] = IF t = w THEN r ELSE wr[t]
    BY <1>1 DEF DBInv, FieldsInv
  <1>7. EndsInv /\ FoundInv /\ MemoryInv /\ KeptInv /\ Kept(disk, Answered, Promised)
    BY <1>1, OpenFacts
  <1>8. /\ DOMAIN disk = {"logs", "tabs", "mans", "cur"} /\ db.logno \in DOMAIN disk.logs /\ LogFile(log)
        /\ Reach(disk) \subseteq Found
    BY <1>1, OpenFacts
  <1>9. /\ EntriesOf(new) = EntriesOf(log) \cup group
        /\ SafeOf(log) \subseteq SafeOf(new) /\ SyncedOf(log) \subseteq SyncedOf(new)
        /\ Len(new.recs) = Len(log.recs) + 1 /\ new.synced = synced
    <2> DEFINE b == added /\ ~log.torn
               c == log.torn \/ ~added
    <2>1. synced = log.synced \/ synced = Len(log.recs) + 1
      OBVIOUS
    <2>2. new = [recs |-> Append(log.recs, [es |-> group, safe |-> b]), synced |-> synced, torn |-> c]
      OBVIOUS
    <2> HIDE DEF b, c, new, synced, log
    <2>3. LET x == [recs |-> Append(log.recs, [es |-> group, safe |-> b]), synced |-> synced, torn |-> c]
          IN  /\ EntriesOf(x) = EntriesOf(log) \cup group
              /\ SafeOf(log) \subseteq SafeOf(x) /\ SyncedOf(log) \subseteq SyncedOf(x)
              /\ Len(x.recs) = Len(log.recs) + 1 /\ x.synced = synced
      BY <1>8, <2>1, LoggedGroup
    <2> QED
      BY <2>2, <2>3
  <1>10. wr[w].sync /\ ok => new.synced = Len(new.recs)
    BY <1>9
  <1> HIDE DEF synced, new
  <1>11. /\ disk'.tabs = disk.tabs /\ disk'.mans = disk.mans /\ disk'.cur = disk.cur
         /\ DOMAIN disk'.logs = DOMAIN disk.logs
         /\ \A l \in DOMAIN disk.logs : disk'.logs[l] = IF l = db.logno THEN new ELSE disk.logs[l]
    BY <1>1, <1>8
  <1>12. \A m : /\ SafeFrom(disk.logs, m) \subseteq SafeFrom(disk'.logs, m)
                /\ SyncedFrom(disk.logs, m) \subseteq SyncedFrom(disk'.logs, m)
                /\ AllFrom(disk.logs, m) \subseteq AllFrom(disk'.logs, m)
                /\ AllFrom(disk'.logs, m) \subseteq AllFrom(disk.logs, m) \cup group
    BY <1>9, <1>11 DEF SafeFrom, SyncedFrom, AllFrom
  <1>13. Man(disk') = Man(disk)
    BY <1>11 DEF Man
  <1>14. /\ disk.cur # 0 /\ disk'.cur \in DOMAIN disk'.mans /\ DOMAIN disk'.mans \subseteq Nat
         /\ \A k \in Ends(Man(disk)) : Numbers(FilesAt(Man(disk).edits, k)) \subseteq DOMAIN disk.tabs
    BY <1>1, <1>11, OpenFacts DEF Point
  <1>15. /\ \A k \in Ends(Man(disk)) : TabsAt(disk', k) = TabsAt(disk, k) /\ LogAt(disk', k) = LogAt(disk, k)
         /\ Reach(disk') = UNION {TabsAt(disk, k) \cup AllFrom(disk'.logs, LogAt(disk, k)) : k \in Ends(Man(disk))}
         /\ Unique(Reach(disk')) => Kept(disk', Answered, Promised)
    BY <1>7, <1>11, <1>12, <1>13, <1>14, StillKept
  <1>16. \A t \in Writers : ~InFlight(t)
    BY <1>1, NobodyInFlight
  <1>17. \A e \in Found : Seqno(e) <= db.last
    BY <1>7, <1>16 DEF FoundInv
  <1>18. Unique(Found \cup group)
    <2>1. ASSUME NEW a \in Found, NEW b \in group PROVE Seqno(a) # Seqno(b)
      <3>1. Seqno(a) <= db.last /\ Seqno(b) \in db.last + 1 .. db.last + Cardinality(group)
        BY <1>4, <1>17
      <3>2. Seqno(a) = Seqno(b) => FALSE
        <4> SUFFICES ASSUME Seqno(a) = Seqno(b) PROVE FALSE
          OBVIOUS
        <4>1. Seqno(b) \in Int /\ Seqno(b) > db.last
          BY <1>2, <3>1
        <4> QED
          BY <1>2, <3>1, <4>1
      <3> QED
        BY <3>2
    <2>2. Unique(Found)
      BY <1>7 DEF FoundInv
    <2> HIDE DEF Unique
    <2> QED
      BY <1>4, <2>1, <2>2 DEF Unique
  <1>19. Reach(disk') \subseteq Found \cup group
    <2>1. Reach(disk') \subseteq Reach(disk) \cup group
      BY <1>12, <1>15 DEF Reach
    <2> QED
      BY <1>8, <2>1
  <1>20. KeptInv' /\ Answered' = Answered /\ Promised' = Promised
    <2>1. Unique(Reach(disk'))
      BY <1>18, <1>19, FewerUnique
    <2> QED
      BY <1>1, <1>15, <2>1 DEF KeptInv, Answered, Promised
  <1>21. LatestLogInv' /\ OpeningInv'
    BY <1>1, <1>11 DEF AnswersInv, LatestLogInv, OpeningInv
  <1>22. Found' \subseteq Found \cup group /\ Opened' = Opened
    <2>1. Found' = AllFrom(disk'.logs, db.vlog) \cup UNION {TabsAt(disk, k) : k \in Ends(Man(disk))}
      BY <1>1, <1>13, <1>15 DEF Found
    <2>2. Opened' = Opened
      BY <1>1, <1>11 DEF Opened
    <2> QED
      BY <1>12, <2>1, <2>2 DEF Found
  <1>23. EndsInv'
    <2>1. ASSUME NEW k \in Ends(Man(disk)) PROVE EndInv(k)'
      <3>1. EndInv(k)
        BY <1>7 DEF EndsInv
      <3>2. TabsAt(disk', k) = TabsAt(disk, k) /\ LogAt(disk', k) = LogAt(disk, k)
        BY <1>15
      <3>3. AllFrom(disk.logs, LogAt(disk, k)) \subseteq AllFrom(disk'.logs, LogAt(disk, k))
        BY <1>12
      <3> QED
        BY <1>1, <1>11, <1>13, <1>22, <3>1, <3>2, <3>3 DEF EndInv
    <2> QED
      BY <1>1, <1>7, <1>11, <1>13, <2>1 DEF EndsInv, Writing
  <1>24. FoundInv'
    <2>1. Unique(Found')
      BY <1>18, <1>22, FewerUnique
    <2>2. InFlight(w)' /\ wr'[w].group = group
      BY <1>5, <1>6 DEF InFlight
    <2> QED
      BY <1>1, <1>17, <1>22, <2>1, <2>2 DEF FoundInv
  <1>25. MemoryInv'
    <2>1. Content' = Content
      BY <1>1, <1>11 DEF Content, TablesOf
    <2> QED
      BY <1>1, <1>7, <1>8, <1>9, <1>11, <1>20, <2>1 DEF MemoryInv
  <1>26. FlightInv'
    <2> SUFFICES ASSUME NEW t \in Writers, InFlight(t)'
                 PROVE  /\ \A e \in wr'[t].group : /\ Seqno(e) \in db'.last + 1 .. NewLast(t)'
                                                   /\ \E i \in 1 .. wr'[t].last : e[2] = wr'[writers'[i]].id
                        /\ wr'[t].group \subseteq EntriesOf(disk'.logs[db'.logno])
                        /\ wr'[t].ok /\ (\E i \in 1 .. wr'[t].last : wr'[writers'[i]].sync) =>
                             disk'.logs[db'.logno].synced = Len(disk'.logs[db'.logno].recs)
                        /\ wr'[t].pc = "publish" /\ wr'[t].ok => wr'[t].group \subseteq memtab'[db'.mem]
      BY DEF FlightInv
    <2>1. t = w
      BY <1>6, <1>16 DEF InFlight
    <2>2. wr'[t] = r /\ NewLast(t)' = db.last + Cardinality(group)
      BY <1>1, <1>5, <1>6, <2>1 DEF NewLast
    <2>3. \A i \in 1 .. n : /\ wr'[writers'[i]].id = wr[writers[i]].id
                            /\ wr'[writers'[i]].sync = wr[writers[i]].sync
      <3> TAKE i \in 1 .. n
      <3>1. writers[i] \in Writers
        BY <1>3, ElementOfSeq DEF DBInv, WritersInv
      <3> QED
        BY <1>1, <1>5, <1>6, <3>1
    <2>4. (\E i \in 1 .. n : wr[writers[i]].sync) => wr[w].sync
      <3>1. \A i \in 1 .. n : i = 1 \/ i \in 2 .. n
        BY <1>3
      <3> QED
        BY <1>3, <3>1
    <2>5. disk'.logs[db'.logno] = new
      BY <1>1, <1>8, <1>11
    <2> QED
      BY <1>1, <1>4, <1>5, <1>9, <1>10, <2>2, <2>3, <2>4, <2>5
  <1> QED
    BY <1>1, <1>20, <1>21, <1>23, <1>24, <1>25, <1>26 DEF StoreInv, OpenInv

\* The group becomes readable; nobody was answered with one of its entries.
LEMMA InsertIntoAnswers ==
  ASSUME DBInv, ReadsInv, AnswersInv, NEW w \in Writers, InsertInto(w) PROVE StoreInv'
  <1> DEFINE r == [wr[w] EXCEPT !.pc = "publish"]
             S == IF wr[w].ok THEN wr[w].group ELSE {}
  <1>1. /\ wr' = [wr EXCEPT ![w] = r] /\ wr[w].pc = "insert" /\ UNCHANGED <<disk, db, writers, bg, acked>>
        /\ memtab' = IF wr[w].ok THEN [memtab EXCEPT ![db.mem] = @ \cup wr[w].group] ELSE memtab
    BY DEF InsertInto
  <1>2. /\ r.pc = "publish" /\ r.group = wr[w].group /\ r.last = wr[w].last /\ r.ok = wr[w].ok
        /\ r.id = wr[w].id /\ r.sync = wr[w].sync
    <2>1. DOMAIN wr[w] = DOMAIN Idle
      BY DEF DBInv, FieldsInv
    <2> QED
      BY <2>1, WriterFields
  <1> HIDE DEF r
  <1>3. \A t \in Writers : wr'[t] = IF t = w THEN r ELSE wr[t]
    BY <1>1 DEF DBInv, FieldsInv
  <1>4. db.phase = "open" /\ \A t \in Writers : InFlight(t) => t = w
    <2>1. \A t \in Writers : InFlight(t) => writers[1] = t
      BY OnlyTheHead DEF DBInv, InFlight
    <2>2. writers # <<>> /\ writers[1] = w
      BY <1>1, OnlyTheHead DEF DBInv
    <2> QED
      BY <2>1, <2>2 DEF DBInv, CallsInv
  <1>5. /\ DOMAIN memtab' = DOMAIN memtab
        /\ \A m \in DOMAIN memtab : memtab'[m] = IF m = db.mem THEN memtab[m] \cup S ELSE memtab[m]
    BY <1>1
  <1>6. db.mem \in DOMAIN memtab /\ db.imm \in DOMAIN memtab \cup {0} /\ db.mem # db.imm
    BY <1>4 DEF ReadsInv, MemtablesInv
  <1>7. EndsInv /\ FoundInv /\ MemoryInv
    BY <1>4, OpenFacts
  <1>8. S \subseteq EntriesOf(disk.logs[db.logno]) /\ S \cap Answered = {}
    <2>1. S \subseteq wr[w].group /\ InFlight(w)
      BY <1>1 DEF InFlight
    <2>2. wr[w].group \subseteq EntriesOf(disk.logs[db.logno])
      BY <2>1 DEF AnswersInv, FlightInv
    <2>3. \A e \in wr[w].group : Seqno(e) \in Nat /\ Seqno(e) > db.last
      BY <1>1 DEF ReadsInv, GroupsInv, Entries
    <2>4. \A e \in Answered : Seqno(e) \in 0 .. db.last
      BY <1>7 DEF MemoryInv
    <2>5. db.last \in Nat
      BY DEF ReadsInv, NumbersInv
    <2> HIDE DEF S
    <2>6. ASSUME NEW e \in S, e \in Answered PROVE FALSE
      <3>1. Seqno(e) \in Nat /\ Seqno(e) > db.last /\ Seqno(e) \in 0 .. db.last
        BY <2>1, <2>3, <2>4, <2>6
      <3> QED
        BY <2>5, <3>1
    <2> QED
      BY <2>1, <2>2, <2>6
  <1>9. wr[w].ok => wr[w].group = S
    OBVIOUS
  <1> HIDE DEF S
  <1>10. /\ KeptInv' /\ LatestLogInv' /\ OpeningInv'
         /\ Answered' = Answered /\ Promised' = Promised /\ Found' = Found /\ Opened' = Opened
    BY <1>1, <1>4 DEF AnswersInv, KeptInv, Answered, Promised, LatestLogInv, OpeningInv, Found, Opened
  <1>11. \A t \in Writers : InFlight(t) => InFlight(t)' /\ wr'[t].group = wr[t].group
    BY <1>2, <1>3, <1>4 DEF InFlight
  <1>12. EndsInv'
    <2>1. db.imm # 0 => memtab'[db.imm] = memtab[db.imm]
      BY <1>5, <1>6
    <2>2. ASSUME NEW k \in Ends(Man(disk)) PROVE EndInv(k)'
      <3>1. EndInv(k)
        BY <1>7 DEF EndsInv
      <3> QED
        BY <1>1, <1>10, <2>1, <3>1 DEF EndInv
    <2> QED
      BY <1>1, <1>7, <2>2 DEF EndsInv, Writing
  <1>13. FoundInv'
    BY <1>1, <1>7, <1>10, <1>11 DEF FoundInv
  <1>14. MemoryInv'
    <2>1. Content \subseteq Content'
      BY <1>1, <1>5 DEF Content, TablesOf
    <2>2. memtab'[db.mem] = memtab[db.mem] \cup S /\ (db.imm # 0 => memtab'[db.imm] = memtab[db.imm])
      BY <1>5, <1>6
    <2>3. Promised \subseteq Answered
      BY DEF Promised, Answered
    <2> QED
      BY <1>1, <1>7, <1>8, <1>10, <2>1, <2>2, <2>3 DEF MemoryInv
  <1>15. FlightInv'
    <2> SUFFICES ASSUME NEW t \in Writers, InFlight(t)'
                 PROVE  /\ \A e \in wr'[t].group : /\ Seqno(e) \in db'.last + 1 .. NewLast(t)'
                                                   /\ \E i \in 1 .. wr'[t].last : e[2] = wr'[writers'[i]].id
                        /\ wr'[t].group \subseteq EntriesOf(disk'.logs[db'.logno])
                        /\ wr'[t].ok /\ (\E i \in 1 .. wr'[t].last : wr'[writers'[i]].sync) =>
                             disk'.logs[db'.logno].synced = Len(disk'.logs[db'.logno].recs)
                        /\ wr'[t].pc = "publish" /\ wr'[t].ok => wr'[t].group \subseteq memtab'[db'.mem]
      BY DEF FlightInv
    <2>1. t = w /\ InFlight(w)
      BY <1>1, <1>3, <1>4 DEF InFlight
    <2>2. wr'[t] = r /\ NewLast(t)' = NewLast(w)
      BY <1>1, <1>2, <1>3, <2>1 DEF NewLast
    <2>3. wr[w].last \in 1 .. Len(writers) /\ Len(writers) \in Nat
      BY <1>1, LenProperties DEF DBInv, WritersInv
    <2>4. \A i \in 1 .. wr[w].last : /\ wr'[writers'[i]].id = wr[writers[i]].id
                                     /\ wr'[writers'[i]].sync = wr[writers[i]].sync
      <3> TAKE i \in 1 .. wr[w].last
      <3>1. i \in 1 .. Len(writers)
        BY <2>3
      <3>2. writers[i] \in Writers
        BY <3>1, ElementOfSeq DEF DBInv, WritersInv
      <3> QED
        BY <1>1, <1>2, <1>3, <3>2
    <2>5. /\ \A e \in wr[w].group : /\ Seqno(e) \in db.last + 1 .. NewLast(w)
                                    /\ \E i \in 1 .. wr[w].last : e[2] = wr[writers[i]].id
          /\ wr[w].group \subseteq EntriesOf(disk.logs[db.logno])
          /\ wr[w].ok /\ (\E i \in 1 .. wr[w].last : wr[writers[i]].sync) =>
               disk.logs[db.logno].synced = Len(disk.logs[db.logno].recs)
      BY <2>1 DEF AnswersInv, FlightInv
    <2>6. wr[w].ok => wr[w].group \subseteq memtab'[db.mem]
      BY <1>5, <1>6, <1>9
    <2> QED
      BY <1>1, <1>2, <2>2, <2>4, <2>5, <2>6
  <1> QED
    BY <1>1, <1>10, <1>12, <1>13, <1>14, <1>15 DEF StoreInv, OpenInv

\* The answer: what it promises is in the log, synced if the writer asked for
\* that, and in the memtable.
LEMMA PublishAnswers ==
  ASSUME DBInv, ReadsInv, AnswersInv, NEW w \in Writers, Publish(w) PROVE StoreInv'
  <1> DEFINE log == disk.logs[db.logno]
             new == {x \in wr[w].group : wr[w].ok /\ x \in Safe(db.logno)}
             sync(e) == \E t \in Writers : wr[t].id = e[2] /\ wr[t].sync
  <1>1. /\ Pop(wr[w].last, wr) /\ UNCHANGED <<disk, memtab, bg>> /\ wr[w].pc = "publish"
        /\ db' = [db EXCEPT !.last = NewLast(w), !.err = @ \/ wr[w].serr]
        /\ acked' = acked \cup {[e |-> e, sync |-> sync(e)] : e \in new}
    BY DEF Publish
  <1>2. wr[w].last \in 1 .. Len(writers) /\ InFlight(w)
    BY <1>1 DEF DBInv, WritersInv, InFlight
  <1>3. db.phase = "open" /\ \A t \in Writers : InFlight(t) => t = w
    <2>1. \A t \in Writers : InFlight(t) => writers[1] = t
      BY OnlyTheHead DEF DBInv, InFlight
    <2>2. writers # <<>> /\ writers[1] = w
      BY <1>1, OnlyTheHead DEF DBInv
    <2> QED
      BY <2>1, <2>2 DEF DBInv, CallsInv
  <1>4. /\ db'.phase = db.phase /\ db'.mem = db.mem /\ db'.imm = db.imm /\ db'.files = db.files
        /\ db'.next = db.next /\ db'.man = db.man /\ db'.logno = db.logno /\ db'.vlog = db.vlog
        /\ db'.last = NewLast(w) /\ (db.err => db'.err)
    BY <1>1, DatabaseFields DEF DBInv, FieldsInv
  <1>5. db.last \in Nat /\ NewLast(w) \in Nat /\ db.last <= NewLast(w)
    <2>1. IsFiniteSet(wr[w].group)
      BY <1>1 DEF ReadsInv, GroupsInv, Entries
    <2>2. Cardinality(wr[w].group) \in Nat
      BY <2>1, FS_CardinalityType
    <2>3. db.last \in Nat
      BY DEF ReadsInv, NumbersInv
    <2> QED
      BY <2>2, <2>3 DEF NewLast
  <1>6. /\ \A e \in wr[w].group : /\ Seqno(e) \in db.last + 1 .. NewLast(w)
                                  /\ \E i \in 1 .. wr[w].last : e[2] = wr[writers[i]].id
        /\ wr[w].ok /\ (\E i \in 1 .. wr[w].last : wr[writers[i]].sync) => log.synced = Len(log.recs)
        /\ wr[w].ok => wr[w].group \subseteq memtab[db.mem]
    BY <1>1, <1>2 DEF AnswersInv, FlightInv
  <1>7. Answered' = Answered \cup new /\ Promised' = Promised \cup {e \in new : sync(e)}
    <2> DEFINE answer(e) == [e |-> e, sync |-> sync(e)]
    <2>1. \A e : answer(e).e = e /\ (answer(e).sync <=> sync(e))
      OBVIOUS
    <2>2. acked' = acked \cup {answer(e) : e \in new}
      BY <1>1
    <2> HIDE DEF answer, sync, new
    <2>3. Answered' = Answered \cup new
      BY <2>1, <2>2 DEF Answered
    <2>4. Promised' = Promised \cup {e \in new : sync(e)}
      BY <2>1, <2>2 DEF Promised
    <2> QED
      BY <2>3, <2>4
  <1>8. EndsInv /\ FoundInv /\ MemoryInv /\ KeptInv /\ LogFile(log) /\ db.logno \in DOMAIN disk.logs
    BY <1>3, OpenFacts
  <1>9. new \subseteq SafeOf(log) /\ new \subseteq memtab[db.mem] /\ new \subseteq wr[w].group
    BY <1>6, <1>8, ReadLog
  <1>10. {e \in new : sync(e)} \subseteq SyncedOf(log)
    <2> SUFFICES ASSUME NEW e \in new, sync(e) PROVE e \in SyncedOf(log)
      OBVIOUS
    <2>1. PICK t \in Writers : wr[t].id = e[2] /\ wr[t].sync
      OBVIOUS
    <2>2. PICK i \in 1 .. wr[w].last : e[2] = wr[writers[i]].id
      BY <1>6, <1>9
    <2>3. i \in 1 .. Len(writers)
      <3>1. Len(writers) \in Nat
        BY LenProperties DEF DBInv, WritersInv
      <3> QED
        BY <1>2, <3>1
    <2>4. writers[i] \in Writers
      BY <2>3, ElementOfSeq DEF DBInv, WritersInv
    <2>5. wr[writers[i]].pc # "idle"
      BY <2>3, <2>4 DEF DBInv, WritersInv
    <2>6. wr[writers[i]].id # 0
      BY <2>4, <2>5 DEF AnswersInv, IdsInv
    <2>7. t = writers[i]
      BY <2>1, <2>2, <2>4, <2>6 DEF AnswersInv, IdsInv
    <2>8. log.synced = Len(log.recs)
      BY <1>6, <2>1, <2>7
    <2>9. SyncedOf(log) = SafeOf(log)
      BY <1>8, <2>8, PartsOfLog
    <2> QED
      BY <1>9, <2>9
  <1> HIDE DEF new, sync, log
  <1>11. KeptInv'
    <2>1. ASSUME NEW k \in Ends(Man(disk)) PROVE Point(disk, k, Answered', Promised')
      <3>1. Point(disk, k, Answered, Promised) /\ LogAt(disk, k) <= db.logno /\ LogAt(disk, k) \in Nat
            /\ db.logno \in Nat
        BY <1>3, OpenFacts
      <3>2. db.logno >= LogAt(disk, k)
        BY <3>1
      <3>3. new \subseteq SafeFrom(disk.logs, LogAt(disk, k))
        BY <1>8, <1>9, <3>2 DEF SafeFrom, log
      <3>4. {e \in new : sync(e)} \subseteq SyncedFrom(disk.logs, LogAt(disk, k))
        BY <1>8, <1>10, <3>2 DEF SyncedFrom, log
      <3> QED
        BY <1>7, <3>1, <3>3, <3>4 DEF Point
    <2>2. disk.cur # 0 /\ Man(disk).synced > 0
      BY <1>3, OpenFacts
    <2> QED
      BY <1>1, <1>8, <2>1, <2>2 DEF KeptInv, Kept
  <1>12. LatestLogInv' /\ OpeningInv'
    BY <1>1, <1>3, <1>4 DEF AnswersInv, LatestLogInv, OpeningInv
  <1>13. Found' = Found /\ Opened' = Opened /\ Content' = Content
    BY <1>1, <1>4 DEF Found, Opened, Content, TablesOf
  <1>14. EndsInv'
    <2>1. ASSUME NEW k \in Ends(Man(disk)) PROVE EndInv(k)'
      <3>1. EndInv(k)
        BY <1>8 DEF EndsInv
      <3>2. Man(disk).edits[k].last <= NewLast(w)
        <4>1. Man(disk).edits[k].last \in Nat
          <5>1. disk.cur \in DOMAIN disk.mans /\ k \in 1 .. Len(Man(disk).edits)
            BY <1>3, OpenFacts
          <5> QED
            BY <5>1 DEF ReadsInv, DirectoryInv, Numbered, Man
        <4> QED
          BY <1>5, <3>1, <4>1 DEF EndInv
      <3> QED
        BY <1>1, <1>4, <1>13, <3>1, <3>2 DEF EndInv
    <2> QED
      BY <1>1, <1>4, <1>8, <2>1 DEF EndsInv, Writing
  <1>15. FoundInv'
    <2>1. ASSUME NEW e \in Found PROVE Seqno(e) <= NewLast(w)
      <3>1. CASE Seqno(e) <= db.last
        <4>1. Seqno(e) \in Int
          <5>1. \A l \in DOMAIN disk.logs : \A x \in EntriesOf(disk.logs[l]) : Seqno(x) \in Nat
            BY PartsOfLog DEF ReadsInv, DirectoryInv
          <5>2. e \in AllFrom(disk.logs, db.vlog) => Seqno(e) \in Nat
            BY <5>1 DEF AllFrom
          <5>3. ASSUME NEW k \in Ends(Man(disk)), e \in TabsAt(disk, k) PROVE Seqno(e) \in Int
            <6>1. Seqno(e) \in 0 .. Man(disk).edits[k].last
              BY <1>3, <5>3, OpenFacts DEF Point
            <6> QED
              BY <6>1
          <5> QED
            BY <2>1, <5>2, <5>3 DEF Found
        <4> QED
          BY <1>5, <3>1, <4>1
      <3>2. CASE \E t \in Writers : InFlight(t) /\ e \in wr[t].group
        <4>1. e \in wr[w].group
          BY <1>3, <3>2
        <4>2. Seqno(e) \in db.last + 1 .. NewLast(w)
          BY <1>6, <4>1
        <4> QED
          BY <4>2
      <3> QED
        BY <1>8, <2>1, <3>1, <3>2 DEF FoundInv
    <2> QED
      BY <1>4, <1>8, <1>13, <2>1 DEF FoundInv
  <1>16. MemoryInv'
    <2>1. \A e : Seqno(e) \in 0 .. db.last => Seqno(e) \in 0 .. NewLast(w)
      BY <1>5
    <2>2. \A e \in new : Seqno(e) \in 0 .. NewLast(w)
      <3> TAKE e \in new
      <3>1. Seqno(e) \in db.last + 1 .. NewLast(w)
        BY <1>6, <1>9
      <3> QED
        BY <1>5, <3>1
    <2>3. \A e \in Answered' : Seqno(e) \in 0 .. db'.last
      BY <1>4, <1>7, <1>8, <2>1, <2>2 DEF MemoryInv
    <2>4. new \subseteq Content
      <3>1. db.mem \in DOMAIN memtab
        BY <1>3 DEF ReadsInv, MemtablesInv
      <3> QED
        BY <1>9, <3>1 DEF Content
    <2>5. /\ Answered' \subseteq Content'
          /\ Answered' \cap memtab[db.mem] \subseteq SafeOf(log)
          /\ Promised' \cap memtab[db.mem] \subseteq SyncedOf(log)
      BY <1>7, <1>8, <1>9, <1>10, <1>13, <2>4 DEF MemoryInv, log
    <2>6. db.imm # 0 => \A e \in memtab[db.imm] : Seqno(e) \in 0 .. NewLast(w)
      BY <1>8, <2>1 DEF MemoryInv
    <2> QED
      BY <1>1, <1>4, <1>8, <2>3, <2>5, <2>6 DEF MemoryInv, log
  <1>17. FlightInv'
    BY <1>1, <1>2, NobodyFlies
  <1> QED
    BY <1>4, <1>11, <1>12, <1>14, <1>15, <1>16, <1>17 DEF StoreInv, OpenInv

LEMMA StepAnswers ==
  ASSUME DBInv, ReadsInv, AnswersInv, NEW w \in Writers, Step(w) PROVE StoreInv'
  BY WaitingWriter, RoomSwitchAnswers, LogGroupAnswers, InsertIntoAnswers, PublishAnswers DEF Step

-----------------------------------------------------------------------------
(* Tables *)

\* No edit of the manifest knows a number that is new.
LEMMA KnownFiles ==
  ASSUME DBInv, ReadsInv, AnswersInv, db.phase = "open"
  PROVE  /\ \A i \in 1 .. Len(Man(disk).edits) : Below(Man(disk).edits[i].add, db.next)
         /\ \A k \in Ends(Man(disk)) : Below(FilesAt(Man(disk).edits, k), db.next)
         /\ Below(db.files, db.next) /\ db.next \in Nat
  <1>1. db.man = disk.cur /\ disk.cur \in DOMAIN disk.mans /\ Manifest(Man(disk))
    BY OpenFacts
  <1>2. \A i \in 1 .. Len(Man(disk).edits) : Below(Man(disk).edits[i].add, db.next)
    BY <1>1 DEF ReadsInv, NumbersInv, Man
  <1>3. Below(db.files, db.next) /\ db.next \in Nat
    BY DEF ReadsInv, NumbersInv
  <1>4. ASSUME NEW k \in Ends(Man(disk)) PROVE Below(FilesAt(Man(disk).edits, k), db.next)
    <2>1. Len(Man(disk).edits) \in Nat
      BY <1>1, LenProperties DEF Manifest, FiniteEdits
    <2>2. k \in 1 .. Len(Man(disk).edits)
      BY DEF Ends
    <2>3. \A i \in 1 .. k : i \in 1 .. Len(Man(disk).edits)
      BY <2>1, <2>2
    <2>4. \A f \in FilesAt(Man(disk).edits, k) : \E i \in 1 .. k : f \in Man(disk).edits[i].add
      BY AddedFilesAt
    <2> QED
      BY <1>2, <2>3, <2>4 DEF Below
  <1> QED
    BY <1>2, <1>3, <1>4

LEMMA NewTable ==
  ASSUME DBInv, ReadsInv, AnswersInv, db.phase = "open",
         NEW v, disk' = disk \/ disk' = [disk EXCEPT !.tabs = With(@, db.next, v)],
         db' = NextNumber(db), UNCHANGED <<memtab, writers, wr, acked>>,
         bg.pc # "install", bg'.pc # "install",
         Writing' => (Writing /\ bg'.out = bg.out) \/ bg'.out = db.next
  PROVE  StoreInv'
  <1>1. /\ db'.phase = "open" /\ db'.mem = db.mem /\ db'.imm = db.imm /\ db'.files = db.files
        /\ db'.next = db.next + 1 /\ db'.last = db.last /\ db'.man = db.man
        /\ db'.logno = db.logno /\ db'.vlog = db.vlog /\ db'.err = db.err
    BY DatabaseFields DEF NextNumber, DBInv, FieldsInv
  <1>2. /\ DOMAIN disk = {"logs", "tabs", "mans", "cur"} /\ db.logno < db.next /\ disk.cur < db.next
        /\ disk.cur # 0 /\ disk.cur \in DOMAIN disk.mans /\ DOMAIN disk.mans \subseteq Nat
        /\ db.logno \in Nat
    BY OpenFacts DEF EndsInv
  <1>3. EndsInv /\ FoundInv /\ MemoryInv /\ Kept(disk, Answered, Promised)
    BY OpenFacts
  <1>4. /\ disk'.logs = disk.logs /\ disk'.mans = disk.mans /\ disk'.cur = disk.cur
        /\ disk'.tabs = disk.tabs \/ disk'.tabs = With(disk.tabs, db.next, v)
    BY <1>2
  <1>5. /\ \A i \in 1 .. Len(Man(disk).edits) : Below(Man(disk).edits[i].add, db.next)
        /\ \A k \in Ends(Man(disk)) : Below(FilesAt(Man(disk).edits, k), db.next)
        /\ Below(db.files, db.next) /\ db.next \in Nat
    BY KnownFiles
  <1>6. Man(disk') = Man(disk)
    BY <1>4 DEF Man
  <1>7. ASSUME NEW k \in Ends(Man(disk)), NEW n \in Numbers(FilesAt(Man(disk).edits, k))
        PROVE  n \in DOMAIN disk'.tabs /\ disk'.tabs[n] = disk.tabs[n]
    <2>1. n \in DOMAIN disk.tabs
      BY OpenFacts DEF Point
    <2>2. n # db.next
      BY <1>5, BelowIsNew
    <2> QED
      BY <1>4, <2>1, <2>2 DEF With
  <1>8. /\ \A k \in Ends(Man(disk)) : TabsAt(disk', k) = TabsAt(disk, k) /\ LogAt(disk', k) = LogAt(disk, k)
        /\ Kept(disk', Answered, Promised)
    BY <1>2, <1>3, <1>4, <1>6, <1>7, NothingNew
  <1>9. Answered' = Answered /\ Promised' = Promised /\ KeptInv'
    BY <1>8 DEF Answered, Promised, KeptInv
  <1>10. LatestLogInv' /\ OpeningInv'
    <2>1. db.logno < db.next + 1
      BY <1>2, <1>5
    <2> QED
      BY <1>1, <1>4, <2>1 DEF AnswersInv, LatestLogInv, OpeningInv
  <1>11. Found' = Found /\ Opened' = Opened /\ Content' = Content
    <2>1. db.next \notin Numbers(db.files)
      BY <1>5, BelowIsNew
    <2>2. TabsIn(disk'.tabs, db.files) = TabsIn(disk.tabs, db.files)
      BY <1>4, <2>1, OneMoreTab
    <2>3. Opened' = Opened
      BY <1>1, <2>2 DEF Opened
    <2>4. Found' = Found
      BY <1>1, <1>4, <1>6, <1>8 DEF Found
    <2>5. Content' = Content
      BY <1>1, <2>2 DEF Content, TablesOf, TabsIn
    <2> QED
      BY <2>3, <2>4, <2>5
  <1>12. EndsInv'
    <2>1. ASSUME NEW k \in Ends(Man(disk)) PROVE EndInv(k)'
      <3>1. EndInv(k)
        BY <1>3 DEF EndsInv
      <3>2. TabsAt(disk', k) = TabsAt(disk, k) /\ LogAt(disk', k) = LogAt(disk, k)
        BY <1>8
      <3> QED
        BY <1>1, <1>4, <1>6, <1>11, <3>1, <3>2 DEF EndInv
    <2>2. Writing' => \A i \in 1 .. Len(Man(disk).edits) : bg'.out \notin Numbers(Man(disk).edits[i].add)
      <3>1. \A i \in 1 .. Len(Man(disk).edits) : db.next \notin Numbers(Man(disk).edits[i].add)
        BY <1>5, BelowIsNew
      <3> QED
        BY <1>3, <3>1 DEF EndsInv
    <2>3. disk.cur < db.next + 1
      BY <1>2, <1>5
    <2> QED
      BY <1>1, <1>3, <1>4, <1>6, <2>1, <2>2, <2>3 DEF EndsInv
  <1>13. FoundInv'
    BY <1>1, <1>3, <1>11 DEF FoundInv, InFlight
  <1>14. MemoryInv'
    BY <1>1, <1>3, <1>4, <1>9, <1>11 DEF MemoryInv
  <1>15. FlightInv'
    <2>1. \A t \in Writers : SameCall(wr'[t], wr[t]) /\ (wr[t].pc = "idle" => ~InFlight(t)')
      BY DEF SameCall, InFlight
    <2> QED
      BY <1>1, <1>4, <2>1, FlightStays DEF AnswersInv
  <1> QED
    BY <1>1, <1>9, <1>10, <1>12, <1>13, <1>14, <1>15 DEF StoreInv, OpenInv

LEMMA NewTableAnswers ==
  ASSUME DBInv, ReadsInv, AnswersInv,
         OpenCompactionOutputFile \/ \E ok \in BOOLEAN : CompactMemTable(ok)
  PROVE  StoreInv'
  <1>1. DOMAIN bg = DOMAIN NoWork
    BY DEF DBInv, FieldsInv
  <1>2. CASE OpenCompactionOutputFile
    <2>1. /\ bg.pc = "work" /\ db' = NextNumber(db) /\ UNCHANGED <<memtab, writers, wr, acked>>
          /\ disk' = [disk EXCEPT !.tabs = With(@, db.next, {})]
      BY <1>2 DEF OpenCompactionOutputFile
    <2>2. bg'.pc = "output" /\ bg'.out = db.next
      BY <1>1, <1>2, WorkFields DEF OpenCompactionOutputFile
    <2>3. db.phase = "open"
      BY <2>1 DEF DBInv, CallsInv
    <2> QED
      BY <2>1, <2>2, <2>3, NewTable
  <1>3. ASSUME NEW ok \in BOOLEAN, CompactMemTable(ok) PROVE StoreInv'
    <2>1. /\ bg.pc \in {"idle", "work", "output"} /\ db.phase = "open"
          /\ db' = NextNumber(db) /\ UNCHANGED <<memtab, writers, wr, acked>>
          /\ disk' = disk \/ disk' = [disk EXCEPT !.tabs = With(@, db.next, memtab[db.imm])]
      BY <1>3 DEF CompactMemTable, BuildTable
    <2>2. /\ bg'.pc = "apply" /\ bg'.out = bg.out
          /\ bg'.ret = (IF bg.pc = "idle" THEN "end" ELSE bg.pc)
      BY <1>1, <1>3, WorkFields DEF CompactMemTable
    <2>3. Writing' => Writing /\ bg'.out = bg.out
      BY <2>1, <2>2 DEF Writing
    <2> QED
      BY <2>1, <2>2, <2>3, NewTable
  <1> QED
    BY <1>2, <1>3

-----------------------------------------------------------------------------
(* Edits *)

\* What a recovery finds in tables has a number that was given.
LEMMA EndEntries ==
  ASSUME DBInv, ReadsInv, AnswersInv, db.phase \in {"clean", "open"}, NEW k \in Ends(Man(disk))
  PROVE  TabsAt(disk, k) \subseteq Found /\ \A e \in TabsAt(disk, k) : Seqno(e) \in 0 .. db.last
  <1>1. TabsAt(disk, k) \subseteq Found
    BY DEF Found
  <1>2. /\ EndInv(k) /\ Point(disk, k, Answered, Promised) /\ k \in 1 .. Len(Man(disk).edits)
        /\ disk.cur \in DOMAIN disk.mans
    BY OpenFacts
  <1>3. Man(disk).edits[k].last \in Nat /\ db.last \in Nat
    BY <1>2 DEF ReadsInv, NumbersInv, DirectoryInv, Numbered, Man
  <1>4. Man(disk).edits[k].last <= db.last
    BY <1>2 DEF EndInv
  <1>5. \A s \in 0 .. Man(disk).edits[k].last : s \in 0 .. db.last
    BY <1>3, <1>4
  <1>6. \A e \in TabsAt(disk, k) : Seqno(e) \in 0 .. Man(disk).edits[k].last
    BY <1>2 DEF Point
  <1> QED
    BY <1>1, <1>5, <1>6

\* LogAndApply of an edit: it loses nothing that must be found.
EditTaken(edit, files) ==
  /\ IsFiniteSet(edit.add) /\ edit.next = db.next /\ edit.last = db.last
  /\ edit.log \in Nat /\ db.vlog <= edit.log /\ edit.log <= db.logno
  /\ files = After(FilesAt(Man(disk).edits, Len(Man(disk).edits)), edit)
  /\ disk'.cur = disk.cur /\ disk'.logs = disk.logs /\ DOMAIN disk'.mans = DOMAIN disk.mans
  /\ \/ Man(disk').edits = Man(disk).edits /\ Man(disk').synced = Man(disk).synced
     \/ /\ Man(disk').edits = Append(Man(disk).edits, edit)
        /\ Man(disk').synced \in {Man(disk).synced, Len(Man(disk).edits) + 1}
  /\ bg'.ok => Man(disk').synced = Len(Man(disk).edits) + 1
  /\ \A k \in Ends(Man(disk)) : \A n \in Numbers(FilesAt(Man(disk).edits, k)) :
       n \in DOMAIN disk'.tabs /\ disk'.tabs[n] = disk.tabs[n]
  /\ TabsIn(disk'.tabs, db.files) = TabsIn(disk.tabs, db.files)
  /\ Numbers(edit.add) \subseteq DOMAIN disk'.tabs
  /\ \A e \in TabsIn(disk'.tabs, edit.add) : e \in Found /\ Seqno(e) \in 0 .. db.last
  /\ TabsAt(disk, Len(Man(disk).edits)) \subseteq TabsIn(disk'.tabs, files)
  /\ Answered \subseteq TabsIn(disk'.tabs, files) \cup SafeFrom(disk.logs, edit.log)
  /\ Promised \subseteq TabsIn(disk'.tabs, files) \cup SyncedFrom(disk.logs, edit.log)
  /\ db.imm # 0 => memtab[db.imm] \subseteq TabsIn(disk'.tabs, files) \cup AllFrom(disk.logs, edit.log)
  /\ bg.pc # "install" /\ bg'.pc = "install" /\ bg'.edit = edit
  /\ Writing' => Writing /\ bg'.out = bg.out /\ bg.out \notin Numbers(edit.add)
  /\ Onward(db', db) /\ SameFiles(db', db) /\ db'.err = db.err
  /\ UNCHANGED <<memtab, writers, wr, acked>>

LEMMA EditAnswers ==
  ASSUME DBInv, ReadsInv, AnswersInv, db.phase = "open", NEW edit, NEW files, EditTaken(edit, files)
  PROVE  StoreInv'
  <1> USE DEF EditTaken
  <1> DEFINE n == Len(Man(disk).edits)
  <1>1. /\ EndsInv /\ FoundInv /\ MemoryInv /\ Kept(disk, Answered, Promised)
        /\ n \in Ends(Man(disk)) /\ Manifest(Man(disk)) /\ Man(disk).synced > 0
        /\ disk.cur # 0 /\ disk.cur \in DOMAIN disk.mans /\ DOMAIN disk.mans \subseteq Nat
        /\ db.logno \in Nat /\ db.logno < db.next /\ db.vlog \in Nat /\ Reach(disk) \subseteq Found
        /\ disk.cur \in Nat
    BY OpenFacts
  <1>2. db.next \in Nat /\ db.last \in Nat /\ disk.cur < db.next
    BY <1>1 DEF ReadsInv, NumbersInv, EndsInv
  <1>3. EndInv(n) /\ Point(disk, n, Answered, Promised) /\ n \in 1 .. Len(Man(disk).edits)
    BY <1>1, OpenFacts
  <1>4. Numbers(files) \subseteq DOMAIN disk'.tabs
    <2>1. Numbers(files) \subseteq Numbers(FilesAt(Man(disk).edits, n)) \cup Numbers(edit.add)
      BY DEF After, Numbers
    <2> QED
      BY <1>1, <2>1
  <1>5. TabsIn(disk'.tabs, files) \subseteq TabsAt(disk, n) \cup TabsIn(disk'.tabs, edit.add)
    <2> DEFINE rest == {f \in FilesAt(Man(disk).edits, n) : f[1] \notin edit.del}
    <2>1. files = rest \cup edit.add
      BY DEF After
    <2>2. TabsIn(disk'.tabs, files) = TabsIn(disk'.tabs, rest) \cup TabsIn(disk'.tabs, edit.add)
      BY <2>1, TabsOfBoth
    <2>3. Numbers(rest) \subseteq Numbers(FilesAt(Man(disk).edits, n))
      BY DEF Numbers
    <2>4. \A m \in Numbers(FilesAt(Man(disk).edits, n)) : m \in DOMAIN disk.tabs /\ disk'.tabs[m] = disk.tabs[m]
      BY <1>1, <1>3 DEF Point
    <2> HIDE DEF rest, n
    <2>5. TabsIn(disk'.tabs, rest) \subseteq TabsAt(disk, n)
      BY <2>3, <2>4 DEF TabsAt, TabsIn
    <2> QED
      BY <2>2, <2>5
  <1>6. TabsAt(disk, n) \subseteq Found /\ \A e \in TabsAt(disk, n) : Seqno(e) \in 0 .. db.last
    BY <1>1, EndEntries
  <1>7. TabsIn(disk'.tabs, files) \subseteq Found /\ \A e \in TabsIn(disk'.tabs, files) : Seqno(e) \in 0 .. edit.last
    BY <1>5, <1>6
  <1>8. AllFrom(disk.logs, edit.log) \subseteq Found
    <2>1. \A l \in DOMAIN disk.logs : l \in Nat /\ (l >= edit.log => l >= db.vlog)
      BY <1>1 DEF ReadsInv, DirectoryInv
    <2> QED
      BY <2>1 DEF Found, AllFrom
  <1>9. /\ Unique(Found) /\ disk.cur < edit.next /\ edit.log < edit.next
        /\ TabsIn(disk'.tabs, files) \cup AllFrom(disk.logs, edit.log) \subseteq Found
    BY <1>1, <1>2, <1>7, <1>8 DEF FoundInv
  <1>10. /\ Kept(disk', Answered, Promised) /\ Man(disk').synced > 0
         /\ \A k \in Ends(Man(disk')) :
              \/ /\ k \in Ends(Man(disk))
                 /\ Man(disk').edits[k] = Man(disk).edits[k]
                 /\ FilesAt(Man(disk').edits, k) = FilesAt(Man(disk).edits, k)
                 /\ TabsAt(disk', k) = TabsAt(disk, k)
              \/ /\ Man(disk').edits[k] = edit
                 /\ FilesAt(Man(disk').edits, k) = files
                 /\ TabsAt(disk', k) = TabsIn(disk'.tabs, files)
    <2>1. EditStep(disk, Answered, Promised, edit, disk', files, Found)
      BY <1>1, <1>4, <1>7, <1>9 DEF EditStep
    <2> QED
      BY <2>1, EditKept
  <1>11. Answered' = Answered /\ Promised' = Promised /\ KeptInv'
    BY <1>10 DEF Answered, Promised, KeptInv
  <1>12. /\ db'.phase = "open" /\ db'.last = db.last /\ db'.logno = db.logno /\ db'.mem = db.mem
         /\ db'.man = db.man /\ db'.next = db.next
         /\ db'.files = db.files /\ db'.imm = db.imm /\ db'.vlog = db.vlog
    BY DEF Onward, SameFiles
  <1>13. LatestLogInv' /\ OpeningInv'
    BY <1>12 DEF AnswersInv, LatestLogInv, OpeningInv
  <1>14. Opened' = Opened /\ Content' = Content
    <2>1. Opened' = Opened
      BY <1>12 DEF Opened
    <2>2. /\ Content' = Opened' \cup UNION {memtab'[m] : m \in DOMAIN memtab' \cap {db'.mem, db'.imm}}
          /\ Content = Opened \cup UNION {memtab[m] : m \in DOMAIN memtab \cap {db.mem, db.imm}}
      BY DEF Content, Opened, TablesOf, TabsIn
    <2> QED
      BY <1>12, <2>1, <2>2
  <1>15. Found' \subseteq Found
    <2>1. \A k \in Ends(Man(disk')) : TabsAt(disk', k) \subseteq Found
      <3> TAKE k \in Ends(Man(disk'))
      <3>1. CASE k \in Ends(Man(disk)) /\ TabsAt(disk', k) = TabsAt(disk, k)
        BY <3>1 DEF Found
      <3>2. CASE TabsAt(disk', k) = TabsIn(disk'.tabs, files)
        BY <1>7, <3>2
      <3> QED
        BY <1>10, <3>1, <3>2
    <2>2. Found' = AllFrom(disk.logs, db.vlog) \cup UNION {TabsAt(disk', k) : k \in Ends(Man(disk'))}
      BY <1>12 DEF Found
    <2>3. AllFrom(disk.logs, db.vlog) \subseteq Found
      BY DEF Found
    <2> QED
      BY <2>1, <2>2, <2>3
  <1>16. EndsInv'
    <2>1. ASSUME NEW k \in Ends(Man(disk')) PROVE EndInv(k)'
      <3>1. CASE /\ k \in Ends(Man(disk))
                 /\ Man(disk').edits[k] = Man(disk).edits[k]
                 /\ TabsAt(disk', k) = TabsAt(disk, k)
        <4>1. EndInv(k)
          BY <1>1, <3>1 DEF EndsInv
        <4>2. LogAt(disk', k) = LogAt(disk, k)
          BY <3>1 DEF LogAt
        <4>3. ~bg'.ok
          <5>1. k \in 1 .. n /\ n \in Nat /\ k >= Man(disk').synced
            BY <1>3, <2>1, <3>1 DEF Ends
          <5> HIDE DEF n
          <5> QED
            BY <5>1 DEF n
        <4> QED
          BY <1>12, <1>14, <3>1, <4>1, <4>2, <4>3 DEF EndInv
      <3>2. CASE /\ Man(disk').edits[k] = edit
                 /\ FilesAt(Man(disk').edits, k) = files
                 /\ TabsAt(disk', k) = TabsIn(disk'.tabs, files)
        <4>1. LogAt(disk', k) = edit.log
          BY <3>2 DEF LogAt
        <4>2. Opened \subseteq TabsAt(disk', k)
          BY <1>3, <3>2 DEF EndInv
        <4>3. ~db.err => files = After(db.files, edit)
          BY <1>3 DEF EndInv
        <4>4. TabsIn(disk'.tabs, edit.add) \subseteq TabsAt(disk', k)
          <5>1. edit.add \subseteq files
            BY DEF After
          <5> QED
            BY <3>2, <5>1 DEF TabsIn, Numbers
        <4>5. db.last <= db.last /\ edit.log <= edit.log
          BY <1>2
        <4> QED
          BY <1>12, <1>14, <3>2, <4>1, <4>2, <4>3, <4>4, <4>5 DEF EndInv
      <3> QED
        BY <1>10, <3>1, <3>2
    <2>2. Writing' => \A i \in 1 .. Len(Man(disk').edits) : bg'.out \notin Numbers(Man(disk').edits[i].add)
      <3> SUFFICES ASSUME Writing', NEW i \in 1 .. Len(Man(disk').edits)
                   PROVE  bg'.out \notin Numbers(Man(disk').edits[i].add)
        OBVIOUS
      <3>1. /\ n \in Nat
            /\ \A k \in 1 .. n : Append(Man(disk).edits, edit)[k] = Man(disk).edits[k]
            /\ Append(Man(disk).edits, edit)[n + 1] = edit /\ Len(Append(Man(disk).edits, edit)) = n + 1
        BY <1>1, FilesAfterEdit DEF Manifest
      <3>2. Man(disk').edits \in {Append(Man(disk).edits, edit), Man(disk).edits}
        OBVIOUS
      <3>3. \/ i \in 1 .. n /\ Man(disk').edits[i] = Man(disk).edits[i]
            \/ Man(disk').edits[i] = edit
        BY <3>1, <3>2
      <3> QED
        BY <1>1, <3>3 DEF EndsInv
    <2> QED
      BY <1>1, <1>10, <1>12, <2>1, <2>2 DEF EndsInv
  <1>17. FoundInv'
    <2>1. Unique(Found')
      BY <1>9, <1>15, FewerUnique
    <2> QED
      BY <1>1, <1>12, <1>15, <2>1 DEF FoundInv, InFlight
  <1>18. MemoryInv'
    BY <1>1, <1>11, <1>12, <1>14 DEF MemoryInv
  <1>19. FlightInv'
    <2>1. \A t \in Writers : SameCall(wr'[t], wr[t]) /\ (wr[t].pc = "idle" => ~InFlight(t)')
      BY DEF SameCall, InFlight
    <2> QED
      BY <1>12, <2>1, FlightStays DEF AnswersInv
  <1> QED
    BY <1>11, <1>12, <1>13, <1>16, <1>17, <1>18, <1>19 DEF StoreInv, OpenInv

\* What LogAndApply makes of the manifest.
LEMMA EditInManifest ==
  ASSUME NEW dk, DiskInv(dk), dk.cur \in DOMAIN dk.mans, db.man = dk.cur, NEW edit,
         NEW added, NEW ok, ok => added
  PROVE  LET e == LogEdit(dk, edit, added, ok)
         IN  /\ e.cur = dk.cur /\ e.logs = dk.logs /\ e.tabs = dk.tabs /\ DOMAIN e.mans = DOMAIN dk.mans
             /\ \/ Man(e).edits = Man(dk).edits /\ Man(e).synced = Man(dk).synced
                \/ /\ Man(e).edits = Append(Man(dk).edits, edit)
                   /\ Man(e).synced \in {Man(dk).synced, Len(Man(dk).edits) + 1}
             /\ ok => Man(e).synced = Len(Man(dk).edits) + 1
  <1> DEFINE e == LogEdit(dk, edit, added, ok)
             m == [edits |-> IF added THEN Append(Man(dk).edits, edit) ELSE Man(dk).edits,
                   synced |-> IF ok THEN Len(Man(dk).edits) + 1 ELSE Man(dk).synced]
  <1>1. e = [dk EXCEPT !.mans[dk.cur] = m]
    BY DEF LogEdit, Man
  <1> HIDE DEF m, e
  <1>2. /\ e.cur = dk.cur /\ e.logs = dk.logs /\ e.tabs = dk.tabs /\ DOMAIN e.mans = DOMAIN dk.mans
        /\ e.mans[dk.cur] = m
    BY <1>1 DEF DiskInv
  <1>3. Man(e) = m
    BY <1>2 DEF Man
  <1>4. /\ m.edits = IF added THEN Append(Man(dk).edits, edit) ELSE Man(dk).edits
        /\ m.synced = IF ok THEN Len(Man(dk).edits) + 1 ELSE Man(dk).synced
    BY DEF m
  <1>5. CASE ok
    BY <1>2, <1>3, <1>4, <1>5 DEF e
  <1>6. CASE ~ok
    BY <1>2, <1>3, <1>4, <1>6 DEF e
  <1> QED
    BY <1>5, <1>6

\* The immutable memtable is now in a table; the log of the current one has
\* what else was answered.
LEMMA ApplyMemTableAnswers ==
  ASSUME DBInv, ReadsInv, AnswersInv, NEW added \in BOOLEAN, NEW ok \in BOOLEAN,
         ApplyMemTable(added, ok)
  PROVE  StoreInv'
  <1> DEFINE new == {f \in {<<bg.n, OutputLevel>>} : bg.n \in DOMAIN disk.tabs}
             d == [db EXCEPT !.pend = @ \ {bg.n}]
             edit == Edit(d, new, {}, EditLog)
             n == Len(Man(disk).edits)
             files == After(FilesAt(Man(disk).edits, n), edit)
  <1>1. /\ bg.pc = "apply" /\ bg.ok /\ UNCHANGED <<memtab, writers, wr, acked>>
        /\ db' = d
        /\ bg' = [bg EXCEPT !.pc = "install", !.edit = edit, !.ok = ok]
        /\ disk' = LogEdit(disk, edit, added, ok)
    BY DEF ApplyMemTable
  <1>2. db.phase = "open" /\ (ok => added)
    BY <1>1 DEF DBInv, CallsInv, ApplyMemTable
  <1>3. Onward(d, db) /\ SameFiles(d, db) /\ d.err = db.err /\ d.next = db.next /\ d.last = db.last
    BY DatabaseFields DEF Onward, SameFiles, DBInv, FieldsInv
  <1> HIDE DEF d
  <1>4. /\ edit.add = new /\ edit.del = {} /\ edit.log = db.logno /\ edit.next = db.next
        /\ edit.last = db.last
    BY <1>3 DEF Edit, EditLog
  <1> HIDE DEF edit
  <1>5. /\ bg'.pc = "install" /\ bg'.edit = edit /\ bg'.ok = ok /\ bg'.ret = bg.ret /\ bg'.out = bg.out
    BY <1>1, WorkFields DEF DBInv, FieldsInv
  <1>6. /\ JobInv /\ Flushing /\ bg.n \in Nat /\ db.imm # 0 /\ (HasOutput => bg.n # bg.out)
        /\ TabsIn(disk.tabs, {<<bg.n, 0>>}) = memtab[db.imm]
    BY <1>1 DEF ReadsInv, JobInv, Flushing
  <1>7. /\ EndsInv /\ FoundInv /\ MemoryInv
        /\ disk.cur \in DOMAIN disk.mans /\ db.man = disk.cur
        /\ n \in Ends(Man(disk)) /\ EndInv(n)
        /\ db.vlog \in Nat /\ db.logno \in Nat /\ db.vlog <= db.logno /\ db.logno \in DOMAIN disk.logs
        /\ Reach(disk) \subseteq Found
    BY <1>2, OpenFacts
  <1>8. DiskInv(disk)
    BY DEF DBInv, VersionsInv
  <1>9. /\ disk'.cur = disk.cur /\ disk'.logs = disk.logs /\ disk'.tabs = disk.tabs
        /\ DOMAIN disk'.mans = DOMAIN disk.mans
        /\ \/ Man(disk').edits = Man(disk).edits /\ Man(disk').synced = Man(disk).synced
           \/ /\ Man(disk').edits = Append(Man(disk).edits, edit)
              /\ Man(disk').synced \in {Man(disk).synced, Len(Man(disk).edits) + 1}
        /\ ok => Man(disk').synced = Len(Man(disk).edits) + 1
    BY <1>1, <1>2, <1>7, <1>8, EditInManifest
  <1>10. Numbers(edit.add) \subseteq DOMAIN disk.tabs /\ IsFiniteSet(edit.add)
         /\ \A m \in Numbers(edit.add) : m = bg.n
    <2>1. edit.add \subseteq {<<bg.n, OutputLevel>>}
      BY <1>4
    <2>2. IsFiniteSet({<<bg.n, OutputLevel>>})
      BY FS_Singleton
    <2>3. IsFiniteSet(edit.add)
      BY <2>1, <2>2, FS_Subset
    <2>4. \A f \in edit.add : f[1] = bg.n /\ bg.n \in DOMAIN disk.tabs
      BY <1>4
    <2> QED
      BY <2>3, <2>4 DEF Numbers
  <1>11. TabsIn(disk.tabs, edit.add) = memtab[db.imm]
    <2>1. Numbers({<<bg.n, 0>>}) = {bg.n}
      BY DEF Numbers
    <2>2. CASE bg.n \in DOMAIN disk.tabs
      <3>1. edit.add = {<<bg.n, OutputLevel>>}
        BY <1>4, <2>2
      <3>2. Numbers(edit.add) = {bg.n}
        BY <3>1 DEF Numbers
      <3> QED
        BY <1>6, <2>1, <3>2 DEF TabsIn
    <2>3. CASE bg.n \notin DOMAIN disk.tabs
      <3>1. Numbers(edit.add) = {}
        BY <1>4, <2>3 DEF Numbers
      <3> QED
        BY <1>6, <2>1, <2>3, <3>1 DEF TabsIn
    <2> QED
      BY <2>2, <2>3
  <1> HIDE DEF new
  <1>12. files = FilesAt(Man(disk).edits, n) \cup edit.add
    BY <1>4 DEF After
  <1>13. TabsIn(disk.tabs, files) = TabsAt(disk, n) \cup memtab[db.imm]
    BY <1>11, <1>12, TabsOfBoth DEF TabsAt
  <1>14. \A e \in memtab[db.imm] : e \in Found /\ Seqno(e) \in 0 .. db.last
    <2>1. memtab[db.imm] \subseteq Found
      <3>1. memtab[db.imm] \subseteq TabsAt(disk, n) \cup AllFrom(disk.logs, LogAt(disk, n))
        BY <1>6, <1>7 DEF EndInv
      <3>2. TabsAt(disk, n) \cup AllFrom(disk.logs, LogAt(disk, n)) \subseteq Reach(disk)
        BY <1>7 DEF Reach
      <3> QED
        BY <1>7, <3>1, <3>2
    <2> QED
      BY <1>6, <1>7, <2>1 DEF MemoryInv
  <1>15. /\ Answered \subseteq TabsIn(disk.tabs, files) \cup SafeFrom(disk.logs, db.logno)
         /\ Promised \subseteq TabsIn(disk.tabs, files) \cup SyncedFrom(disk.logs, db.logno)
    <2>1. Answered \subseteq Opened \cup memtab[db.mem] \cup memtab[db.imm]
      <3>1. Answered \subseteq Content
        BY <1>7 DEF MemoryInv
      <3>2. Content = Opened \cup UNION {memtab[m] : m \in DOMAIN memtab \cap {db.mem, db.imm}}
        BY DEF Content, Opened, TablesOf, TabsIn
      <3> QED
        BY <3>1, <3>2
    <2>2. Opened \subseteq TabsAt(disk, n)
      BY <1>7 DEF EndInv
    <2>3. /\ SafeOf(disk.logs[db.logno]) \subseteq SafeFrom(disk.logs, db.logno)
          /\ SyncedOf(disk.logs[db.logno]) \subseteq SyncedFrom(disk.logs, db.logno)
      BY <1>7 DEF SafeFrom, SyncedFrom
    <2>4. /\ Answered \cap memtab[db.mem] \subseteq SafeOf(disk.logs[db.logno])
          /\ Promised \cap memtab[db.mem] \subseteq SyncedOf(disk.logs[db.logno])
      BY <1>7 DEF MemoryInv
    <2>5. Promised \subseteq Answered
      BY DEF Promised, Answered
    <2> QED
      BY <1>13, <2>1, <2>2, <2>3, <2>4, <2>5
  <1>16. Writing' => Writing /\ bg'.out = bg.out /\ bg.out \notin Numbers(edit.add)
    BY <1>1, <1>5, <1>6, <1>10 DEF Writing, HasOutput
  <1>17. ASSUME NEW k \in Ends(Man(disk)), NEW m \in Numbers(FilesAt(Man(disk).edits, k))
         PROVE  m \in DOMAIN disk'.tabs /\ disk'.tabs[m] = disk.tabs[m]
    <2>1. Point(disk, k, Answered, Promised)
      BY <1>2, OpenFacts
    <2> QED
      BY <1>9, <2>1 DEF Point
  <1>18. TabsAt(disk, Len(Man(disk).edits)) \subseteq TabsIn(disk'.tabs, files)
    BY <1>9, <1>13
  <1>19. /\ db.vlog <= edit.log /\ edit.log <= db.logno /\ edit.log \in Nat
         /\ files = After(FilesAt(Man(disk).edits, Len(Man(disk).edits)), edit)
    BY <1>4, <1>7
  <1> HIDE DEF files, n
  <1>20. /\ Answered \subseteq TabsIn(disk'.tabs, files) \cup SafeFrom(disk.logs, edit.log)
         /\ Promised \subseteq TabsIn(disk'.tabs, files) \cup SyncedFrom(disk.logs, edit.log)
         /\ memtab[db.imm] \subseteq TabsIn(disk'.tabs, files) \cup AllFrom(disk.logs, edit.log)
         /\ \A e \in TabsIn(disk'.tabs, edit.add) : e \in Found /\ Seqno(e) \in 0 .. db.last
    BY <1>4, <1>9, <1>11, <1>13, <1>14, <1>15
  <1>21. EditTaken(edit, files)
    <2>1. bg'.ok => Man(disk').synced = Len(Man(disk).edits) + 1
      BY <1>5, <1>9
    <2>2. TabsIn(disk'.tabs, db.files) = TabsIn(disk.tabs, db.files)
      BY <1>9
    <2>3. /\ Onward(db', db) /\ SameFiles(db', db) /\ db'.err = db.err
          /\ bg.pc # "install" /\ UNCHANGED <<memtab, writers, wr, acked>>
      BY <1>1, <1>3
    <2> QED
      BY <1>4, <1>5, <1>9, <1>10, <1>16, <1>17, <1>18, <1>19, <1>20, <2>1, <2>2, <2>3 DEF EditTaken
  <1> QED
    BY <1>2, <1>21, EditAnswers

\* The entries of the inputs are in the output, and the logs are as before.
LEMMA FinishCompactionAnswers ==
  ASSUME DBInv, ReadsInv, AnswersInv, NEW added \in BOOLEAN, NEW ok \in BOOLEAN,
         FinishCompaction(added, ok)
  PROVE  StoreInv'
  <1> DEFINE edit == Edit(db, {<<bg.out, 1>>}, Numbers(bg.ins), db.vlog)
             es == TabsIn(disk.tabs, bg.ins)
             dk == [disk EXCEPT !.tabs[bg.out] = es]
             n == Len(Man(disk).edits)
             old == FilesAt(Man(disk).edits, n)
             files == After(old, edit)
  <1>1. /\ bg.pc = "output" /\ UNCHANGED <<db, memtab, writers, wr, acked>> /\ bg.out \in DOMAIN disk.tabs
        /\ disk' = LogEdit(dk, edit, added, ok) /\ (ok => added)
        /\ bg' = [bg EXCEPT !.pc = "install", !.ret = "cleanup", !.ok = ok, !.edit = edit]
    <2>1. TablesOf(bg.ins) = es
      BY SameTables
    <2> QED
      BY <2>1 DEF FinishCompaction
  <1>2. db.phase = "open" /\ DiskInv(disk)
    BY <1>1 DEF DBInv, CallsInv, VersionsInv
  <1>3. /\ edit.add = {<<bg.out, 1>>} /\ edit.del = Numbers(bg.ins)
        /\ edit.next = db.next /\ edit.last = db.last /\ edit.log = db.vlog
    BY DEF Edit
  <1> HIDE DEF edit
  <1>4. /\ bg'.pc = "install" /\ bg'.ret = "cleanup" /\ bg'.ok = ok /\ bg'.edit = edit
        /\ bg'.out = bg.out /\ bg'.ins = bg.ins
    BY <1>1, WorkFields DEF DBInv, FieldsInv
  <1>5. /\ EndsInv /\ FoundInv /\ MemoryInv
        /\ disk.cur \in DOMAIN disk.mans /\ db.man = disk.cur
        /\ n \in Ends(Man(disk)) /\ EndInv(n) /\ Point(disk, n, Answered, Promised)
        /\ db.vlog \in Nat /\ db.logno \in Nat /\ db.vlog <= db.logno
        /\ LogAt(disk, n) \in Nat /\ db.vlog <= LogAt(disk, n)
        /\ \A l \in DOMAIN disk.logs : l \in Nat
    BY <1>2, OpenFacts
  <1>6. /\ DOMAIN dk = DOMAIN disk /\ dk.logs = disk.logs /\ dk.mans = disk.mans /\ dk.cur = disk.cur
        /\ dk.tabs = [disk.tabs EXCEPT ![bg.out] = es]
    BY <1>2 DEF DiskInv
  <1> HIDE DEF dk
  <1>7. DiskInv(dk) /\ Man(dk) = Man(disk)
    BY <1>2, <1>6 DEF DiskInv, Man
  <1>8. /\ disk'.cur = disk.cur /\ disk'.logs = disk.logs /\ disk'.tabs = dk.tabs
        /\ DOMAIN disk'.mans = DOMAIN disk.mans
        /\ \/ Man(disk').edits = Man(disk).edits /\ Man(disk').synced = Man(disk).synced
           \/ /\ Man(disk').edits = Append(Man(disk).edits, edit)
              /\ Man(disk').synced \in {Man(disk).synced, Len(Man(disk).edits) + 1}
        /\ ok => Man(disk').synced = Len(Man(disk).edits) + 1
    <2> DEFINE e == LogEdit(dk, edit, added, ok)
    <2>1. /\ e.cur = dk.cur /\ e.logs = dk.logs /\ e.tabs = dk.tabs /\ DOMAIN e.mans = DOMAIN dk.mans
          /\ \/ Man(e).edits = Man(dk).edits /\ Man(e).synced = Man(dk).synced
             \/ /\ Man(e).edits = Append(Man(dk).edits, edit)
                /\ Man(e).synced \in {Man(dk).synced, Len(Man(dk).edits) + 1}
          /\ ok => Man(e).synced = Len(Man(dk).edits) + 1
      <3>1. dk.cur \in DOMAIN dk.mans /\ db.man = dk.cur /\ (ok => added)
        BY <1>1, <1>5, <1>6
      <3> QED
        BY <1>7, <3>1, EditInManifest
    <2>2. disk' = e
      BY <1>1
    <2> HIDE DEF e
    <2> QED
      BY <1>6, <1>7, <2>1, <2>2
  <1>9. /\ DOMAIN disk'.tabs = DOMAIN disk.tabs /\ disk'.tabs[bg.out] = es
        /\ \A m \in DOMAIN disk.tabs : m # bg.out => disk'.tabs[m] = disk.tabs[m]
    BY <1>1, <1>6, <1>8
  <1>10. bg.out \notin Numbers(db.files) /\ bg.ins \subseteq db.files
    BY <1>1 DEF ReadsInv, JobInv, HasOutput, Compacting
  <1>11. ASSUME NEW k \in Ends(Man(disk)), NEW m \in Numbers(FilesAt(Man(disk).edits, k))
         PROVE  m # bg.out /\ m \in DOMAIN disk.tabs /\ disk'.tabs[m] = disk.tabs[m]
    <2>1. \A i \in 1 .. Len(Man(disk).edits) : bg.out \notin Numbers(Man(disk).edits[i].add)
      BY <1>1, <1>5 DEF EndsInv, Writing
    <2>2. PICK f \in FilesAt(Man(disk).edits, k) : m = f[1]
      BY DEF Numbers
    <2>3. PICK i \in 1 .. k : f \in Man(disk).edits[i].add
      BY AddedFilesAt
    <2>4. Len(Man(disk).edits) \in Nat /\ k \in 1 .. Len(Man(disk).edits)
      BY <1>2, <1>5, LenProperties DEF DiskInv, Man, Manifest, FiniteEdits, Ends
    <2>5. i \in 1 .. Len(Man(disk).edits)
      BY <2>4
    <2>6. m # bg.out
      BY <2>1, <2>2, <2>3, <2>5 DEF Numbers
    <2>7. Point(disk, k, Answered, Promised)
      BY <1>2, OpenFacts
    <2> QED
      BY <1>9, <2>6, <2>7 DEF Point
  <1> HIDE DEF es
  <1>12. TabsIn(disk'.tabs, edit.add) = es /\ Numbers(edit.add) \subseteq DOMAIN disk'.tabs
    <2>1. Numbers(edit.add) = {bg.out}
      BY <1>3 DEF Numbers
    <2> QED
      BY <1>1, <1>9, <2>1 DEF TabsIn
  <1>13. TabsIn(disk'.tabs, db.files) = TabsIn(disk.tabs, db.files)
    BY <1>9, <1>10, SameTabs
  <1>14. es \subseteq TabsAt(disk, n)
    <2>1. es \subseteq Opened
      BY <1>10 DEF es, Opened, TabsIn, Numbers
    <2> QED
      BY <1>5, <2>1 DEF EndInv
  <1>15. \A e \in es : e \in Found /\ Seqno(e) \in 0 .. db.last
    BY <1>2, <1>5, <1>14, EndEntries
  <1>16. TabsAt(disk, n) \subseteq TabsIn(disk'.tabs, files)
    <2> DEFINE rest == {f \in old : f[1] \notin Numbers(bg.ins)}
    <2>1. files = rest \cup edit.add
      BY <1>3 DEF After
    <2>2. TabsIn(disk'.tabs, files) = TabsIn(disk'.tabs, rest) \cup es
      BY <1>12, <2>1, TabsOfBoth
    <2>3. SUFFICES ASSUME NEW m \in Numbers(old) \cap DOMAIN disk.tabs, NEW e \in disk.tabs[m]
                   PROVE  e \in TabsIn(disk'.tabs, rest) \cup es
      BY <2>2 DEF TabsAt, TabsIn
    <2>4. CASE m \in Numbers(bg.ins)
      BY <2>4 DEF es, TabsIn
    <2>5. CASE m \notin Numbers(bg.ins)
      <3>1. m \in Numbers(rest)
        BY <2>5 DEF Numbers
      <3>2. m \in DOMAIN disk'.tabs /\ disk'.tabs[m] = disk.tabs[m]
        BY <1>5, <1>9, <1>11
      <3> QED
        BY <3>1, <3>2 DEF TabsIn
    <2> QED
      BY <2>4, <2>5
  <1>17. /\ files = After(FilesAt(Man(disk).edits, Len(Man(disk).edits)), edit)
         /\ TabsAt(disk, Len(Man(disk).edits)) \subseteq TabsIn(disk'.tabs, files)
    BY <1>16
  <1> HIDE DEF files
  <1>18. /\ SafeFrom(disk.logs, LogAt(disk, n)) \subseteq SafeFrom(disk.logs, db.vlog)
         /\ SyncedFrom(disk.logs, LogAt(disk, n)) \subseteq SyncedFrom(disk.logs, db.vlog)
         /\ AllFrom(disk.logs, LogAt(disk, n)) \subseteq AllFrom(disk.logs, db.vlog)
    <2>1. \A l \in DOMAIN disk.logs : l >= LogAt(disk, n) => l >= db.vlog
      BY <1>5
    <2> HIDE DEF n
    <2> QED
      BY <2>1 DEF SafeFrom, SyncedFrom, AllFrom
  <1>19. /\ Answered \subseteq TabsIn(disk'.tabs, files) \cup SafeFrom(disk.logs, edit.log)
         /\ Promised \subseteq TabsIn(disk'.tabs, files) \cup SyncedFrom(disk.logs, edit.log)
         /\ db.imm # 0 => memtab[db.imm] \subseteq TabsIn(disk'.tabs, files) \cup AllFrom(disk.logs, edit.log)
    <2>1. /\ Answered \subseteq TabsAt(disk, n) \cup SafeFrom(disk.logs, LogAt(disk, n))
          /\ Promised \subseteq TabsAt(disk, n) \cup SyncedFrom(disk.logs, LogAt(disk, n))
          /\ db.imm # 0 => memtab[db.imm] \subseteq TabsAt(disk, n) \cup AllFrom(disk.logs, LogAt(disk, n))
      BY <1>5 DEF Point, EndInv
    <2> QED
      BY <1>3, <1>16, <1>18, <2>1
  <1>20. EditTaken(edit, files)
    <2>1. bg'.ok => Man(disk').synced = Len(Man(disk).edits) + 1
      BY <1>4, <1>8
    <2>2. IsFiniteSet(edit.add)
      BY <1>3, FS_Singleton
    <2>3. Onward(db', db) /\ SameFiles(db', db) /\ db'.err = db.err
      BY <1>1 DEF Onward, SameFiles, DBInv, FieldsInv
    <2>4. edit.log \in Nat /\ db.vlog <= edit.log /\ edit.log <= db.logno
      BY <1>3, <1>5
    <2>5. ~Writing' /\ bg.pc # "install"
      BY <1>1, <1>4 DEF Writing
    <2>6. \A e \in TabsIn(disk'.tabs, edit.add) : e \in Found /\ Seqno(e) \in 0 .. db.last
      BY <1>12, <1>15
    <2>7. \A k \in Ends(Man(disk)) : \A m \in Numbers(FilesAt(Man(disk).edits, k)) :
            m \in DOMAIN disk'.tabs /\ disk'.tabs[m] = disk.tabs[m]
      BY <1>9, <1>11
    <2> QED
      BY <1>1, <1>3, <1>4, <1>8, <1>12, <1>13, <1>17, <1>19, <2>1, <2>2, <2>3, <2>4, <2>5, <2>6, <2>7
      DEF EditTaken
  <1> QED
    BY <1>2, <1>20, EditAnswers

-----------------------------------------------------------------------------
(* New versions *)

\* DeleteObsoleteFiles leaves what a recovery needs.
LEMMA WhatIsNeeded ==
  ASSUME DBInv, ReadsInv, AnswersInv, db.phase \in {"clean", "open"}, NEW d, NEW ins,
         DeleteObsoleteFiles(d, ins), d.man = db.man, d.vlog \in Nat, db.vlog <= d.vlog,
         \A k \in Ends(Man(disk)) : d.vlog <= LogAt(disk, k) /\ (~d.err => FilesAt(Man(disk).edits, k) = d.files)
  PROVE  /\ Kept(disk', Answered, Promised)
         /\ disk'.cur = disk.cur /\ disk'.cur \in DOMAIN disk'.mans /\ Man(disk') = Man(disk)
         /\ \A k \in Ends(Man(disk)) : TabsAt(disk', k) = TabsAt(disk, k) /\ LogAt(disk', k) = LogAt(disk, k)
         /\ TabsIn(disk'.tabs, d.files) = TabsIn(disk.tabs, d.files)
         /\ db.logno \in DOMAIN disk'.logs /\ disk'.logs[db.logno] = disk.logs[db.logno]
         /\ DOMAIN disk'.logs \subseteq DOMAIN disk.logs
         /\ \A n : AllFrom(disk'.logs, n) \subseteq AllFrom(disk.logs, n)
         /\ AllFrom(disk'.logs, d.vlog) \subseteq Found
         /\ \A k \in Ends(Man(disk)) :
              AllFrom(disk.logs, LogAt(disk, k)) \subseteq AllFrom(disk'.logs, LogAt(disk, k))
  <1>1. /\ Kept(disk, Answered, Promised) /\ disk.cur # 0 /\ disk.cur \in Nat
        /\ disk.cur \in DOMAIN disk.mans /\ DOMAIN disk.mans \subseteq Nat /\ db.man = disk.cur
        /\ db.logno \in DOMAIN disk.logs /\ db.logno \in Nat /\ db.vlog \in Nat
        /\ Len(Man(disk).edits) \in Ends(Man(disk))
        /\ \A l \in DOMAIN disk.logs : l \in Nat
        /\ \A k \in Ends(Man(disk)) : /\ LogAt(disk, k) \in Nat /\ LogAt(disk, k) <= db.logno
                                      /\ Point(disk, k, Answered, Promised)
    BY OpenFacts
  <1>2. /\ DOMAIN disk'.tabs \subseteq DOMAIN disk.tabs
        /\ \A n \in Numbers(d.files) \cup Numbers(rd.files) \cup Numbers(ins) :
             (n \in DOMAIN disk'.tabs <=> n \in DOMAIN disk.tabs)
             /\ (n \in DOMAIN disk.tabs => disk'.tabs[n] = disk.tabs[n])
    BY WhatIsLeft DEF ReadsInv
  <1>3. /\ disk'.cur = disk.cur
        /\ DOMAIN disk'.logs \subseteq DOMAIN disk.logs /\ DOMAIN disk'.mans \subseteq DOMAIN disk.mans
        /\ \A l \in DOMAIN disk'.logs : disk'.logs[l] = disk.logs[l]
        /\ \A l \in DOMAIN disk.logs : l >= d.vlog => l \in DOMAIN disk'.logs
        /\ \A m \in DOMAIN disk'.mans : disk'.mans[m] = disk.mans[m]
        /\ disk.cur \in DOMAIN disk'.mans
        /\ d.err => disk' = disk
    <2>1. CASE d.err
      BY <1>1, <2>1 DEF DeleteObsoleteFiles
    <2>2. CASE ~d.err
      <3> DEFINE o == Obsolete(d, ins)
      <3>1. /\ disk'.logs = Without(disk.logs, o.logs) /\ disk'.cur = disk.cur
            /\ disk'.mans = Without(disk.mans, o.mans)
        BY <2>2 DEF DeleteObsoleteFiles, DBInv, VersionsInv, DiskInv
      <3>2. /\ o.logs = {n \in DOMAIN disk.logs : n < d.vlog}
            /\ o.mans = {n \in DOMAIN disk.mans : n < d.man}
        BY DEF Obsolete
      <3> HIDE DEF o
      <3>3. \A l \in DOMAIN disk.logs : l >= d.vlog => l \notin o.logs
        BY <1>1, <3>2
      <3>4. disk.cur \notin o.mans
        BY <1>1, <3>2
      <3> QED
        BY <1>1, <2>2, <3>1, <3>3, <3>4 DEF Without, Restrict
    <2> QED
      BY <2>1, <2>2
  <1>4. Man(disk') = Man(disk)
    BY <1>3 DEF Man
  <1>5. ASSUME NEW k \in Ends(Man(disk)), NEW n \in Numbers(FilesAt(Man(disk).edits, k))
        PROVE  n \in DOMAIN disk'.tabs /\ disk'.tabs[n] = disk.tabs[n]
    <2>1. n \in DOMAIN disk.tabs
      BY <1>1 DEF Point
    <2>2. CASE d.err
      BY <1>3, <2>1, <2>2
    <2>3. CASE ~d.err
      <3>1. n \in Numbers(d.files)
        BY <2>3
      <3> QED
        BY <1>2, <2>1, <3>1
    <2> QED
      BY <2>2, <2>3
  <1>6. \A n : AllFrom(disk'.logs, n) \subseteq AllFrom(disk.logs, n)
    BY <1>3 DEF AllFrom
  <1>7. ASSUME NEW k \in Ends(Man(disk))
        PROVE  /\ SafeFrom(disk.logs, LogAt(disk, k)) \subseteq SafeFrom(disk'.logs, LogAt(disk, k))
               /\ SyncedFrom(disk.logs, LogAt(disk, k)) \subseteq SyncedFrom(disk'.logs, LogAt(disk, k))
               /\ AllFrom(disk.logs, LogAt(disk, k)) \subseteq AllFrom(disk'.logs, LogAt(disk, k))
    <2>1. \A l \in DOMAIN disk.logs : l >= LogAt(disk, k) => l >= d.vlog
      BY <1>1
    <2>2. \A l \in DOMAIN disk.logs : l >= LogAt(disk, k) => l \in DOMAIN disk'.logs /\ disk'.logs[l] = disk.logs[l]
      BY <1>3, <2>1
    <2> QED
      BY <2>2 DEF SafeFrom, SyncedFrom, AllFrom
  <1>8. /\ \A k \in Ends(Man(disk)) : TabsAt(disk', k) = TabsAt(disk, k) /\ LogAt(disk', k) = LogAt(disk, k)
        /\ Kept(disk', Answered, Promised)
    <2>1. DOMAIN disk'.mans \subseteq Nat /\ disk'.cur \in DOMAIN disk'.mans
      BY <1>1, <1>3
    <2> QED
      BY <1>1, <1>3, <1>4, <1>5, <1>6, <1>7, <2>1, NothingNew
  <1>9. TabsIn(disk'.tabs, d.files) = TabsIn(disk.tabs, d.files)
    BY <1>2, SameTabs
  <1>10. db.logno >= d.vlog
    BY <1>1
  <1>11. db.logno \in DOMAIN disk'.logs /\ disk'.logs[db.logno] = disk.logs[db.logno]
    BY <1>1, <1>3, <1>10
  <1>12. AllFrom(disk'.logs, d.vlog) \subseteq Found
    <2>1. \A l \in DOMAIN disk.logs : l >= d.vlog => l >= db.vlog
      BY <1>1
    <2>2. AllFrom(disk.logs, d.vlog) \subseteq AllFrom(disk.logs, db.vlog)
      BY <2>1 DEF AllFrom
    <2> QED
      BY <1>6, <2>2 DEF Found
  <1> QED
    BY <1>3, <1>4, <1>6, <1>7, <1>8, <1>9, <1>11, <1>12

\* The version that the edit makes holds what the old one held, and maybe the
\* immutable memtable.
Replaced(d, ins) ==
  /\ Onward(d, db) /\ d.vlog = bg.edit.log /\ d.err = db.err /\ d.imm \in {0, db.imm}
  /\ d.files = After(db.files, bg.edit) /\ Opened \subseteq TabsIn(disk.tabs, d.files)
  /\ d.imm = 0 /\ db.imm # 0 => memtab[db.imm] \subseteq TabsIn(disk.tabs, d.files)
  /\ Onward(db', d) /\ SameFiles(db', d) /\ db'.err = d.err
  /\ SameMemory({db.mem, d.imm})
  /\ DeleteObsoleteFiles(d, ins)
  /\ bg'.pc # "install" /\ (Writing' => Writing /\ bg'.out = bg.out)
  /\ UNCHANGED <<writers, acked>> /\ \A t \in Writers : SameCall(wr'[t], wr[t])

LEMMA VersionAnswers ==
  ASSUME DBInv, ReadsInv, AnswersInv, db.phase = "open", bg.pc = "install", bg.ok,
         NEW d, NEW ins, Replaced(d, ins)
  PROVE  StoreInv'
  <1> USE DEF Replaced
  <1>1. /\ EndsInv /\ FoundInv /\ MemoryInv /\ db.man = disk.cur /\ disk.cur # 0 /\ disk.cur \in Nat
        /\ Len(Man(disk).edits) \in Ends(Man(disk))
        /\ db.logno \in Nat /\ db.logno < db.next /\ \A l \in DOMAIN disk.logs : l \in Nat /\ l <= db.logno
        /\ \A k \in Ends(Man(disk)) : EndInv(k)
    BY OpenFacts
  <1>2. /\ bg.edit.log \in Nat /\ db.vlog <= bg.edit.log
        /\ \A k \in Ends(Man(disk)) :
             /\ bg.edit.log <= LogAt(disk, k)
             /\ ~d.err => FilesAt(Man(disk).edits, k) = d.files
             /\ TabsIn(disk.tabs, bg.edit.add) \subseteq TabsAt(disk, k)
    BY <1>1 DEF EndInv
  <1>3. d.man = db.man
    BY DEF Onward
  <1>4. /\ Kept(disk', Answered, Promised)
        /\ disk'.cur = disk.cur /\ Man(disk') = Man(disk)
        /\ \A k \in Ends(Man(disk)) : TabsAt(disk', k) = TabsAt(disk, k) /\ LogAt(disk', k) = LogAt(disk, k)
        /\ TabsIn(disk'.tabs, d.files) = TabsIn(disk.tabs, d.files)
        /\ db.logno \in DOMAIN disk'.logs /\ disk'.logs[db.logno] = disk.logs[db.logno]
        /\ DOMAIN disk'.logs \subseteq DOMAIN disk.logs
        /\ AllFrom(disk'.logs, d.vlog) \subseteq Found
        /\ \A k \in Ends(Man(disk)) :
             AllFrom(disk.logs, LogAt(disk, k)) \subseteq AllFrom(disk'.logs, LogAt(disk, k))
    BY <1>2, <1>3, WhatIsNeeded
  <1>5. /\ db'.phase = "open" /\ db'.last = db.last /\ db'.logno = db.logno /\ db'.mem = db.mem
        /\ db'.man = db.man /\ db'.next = db.next
        /\ db'.files = d.files /\ db'.imm = d.imm /\ db'.vlog = d.vlog /\ db'.err = d.err
    BY DEF Onward, SameFiles
  <1>6. Answered' = Answered /\ Promised' = Promised /\ KeptInv'
    BY <1>4 DEF Answered, Promised, KeptInv
  <1>7. LatestLogInv' /\ OpeningInv'
    BY <1>1, <1>4, <1>5 DEF LatestLogInv, OpeningInv
  <1>8. /\ db.mem \in DOMAIN memtab /\ memtab'[db.mem] = memtab[db.mem] /\ db.mem \in DOMAIN memtab'
        /\ db.imm # 0 => db.imm \in DOMAIN memtab
        /\ d.imm # 0 => d.imm = db.imm /\ db.imm \in DOMAIN memtab' /\ memtab'[db.imm] = memtab[db.imm]
    BY DEF ReadsInv, MemtablesInv, SameMemory
  <1>9. Opened' = TabsIn(disk.tabs, d.files)
    BY <1>4, <1>5 DEF Opened
  <1>10. Opened' \subseteq Opened \cup TabsIn(disk.tabs, bg.edit.add)
    <2> DEFINE rest == {f \in db.files : f[1] \notin bg.edit.del}
    <2>1. d.files = rest \cup bg.edit.add
      BY DEF After
    <2>2. TabsIn(disk.tabs, d.files) = TabsIn(disk.tabs, rest) \cup TabsIn(disk.tabs, bg.edit.add)
      BY <2>1, TabsOfBoth
    <2>3. TabsIn(disk.tabs, rest) \subseteq Opened
      BY DEF TabsIn, Opened, Numbers
    <2> QED
      BY <1>9, <2>2, <2>3
  <1>11. Content \subseteq Content'
    <2>1. /\ Content' = Opened' \cup UNION {memtab'[m] : m \in DOMAIN memtab' \cap {db'.mem, db'.imm}}
          /\ Content = Opened \cup UNION {memtab[m] : m \in DOMAIN memtab \cap {db.mem, db.imm}}
      BY DEF Content, Opened, TablesOf, TabsIn
    <2>2. memtab[db.mem] \subseteq Content'
      BY <1>5, <1>8, <2>1
    <2>3. db.imm # 0 => memtab[db.imm] \subseteq Content'
      BY <1>5, <1>8, <1>9, <2>1
    <2>4. 0 \notin DOMAIN memtab
      BY DEF ReadsInv, MemtablesInv
    <2> QED
      BY <1>9, <2>1, <2>2, <2>3, <2>4
  <1>12. Found' \subseteq Found
    <2>1. Found' = AllFrom(disk'.logs, d.vlog) \cup UNION {TabsAt(disk', k) : k \in Ends(Man(disk))}
      BY <1>4, <1>5 DEF Found
    <2>2. \A k \in Ends(Man(disk)) : TabsAt(disk', k) \subseteq Found
      BY <1>4 DEF Found
    <2> QED
      BY <1>4, <2>1, <2>2
  <1>13. EndsInv'
    <2>1. ASSUME NEW k \in Ends(Man(disk)) PROVE EndInv(k)'
      <3>1. EndInv(k) /\ TabsAt(disk', k) = TabsAt(disk, k) /\ LogAt(disk', k) = LogAt(disk, k)
        BY <1>1, <1>4
      <3>2. Opened' \subseteq TabsAt(disk', k)
        BY <1>2, <1>10, <3>1 DEF EndInv
      <3>3. db'.imm # 0 =>
              memtab'[db'.imm] \subseteq TabsAt(disk', k) \cup AllFrom(disk'.logs, LogAt(disk', k))
        BY <1>4, <1>5, <1>8, <3>1 DEF EndInv
      <3>4. Man(disk').edits[k].last <= db'.last /\ db'.vlog <= LogAt(disk', k) /\ LogAt(disk', k) <= db'.logno
        BY <1>2, <1>4, <1>5, <3>1 DEF EndInv
      <3>5. ~db'.err => FilesAt(Man(disk').edits, k) = db'.files
        BY <1>2, <1>4, <1>5
      <3> QED
        BY <3>2, <3>3, <3>4, <3>5 DEF EndInv
    <2> QED
      BY <1>1, <1>2, <1>4, <1>5, <2>1 DEF EndsInv
  <1>14. FoundInv'
    <2>1. Unique(Found')
      BY <1>1, <1>12, FewerUnique DEF FoundInv
    <2>2. \A w \in Writers : InFlight(w) => InFlight(w)' /\ wr'[w].group = wr[w].group
      BY DEF SameCall, InFlight
    <2> QED
      BY <1>1, <1>5, <1>12, <2>1, <2>2 DEF FoundInv
  <1>15. MemoryInv'
    BY <1>1, <1>4, <1>5, <1>6, <1>8, <1>11 DEF MemoryInv
  <1>16. FlightInv'
    <2>1. \A t \in Writers : SameCall(wr'[t], wr[t]) /\ (wr[t].pc = "idle" => ~InFlight(t)')
      BY DEF SameCall, InFlight
    <2> QED
      BY <1>4, <1>5, <1>8, <2>1, FlightStays DEF AnswersInv
  <1> QED
    BY <1>5, <1>6, <1>7, <1>13, <1>14, <1>15, <1>16 DEF StoreInv, OpenInv

LEMMA InstallMemTableAnswers ==
  ASSUME DBInv, ReadsInv, AnswersInv, InstallMemTable PROVE StoreInv'
  <1> DEFINE i == Installed(db)
             f == [db EXCEPT !.err = TRUE]
             d == IF bg.ok THEN [i EXCEPT !.imm = 0] ELSE f
  <1>1. /\ bg.pc = "install" /\ bg.ret # "cleanup" /\ Return(d) /\ UNCHANGED <<writers, acked>>
        /\ DeleteObsoleteFiles(d, bg.ins)
        /\ memtab' = Without(memtab, DOMAIN memtab \ ({d.mem, d.imm} \cup rd.mems))
    BY DEF InstallMemTable
  <1>2. db.phase = "open" /\ DOMAIN db = DOMAIN Closed /\ DOMAIN bg = DOMAIN NoWork
    BY <1>1 DEF DBInv, CallsInv, FieldsInv
  <1>3. /\ bg.edit.del = {} /\ (bg.ok => TabsIn(disk.tabs, bg.edit.add) = memtab[db.imm])
    BY <1>1 DEF ReadsInv, JobInv, Flushing
  <1>4. /\ Onward(i, db) /\ i.vlog = bg.edit.log /\ i.err = db.err /\ i.files = After(db.files, bg.edit)
        /\ Onward(f, db) /\ SameFiles(f, db) /\ f.err
    BY <1>2, OnwardInstalled, OnwardFailed
  <1> HIDE DEF i, f
  <1>5. /\ Onward(d, db) /\ DOMAIN d = DOMAIN Closed /\ d.mem = db.mem
        /\ bg.ok => /\ d.vlog = bg.edit.log /\ d.err = db.err /\ d.files = After(db.files, bg.edit)
                    /\ d.imm = 0
        /\ ~bg.ok => SameFiles(d, db) /\ d.err
    BY <1>2, <1>4, DatabaseFields DEF Onward
  <1> HIDE DEF d
  <1>6. Onward(db', d) /\ SameFiles(db', d) /\ db'.err = d.err
    BY <1>1, <1>5, OnwardReturn
  <1>7. \A t \in Writers : SameCall(wr'[t], wr[t])
    <2>1. wr' = WakeAll(wr)
      BY <1>1 DEF Return, EndCall
    <2> QED
      BY <2>1, WokenCalls
  <1>8. bg'.pc # "install" /\ (Writing' => Writing /\ bg'.out = bg.out)
    <2>1. bg' = NoWork \/ (bg.ret # "end" /\ bg' = [bg EXCEPT !.pc = bg.ret, !.edit = None])
      BY <1>1 DEF Return, EndCall
    <2>2. NoWork.pc = "idle" /\ bg.ret \in {"end", "work", "output"}
      BY <1>1 DEF NoWork, DBInv, FieldsInv
    <2>3. bg'.pc = "idle" \/ (bg'.pc = bg.ret /\ bg'.out = bg.out)
      BY <1>2, <2>1, <2>2, WorkFields
    <2> QED
      BY <1>1, <2>2, <2>3 DEF Writing
  <1>9. SameMemory({db.mem, d.imm})
    BY <1>1, <1>5 DEF SameMemory, Without, Restrict
  <1>10. CASE bg.ok
    <2>1. d.files = db.files \cup bg.edit.add
      BY <1>3, <1>5, <1>10 DEF After
    <2>2. TabsIn(disk.tabs, d.files) = Opened \cup memtab[db.imm]
      BY <1>3, <1>10, <2>1, TabsOfBoth DEF Opened
    <2>3. Replaced(d, bg.ins)
      BY <1>1, <1>5, <1>6, <1>7, <1>8, <1>9, <1>10, <2>2 DEF Replaced
    <2> QED
      BY <1>1, <1>2, <1>10, <2>3, VersionAnswers
  <1>11. CASE ~bg.ok
    <2>1. /\ Onward(db', db) /\ SameFiles(db', db) /\ db'.err /\ d.imm = db.imm
      BY <1>5, <1>6, <1>11, OnwardIsTransitive DEF SameFiles
    <2>2. disk' = disk
      BY <1>1, <1>5, <1>11 DEF DeleteObsoleteFiles
    <2>3. \A w \in Writers : InFlight(w) => InFlight(w)' /\ wr'[w].group = wr[w].group
      BY <1>7 DEF SameCall, InFlight
    <2>4. KeptInv' /\ LatestLogInv' /\ OpeningInv' /\ OpenInv'
      BY <1>1, <1>2, <1>8, <1>9, <2>1, <2>2, <2>3, StoreStays
    <2>5. FlightInv'
      <3>1. \A t \in Writers : wr[t].pc = "idle" => ~InFlight(t)'
        BY <1>7 DEF SameCall, InFlight
      <3>2. memtab'[db.mem] = memtab[db.mem]
        BY <1>2, <1>9 DEF SameMemory, ReadsInv, MemtablesInv
      <3>3. db'.last = db.last /\ db'.logno = db.logno /\ db'.mem = db.mem
        BY <2>1 DEF Onward
      <3> QED
        BY <1>1, <1>7, <2>2, <3>1, <3>2, <3>3, FlightStays DEF AnswersInv
    <2> QED
      BY <2>4, <2>5 DEF StoreInv
  <1> QED
    BY <1>10, <1>11

LEMMA InstallCompactionAnswers ==
  ASSUME DBInv, ReadsInv, AnswersInv, InstallCompaction PROVE StoreInv'
  <1> DEFINE i == Installed(db)
             f == [db EXCEPT !.err = TRUE]
             d == IF bg.ok THEN i ELSE f
             e == [d EXCEPT !.pend = @ \ {bg.out}]
  <1>1. /\ bg.pc = "install" /\ bg.ret = "cleanup" /\ Cleanup(d) /\ UNCHANGED <<memtab, writers, acked>>
    BY DEF InstallCompaction
  <1>2. db.phase = "open" /\ DOMAIN db = DOMAIN Closed /\ DOMAIN bg = DOMAIN NoWork
    BY <1>1 DEF DBInv, CallsInv, FieldsInv
  <1>3. /\ bg.edit.add = {<<bg.out, 1>>} /\ bg.edit.del = Numbers(bg.ins)
        /\ bg.out \in DOMAIN disk.tabs /\ disk.tabs[bg.out] = TabsIn(disk.tabs, bg.ins)
    BY <1>1 DEF ReadsInv, JobInv
  <1>4. /\ Onward(i, db) /\ i.vlog = bg.edit.log /\ i.err = db.err /\ i.files = After(db.files, bg.edit)
        /\ i.imm = db.imm
        /\ Onward(f, db) /\ SameFiles(f, db) /\ f.err
    BY <1>2, OnwardInstalled, OnwardFailed
  <1> HIDE DEF i, f
  <1>5. /\ Onward(d, db) /\ DOMAIN d = DOMAIN Closed
        /\ bg.ok => /\ d.vlog = bg.edit.log /\ d.err = db.err /\ d.files = After(db.files, bg.edit)
                    /\ d.imm = db.imm
        /\ ~bg.ok => SameFiles(d, db) /\ d.err
    BY <1>2, <1>4 DEF Onward
  <1>6. EndCall(e, wr) /\ DeleteObsoleteFiles(e, {})
    BY <1>1 DEF Cleanup
  <1> HIDE DEF d
  <1>7. Onward(e, d) /\ SameFiles(e, d) /\ e.err = d.err /\ DOMAIN e = DOMAIN Closed
    BY <1>5, DatabaseFields DEF Onward, SameFiles
  <1> HIDE DEF e
  <1>8. Onward(db', e) /\ SameFiles(db', e) /\ db'.err = e.err /\ bg'.pc = "idle"
    <2>1. bg' = NoWork
      BY <1>6 DEF EndCall
    <2> QED
      BY <1>6, <1>7, <2>1, OnwardCall DEF NoWork
  <1>9. \A t \in Writers : SameCall(wr'[t], wr[t])
    <2>1. wr' = WakeAll(wr)
      BY <1>6 DEF EndCall
    <2> QED
      BY <2>1, WokenCalls
  <1>10. bg'.pc # "install" /\ ~Writing'
    BY <1>8 DEF Writing
  <1>11. \A ms : SameMemory(ms)
    BY <1>1 DEF SameMemory
  <1>12. CASE bg.ok
    <2>1. TabsIn(disk.tabs, e.files) = Opened
      <3> DEFINE kept == {x \in db.files : x[1] \notin Numbers(bg.ins)}
                 new == {<<bg.out, 1>>}
      <3>1. e.files = kept \cup new
        BY <1>3, <1>5, <1>7, <1>12 DEF After, SameFiles
      <3>2. TabsIn(disk.tabs, new) = TabsIn(disk.tabs, bg.ins)
        <4>1. Numbers(new) = {bg.out}
          BY DEF Numbers
        <4> QED
          BY <1>3, <4>1 DEF TabsIn
      <3>3. bg.ins \subseteq db.files
        BY <1>1 DEF ReadsInv, JobInv, Compacting
      <3>4. Numbers(db.files) = Numbers(kept) \cup Numbers(bg.ins)
        BY <3>3 DEF Numbers
      <3> HIDE DEF kept, new
      <3>5. Opened = TabsIn(disk.tabs, kept) \cup TabsIn(disk.tabs, bg.ins)
        BY <3>4 DEF TabsIn, Opened
      <3> QED
        BY <3>1, <3>2, <3>5, TabsOfBoth
    <2>2. Onward(e, db) /\ e.imm = db.imm /\ e.vlog = bg.edit.log /\ e.err = db.err
          /\ e.files = After(db.files, bg.edit)
      BY <1>5, <1>7, <1>12, OnwardIsTransitive DEF SameFiles
    <2>3. Replaced(e, {})
      BY <1>1, <1>6, <1>8, <1>9, <1>10, <1>11, <2>1, <2>2 DEF Replaced
    <2> QED
      BY <1>1, <1>2, <1>12, <2>3, VersionAnswers
  <1>13. CASE ~bg.ok
    <2>1. Onward(db', db) /\ SameFiles(db', db) /\ db'.err /\ e.err
      BY <1>5, <1>7, <1>8, <1>13, OnwardIsTransitive DEF SameFiles
    <2>2. disk' = disk
      BY <1>6, <2>1 DEF DeleteObsoleteFiles
    <2>3. \A w \in Writers : InFlight(w) => InFlight(w)' /\ wr'[w].group = wr[w].group
      BY <1>9 DEF SameCall, InFlight
    <2>4. KeptInv' /\ LatestLogInv' /\ OpeningInv' /\ OpenInv'
      BY <1>1, <1>2, <1>10, <1>11, <2>1, <2>2, <2>3, StoreStays
    <2>5. FlightInv'
      <3>1. \A t \in Writers : wr[t].pc = "idle" => ~InFlight(t)'
        BY <1>9 DEF SameCall, InFlight
      <3>2. db'.last = db.last /\ db'.logno = db.logno /\ db'.mem = db.mem
        BY <2>1 DEF Onward
      <3> QED
        BY <1>1, <1>9, <2>2, <3>1, <3>2, FlightStays DEF AnswersInv
    <2> QED
      BY <2>4, <2>5 DEF StoreInv
  <1> QED
    BY <1>12, <1>13

LEMMA BackgroundAnswers ==
  ASSUME DBInv, ReadsInv, AnswersInv, Background PROVE StoreInv'
  BY QuietAnswers, NewTableAnswers, ApplyMemTableAnswers, FinishCompactionAnswers,
     InstallMemTableAnswers, InstallCompactionAnswers DEF Background

-----------------------------------------------------------------------------
(* DB::Open *)

\* Nobody writes before the database is open.
LEMMA NobodyWrites ==
  ASSUME DBInv, db.phase # "open"
  PROVE  /\ bg.pc = "idle" /\ \A w \in Writers : ~InFlight(w)
         /\ wr' = wr => FlightInv' /\ \A w \in Writers : ~InFlight(w)'
  <1>1. bg.pc = "idle" /\ writers = <<>>
    BY DEF DBInv, CallsInv
  <1>2. \A w \in Writers : wr[w].pc = "idle"
    BY <1>1, NobodyWaitsWhenEmpty DEF DBInv
  <1> QED
    BY <1>1, <1>2 DEF InFlight, FlightInv

\* A directory without CURRENT holds nothing.
LEMMA NewDBAnswers ==
  ASSUME DBInv, ReadsInv, AnswersInv, NewDB PROVE StoreInv'
  <1> DEFINE edit == [add |-> {}, del |-> {}, log |-> 0, next |-> 2, last |-> 0]
             m == [synced |-> 0, edits |-> <<edit>>]
  <1>1. /\ db.phase = "closed" /\ disk.cur = 0 /\ UNCHANGED <<db, memtab, wr, bg, acked>>
        /\ disk' = [disk EXCEPT !.cur = 1, !.mans = With(@, 1, m)]
    BY DEF NewDB
  <1>2. edit.add = {} /\ edit.log = 0 /\ edit.next = 2 /\ edit.last = 0
    OBVIOUS
  <1> HIDE DEF edit
  <1>3. /\ m.synced = 0 /\ Len(m.edits) = 1 /\ m.edits[1] = edit /\ m.edits = <<edit>>
    OBVIOUS
  <1> HIDE DEF m
  <1>4. disk'.logs = disk.logs /\ disk'.mans = With(disk.mans, 1, m) /\ disk'.cur = 1
    BY <1>1 DEF DBInv, VersionsInv, DiskInv
  <1>5. Man(disk') = m /\ 1 \in DOMAIN disk'.mans /\ DOMAIN disk'.mans = DOMAIN disk.mans \cup {1}
    BY <1>4 DEF Man, With
  <1>6. DOMAIN disk.logs = {} /\ Answered = {} /\ DOMAIN disk.mans \subseteq Nat
    BY <1>1 DEF AnswersInv, KeptInv, Kept
  <1>7. Promised = {}
    BY <1>6 DEF Promised, Answered
  <1>8. Ends(m) = {1}
    BY <1>3 DEF Ends
  <1>9. FilesAt(m.edits, 1) = {}
    BY <1>2, <1>3, OneEditFiles
  <1>10. TabsAt(disk', 1) = {} /\ LogAt(disk', 1) = 0
    BY <1>2, <1>3, <1>5, <1>9 DEF TabsAt, LogAt, TabsIn, Numbers
  <1>11. \A n : AllFrom(disk'.logs, n) = {}
    BY <1>4, <1>6 DEF AllFrom
  <1>12. Reach(disk') = {}
    BY <1>5, <1>8, <1>10, <1>11 DEF Reach
  <1>13. Point(disk', 1, {}, {})
    <2>1. Numbers(FilesAt(Man(disk').edits, 1)) = {}
      BY <1>5, <1>9 DEF Numbers
    <2> QED
      BY <1>2, <1>3, <1>4, <1>5, <1>10, <2>1 DEF Point
  <1>14. Kept(disk', {}, {})
    BY <1>4, <1>5, <1>6, <1>8, <1>12, <1>13 DEF Kept, Unique
  <1>15. KeptInv'
    <2>1. Answered' = {} /\ Promised' = {}
      BY <1>1, <1>6, <1>7 DEF Answered, Promised
    <2> QED
      BY <1>14, <2>1 DEF KeptInv
  <1>16. LatestLogInv' /\ OpeningInv' /\ OpenInv'
    BY <1>1 DEF AnswersInv, LatestLogInv, OpeningInv, OpenInv
  <1> QED
    BY <1>1, <1>15, <1>16, NobodyWrites DEF StoreInv

\* The last edit of the manifest is one that it may end with.
LEMMA LastEnd ==
  ASSUME NEW dk, DiskInv(dk), dk.cur \in DOMAIN dk.mans, Len(Man(dk).edits) > 0 \/ Man(dk).edits # <<>>
  PROVE  LET n == Len(Man(dk).edits)
         IN  /\ n \in Nat /\ n > 0 /\ n \in Ends(Man(dk)) /\ Last(Man(dk).edits) = Man(dk).edits[n]
             /\ Manifest(Man(dk)) /\ FiniteEdits(Man(dk).edits)
  <1> DEFINE edits == Man(dk).edits
             n == Len(edits)
  <1>1. Manifest(Man(dk)) /\ FiniteEdits(edits)
    BY DEF DiskInv, Man, Manifest
  <1>2. n \in Nat /\ (edits # <<>> => n # 0)
    BY <1>1, LenProperties, EmptySeq DEF FiniteEdits
  <1>3. n > 0 /\ Man(dk).synced \in 0 .. n
    BY <1>1, <1>2 DEF Manifest
  <1>4. n \in Ends(Man(dk))
    BY <1>2, <1>3 DEF Ends
  <1> QED
    BY <1>1, <1>2, <1>3, <1>4 DEF Last

LEMMA RecoverAnswers ==
  ASSUME DBInv, ReadsInv, AnswersInv, Recover PROVE StoreInv'
  <1> DEFINE edits == Man(disk).edits
             n == Len(edits)
             v == ReadManifest(disk.cur)
  <1>1. /\ db.phase = "closed" /\ Recoverable /\ UNCHANGED <<disk, wr, bg, acked>>
        /\ db' = [Closed EXCEPT !.phase = "replay", !.files = v.files, !.vlog = v.log,
                !.man = v.next, !.next = v.next + 1, !.last = v.last, !.todo = LogsToReplay(v)]
        /\ memtab' = With(memtab, 0, {}) /\ disk.cur # 0
    BY DEF Recover
  <1>2. /\ v.files = SaveTo(edits) /\ v.log = Last(edits).log /\ v.next = Last(edits).next
        /\ v.last = Last(edits).last
    BY DEF ReadManifest, Man
  <1>3. disk.cur \in DOMAIN disk.mans /\ edits # <<>> /\ DiskInv(disk)
        /\ Numbers(v.files) \subseteq DOMAIN disk.tabs
    BY <1>1 DEF Recoverable, DBInv, VersionsInv, Man
  <1>4. /\ n \in Nat /\ n > 0 /\ n \in Ends(Man(disk)) /\ Last(edits) = edits[n]
        /\ FiniteEdits(edits)
    BY <1>3, LastEnd
  <1>5. v.files = FilesAt(edits, n)
    BY <1>2, <1>4, RecoveredFiles
  <1>6. v.log = LogAt(disk, n)
    BY <1>2, <1>4 DEF LogAt
  <1>7. /\ Point(disk, n, Answered, Promised) /\ disk.cur \in Nat
    BY <1>1, <1>4 DEF AnswersInv, KeptInv, Kept
  <1>8. v.next = edits[n].next /\ v.last = edits[n].last
    BY <1>2, <1>4
  <1>9. n \in 1 .. n /\ \A i \in 1 .. n : n \in i .. n
    BY <1>4
  <1>10. Numbered(edits) /\ v.next \in Nat /\ v.last \in Nat /\ \A l \in DOMAIN disk.logs : l \in Nat
    <2>1. Numbered(edits) /\ \A l \in DOMAIN disk.logs : l \in Nat
      BY <1>3 DEF ReadsInv, DirectoryInv, Man
    <2> QED
      BY <1>8, <1>9, <2>1 DEF Numbered
  <1>11. disk.cur < v.next /\ v.log < v.next /\ v.log \in Nat
    BY <1>6, <1>7, <1>8 DEF Point
  <1>12. LogsToReplay(v) = {l \in DOMAIN disk.logs : l >= v.log}
    BY DEF LogsToReplay, LogsFrom
  <1> HIDE DEF v
  <1>13. /\ db'.phase = "replay" /\ db'.files = v.files /\ db'.next = v.next + 1 /\ db'.last = v.last
         /\ db'.todo = LogsToReplay(v) /\ db'.man = v.next /\ db'.mem = 0
    BY <1>1 DEF Closed
  <1>14. \A k \in DOMAIN memtab' : memtab'[k] = {}
    <2>1. memtab = <<>>
      BY <1>1 DEF AnswersInv, OpeningInv
    <2> QED
      BY <1>1, <2>1 DEF With
  <1>15. Opened' = TabsAt(disk, n) /\ Todo' = SafeFrom(disk.logs, LogAt(disk, n))
    BY <1>1, <1>5, <1>6, <1>12, <1>13 DEF Opened, Todo, TabsAt, SafeFrom
  <1>16. Opened' \subseteq Reach(disk)
    BY <1>4, <1>15 DEF Reach
  <1>17. \A e \in Opened' : Seqno(e) \in Nat /\ Seqno(e) <= db'.last
    BY <1>7, <1>8, <1>10, <1>13, <1>15 DEF Point
  <1>18. \A l \in DOMAIN disk.logs : l < db'.next \/ l \in db'.todo
    BY <1>10, <1>11, <1>12, <1>13
  <1>19. Answered' \subseteq Opened' \cup Todo'
    BY <1>1, <1>7, <1>15 DEF Point, Answered
  <1>20. \A i \in 1 .. n : Below(edits[i].add, db'.next)
    <2> TAKE i \in 1 .. n
    <2>1. Below(edits[i].add, v.next)
      BY <1>8, <1>9, <1>10 DEF Numbered
    <2> QED
      BY <1>10, <1>13, <2>1 DEF Below
  <1>21. OpeningInv'
    <2>1. \A l \in db'.todo : l >= LogAt(disk, n)
      BY <1>6, <1>12, <1>13
    <2>2. disk.cur < db'.man /\ db'.man < db'.next /\ db'.man \in Nat
      BY <1>10, <1>11, <1>13
    <2> QED
      BY <1>1, <1>3, <1>4, <1>13, <1>14, <1>16, <1>17, <1>18, <1>19, <1>20, <2>1, <2>2 DEF OpeningInv
  <1>22. KeptInv' /\ LatestLogInv' /\ OpenInv'
    BY <1>1, <1>13 DEF AnswersInv, KeptInv, Answered, Promised, LatestLogInv, OpenInv
  <1> QED
    BY <1>1, <1>21, <1>22, NobodyWrites DEF StoreInv

\* What holds while Open works from the old manifest.
LEMMA OpeningFacts ==
  ASSUME DBInv, ReadsInv, AnswersInv, db.phase \in {"replay", "save", "current"}
  PROVE  LET n == Len(Man(disk).edits)
         IN  /\ disk.cur # 0 /\ disk.cur \in Nat /\ disk.cur \in DOMAIN disk.mans
             /\ DOMAIN disk.mans \subseteq Nat /\ Kept(disk, Answered, Promised)
             /\ n \in Nat /\ n \in Ends(Man(disk))
             /\ db.man \in Nat /\ disk.cur < db.man /\ db.man < db.next
             /\ \A k \in Ends(Man(disk)) :
                  Point(disk, k, Answered, Promised) /\ Below(FilesAt(Man(disk).edits, k), db.next)
             /\ Opened \subseteq Reach(disk) /\ \A e \in Opened : Seqno(e) \in Nat
             /\ Numbers(db.files) \subseteq DOMAIN disk.tabs
             /\ DOMAIN disk = {"logs", "tabs", "mans", "cur"} /\ DOMAIN db = DOMAIN Closed
             /\ db.next \in Nat /\ db.last \in Nat /\ db.max \in Nat /\ Below(db.files, db.next)
             /\ \A l \in DOMAIN disk.logs : l \in Nat /\ LogFile(disk.logs[l])
  <1> DEFINE n == Len(Man(disk).edits)
  <1>1. /\ disk.cur # 0 /\ db.man \in Nat /\ disk.cur < db.man /\ db.man < db.next
        /\ n > 0 /\ \A i \in 1 .. n : Below(Man(disk).edits[i].add, db.next)
        /\ Numbers(db.files) \subseteq DOMAIN disk.tabs
        /\ Opened \subseteq Reach(disk) /\ \A e \in Opened : Seqno(e) \in Nat
    BY DEF AnswersInv, OpeningInv
  <1>2. /\ Kept(disk, Answered, Promised) /\ disk.cur \in Nat /\ disk.cur \in DOMAIN disk.mans
        /\ DOMAIN disk.mans \subseteq Nat
        /\ \A k \in Ends(Man(disk)) : Point(disk, k, Answered, Promised)
    BY <1>1 DEF AnswersInv, KeptInv, Kept
  <1>3. DiskInv(disk) /\ DOMAIN disk = {"logs", "tabs", "mans", "cur"} /\ DOMAIN db = DOMAIN Closed
    BY DEF DBInv, VersionsInv, DiskInv, FieldsInv
  <1>4. n \in Nat /\ n \in Ends(Man(disk))
    BY <1>1, <1>2, <1>3, LastEnd
  <1>5. /\ db.next \in Nat /\ db.last \in Nat /\ db.max \in Nat /\ Below(db.files, db.next)
        /\ \A l \in DOMAIN disk.logs : l \in Nat /\ LogFile(disk.logs[l])
    BY DEF ReadsInv, NumbersInv, DirectoryInv
  <1>6. ASSUME NEW k \in Ends(Man(disk)) PROVE Below(FilesAt(Man(disk).edits, k), db.next)
    <2>1. k \in 1 .. n
      BY DEF Ends
    <2>2. \A i \in 1 .. k : i \in 1 .. n
      BY <1>4, <2>1
    <2>3. \A f \in FilesAt(Man(disk).edits, k) : \E i \in 1 .. k : f \in Man(disk).edits[i].add
      BY AddedFilesAt
    <2> HIDE DEF n
    <2> QED
      BY <1>1, <2>2, <2>3 DEF Below
  <1> QED
    BY <1>1, <1>2, <1>3, <1>4, <1>5, <1>6

\* A log on its way into a table is still there.
LEMMA RecoverLogFileAnswers ==
  ASSUME DBInv, ReadsInv, AnswersInv, RecoverLogFile PROVE StoreInv'
  <1>1. db.phase = "replay" /\ UNCHANGED <<memtab, wr, bg, acked>>
    BY DEF RecoverLogFile
  <1>2. PICK l \in {x \in db.todo : \A y \in db.todo : x <= y} :
          \E es \in {Safe(l), UNION {r.es : r \in ToSet(disk.logs[l].recs)}} :
          /\ disk' = BuildTable(disk, db.next, es, TRUE)
          /\ db' = [db EXCEPT !.todo = @ \ {l},
                      !.next = Max({l + 1, db.next + (IF es = {} THEN 0 ELSE 1)}),
                      !.files = IF es = {} THEN @ ELSE @ \cup {<<db.next, 0>>},
                      !.max = Max({@} \cup {Seqno(e) : e \in es})]
    BY DEF RecoverLogFile
  <1>3. PICK es \in {Safe(l), UNION {r.es : r \in ToSet(disk.logs[l].recs)}} :
          /\ disk' = BuildTable(disk, db.next, es, TRUE)
          /\ db' = [db EXCEPT !.todo = @ \ {l},
                      !.next = Max({l + 1, db.next + (IF es = {} THEN 0 ELSE 1)}),
                      !.files = IF es = {} THEN @ ELSE @ \cup {<<db.next, 0>>},
                      !.max = Max({@} \cup {Seqno(e) : e \in es})]
    BY <1>2
  <1> DEFINE k == db.next + (IF es = {} THEN 0 ELSE 1)
             top == Max({l + 1, k})
             max == Max({db.max} \cup {Seqno(e) : e \in es})
             n == Len(Man(disk).edits)
  <1>4. /\ disk.cur # 0 /\ disk.cur \in Nat /\ disk.cur \in DOMAIN disk.mans
        /\ DOMAIN disk.mans \subseteq Nat /\ Kept(disk, Answered, Promised)
        /\ n \in Nat /\ n \in Ends(Man(disk))
        /\ db.man \in Nat /\ disk.cur < db.man /\ db.man < db.next
        /\ \A i \in Ends(Man(disk)) :
             Point(disk, i, Answered, Promised) /\ Below(FilesAt(Man(disk).edits, i), db.next)
        /\ Opened \subseteq Reach(disk)
        /\ Numbers(db.files) \subseteq DOMAIN disk.tabs
        /\ DOMAIN disk = {"logs", "tabs", "mans", "cur"} /\ DOMAIN db = DOMAIN Closed
        /\ db.next \in Nat /\ db.last \in Nat /\ db.max \in Nat /\ Below(db.files, db.next)
        /\ \A x \in DOMAIN disk.logs : x \in Nat /\ LogFile(disk.logs[x])
    BY <1>1, OpeningFacts
  <1>5. /\ db.todo \subseteq DOMAIN disk.logs /\ l \in db.todo
        /\ \A x \in db.todo : x >= LogAt(disk, n)
        /\ \A x \in DOMAIN disk.logs : x < db.next \/ x \in db.todo
        /\ Answered \subseteq Opened \cup Todo
        /\ db.mem = 0 /\ \A m \in DOMAIN memtab : memtab[m] = {}
        /\ n > 0 /\ \A i \in 1 .. n : Below(Man(disk).edits[i].add, db.next)
        /\ \A e \in Opened : Seqno(e) \in Nat /\ (Seqno(e) <= db.last \/ Seqno(e) <= db.max)
    BY <1>1 DEF ReadsInv, NumbersInv, AnswersInv, OpeningInv
  <1>6. LogFile(disk.logs[l]) /\ l \in Nat /\ l \in DOMAIN disk.logs /\ l >= LogAt(disk, n)
    BY <1>4, <1>5
  <1>7. SafeOf(disk.logs[l]) \subseteq es /\ es \subseteq EntriesOf(disk.logs[l]) /\ Entries(es)
    <2> DEFINE recs == disk.logs[l].recs
               safe == {x \in ToSet(recs) : x.safe}
    <2>1. Entries(UNION {r.es : r \in safe}) /\ Entries(UNION {r.es : r \in ToSet(recs)})
      BY <1>6, EntriesOfLog
    <2>2. Safe(l) = UNION {r.es : r \in safe}
      BY DEF Safe
    <2> HIDE DEF safe
    <2>3. Entries(es)
      BY <2>1, <2>2
    <2>4. es \in {SafeOf(disk.logs[l]), EntriesOf(disk.logs[l])}
      BY <1>6, ReadLog
    <2>5. SafeOf(disk.logs[l]) \subseteq EntriesOf(disk.logs[l])
      BY <1>6, PartsOfLog
    <2> QED
      BY <2>3, <2>4, <2>5
  <1>8. max \in Nat /\ max >= db.max /\ \A e \in es : max >= Seqno(e)
    BY <1>4, <1>7, MaxSeqno
  <1>9. k \in Nat /\ k >= db.next
    BY <1>4
  <1>10. top \in Nat /\ top >= k /\ top >= l + 1
    <2>1. l + 1 \in Nat
      BY <1>6
    <2> HIDE DEF k
    <2> QED
      BY <1>9, <2>1, MaxOfTwo
  <1> HIDE DEF max
  <1>11. db' = [db EXCEPT !.todo = @ \ {l}, !.next = top,
                          !.files = IF es = {} THEN @ ELSE @ \cup {<<db.next, 0>>}, !.max = max]
    BY <1>3 DEF max
  <1> HIDE DEF k, top
  <1>12. /\ db'.phase = "replay" /\ db'.last = db.last /\ db'.mem = db.mem /\ db'.man = db.man
         /\ db'.next = top /\ db'.max = max /\ db'.todo = db.todo \ {l}
         /\ db'.files = IF es = {} THEN db.files ELSE db.files \cup {<<db.next, 0>>}
    BY <1>1, <1>4, <1>11, DatabaseFields
  <1>13. top >= db.next /\ top > l
    BY <1>4, <1>6, <1>9, <1>10
  <1>14. /\ disk'.logs = disk.logs /\ disk'.mans = disk.mans /\ disk'.cur = disk.cur
         /\ disk'.tabs = IF es = {} THEN disk.tabs ELSE With(disk.tabs, db.next, es)
    BY <1>3, <1>4 DEF BuildTable
  <1>15. Man(disk') = Man(disk)
    BY <1>14 DEF Man
  <1>16. ASSUME NEW i \in Ends(Man(disk)), NEW m \in Numbers(FilesAt(Man(disk).edits, i))
         PROVE  m \in DOMAIN disk'.tabs /\ disk'.tabs[m] = disk.tabs[m]
    <2>1. m \in DOMAIN disk.tabs
      BY <1>4 DEF Point
    <2>2. m # db.next
      BY <1>4, BelowIsNew
    <2> QED
      BY <1>14, <2>1, <2>2 DEF With
  <1>17. /\ \A i \in Ends(Man(disk)) : TabsAt(disk', i) = TabsAt(disk, i) /\ LogAt(disk', i) = LogAt(disk, i)
         /\ Kept(disk', Answered, Promised)
    BY <1>4, <1>14, <1>15, <1>16, NothingNew
  <1>18. Reach(disk') = Reach(disk)
    BY <1>14, <1>15, <1>17 DEF Reach
  <1>19. Opened' = Opened \cup es
    <2>1. db.next \notin Numbers(db.files)
      BY <1>4, BelowIsNew
    <2>2. CASE es = {}
      BY <1>12, <1>14, <2>2 DEF Opened
    <2>3. CASE es # {}
      <3> DEFINE new == {<<db.next, 0>>}
                 tabs == With(disk.tabs, db.next, es)
      <3>1. Numbers(new) = {db.next} /\ db.next \in DOMAIN tabs /\ tabs[db.next] = es
        BY DEF Numbers, With
      <3>2. TabsIn(tabs, db.files) = Opened
        BY <2>1, OneMoreTab DEF Opened
      <3> HIDE DEF tabs, new
      <3>3. TabsIn(tabs, new) = es
        BY <3>1 DEF TabsIn
      <3>4. Opened' = TabsIn(tabs, db.files \cup new)
        BY <1>12, <1>14, <2>3 DEF Opened, tabs, new
      <3> QED
        BY <3>2, <3>3, <3>4, TabsOfBoth
    <2> QED
      BY <2>2, <2>3
  <1>20. es \subseteq Reach(disk)
    <2>1. EntriesOf(disk.logs[l]) \subseteq AllFrom(disk.logs, LogAt(disk, n))
      BY <1>6 DEF AllFrom
    <2>2. AllFrom(disk.logs, LogAt(disk, n)) \subseteq Reach(disk)
      BY <1>4 DEF Reach
    <2> QED
      BY <1>7, <2>1, <2>2
  <1>21. Answered' = Answered /\ Promised' = Promised
    BY <1>1 DEF Answered, Promised
  <1>22. Answered \subseteq Opened' \cup Todo'
    <2>1. Todo \subseteq SafeOf(disk.logs[l]) \cup Todo'
      BY <1>12, <1>14 DEF Todo
    <2> QED
      BY <1>5, <1>7, <1>19, <2>1
  <1>23. Numbers(db'.files) \subseteq DOMAIN disk'.tabs
    <2>1. CASE es = {}
      BY <1>4, <1>12, <1>14, <2>1
    <2>2. CASE es # {}
      <3> DEFINE new == {<<db.next, 0>>}
      <3>1. Numbers(db'.files) = Numbers(db.files) \cup {db.next}
        <4>1. Numbers(new) = {db.next}
          BY DEF Numbers
        <4>2. db'.files = db.files \cup new
          BY <1>12, <2>2
        <4> HIDE DEF new
        <4>3. Numbers(db.files \cup new) = Numbers(db.files) \cup Numbers(new)
          BY DEF Numbers
        <4> QED
          BY <4>1, <4>2, <4>3
      <3>2. DOMAIN disk'.tabs = DOMAIN disk.tabs \cup {db.next}
        BY <1>14, <2>2 DEF With
      <3> QED
        BY <1>4, <3>1, <3>2
    <2> QED
      BY <2>1, <2>2
  <1>24. \A e \in Opened' : Seqno(e) \in Nat /\ (Seqno(e) <= db.last \/ Seqno(e) <= max)
    <2>1. \A e \in es : Seqno(e) \in Nat /\ Seqno(e) <= max
      BY <1>7, <1>8 DEF Entries
    <2>2. \A e \in Opened : Seqno(e) \in Nat /\ (Seqno(e) <= db.last \/ Seqno(e) <= max)
      BY <1>4, <1>5, <1>8
    <2> QED
      BY <1>19, <2>1, <2>2
  <1>25. \A x \in DOMAIN disk.logs : x < top \/ x \in db.todo \ {l}
    <2> TAKE x \in DOMAIN disk.logs
    <2>1. x \in Nat /\ (x < db.next \/ x \in db.todo)
      BY <1>4, <1>5
    <2> QED
      BY <1>4, <1>6, <1>10, <1>13, <2>1
  <1>26. \A i \in 1 .. n : Below(Man(disk).edits[i].add, top)
    BY <1>4, <1>5, <1>10, <1>13, BelowMore
  <1>27. db.man < top
    BY <1>4, <1>10, <1>13
  <1>28. LogAt(disk', n) = LogAt(disk, n)
    BY <1>4, <1>17
  <1>29. OpeningInv'
    BY <1>1, <1>4, <1>5, <1>12, <1>14, <1>15, <1>18, <1>19, <1>20, <1>21, <1>22, <1>23, <1>24, <1>25,
       <1>26, <1>27, <1>28 DEF OpeningInv
  <1>30. KeptInv' /\ LatestLogInv' /\ OpenInv'
    BY <1>12, <1>17, <1>21 DEF KeptInv, LatestLogInv, OpenInv
  <1> QED
    BY <1>1, <1>29, <1>30, NobodyWrites DEF StoreInv

\* The new log is empty, and nobody looks for it before the new manifest.
LEMMA OpenLogAnswers ==
  ASSUME DBInv, ReadsInv, AnswersInv, OpenLog PROVE StoreInv'
  <1> DEFINE log == [recs |-> <<>>, synced |-> 0, torn |-> FALSE]
             n == Len(Man(disk).edits)
             last == Max({db.last, db.max})
  <1>1. /\ db.phase = "replay" /\ db.todo = {} /\ UNCHANGED <<wr, bg, acked>>
        /\ disk' = [disk EXCEPT !.logs = With(@, db.next, log)]
        /\ db' = [db EXCEPT !.phase = "save", !.last = Max({@, db.max}), !.next = @ + 1,
                            !.logno = db.next, !.mem = db.next]
        /\ memtab' = [m \in {db.next} |-> {}]
    BY DEF OpenLog
  <1>2. /\ disk.cur # 0 /\ disk.cur \in Nat /\ disk.cur \in DOMAIN disk.mans
        /\ DOMAIN disk.mans \subseteq Nat /\ Kept(disk, Answered, Promised)
        /\ n \in Nat /\ n \in Ends(Man(disk))
        /\ db.man \in Nat /\ disk.cur < db.man /\ db.man < db.next
        /\ \A i \in Ends(Man(disk)) : Point(disk, i, Answered, Promised)
        /\ Opened \subseteq Reach(disk)
        /\ Numbers(db.files) \subseteq DOMAIN disk.tabs
        /\ DOMAIN disk = {"logs", "tabs", "mans", "cur"} /\ DOMAIN db = DOMAIN Closed
        /\ db.next \in Nat /\ db.last \in Nat /\ db.max \in Nat
        /\ \A x \in DOMAIN disk.logs : x \in Nat
    BY <1>1, OpeningFacts
  <1>3. /\ \A x \in DOMAIN disk.logs : x < db.next
        /\ Answered \subseteq Opened \cup Todo
        /\ n > 0 /\ \A i \in 1 .. n : Below(Man(disk).edits[i].add, db.next)
        /\ \A e \in Opened : Seqno(e) \in Nat /\ (Seqno(e) <= db.last \/ Seqno(e) <= db.max)
    BY <1>1 DEF AnswersInv, OpeningInv
  <1>4. Todo = {}
    BY <1>1 DEF Todo
  <1>5. last \in Nat /\ last >= db.last /\ last >= db.max
    BY <1>2, MaxOfTwo
  <1> HIDE DEF last
  <1>6. /\ db'.phase = "save" /\ db'.last = last /\ db'.next = db.next + 1 /\ db'.logno = db.next
        /\ db'.mem = db.next /\ db'.files = db.files /\ db'.man = db.man
    BY <1>1, <1>2, DatabaseFields DEF last
  <1>7. /\ disk'.tabs = disk.tabs /\ disk'.mans = disk.mans /\ disk'.cur = disk.cur
        /\ disk'.logs = With(disk.logs, db.next, log)
    BY <1>1, <1>2
  <1>8. db.next \notin DOMAIN disk.logs /\ log.recs = <<>>
    BY <1>2, <1>3
  <1>9. EntriesOf(log) = {}
    <2>1. Len(log.recs) = 0
      BY <1>8
    <2>2. 1 .. Len(log.recs) = {}
      BY <2>1
    <2> QED
      BY <2>2 DEF EntriesOf
  <1> HIDE DEF log
  <1>10. /\ DOMAIN disk'.logs = DOMAIN disk.logs \cup {db.next} /\ disk'.logs[db.next] = log
         /\ \A l \in DOMAIN disk.logs : disk'.logs[l] = disk.logs[l]
    BY <1>7, <1>8 DEF With
  <1>11. \A k : /\ SafeFrom(disk.logs, k) \subseteq SafeFrom(disk'.logs, k)
                /\ SyncedFrom(disk.logs, k) \subseteq SyncedFrom(disk'.logs, k)
                /\ AllFrom(disk'.logs, k) = AllFrom(disk.logs, k)
    <2> TAKE k
    <2>1. SafeFrom(disk.logs, k) \subseteq SafeFrom(disk'.logs, k)
          /\ SyncedFrom(disk.logs, k) \subseteq SyncedFrom(disk'.logs, k)
      BY <1>10 DEF SafeFrom, SyncedFrom
    <2>2. AllFrom(disk'.logs, k) = AllFrom(disk.logs, k)
      BY <1>9, <1>10 DEF AllFrom
    <2> QED
      BY <2>1, <2>2
  <1>12. Man(disk') = Man(disk)
    BY <1>7 DEF Man
  <1>13. \A i \in Ends(Man(disk)) : Numbers(FilesAt(Man(disk).edits, i)) \subseteq DOMAIN disk.tabs
    BY <1>2 DEF Point
  <1>14. /\ \A i \in Ends(Man(disk)) : TabsAt(disk', i) = TabsAt(disk, i) /\ LogAt(disk', i) = LogAt(disk, i)
         /\ Kept(disk', Answered, Promised)
    BY <1>2, <1>7, <1>11, <1>12, <1>13, NothingNew
  <1>15. Reach(disk') = Reach(disk)
    BY <1>11, <1>12, <1>14 DEF Reach
  <1>16. Opened' = Opened /\ Answered' = Answered /\ Promised' = Promised
    BY <1>1, <1>6, <1>7 DEF Opened, Answered, Promised
  <1>17. LatestLogInv'
    BY <1>2, <1>3, <1>6, <1>10 DEF LatestLogInv
  <1>18. \A e \in Opened : Seqno(e) \in Nat /\ Seqno(e) <= last
    <2> TAKE e \in Opened
    <2>1. Seqno(e) \in Nat /\ (Seqno(e) <= db.last \/ Seqno(e) <= db.max)
      BY <1>3
    <2> QED
      BY <1>2, <1>5, <2>1
  <1>19. \A i \in 1 .. n : Below(Man(disk).edits[i].add, db.next + 1)
    BY <1>2, <1>3 DEF Below
  <1>20. memtab'[db.next] = {} /\ disk'.logs[db.next].recs = <<>>
    BY <1>1, <1>8, <1>10
  <1>21. db.man < db.next + 1 /\ \A l \in DOMAIN disk'.logs : l < db.next + 1
    BY <1>2, <1>3, <1>10
  <1> HIDE DEF n
  <1>22. OpeningInv'
    BY <1>2, <1>3, <1>4, <1>6, <1>7, <1>12, <1>15, <1>16, <1>18, <1>19, <1>20, <1>21 DEF OpeningInv, n
  <1>23. KeptInv' /\ OpenInv'
    BY <1>6, <1>14, <1>16 DEF KeptInv, OpenInv
  <1> QED
    BY <1>1, <1>17, <1>22, <1>23, NobodyWrites DEF StoreInv

\* The new manifest is not the current one yet.
LEMMA OpenManifestAnswers ==
  ASSUME DBInv, ReadsInv, AnswersInv, OpenManifest PROVE StoreInv'
  <1> DEFINE edit == Edit(db, db.files, {}, db.logno)
             m == [synced |-> 1, edits |-> <<edit>>]
             n == Len(Man(disk).edits)
  <1>1. /\ db.phase = "save" /\ UNCHANGED <<memtab, wr, bg, acked>>
        /\ disk' = [disk EXCEPT !.mans = With(@, db.man, m)]
        /\ db' = [db EXCEPT !.phase = "current"]
    BY DEF OpenManifest
  <1>2. /\ disk.cur # 0 /\ disk.cur \in Nat /\ disk.cur \in DOMAIN disk.mans
        /\ DOMAIN disk.mans \subseteq Nat /\ Kept(disk, Answered, Promised)
        /\ db.man \in Nat /\ disk.cur < db.man
        /\ \A i \in Ends(Man(disk)) : Point(disk, i, Answered, Promised)
        /\ DOMAIN disk = {"logs", "tabs", "mans", "cur"} /\ DOMAIN db = DOMAIN Closed
    BY <1>1, OpeningFacts
  <1>3. /\ disk'.tabs = disk.tabs /\ disk'.logs = disk.logs /\ disk'.cur = disk.cur
        /\ disk'.mans = With(disk.mans, db.man, m)
    BY <1>1, <1>2
  <1>4. /\ db'.phase = "current" /\ db'.last = db.last /\ db'.next = db.next /\ db'.logno = db.logno
        /\ db'.mem = db.mem /\ db'.files = db.files /\ db'.man = db.man
    BY <1>1, <1>2, DatabaseFields
  <1>5. Edit(db', db'.files, {}, db'.logno) = edit
    BY <1>4 DEF Edit
  <1> HIDE DEF edit
  <1>6. m = [synced |-> 1, edits |-> <<edit>>]
    OBVIOUS
  <1> HIDE DEF m
  <1>7. /\ DOMAIN disk'.mans = DOMAIN disk.mans \cup {db.man} /\ disk'.mans[db.man] = m
        /\ disk.cur # db.man /\ disk'.mans[disk.cur] = disk.mans[disk.cur]
    BY <1>2, <1>3 DEF With
  <1>8. Man(disk') = Man(disk)
    BY <1>3, <1>7 DEF Man
  <1>9. \A i \in Ends(Man(disk)) : Numbers(FilesAt(Man(disk).edits, i)) \subseteq DOMAIN disk.tabs
    BY <1>2 DEF Point
  <1>10. /\ \A i \in Ends(Man(disk)) : TabsAt(disk', i) = TabsAt(disk, i) /\ LogAt(disk', i) = LogAt(disk, i)
         /\ Kept(disk', Answered, Promised)
    BY <1>2, <1>3, <1>7, <1>8, <1>9, NothingNew
  <1>11. Reach(disk') = Reach(disk)
    BY <1>3, <1>8, <1>10 DEF Reach
  <1>12. Opened' = Opened /\ Answered' = Answered /\ Promised' = Promised
    BY <1>1, <1>3, <1>4 DEF Opened, Answered, Promised
  <1>13. LatestLogInv'
    BY <1>1, <1>3, <1>4 DEF LatestLogInv, AnswersInv
  <1>14. /\ disk.cur # 0 /\ db.man < db.next /\ n > 0
         /\ \A i \in 1 .. n : Below(Man(disk).edits[i].add, db.next)
         /\ Numbers(db.files) \subseteq DOMAIN disk.tabs
         /\ Opened \subseteq Reach(disk)
         /\ \A e \in Opened : Seqno(e) \in Nat /\ Seqno(e) <= db.last
         /\ \A l \in DOMAIN disk.logs : l < db.next
         /\ Answered \subseteq Opened
         /\ disk.logs[db.logno].recs = <<>> /\ memtab[db.mem] = {}
    BY <1>1 DEF AnswersInv, OpeningInv
  <1> HIDE DEF n
  <1>15. db.man \in DOMAIN disk'.mans /\ disk'.mans[db.man] = m
    BY <1>7
  <1>16. OpeningInv'
    BY <1>1, <1>2, <1>3, <1>4, <1>5, <1>6, <1>8, <1>11, <1>12, <1>14, <1>15 DEF OpeningInv, n
  <1>17. KeptInv' /\ OpenInv'
    BY <1>4, <1>10, <1>12 DEF KeptInv, OpenInv
  <1> QED
    BY <1>1, <1>13, <1>16, <1>17, NobodyWrites DEF StoreInv

\* From now on the new manifest says everything.
LEMMA OpenCurrentAnswers ==
  ASSUME DBInv, ReadsInv, AnswersInv, OpenCurrent PROVE StoreInv'
  <1> DEFINE edit == Edit(db, db.files, {}, db.logno)
             m == [synced |-> 1, edits |-> <<edit>>]
  <1>1. /\ db.phase = "current" /\ UNCHANGED <<memtab, wr, bg, acked>>
        /\ disk' = [disk EXCEPT !.cur = db.man]
        /\ db' = [db EXCEPT !.phase = "clean", !.vlog = db.logno]
    BY DEF OpenCurrent
  <1>2. /\ disk.cur \in Nat /\ DOMAIN disk.mans \subseteq Nat /\ Kept(disk, Answered, Promised)
        /\ disk.cur # 0 /\ db.man \in Nat /\ disk.cur < db.man /\ db.man < db.next
        /\ Opened \subseteq Reach(disk) /\ Numbers(db.files) \subseteq DOMAIN disk.tabs
        /\ DOMAIN disk = {"logs", "tabs", "mans", "cur"} /\ DOMAIN db = DOMAIN Closed
        /\ db.next \in Nat /\ db.last \in Nat
        /\ \A l \in DOMAIN disk.logs : l \in Nat /\ LogFile(disk.logs[l])
    BY <1>1, OpeningFacts
  <1>3. /\ \A e \in Opened : Seqno(e) \in Nat /\ Seqno(e) <= db.last
        /\ Answered \subseteq Opened
        /\ disk.logs[db.logno].recs = <<>> /\ memtab[db.mem] = {}
        /\ db.man \in DOMAIN disk.mans /\ disk.mans[db.man] = m
        /\ db.logno \in DOMAIN disk.logs /\ db.logno < db.next
        /\ \A l \in DOMAIN disk.logs : l <= db.logno
    BY <1>1 DEF AnswersInv, OpeningInv, LatestLogInv
  <1>4. edit.add = db.files /\ edit.log = db.logno /\ edit.next = db.next /\ edit.last = db.last
    BY DEF Edit
  <1> HIDE DEF edit
  <1>5. m.synced = 1 /\ Len(m.edits) = 1 /\ m.edits[1] = edit /\ m.edits = <<edit>>
    OBVIOUS
  <1> HIDE DEF m
  <1>6. /\ disk'.tabs = disk.tabs /\ disk'.logs = disk.logs /\ disk'.cur = db.man
        /\ disk'.mans = disk.mans
    BY <1>1, <1>2
  <1>7. /\ db'.phase = "clean" /\ db'.last = db.last /\ db'.next = db.next /\ db'.logno = db.logno
        /\ db'.mem = db.mem /\ db'.imm = db.imm /\ db'.files = db.files /\ db'.man = db.man
        /\ db'.vlog = db.logno
    BY <1>1, <1>2, DatabaseFields
  <1>8. Man(disk') = m
    BY <1>3, <1>6 DEF Man
  <1>9. Ends(m) = {1}
    BY <1>5 DEF Ends
  <1>10. FilesAt(m.edits, 1) = db.files
    BY <1>4, <1>5, OneEditFiles
  <1>11. TabsAt(disk', 1) = Opened /\ LogAt(disk', 1) = db.logno
    BY <1>4, <1>5, <1>6, <1>8, <1>10 DEF TabsAt, LogAt, Opened
  <1>12. EntriesOf(disk.logs[db.logno]) = {}
    BY <1>2, <1>3, PartsOfLog
  <1>13. AllFrom(disk'.logs, db.logno) = {}
    <2>1. \A l \in DOMAIN disk.logs : l >= db.logno => l = db.logno
      BY <1>2, <1>3
    <2> QED
      BY <1>6, <1>12, <2>1 DEF AllFrom
  <1>14. Reach(disk') = Opened
    BY <1>8, <1>9, <1>11, <1>13 DEF Reach
  <1>15. Unique(Opened)
    BY <1>2, FewerUnique DEF Kept
  <1>16. \A e \in Opened : Seqno(e) \in 0 .. db.last
    BY <1>2, <1>3
  <1>17. Promised \subseteq Answered
    BY DEF Promised, Answered
  <1>18. Point(disk', 1, Answered, Promised)
    BY <1>2, <1>3, <1>4, <1>5, <1>6, <1>8, <1>10, <1>11, <1>16, <1>17 DEF Point
  <1>19. db.man # 0
    BY <1>2
  <1>20. Kept(disk', Answered, Promised)
    BY <1>2, <1>3, <1>5, <1>6, <1>8, <1>9, <1>14, <1>15, <1>18, <1>19 DEF Kept
  <1>21. Opened' = Opened /\ Answered' = Answered /\ Promised' = Promised
    BY <1>1, <1>6, <1>7 DEF Opened, Answered, Promised
  <1>22. db'.imm = 0 /\ bg'.pc = "idle"
    <2>1. db.imm = 0
      BY <1>1 DEF ReadsInv, NumbersInv
    <2> QED
      BY <1>1, <1>7, <2>1, NobodyWrites
  <1>23. EndInv(1)'
    BY <1>2, <1>3, <1>4, <1>5, <1>7, <1>8, <1>10, <1>11, <1>21, <1>22 DEF EndInv
  <1>24. EndsInv'
    <2>1. ~Writing'
      BY <1>22 DEF Writing
    <2>2. db'.vlog \in Nat
      BY <1>2, <1>3, <1>7
    <2> QED
      BY <1>2, <1>5, <1>6, <1>7, <1>8, <1>9, <1>19, <1>23, <2>1, <2>2 DEF EndsInv
  <1>25. FoundInv'
    <2>1. Found' = Opened
      BY <1>7, <1>8, <1>9, <1>11, <1>13 DEF Found
    <2> QED
      BY <1>3, <1>7, <1>15, <2>1 DEF FoundInv
  <1>26. MemoryInv'
    <2>1. Opened' \subseteq Content'
      BY DEF Content, Opened, TablesOf, TabsIn
    <2>2. memtab'[db'.mem] = {}
      BY <1>1, <1>3, <1>7
    <2> QED
      BY <1>3, <1>7, <1>16, <1>21, <1>22, <2>1, <2>2 DEF MemoryInv
  <1>27. LatestLogInv' /\ OpeningInv'
    <2>1. disk'.logs[db'.logno].recs = <<>> /\ memtab'[db'.mem] = {}
      BY <1>1, <1>3, <1>6, <1>7
    <2> QED
      BY <1>3, <1>6, <1>7, <2>1 DEF LatestLogInv, OpeningInv
  <1>28. KeptInv' /\ OpenInv'
    BY <1>20, <1>21, <1>24, <1>25, <1>26 DEF KeptInv, OpenInv
  <1> QED
    BY <1>1, <1>27, <1>28, NobodyWrites DEF StoreInv

\* The files that go are those the new manifest does not need.
LEMMA OpenCleanAnswers ==
  ASSUME DBInv, ReadsInv, AnswersInv, OpenClean PROVE StoreInv'
  <1> DEFINE d == [db EXCEPT !.phase = "open"]
  <1>1. /\ db.phase = "clean" /\ UNCHANGED <<memtab, wr, bg, acked>>
        /\ DeleteObsoleteFiles(db, {}) /\ db' = MaybeSchedule(d)
    BY DEF OpenClean
  <1>2. /\ DOMAIN d = DOMAIN Closed /\ d.phase = "open" /\ d.mem = db.mem /\ d.imm = db.imm
        /\ d.files = db.files /\ d.next = db.next /\ d.last = db.last /\ d.man = db.man
        /\ d.logno = db.logno /\ d.vlog = db.vlog /\ d.err = db.err
    BY DatabaseFields DEF DBInv, FieldsInv
  <1> HIDE DEF d
  <1>3. /\ db'.phase = "open" /\ db'.mem = db.mem /\ db'.imm = db.imm
        /\ db'.files = db.files /\ db'.next = db.next /\ db'.last = db.last /\ db'.man = db.man
        /\ db'.logno = db.logno /\ db'.vlog = db.vlog /\ db'.err = db.err
    BY <1>1, <1>2, DatabaseFields DEF MaybeSchedule
  <1>4. /\ EndsInv /\ FoundInv /\ MemoryInv /\ disk.cur # 0 /\ disk.cur \in Nat
        /\ db.vlog \in Nat /\ db.logno \in Nat /\ db.logno < db.next
        /\ \A l \in DOMAIN disk.logs : l \in Nat /\ l <= db.logno
        /\ \A k \in Ends(Man(disk)) : EndInv(k)
    BY <1>1, OpenFacts
  <1>5. bg.pc = "idle" /\ ~db.err /\ db.imm = 0
    <2>1. bg.pc = "idle"
      BY <1>1, NobodyWrites
    <2> QED
      BY <1>1, <2>1 DEF ReadsInv, NumbersInv
  <1>6. \A k \in Ends(Man(disk)) : db.vlog <= LogAt(disk, k) /\ FilesAt(Man(disk).edits, k) = db.files
    BY <1>4, <1>5 DEF EndInv
  <1>7. db.vlog <= db.vlog
    BY <1>4
  <1>8. /\ Kept(disk', Answered, Promised)
        /\ disk'.cur = disk.cur /\ Man(disk') = Man(disk)
        /\ \A k \in Ends(Man(disk)) : TabsAt(disk', k) = TabsAt(disk, k) /\ LogAt(disk', k) = LogAt(disk, k)
        /\ TabsIn(disk'.tabs, db.files) = TabsIn(disk.tabs, db.files)
        /\ db.logno \in DOMAIN disk'.logs /\ disk'.logs[db.logno] = disk.logs[db.logno]
        /\ DOMAIN disk'.logs \subseteq DOMAIN disk.logs
        /\ AllFrom(disk'.logs, db.vlog) \subseteq Found
        /\ \A k \in Ends(Man(disk)) :
             AllFrom(disk.logs, LogAt(disk, k)) \subseteq AllFrom(disk'.logs, LogAt(disk, k))
    BY <1>1, <1>4, <1>6, <1>7, WhatIsNeeded
  <1>9. Answered' = Answered /\ Promised' = Promised /\ KeptInv'
    BY <1>1, <1>8 DEF Answered, Promised, KeptInv
  <1>10. LatestLogInv' /\ OpeningInv'
    BY <1>3, <1>4, <1>8 DEF LatestLogInv, OpeningInv
  <1>11. Opened' = Opened
    BY <1>3, <1>8 DEF Opened
  <1>12. Content' = Content
    <2>1. /\ Content' = Opened' \cup UNION {memtab'[m] : m \in DOMAIN memtab' \cap {db'.mem, db'.imm}}
          /\ Content = Opened \cup UNION {memtab[m] : m \in DOMAIN memtab \cap {db.mem, db.imm}}
      BY DEF Content, Opened, TablesOf, TabsIn
    <2> QED
      BY <1>1, <1>3, <1>11, <2>1
  <1>13. Found' \subseteq Found
    <2>1. Found' = AllFrom(disk'.logs, db.vlog) \cup UNION {TabsAt(disk', k) : k \in Ends(Man(disk))}
      BY <1>3, <1>8 DEF Found
    <2>2. \A k \in Ends(Man(disk)) : TabsAt(disk', k) \subseteq Found
      BY <1>8 DEF Found
    <2> QED
      BY <1>8, <2>1, <2>2
  <1>14. EndsInv'
    <2>1. ASSUME NEW k \in Ends(Man(disk)) PROVE EndInv(k)'
      <3>1. EndInv(k) /\ TabsAt(disk', k) = TabsAt(disk, k) /\ LogAt(disk', k) = LogAt(disk, k)
        BY <1>4, <1>8
      <3> QED
        BY <1>1, <1>3, <1>5, <1>8, <1>11, <3>1 DEF EndInv
    <2>2. ~Writing'
      BY <1>1, <1>5 DEF Writing
    <2> QED
      BY <1>3, <1>4, <1>8, <2>1, <2>2 DEF EndsInv
  <1>15. FoundInv'
    <2>1. Unique(Found')
      BY <1>4, <1>13, FewerUnique DEF FoundInv
    <2>2. \A w \in Writers : ~InFlight(w)
      BY <1>1, NobodyWrites
    <2> QED
      BY <1>3, <1>4, <1>13, <2>1, <2>2 DEF FoundInv
  <1>16. MemoryInv'
    BY <1>1, <1>3, <1>4, <1>5, <1>8, <1>9, <1>12 DEF MemoryInv
  <1> QED
    BY <1>1, <1>3, <1>9, <1>10, <1>14, <1>15, <1>16, NobodyWrites DEF StoreInv, OpenInv

\* What stays of a database that is gone.
LEMMA LostMemory ==
  ASSUME LoseMemory, KeptInv' PROVE StoreInv'
  <1>1. db' = Closed /\ memtab' = <<>> /\ \A w \in Writers : wr'[w] = Idle
    BY DEF LoseMemory
  <1>2. db'.phase = "closed"
    BY <1>1 DEF Closed
  <1>3. FlightInv'
    BY <1>1, IdleCall DEF FlightInv, InFlight
  <1> QED
    BY <1>1, <1>2, <1>3 DEF StoreInv, LatestLogInv, OpeningInv, OpenInv

\* A new manifest that is not in use is removed.
LEMMA OpenFailsAnswers ==
  ASSUME DBInv, ReadsInv, AnswersInv, OpenFails PROVE StoreInv'
  <1>1. /\ db.phase \in {"replay", "save", "current"} /\ LoseMemory /\ acked' = acked
        /\ disk' = IF db.phase = "current" THEN [disk EXCEPT !.mans = Without(@, {db.man})] ELSE disk
    BY DEF OpenFails
  <1>2. Answered' = Answered /\ Promised' = Promised
    BY <1>1 DEF Answered, Promised
  <1>3. KeptInv'
    <2>1. CASE db.phase # "current"
      BY <1>1, <1>2, <2>1 DEF AnswersInv, KeptInv
    <2>2. CASE db.phase = "current"
      <3>1. /\ disk.cur # 0 /\ disk.cur \in Nat /\ disk.cur \in DOMAIN disk.mans
            /\ DOMAIN disk.mans \subseteq Nat /\ Kept(disk, Answered, Promised)
            /\ db.man \in Nat /\ disk.cur < db.man
            /\ \A i \in Ends(Man(disk)) : Point(disk, i, Answered, Promised)
            /\ DOMAIN disk = {"logs", "tabs", "mans", "cur"}
        BY <1>1, OpeningFacts
      <3>2. /\ disk'.tabs = disk.tabs /\ disk'.logs = disk.logs /\ disk'.cur = disk.cur
            /\ disk'.mans = Without(disk.mans, {db.man})
        BY <1>1, <2>2, <3>1
      <3>3. disk.cur # db.man
        BY <3>1
      <3>4. /\ disk.cur \in DOMAIN disk'.mans /\ DOMAIN disk'.mans \subseteq DOMAIN disk.mans
            /\ disk'.mans[disk.cur] = disk.mans[disk.cur]
        BY <3>1, <3>2, <3>3 DEF Without, Restrict
      <3>5. Man(disk') = Man(disk)
        BY <3>2, <3>4 DEF Man
      <3>6. \A i \in Ends(Man(disk)) : Numbers(FilesAt(Man(disk).edits, i)) \subseteq DOMAIN disk.tabs
        BY <3>1 DEF Point
      <3>7. DOMAIN disk'.mans \subseteq Nat
        BY <3>1, <3>4
      <3>8. Kept(disk', Answered, Promised)
        BY <3>1, <3>2, <3>4, <3>5, <3>6, <3>7, NothingNew
      <3> QED
        BY <1>2, <3>8 DEF KeptInv
    <2> QED
      BY <2>1, <2>2
  <1> QED
    BY <1>1, <1>3, LostMemory

\* When the machine stops, what was synced is left, and with it what was
\* promised.
LEMMA PowerLossAnswers ==
  ASSUME DBInv, ReadsInv, AnswersInv, PowerLoss PROVE StoreInv'
  <1>1. LoseMemory /\ acked' = {a \in acked : a.sync}
    BY DEF PowerLoss
  <1>2. PICK keep \in [DOMAIN disk.logs -> BOOLEAN], kept \in [DOMAIN disk.mans -> BOOLEAN] :
          disk' = [disk EXCEPT
            !.logs = [n \in DOMAIN @ |-> IF keep[n] THEN @[n] ELSE Cut(@[n])],
            !.mans = [n \in DOMAIN @ |-> IF kept[n] THEN @[n] ELSE CutManifest(@[n])]]
    BY DEF PowerLoss
  <1>3. DOMAIN disk = {"logs", "tabs", "mans", "cur"} /\ Kept(disk, Answered, Promised)
        /\ DiskInv(disk) /\ \A l \in DOMAIN disk.logs : LogFile(disk.logs[l])
    BY DEF DBInv, VersionsInv, DiskInv, AnswersInv, KeptInv, ReadsInv, DirectoryInv
  <1>4. /\ disk'.tabs = disk.tabs /\ disk'.cur = disk.cur
        /\ DOMAIN disk'.logs = DOMAIN disk.logs /\ DOMAIN disk'.mans = DOMAIN disk.mans
        /\ \A n \in DOMAIN disk.logs : disk'.logs[n] \in {disk.logs[n], Cut(disk.logs[n])}
        /\ \A n \in DOMAIN disk.mans : disk'.mans[n] \in {disk.mans[n], CutManifest(disk.mans[n])}
    BY <1>2, <1>3
  <1>5. Answered' = Promised /\ Promised' = Promised
    BY <1>1 DEF Answered, Promised
  <1>6. Promised \subseteq Answered
    BY DEF Promised, Answered
  <1>7. Kept(disk', Promised, Promised)
    <2>1. CASE disk.cur = 0
      BY <1>3, <1>4, <1>6, <2>1 DEF Kept
    <2>2. CASE disk.cur # 0
      <3> DEFINE m == Man(disk)
      <3>1. /\ disk.cur \in DOMAIN disk.mans /\ DOMAIN disk.mans \subseteq Nat /\ disk.cur \in Nat
            /\ \A k \in Ends(m) : Point(disk, k, Answered, Promised)
            /\ Unique(Reach(disk)) /\ (Answered # {} => m.synced > 0)
        BY <1>3, <2>2 DEF Kept
      <3>2. Manifest(m) /\ Man(disk') \in {m, CutManifest(m)}
        BY <1>3, <1>4, <3>1 DEF DiskInv, Man
      <3>3. /\ Man(disk').synced = m.synced
            /\ \A k \in Ends(Man(disk')) :
                 /\ k \in Ends(m) /\ Man(disk').edits[k] = m.edits[k]
                 /\ FilesAt(Man(disk').edits, k) = FilesAt(m.edits, k)
        <4>1. CASE Man(disk') = m
          BY <4>1
        <4>2. CASE Man(disk') = CutManifest(m)
          <5> DEFINE front == SubSeq(m.edits, 1, m.synced)
          <5>1. FiniteEdits(m.edits) /\ m.synced \in 0 .. Len(m.edits) /\ DOMAIN m = {"edits", "synced"}
            BY <3>2 DEF Manifest
          <5>2. Len(front) = m.synced
                /\ \A k \in 1 .. m.synced : front[k] = m.edits[k] /\ FilesAt(front, k) = FilesAt(m.edits, k)
            BY <5>1, FilesOfFront
          <5>3. Len(m.edits) \in Nat
            BY <5>1, LenProperties DEF FiniteEdits
          <5>4. Man(disk').synced = m.synced /\ Man(disk').edits = front
            BY <4>2, <5>1 DEF CutManifest
          <5> HIDE DEF front, m
          <5>5. \A k \in 1 .. m.synced : k \in 1 .. Len(m.edits)
            BY <5>1, <5>3
          <5> QED
            BY <5>2, <5>4, <5>5 DEF Ends
        <4> QED
          BY <3>2, <4>1, <4>2
      <3> HIDE DEF m
      <3>4. \A l \in DOMAIN disk.logs :
              /\ EntriesOf(disk'.logs[l]) \subseteq EntriesOf(disk.logs[l])
              /\ SyncedOf(disk.logs[l]) \subseteq SafeOf(disk'.logs[l])
              /\ SyncedOf(disk.logs[l]) \subseteq SyncedOf(disk'.logs[l])
        <4> TAKE l \in DOMAIN disk.logs
        <4>1. LogFile(disk.logs[l]) /\ disk'.logs[l] \in {disk.logs[l], Cut(disk.logs[l])}
          BY <1>3, <1>4
        <4> QED
          BY <4>1, LogIsCut, PartsOfLog
      <3>5. \A n : /\ SyncedFrom(disk.logs, n) \subseteq SafeFrom(disk'.logs, n)
                   /\ SyncedFrom(disk.logs, n) \subseteq SyncedFrom(disk'.logs, n)
                   /\ AllFrom(disk'.logs, n) \subseteq AllFrom(disk.logs, n)
        <4> TAKE n
        <4>1. SyncedFrom(disk.logs, n) \subseteq SafeFrom(disk'.logs, n)
          BY <1>4, <3>4 DEF SyncedFrom, SafeFrom
        <4>2. SyncedFrom(disk.logs, n) \subseteq SyncedFrom(disk'.logs, n)
          BY <1>4, <3>4 DEF SyncedFrom
        <4>3. AllFrom(disk'.logs, n) \subseteq AllFrom(disk.logs, n)
          BY <1>4, <3>4 DEF AllFrom
        <4> QED
          BY <4>1, <4>2, <4>3
      <3>6. ASSUME NEW k \in Ends(Man(disk'))
            PROVE  /\ Point(disk', k, Promised, Promised) /\ k \in Ends(Man(disk))
                   /\ TabsAt(disk', k) = TabsAt(disk, k) /\ LogAt(disk', k) = LogAt(disk, k)
        <4>1. Point(disk, k, Answered, Promised) /\ k \in Ends(Man(disk))
          BY <3>1, <3>3 DEF m
        <4>2. /\ Man(disk').edits[k] = Man(disk).edits[k]
              /\ FilesAt(Man(disk').edits, k) = FilesAt(Man(disk).edits, k)
          BY <3>3 DEF m
        <4>3. Numbers(FilesAt(Man(disk).edits, k)) \subseteq DOMAIN disk.tabs
          BY <4>1 DEF Point
        <4>4. \A n \in Numbers(FilesAt(Man(disk).edits, k)) : n \in DOMAIN disk'.tabs /\ disk'.tabs[n] = disk.tabs[n]
          BY <1>4, <4>3
        <4>5. TabsAt(disk', k) = TabsAt(disk, k) /\ LogAt(disk', k) = LogAt(disk, k)
          BY <1>4, <4>2, <4>3, <4>4, SamePoint
        <4>6. /\ Promised \subseteq TabsAt(disk, k) \cup SafeFrom(disk'.logs, LogAt(disk, k))
              /\ Promised \subseteq TabsAt(disk, k) \cup SyncedFrom(disk'.logs, LogAt(disk, k))
          BY <3>5, <4>1 DEF Point
        <4>7. Point(disk', k, Promised, Promised)
          BY <1>4, <4>1, <4>2, <4>4, <4>6, PointStays
        <4> QED
          BY <4>1, <4>5, <4>7
      <3>7. Reach(disk') \subseteq Reach(disk)
        BY <3>5, <3>6 DEF Reach
      <3>8. Unique(Reach(disk'))
        BY <3>1, <3>7, FewerUnique
      <3>9. Promised # {} => Man(disk').synced > 0
        BY <1>6, <3>1, <3>3
      <3> QED
        BY <1>4, <2>2, <3>1, <3>6, <3>8, <3>9 DEF Kept
    <2> QED
      BY <2>1, <2>2
  <1>8. KeptInv'
    BY <1>5, <1>7 DEF KeptInv
  <1> QED
    BY <1>1, <1>8, LostMemory

LEMMA NothingAnswers ==
  ASSUME DBInv, AnswersInv, UNCHANGED vars PROVE StoreInv'
  <1>1. UNCHANGED <<disk, db, memtab, writers, wr, bg, rd, acked, used>>
    BY DEF vars
  <1>2. KeptInv /\ LatestLogInv /\ OpeningInv /\ OpenInv /\ FlightInv
    BY DEF AnswersInv
  <1>3. /\ Answered' = Answered /\ Promised' = Promised /\ Opened' = Opened /\ Todo' = Todo /\ Found' = Found
        /\ Content' = Content
    BY <1>1 DEF Answered, Promised, Opened, Todo, Found, Content, TablesOf
  <1>4. KeptInv' /\ LatestLogInv' /\ OpeningInv'
    BY <1>1, <1>2, <1>3 DEF KeptInv, LatestLogInv, OpeningInv, Edit
  <1>5. \A w \in Writers : SameCall(wr'[w], wr[w]) /\ (InFlight(w)' <=> InFlight(w))
    BY <1>1 DEF SameCall, InFlight
  <1>6. FlightInv'
    BY <1>1, <1>2, <1>5, FlightStays DEF InFlight
  <1>7. OpenInv'
    <2> SUFFICES ASSUME db.phase \in {"clean", "open"} PROVE EndsInv' /\ FoundInv' /\ MemoryInv'
      BY <1>1 DEF OpenInv
    <2>1. EndsInv /\ FoundInv /\ MemoryInv
      BY <1>2 DEF OpenInv
    <2>2. EndsInv'
      <3>1. \A k \in Ends(Man(disk)) : EndInv(k)'
        <4> TAKE k \in Ends(Man(disk))
        <4>1. EndInv(k)
          BY <2>1 DEF EndsInv
        <4> QED
          BY <1>1, <1>3, <4>1 DEF EndInv
      <3>2. Writing' => Writing
        BY <1>1 DEF Writing
      <3> QED
        BY <1>1, <2>1, <3>1, <3>2 DEF EndsInv
    <2>3. FoundInv' /\ MemoryInv'
      BY <1>1, <1>3, <1>5, <2>1 DEF FoundInv, MemoryInv
    <2> QED
      BY <2>2, <2>3
  <1> QED
    BY <1>4, <1>6, <1>7 DEF StoreInv

LEMMA OpenStepAnswers ==
  ASSUME DBInv, ReadsInv, AnswersInv, Open PROVE StoreInv'
  <1>1. CASE RecoverFails
    BY <1>1, NothingAnswers DEF RecoverFails
  <1> QED
    BY <1>1, NewDBAnswers, RecoverAnswers, RecoverLogFileAnswers, OpenLogAnswers, OpenManifestAnswers,
       OpenCurrentAnswers, OpenCleanAnswers DEF Open

\* Every step keeps what answers rest on.
LEMMA NextAnswers == DBInv /\ ReadsInv /\ AnswersInv /\ [Next]_vars => AnswersInv'
  <1> SUFFICES ASSUME DBInv, ReadsInv, AnswersInv, [Next]_vars PROVE AnswersInv'
    OBVIOUS
  <1>1. DBInv' /\ ReadsInv'
    BY NextKeeps, NextReads
  <1>2. IdsInv' /\ PendInv' /\ PhaseInv'
    BY <1>1, NextIds, NextPend, NextPhase DEF AnswersInv
  <1>3. StoreInv'
    <2>1. CASE UNCHANGED vars
      BY <2>1, NothingAnswers
    <2>2. CASE \E w \in Writers : Step(w) \/ Write(w, FALSE, TRUE) \/ \E sync \in BOOLEAN : Write(w, sync, FALSE)
      BY <2>2, StepAnswers, WriteAnswers
    <2>3. CASE CloseEnd \/ Crash
      <3>1. LoseMemory /\ disk' = disk /\ acked' = acked
        BY <2>3 DEF CloseEnd, Crash
      <3>2. KeptInv'
        BY <3>1 DEF AnswersInv, KeptInv, Answered, Promised
      <3> QED
        BY <3>1, <3>2, LostMemory
    <2>4. CASE ReadBegin \/ ReadEnd \/ CloseBegin
      <3>1. db.phase = "open"
        <4>1. CASE ReadBegin \/ CloseBegin
          BY <4>1 DEF ReadBegin, CloseBegin
        <4>2. CASE ReadEnd
          <5>1. rd # NoReader
            BY <4>2 DEF ReadEnd, NoReader
          <5> QED
            BY <5>1 DEF ReadsInv, NumbersInv
        <4> QED
          BY <2>4, <4>1, <4>2
      <3> QED
        BY <2>4, <3>1, ReaderAnswers
    <2>5. CASE Background \/ PowerLoss \/ Open \/ OpenFails
      BY <2>5, BackgroundAnswers, PowerLossAnswers, OpenStepAnswers, OpenFailsAnswers
    <2> QED
      BY <2>1, <2>2, <2>3, <2>4, <2>5 DEF Next
  <1> QED
    BY <1>2, <1>3 DEF AnswersInv, StoreInv

LEMMA InitAnswers == Init => AnswersInv
  <1> SUFFICES ASSUME Init PROVE AnswersInv
    OBVIOUS
  <1>1. /\ DOMAIN disk.logs = {} /\ DOMAIN disk.mans = {} /\ disk.cur = 0
        /\ db = Closed /\ memtab = <<>> /\ acked = {} /\ used = [ops |-> 0, events |-> 0]
        /\ \A w \in Writers : wr[w] = Idle
    BY DEF Init
  <1>2. db.phase = "closed" /\ db.pend = {}
    BY <1>1 DEF Closed
  <1>3. Answered = {}
    BY <1>1 DEF Answered
  <1>4. KeptInv
    BY <1>1, <1>3 DEF KeptInv, Kept
  <1>5. IdsInv
    <2>1. DOMAIN used = {"ops", "events"} /\ used.ops = 0
      BY <1>1
    <2> QED
      BY <1>1, <2>1, IdleCall DEF IdsInv
  <1>6. LatestLogInv /\ OpeningInv /\ OpenInv /\ PendInv /\ PhaseInv
    BY <1>1, <1>2 DEF LatestLogInv, OpeningInv, OpenInv, PendInv, PhaseInv
  <1>7. FlightInv
    BY <1>1, IdleCall DEF FlightInv, InFlight
  <1> QED
    BY <1>4, <1>5, <1>6, <1>7 DEF AnswersInv

-----------------------------------------------------------------------------
(* What follows from it *)

\* What a recovery reads.
LEMMA WhatWouldRecover ==
  ASSUME DBInv, ReadsInv, AnswersInv, Answered # {}
  PROVE  LET n == Len(Man(disk).edits)
         IN  /\ disk.cur # 0 /\ n \in Ends(Man(disk)) /\ Point(disk, n, Answered, Promised)
             /\ Recoverable /\ WouldRecover = TabsAt(disk, n) \cup SafeFrom(disk.logs, LogAt(disk, n))
             /\ Answered \subseteq Reach(disk) /\ Unique(Reach(disk))
  <1> DEFINE edits == Man(disk).edits
             n == Len(edits)
             v == ReadManifest(disk.cur)
  <1>1. /\ DiskInv(disk) /\ \A l \in DOMAIN disk.logs : LogFile(disk.logs[l])
    BY DEF DBInv, VersionsInv, ReadsInv, DirectoryInv
  <1>2. /\ disk.cur # 0 /\ disk.cur \in DOMAIN disk.mans /\ Man(disk).synced > 0
        /\ Unique(Reach(disk)) /\ \A k \in Ends(Man(disk)) : Point(disk, k, Answered, Promised)
    BY DEF AnswersInv, KeptInv, Kept
  <1>3. n > 0
    <2>1. Manifest(Man(disk))
      BY <1>1, <1>2 DEF DiskInv, Man
    <2>2. Man(disk).synced \in 0 .. n /\ n \in Nat
      BY <2>1, LenProperties DEF Manifest, FiniteEdits
    <2> QED
      BY <1>2, <2>2
  <1>4. n \in Ends(Man(disk)) /\ Last(edits) = edits[n] /\ FiniteEdits(edits)
    BY <1>1, <1>2, <1>3, LastEnd
  <1>5. Point(disk, n, Answered, Promised)
    BY <1>2, <1>4
  <1>6. v.files = FilesAt(edits, n) /\ v.log = LogAt(disk, n)
    <2>1. v.files = SaveTo(edits) /\ v.log = Last(edits).log
      BY DEF ReadManifest, Man
    <2> QED
      BY <1>4, <2>1, RecoveredFiles DEF LogAt
  <1>7. Recoverable
    <2>1. edits # <<>>
      BY <1>3
    <2> QED
      BY <1>2, <1>5, <1>6, <2>1 DEF Recoverable, Point, Man
  <1> HIDE DEF v
  <1>8. WouldRecover = TabsAt(disk, n) \cup SafeFrom(disk.logs, LogAt(disk, n))
    <2>1. WouldRecover = TablesOf(v.files) \cup UNION {Safe(l) : l \in LogsFrom(v.log)}
      BY DEF WouldRecover, v
    <2>2. TablesOf(v.files) = TabsAt(disk, n)
      BY <1>6 DEF TablesOf, TabsAt, TabsIn
    <2>3. \A l \in LogsFrom(v.log) : Safe(l) = SafeOf(disk.logs[l])
      BY <1>1, ReadLog DEF LogsFrom
    <2>4. UNION {Safe(l) : l \in LogsFrom(v.log)} = SafeFrom(disk.logs, LogAt(disk, n))
      BY <1>6, <2>3 DEF LogsFrom, SafeFrom
    <2> QED
      BY <2>1, <2>2, <2>4
  <1>9. Answered \subseteq Reach(disk)
    <2>1. SafeFrom(disk.logs, LogAt(disk, n)) \subseteq AllFrom(disk.logs, LogAt(disk, n))
      <3>1. \A l \in DOMAIN disk.logs : SafeOf(disk.logs[l]) \subseteq EntriesOf(disk.logs[l])
        BY <1>1, PartsOfLog
      <3> QED
        BY <3>1 DEF SafeFrom, AllFrom
    <2> QED
      BY <1>4, <1>5, <2>1 DEF Reach, Point
  <1> QED
    BY <1>2, <1>4, <1>5, <1>7, <1>8, <1>9

LEMMA AnswersAreRecovered == DBInv /\ ReadsInv /\ AnswersInv => Durable
  <1> SUFFICES ASSUME DBInv, ReadsInv, AnswersInv, acked # {}
               PROVE  Recoverable /\ Answered \subseteq WouldRecover
    BY DEF Durable, Answered
  <1>1. Answered # {}
    BY DEF Answered
  <1> QED
    BY <1>1, WhatWouldRecover DEF Point

LEMMA VariablesHaveTypes == DBInv /\ ReadsInv /\ AnswersInv => TypeOK
  <1> SUFFICES ASSUME DBInv, ReadsInv, AnswersInv PROVE TypeOK
    OBVIOUS
  <1>1. DOMAIN disk.mans \subseteq Nat /\ disk.cur \in Nat /\ PendInv
    BY DEF AnswersInv, KeptInv, Kept
  <1>2. /\ \A l \in DOMAIN disk.logs : disk.logs[l].synced \in 0 .. Len(disk.logs[l].recs)
        /\ \A m \in DOMAIN disk.mans : disk.mans[m].synced \in 0 .. Len(disk.mans[m].edits)
    BY DEF DBInv, VersionsInv, DiskInv, Manifest, ReadsInv, DirectoryInv, LogFile
  <1>3. ToSet(writers) \subseteq Writers /\ DOMAIN wr = Writers
    <2>1. writers \in Seq(Writers) /\ DOMAIN wr = Writers
      BY DEF DBInv, WritersInv, FieldsInv
    <2>2. DOMAIN writers = 1 .. Len(writers) /\ \A i \in 1 .. Len(writers) : writers[i] \in Writers
      BY <2>1, LenProperties, ElementOfSeq
    <2> QED
      BY <2>1, <2>2 DEF ToSet
  <1>4. db.imm < db.next /\ db.mem < db.next
    <2>1. db.next \in Nat /\ db.next > 0
      BY DEF ReadsInv, NumbersInv
    <2>2. CASE db.phase \in {"save", "current", "clean", "open"}
      <3>1. /\ DOMAIN memtab \subseteq 1 .. db.next - 1
            /\ db.mem \in DOMAIN memtab /\ db.imm \in DOMAIN memtab \cup {0}
        BY <2>2 DEF ReadsInv, MemtablesInv
      <3> QED
        BY <2>1, <3>1
    <2>3. CASE db.phase = "replay"
      <3>1. db.mem = 0 /\ db.imm = 0
        BY <2>3 DEF AnswersInv, OpeningInv, ReadsInv, NumbersInv
      <3> QED
        BY <2>1, <3>1
    <2>4. CASE db.phase = "closed"
      <3>1. db.mem = 0 /\ db.imm = 0
        BY <2>4 DEF AnswersInv, OpeningInv, Closed
      <3> QED
        BY <2>1, <3>1
    <2> QED
      BY <2>2, <2>3, <2>4 DEF AnswersInv, PhaseInv
  <1> QED
    BY <1>1, <1>2, <1>3, <1>4 DEF TypeOK, PendInv

\* What is in memory could also be found on disk.
LEMMA NothingElse ==
  ASSUME DBInv, ReadsInv, AnswersInv
  PROVE  \/ Answered = {} /\ Content = {}
         \/ \E S : Unique(S) /\ Answered \subseteq S /\ Content \subseteq S
  <1>1. Content = Opened \cup UNION {memtab[m] : m \in DOMAIN memtab \cap {db.mem, db.imm}}
    BY DEF Content, Opened, TablesOf, TabsIn
  <1>2. CASE db.phase \in {"clean", "open"}
    <2> DEFINE n == Len(Man(disk).edits)
    <2>1. /\ FoundInv /\ MemoryInv /\ Reach(disk) \subseteq Found /\ n \in Ends(Man(disk)) /\ EndInv(n)
          /\ EntriesOf(disk.logs[db.logno]) \subseteq Found
      BY <1>2, OpenFacts
    <2>2. TabsAt(disk, n) \cup AllFrom(disk.logs, LogAt(disk, n)) \subseteq Found
      BY <2>1 DEF Reach
    <2>3. Opened \subseteq Found /\ (db.imm # 0 => memtab[db.imm] \subseteq Found)
      BY <2>1, <2>2 DEF EndInv
    <2>4. memtab[db.mem] \subseteq Found /\ Answered \subseteq Content
      BY <2>1 DEF MemoryInv
    <2>5. 0 \notin DOMAIN memtab
      BY <1>2 DEF ReadsInv, MemtablesInv
    <2>6. Content \subseteq Found
      BY <1>1, <2>3, <2>4, <2>5
    <2> QED
      BY <2>1, <2>4, <2>6 DEF FoundInv
  <1>3. CASE db.phase \in {"replay", "save", "current"}
    <2>1. Opened \subseteq Reach(disk) /\ Unique(Reach(disk))
      BY <1>3, OpeningFacts DEF Kept
    <2>2. \A m \in DOMAIN memtab \cap {db.mem, db.imm} : memtab[m] = {}
      <3>1. db.imm = 0
        BY <1>3 DEF ReadsInv, NumbersInv
      <3>2. CASE db.phase = "replay"
        BY <3>2 DEF AnswersInv, OpeningInv
      <3>3. CASE db.phase \in {"save", "current"}
        <4>1. 0 \notin DOMAIN memtab /\ memtab[db.mem] = {}
          BY <3>3 DEF ReadsInv, MemtablesInv, AnswersInv, OpeningInv
        <4> QED
          BY <3>1, <4>1
      <3> QED
        BY <1>3, <3>2, <3>3
    <2>3. Content \subseteq Reach(disk)
      BY <1>1, <2>1, <2>2
    <2>4. Answered \subseteq Reach(disk)
      BY WhatWouldRecover
    <2> QED
      BY <2>1, <2>3, <2>4
  <1>4. CASE db.phase = "closed"
    <2>1. db.files = {} /\ DOMAIN memtab = {}
      BY <1>4 DEF AnswersInv, OpeningInv, Closed
    <2>2. Content = {}
      BY <1>1, <2>1 DEF Opened, TabsIn, Numbers
    <2> QED
      BY <2>2, WhatWouldRecover
  <1> QED
    BY <1>2, <1>3, <1>4 DEF AnswersInv, PhaseInv

LEMMA InvKeepsAnswers == DBInv /\ ReadsInv /\ AnswersInv => AnswersKept
  <1> SUFFICES ASSUME DBInv, ReadsInv, AnswersInv PROVE AnswersKept
    OBVIOUS
  <1>1. TypeOK /\ Durable
    BY VariablesHaveTypes, AnswersAreRecovered
  <1>2. ReadYourWrites
    BY DEF AnswersInv, OpenInv, MemoryInv, ReadYourWrites, Answered
  <1>3. SeqUnique
    <2>1. \E S : Unique(S) /\ Answered \subseteq S /\ Content \subseteq S
      <3>1. Unique({})
        BY DEF Unique
      <3> QED
        BY <3>1, NothingElse
    <2>2. Unique(Content \cup Answered)
      BY <2>1, FewerUnique
    <2> QED
      BY <2>2 DEF SeqUnique, Unique, Answered
  <1> QED
    BY <1>1, <1>2, <1>3 DEF AnswersKept

\* What Write answers with OK is there in every later read, whatever files and
\* memtables come and go around it (DBImpl::Write, WriteLevel0Table,
\* InstallCompactionResults), a recovery after a crash of the process at any
\* moment finds it, after a crash of the machine when it was written with sync,
\* and a sequence number is given only once, failed calls included.
THEOREM AnswersAreKept == Spec => []AnswersKept
  <1>1. Init => DBInv /\ ReadsInv /\ AnswersInv
    BY InitKeeps, InitReads, InitAnswers
  <1>2. DBInv /\ ReadsInv /\ AnswersInv /\ [Next]_vars => DBInv' /\ ReadsInv' /\ AnswersInv'
    BY NextKeeps, NextReads, NextAnswers
  <1>3. DBInv /\ ReadsInv /\ AnswersInv => AnswersKept
    BY InvKeepsAnswers
  <1> QED
    BY <1>1, <1>2, <1>3, PTL DEF Spec
=============================================================================
