----------------------------- MODULE LogFormat -----------------------------
(***************************************************************************)
(* The log file of leveldb: log::Writer cuts records into fragments that   *)
(* do not cross a block, log::Reader puts them together again.  In between *)
(* the file may lose its end (a crash) or have one cell damaged.           *)
(*                                                                         *)
(* The file is a sequence of cells, one per byte: a byte of a record, a    *)
(* byte of a header (each knows the whole header: the type, and the        *)
(* payload for its checksum and its length), or a zero of a trailer.       *)
(***************************************************************************)
EXTENDS Integers, Sequences, FiniteSets, SequencesExt, FiniteSetsExt

CONSTANTS
  kBlockSize, kHeaderSize,
  checksum_,     \* the reader compares checksums
  Lengths,       \* the lengths records may have
  MaxRecords     \* bound: records

VARIABLES
  logf,          \* the file
  offset,        \* block_offset_ of the writer
  sizes,         \* the lengths of the records added so far
  harm,          \* what happened to the file: cut at a length, or a cell damaged
  lr,            \* the reader
  got            \* the records it has returned

lfvars == <<logf, offset, sizes, harm, lr, got>>

Payload(r, n) == [b \in 1 .. n |-> [kind |-> "data", rec |-> r, byte |-> b]]

LogInit ==
  /\ logf = <<>> /\ offset = 0 /\ sizes = <<>> /\ harm = [kind |-> "none", at |-> 0]
  /\ lr = [pos |-> 0, buf |-> <<>>, eof |-> FALSE, frag |-> <<>>, in |-> FALSE, at |-> "write", drops |-> 0]
  /\ got = <<>>

-----------------------------------------------------------------------------
(* Writer *)

\* EmitPhysicalRecord.
Physical(type, bytes) == [i \in 1 .. kHeaderSize |-> [kind |-> "head", type |-> type, sum |-> bytes]] \o bytes

\* The trailer: a block is never left with less than a header.
Trailer(off) ==
  IF kBlockSize - off < kHeaderSize THEN [i \in 1 .. kBlockSize - off |-> [kind |-> "zero"]] ELSE <<>>

\* AddRecord of the bytes that are left, at offset off of a block: an empty
\* record is one empty fragment.
Fragments(bytes, at) ==
  LET f[n \in 0 .. Len(bytes) + 2, off \in 0 .. kBlockSize - 1, begin \in BOOLEAN] ==
        \* n bytes are left; off is the offset in the block
        LET start == (off + Len(Trailer(off))) % kBlockSize
            avail == kBlockSize - start - kHeaderSize
            len == Min({n, avail})
            type == IF begin THEN (IF len = n THEN "full" ELSE "first") ELSE (IF len = n THEN "last" ELSE "middle")
            from == Len(bytes) - n
            here == Trailer(off) \o Physical(type, SubSeq(bytes, from + 1, from + len))
        IN IF len = n THEN here ELSE here \o f[n - len, (start + kHeaderSize + len) % kBlockSize, FALSE]
  IN f[Len(bytes), at, TRUE]

AddRecord(n) ==
  /\ lr.at = "write" /\ Len(sizes) < MaxRecords
  /\ sizes' = Append(sizes, n)
  /\ LET more == Fragments(Payload(Len(sizes) + 1, n), offset) IN
       /\ logf' = logf \o more
       /\ offset' = (offset + Len(more)) % kBlockSize
  /\ UNCHANGED <<harm, lr, got>>

\* A crash: the file ends anywhere in front of its end.
Truncate(n) ==
  /\ lr.at = "write" /\ harm.kind = "none" /\ n < Len(logf)
  /\ logf' = SubSeq(logf, 1, n)
  /\ harm' = [kind |-> "cut", at |-> n] /\ lr' = [lr EXCEPT !.at = "read"]
  /\ UNCHANGED <<offset, sizes, got>>

\* One cell is damaged.  In a header this may leave a length past the end of
\* the buffer ("long") or nothing but zeros ("zero"); anywhere else, or with the
\* length intact, only the checksum is wrong ("sum").
Damage(i, how) ==
  /\ lr.at = "write" /\ harm.kind = "none"
  /\ logf[i].kind # "head" => how = "sum"
  /\ logf' = [logf EXCEPT ![i] = IF logf[i].kind = "head" THEN [logf[i] EXCEPT !.kind = how] ELSE [kind |-> how]]
  /\ harm' = [kind |-> "cell", at |-> i] /\ lr' = [lr EXCEPT !.at = "read"]
  /\ UNCHANGED <<offset, sizes, got>>

\* Nothing happens to the file, and it is read.
StartReading ==
  /\ lr.at = "write" /\ lr' = [lr EXCEPT !.at = "read"]
  /\ UNCHANGED <<logf, offset, sizes, harm, got>>

-----------------------------------------------------------------------------
(* Reader *)

\* The buffer is refilled with the next block when less than a header is left.
Refill(r) ==
  LET b == SubSeq(logf, r.pos + 1, Min({r.pos + kBlockSize, Len(logf)})) IN
    IF Len(r.buf) >= kHeaderSize \/ r.eof THEN r
    ELSE [r EXCEPT !.buf = b, !.pos = @ + Len(b), !.eof = Len(b) < kBlockSize]

Failed(type, drop) == [type |-> type, bytes |-> <<>>, buf |-> <<>>, drop |-> drop]

\* A record past the end of the buffer: at the end of the file the writer died.
TooLong(r) == IF r.eof THEN Failed("eof", 0) ELSE Failed("bad", 1)

\* ReadPhysicalRecord on a filled buffer: the type of the fragment or of the
\* failure, its bytes, and whether a drop is reported.
Parsed(r) ==
  LET kinds == {r.buf[i].kind : i \in 1 .. kHeaderSize}
      head == r.buf[1]
      len == Len(head.sum)
      body == SubSeq(r.buf, kHeaderSize + 1, kHeaderSize + len)
  IN CASE Len(r.buf) < kHeaderSize -> Failed("eof", 0)
       [] "long" \in kinds \/ (kinds = {"head"} /\ kHeaderSize + len > Len(r.buf)) ->
            TooLong(r)
       [] "zero" \in kinds -> Failed("bad", 0)
       [] checksum_ /\ (kinds # {"head"} \/ body # head.sum) -> Failed("bad", 1)
       [] OTHER -> [type |-> head.type, bytes |-> body, buf |-> SubSeq(r.buf, kHeaderSize + len + 1, Len(r.buf)),
                    drop |-> 0]

\* Mutant: a bad fragment does not end the record it is in.
AfterBad_keep(r) == r

\* A bad fragment ends the record it is in.
AfterBad(r) == [r EXCEPT !.in = FALSE, !.frag = <<>>]

\* One turn of the loop of ReadRecord.
ReadRecord ==
  LET r == Refill(lr)
      p == Parsed(r)
      next == [r EXCEPT !.buf = p.buf, !.drops = @ + p.drop]
      partial == IF r.in /\ r.frag # <<>> THEN 1 ELSE 0
      return(bytes) == got' = Append(got, bytes)
  IN /\ lr.at = "read"
     /\ CASE p.type = "full" ->
               /\ lr' = [next EXCEPT !.in = FALSE, !.frag = <<>>, !.drops = @ + partial]
               /\ return(p.bytes)
          [] p.type = "first" ->
               lr' = [next EXCEPT !.in = TRUE, !.frag = p.bytes, !.drops = @ + partial] /\ UNCHANGED got
          [] p.type = "middle" ->
               /\ lr' = IF r.in THEN [next EXCEPT !.frag = @ \o p.bytes] ELSE [next EXCEPT !.drops = @ + 1]
               /\ UNCHANGED got
          [] p.type = "last" ->
               /\ lr' = IF r.in THEN [next EXCEPT !.in = FALSE, !.frag = <<>>] ELSE [next EXCEPT !.drops = @ + 1]
               /\ IF r.in THEN return(r.frag \o p.bytes) ELSE UNCHANGED got
          [] p.type = "eof" -> lr' = [next EXCEPT !.at = "eof"] /\ UNCHANGED got
          [] p.type = "bad" ->
               lr' = AfterBad([next EXCEPT !.drops = @ + (IF r.in THEN 1 ELSE 0)]) /\ UNCHANGED got
     /\ UNCHANGED <<logf, offset, sizes, harm>>

LogNext ==
  \/ \E n \in Lengths : AddRecord(n)
  \/ \E n \in 0 .. Len(logf) : Truncate(n)
  \/ \E i \in DOMAIN logf, how \in {"sum", "long", "zero"} : Damage(i, how)
  \/ StartReading \/ ReadRecord

-----------------------------------------------------------------------------
\* Where record r lies in the undamaged file: its first and its last cell.
EndOf(r) ==
  LET e[i \in 0 .. Len(sizes)] ==
        IF i = 0 THEN 0 ELSE e[i - 1] + Len(Fragments(Payload(i, sizes[i]), e[i - 1] % kBlockSize))
  IN e[r]
BlockOf(i) == (i - 1) \div kBlockSize

Records == [r \in DOMAIN sizes |-> Payload(r, sizes[r])]

\* After a crash the log yields exactly the records that were written
\* completely, and does not call what is left of the last one a corruption.
CrashLosesOnlyTheEnd ==
  lr.at = "eof" /\ harm.kind = "cut" =>
    /\ got = SubSeq(Records, 1, Max({r \in 0 .. Len(sizes) : EndOf(r) <= harm.at}))
    /\ lr.drops = 0

\* No damaged cell makes up a record: what is returned are records that were
\* written, in their order.
NoForgedRecord ==
  \E f \in [DOMAIN got -> DOMAIN sizes] :
    /\ \A i \in DOMAIN got : got[i] = Records[f[i]]
    /\ \A i, j \in DOMAIN got : i < j => f[i] < f[j]

\* The damage stays in its block: every record without a cell there is returned.
DamageIsLocal ==
  lr.at = "eof" /\ harm.kind = "cell" =>
    \A r \in DOMAIN sizes :
      (BlockOf(EndOf(r)) < BlockOf(harm.at) \/ BlockOf(EndOf(r - 1) + 1) > BlockOf(harm.at)) =>
        Records[r] \in ToSet(got)

\* A log that is cut or damaged yields what was written, but for the damage.
LogIsSound == NoForgedRecord /\ CrashLosesOnlyTheEnd /\ DamageIsLocal
=============================================================================
