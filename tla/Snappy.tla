------------------------------- MODULE Snappy -------------------------------
(***************************************************************************)
(* The compressor of the table blocks: CompressFragment looks for repeated *)
(* words with a hash table and emits literals and copies, and              *)
(* SnappyDecompressor reads them back from a source that hands out its     *)
(* bytes in pieces, into an array that must not be overrun.                *)
(*                                                                         *)
(* The encoding is scaled down.  A tag byte is an operation below 4 plus   *)
(* 4 times a number below Hi (64 in the code), so a byte is below 4 * Hi;  *)
(* the words that are matched have W bytes (4), UnalignedCopy64 moves      *)
(* Eight bytes (8).  Positions are counted from 0 as in the code.          *)
(***************************************************************************)
EXTENDS Integers, Sequences, SequencesExt, FiniteSetsExt

CONSTANTS
  Inputs,                    \* the byte sequences compressed
  Hi, W, Eight,
  LongLits,                  \* literal tags with extra length bytes (4)
  Copy1Lens,                 \* lengths of a copy with one offset byte (8)
  kBlockSize, kInputMarginBytes, kMaxIncrementCopyOverflow,
  SkipUnit,                  \* bytes scanned before the stride grows (32)
  TableSize,                 \* of the hash table
  PieceSizes,                \* bytes one Peek hands out, if the source has them
  BadBytes                   \* the values a damaged byte may have

VARIABLES
  co,            \* the compressor
  de,            \* the decompressor and its reader
  aw             \* SnappyArrayWriter and the array it writes to

svars == <<co, de, aw>>

LITERAL == 0
COPY_1_BYTE_OFFSET == 1
COPY_2_BYTE_OFFSET == 2
COPY_4_BYTE_OFFSET == 3
Radix == 4 * Hi
Junk0 == -1                  \* what an array holds before it is written
MaxTag == 5                  \* bytes of the longest tag

\* Little endian digits, none for 0.
Digits == LET d[n \in Nat] == IF n = 0 THEN <<>> ELSE <<n % Radix>> \o d[n \div Radix] IN d
Unsigned(ds) == FoldRight(LAMBDA d, v : d + Radix * v, ds, 0)

-----------------------------------------------------------------------------
(* Emitting *)

EmitLiteral(bytes) ==
  LET n == Len(bytes) - 1 IN
    (IF n < Hi - LongLits THEN <<LITERAL + 4 * n>>
     ELSE <<LITERAL + 4 * (Hi - LongLits - 1 + Len(Digits[n]))>> \o Digits[n])
    \o bytes

EmitCopyLessThan64(offset, len) ==
  IF len < W + Copy1Lens /\ offset < (Hi \div Copy1Lens) * Radix
  THEN <<COPY_1_BYTE_OFFSET + 4 * (len - W) + 4 * Copy1Lens * (offset \div Radix), offset % Radix>>
  ELSE <<COPY_2_BYTE_OFFSET + 4 * (len - 1), offset % Radix, offset \div Radix>>

\* The lengths EmitCopy splits a match into: the last is never below W.
CopyLengths ==
  LET c[len \in Nat] ==
        IF len >= Hi + W THEN <<Hi>> \o c[len - Hi]
        ELSE IF len > Hi THEN <<Hi - W, len - (Hi - W)>> ELSE <<len>>
  IN c

EmitCopy(offset, len) ==
  FoldLeft(LAMBDA out, l : out \o EmitCopyLessThan64(offset, l), <<>>, CopyLengths[len])

\* The length in front of the stream, a varint with half a byte per digit.
Encode32 ==
  LET v[n \in Nat] == IF n < Radix \div 2 THEN <<n>> ELSE <<(n % (Radix \div 2)) + (Radix \div 2)>> \o v[n \div (Radix \div 2)]
  IN v

-----------------------------------------------------------------------------
(* Compress and CompressFragment *)

Word(f, i) == SubSeq(f, i + 1, i + W)
Hash(w) == FoldLeft(LAMBDA h, b : (h * 3 + b) % TableSize, 1, w)
FindMatchLength(f, s1, s2) ==
  Max({n \in 0 .. Len(f) - s2 : \A i \in 1 .. n : f[s1 + i] = f[s2 + i]})

\* The table is all zero for every fragment.
GetHashTable(old) == [h \in 0 .. TableSize - 1 |-> 0]

Fragment(input, from) == SubSeq(input, from + 1, Min({Len(input), from + kBlockSize}))

\* Step 0 of a fragment: the scan begins at the second byte.
StartFragment(c, from) ==
  LET f == Fragment(c.input, from) IN
    [c EXCEPT !.from = from, !.f = f, !.table = GetHashTable(@), !.ip = 1, !.next_ip = 1, !.skip = SkipUnit,
              !.next_emit = 0,
              !.at = IF f = <<>> THEN "done" ELSE IF Len(f) >= kInputMarginBytes THEN "scan" ELSE "rest"]

IpLimit == Len(co.f) - kInputMarginBytes

\* Step 1: scan for a word seen before; step 2: emit what is in front of it.
\* The fast path of EmitLiteral reads 2 * Eight bytes.
Scan ==
  LET ip == co.next_ip
      h == Hash(Word(co.f, ip))
      next == ip + co.skip \div SkipUnit
      candidate == co.table[h]
      seen == Word(co.f, ip) = Word(co.f, candidate)
      lit == SubSeq(co.f, co.next_emit + 1, ip)
  IN /\ co.at = "scan"
     /\ co' = IF next > IpLimit THEN [co EXCEPT !.at = "rest"]
              ELSE [co EXCEPT !.ip = ip, !.next_ip = next, !.skip = @ + 1, !.table[h] = ip,
                              !.candidate = candidate,
                              !.at = IF seen THEN "copy" ELSE "scan",
                              !.out = IF seen THEN @ \o EmitLiteral(lit) ELSE @,
                              !.read = IF seen /\ Len(lit) <= 2 * Eight /\ Len(lit) <= Hi - LongLits
                                       THEN Max({@, co.next_emit + 2 * Eight - Len(co.f)}) ELSE @]
     /\ UNCHANGED <<de, aw>>

MatchEnd(f, candidate, ip) == ip + W + FindMatchLength(f, candidate + W, ip + W)

\* Step 3: emit the copy, enter the words at its end, go on if they match.
Copy ==
  LET ip == MatchEnd(co.f, co.candidate, co.ip)
      c == [co EXCEPT !.out = @ \o EmitCopy(co.ip - co.candidate, ip - co.ip), !.ip = ip, !.next_emit = ip]
      t == [co.table EXCEPT ![Hash(Word(co.f, ip - 1))] = ip - 1]
      h == Hash(Word(co.f, ip))
  IN /\ co.at = "copy"
     /\ co' = IF ip >= IpLimit THEN [c EXCEPT !.at = "rest"]
              ELSE IF Word(co.f, ip) = Word(co.f, t[h])
              THEN [c EXCEPT !.candidate = t[h], !.table = [t EXCEPT ![h] = ip]]
              ELSE [c EXCEPT !.table = [t EXCEPT ![h] = ip], !.next_ip = ip + 1, !.skip = SkipUnit, !.at = "scan"]
     /\ UNCHANGED <<de, aw>>

\* emit_remainder, and on to the next fragment.
Remainder ==
  LET lit == SubSeq(co.f, co.next_emit + 1, Len(co.f)) IN
    /\ co.at = "rest"
    /\ co' = StartFragment([co EXCEPT !.out = IF lit = <<>> THEN @ ELSE @ \o EmitLiteral(lit)],
                           co.from + Len(co.f))
    /\ UNCHANGED <<de, aw>>

-----------------------------------------------------------------------------
(* The reader and the writer *)

\* ReadUncompressedLength: at most two bytes here (five in the code); -1 fails.
ReadUncompressedLength(s) ==
  LET half == Radix \div 2 IN
    IF s = <<>> THEN [v |-> -1, rest |-> s]
    ELSE IF s[1] < half THEN [v |-> s[1], rest |-> Tail(s)]
    ELSE IF Len(s) = 1 \/ s[2] >= half THEN [v |-> -1, rest |-> s]
    ELSE [v |-> s[1] - half + half * s[2], rest |-> Tail(Tail(s))]

\* RawUncompress of the stream as it was written, cut short or with a bad byte.
Uncompress(s) ==
  LET u == ReadUncompressedLength(s) IN
    /\ co.at = "done"
    /\ co' = [co EXCEPT !.at = IF s = co.out THEN "stored" ELSE "damaged"]
    /\ de' = [src |-> u.rest, peeked |-> 0, buf |-> <<>>, need |-> 0,
              at |-> IF u.v = -1 THEN "fail" ELSE "refill"]
    /\ aw' = [op |-> 0, limit |-> u.v, high |-> 0, mem |-> [i \in 0 .. u.v + 4 * Eight |-> Junk0]]

Skipped(d) == SubSeq(d.src, d.peeked + 1, Len(d.src))

\* Extra bytes behind a tag byte, from char_table.
Extra(c) ==
  CASE c % 4 = LITERAL -> Max({0, c \div 4 - (Hi - LongLits) + 1})
    [] c % 4 = COPY_1_BYTE_OFFSET -> 1
    [] c % 4 = COPY_2_BYTE_OFFSET -> 2
    [] c % 4 = COPY_4_BYTE_OFFSET -> 4

\* MAYBE_REFILL.
Going(d) == [d EXCEPT !.at = IF Len(d.buf) < MaxTag THEN "refill" ELSE "tag"]

\* The pieces the source may hand out next, none at its end.
Pieces(s) == {Min({n, Len(s)}) : n \in PieceSizes}

\* The tag runs over the end of a piece: its bytes are put together in scratch_.
Stitch(d) ==
  LET more == Extra(d.buf[1]) + 1 - Len(d.buf)
      s == Skipped(d)
  IN IF Len(s) < more THEN [d EXCEPT !.at = "fail"]
     ELSE [d EXCEPT !.buf = @ \o SubSeq(s, 1, more), !.src = SubSeq(s, more + 1, Len(s)),
                    !.peeked = 0, !.at = "tag"]

\* RefillTag.
RefillTag(n) ==
  LET fresh == de.buf = <<>>
      s == Skipped(de)
      d == IF fresh THEN [de EXCEPT !.src = s, !.peeked = n, !.buf = SubSeq(s, 1, n)] ELSE de
  IN /\ de.at = "refill"
     /\ n \in IF fresh THEN Pieces(s) ELSE {0}
     /\ de' = IF d.buf = <<>> THEN [d EXCEPT !.at = "eof"]
              ELSE IF Len(d.buf) < Extra(d.buf[1]) + 1 THEN Stitch(d)
              ELSE IF Len(d.buf) < MaxTag THEN [d EXCEPT !.src = Skipped(d), !.peeked = 0, !.at = "tag"]
              ELSE [d EXCEPT !.at = "tag"]
     /\ UNCHANGED <<co, aw>>

\* memcpy into the array.
Put(w, bytes) ==
  [w EXCEPT !.op = @ + Len(bytes), !.high = Max({@, w.op + Len(bytes)}),
            !.mem = [i \in DOMAIN @ |-> IF i \in w.op .. w.op + Len(bytes) - 1 THEN bytes[i - w.op + 1] ELSE @[i]]]

\* UnalignedCopy64 inside the array.
Copy64(w, s, d) ==
  [w EXCEPT !.high = Max({@, d + Eight}),
            !.mem = [i \in DOMAIN @ |-> IF i \in d .. d + Eight - 1 THEN @[s + i - d] ELSE @[i]]]

RECURSIVE IncrementalCopy(_, _, _, _), FastCopy(_, _, _, _)

\* One byte at a time.
IncrementalCopy(w, s, d, len) ==
  IF len = 0 THEN w
  ELSE IncrementalCopy([w EXCEPT !.mem[d] = w.mem[s], !.high = Max({@, d + 1})], s + 1, d + 1, len - 1)

\* IncrementalCopyFastPath: widen a short pattern first.
FastCopy(w, s, d, len) ==
  IF d - s < Eight THEN FastCopy(Copy64(w, s, d), s, d + (d - s), len - (d - s))
  ELSE IF len > 0 THEN FastCopy(Copy64(w, s, d), s + Eight, d + Eight, len - Eight)
  ELSE w

\* Mutant: the room for the bytes written too many is not asked for.
FastRoom_tight(space, len) == space >= len

FastRoom(space, len) == space >= len + kMaxIncrementCopyOverflow

\* AppendFromSelf of a legal offset.
AppendFromSelf(w, offset, len) ==
  LET space == w.limit - w.op
      s == w.op - offset
      r == IF len <= 2 * Eight /\ offset >= Eight /\ space >= 2 * Eight
           THEN Copy64(Copy64(w, s, w.op), s + Eight, w.op + Eight)
           ELSE IF FastRoom(space, len) THEN FastCopy(w, s, w.op, len)
           ELSE IncrementalCopy(w, s, w.op, len)
  IN [r EXCEPT !.op = @ + len]

-----------------------------------------------------------------------------
(* DecompressAllTags *)

\* A literal: the fast path, which no tag with extra bytes takes, or its length
\* is read and its bytes follow.
Literal ==
  LET c == de.buf[1]
      len == c \div 4 + 1
      left == SubSeq(de.buf, 2, Len(de.buf))
      x == Extra(c)
  IN /\ de.at = "tag" /\ c % 4 = LITERAL
     /\ IF len <= 2 * Eight /\ Len(left) >= 2 * Eight /\ aw.limit - aw.op >= 2 * Eight
           /\ len <= Hi - LongLits
        THEN /\ de' = Going([de EXCEPT !.buf = SubSeq(left, len + 1, Len(left))])
             /\ aw' = [Put(aw, SubSeq(left, 1, 2 * Eight)) EXCEPT !.op = aw.op + len]
        ELSE /\ de' = [de EXCEPT !.buf = SubSeq(left, x + 1, Len(left)), !.at = "literal",
                                 !.need = IF x = 0 THEN len ELSE Unsigned(SubSeq(left, 1, x)) + 1]
             /\ UNCHANGED aw
     /\ UNCHANGED co

\* Append what is buffered, and fetch the next piece if that is not all.
LiteralBytes(n) ==
  LET last == Len(de.buf) >= de.need
      bytes == SubSeq(de.buf, 1, Min({Len(de.buf), de.need}))
      s == Skipped(de)
  IN /\ de.at = "literal"
     /\ n \in IF last THEN {0} ELSE Pieces(s)
     /\ IF aw.limit - aw.op < Len(bytes) THEN de' = [de EXCEPT !.at = "fail"] /\ UNCHANGED aw
        ELSE /\ aw' = Put(aw, bytes)
             /\ de' = IF last THEN Going([de EXCEPT !.buf = SubSeq(@, de.need + 1, Len(@))])
                      ELSE [de EXCEPT !.need = @ - Len(bytes), !.src = s, !.peeked = n,
                                      !.buf = SubSeq(s, 1, n), !.at = IF n = 0 THEN "fail" ELSE @]
     /\ UNCHANGED co

\* A copy: its length is in the tag, its offset in the tag and behind it.
CopyTag ==
  LET c == de.buf[1]
      x == Extra(c)
      trailer == Unsigned(SubSeq(de.buf, 2, x + 1))
      one == c % 4 = COPY_1_BYTE_OFFSET
      len == IF one THEN W + ((c \div 4) % Copy1Lens) ELSE c \div 4 + 1
      offset == (IF one THEN Radix * (c \div (4 * Copy1Lens)) ELSE 0) + trailer
      fast == len <= 2 * Eight /\ offset >= Eight /\ aw.limit - aw.op >= 2 * Eight
  IN /\ de.at = "tag" /\ c % 4 # LITERAL
     /\ IF offset = 0 \/ offset > aw.op \/ (~fast /\ aw.limit - aw.op < len)
        THEN de' = [de EXCEPT !.at = "fail"] /\ UNCHANGED aw
        ELSE /\ aw' = AppendFromSelf(aw, offset, len)
             /\ de' = Going([de EXCEPT !.buf = SubSeq(@, x + 2, Len(@))])
     /\ UNCHANGED co

\* InternalUncompressAllTags: all tags read and the length as announced.
CheckLength ==
  /\ de.at = "eof"
  /\ de' = [de EXCEPT !.at = IF aw.op = aw.limit THEN "ok" ELSE "fail"]
  /\ UNCHANGED <<co, aw>>

SnappyInit ==
  /\ \E input \in Inputs :
       co = StartFragment([input |-> input, from |-> 0, f |-> <<>>, table |-> <<>>, ip |-> 1, next_ip |-> 1,
                           skip |-> SkipUnit, next_emit |-> 0, candidate |-> 0, out |-> Encode32[Len(input)],
                           read |-> 0, at |-> "scan"], 0)
  /\ de = [src |-> <<>>, peeked |-> 0, buf |-> <<>>, need |-> 0, at |-> "none"]
  /\ aw = [op |-> 0, limit |-> 0, high |-> 0, mem |-> <<>>]

SnappyNext ==
  \/ Scan \/ Copy \/ Remainder
  \/ Uncompress(co.out)
  \/ \E n \in 0 .. Len(co.out) - 1 : Uncompress(SubSeq(co.out, 1, n))
  \/ \E i \in DOMAIN co.out, b \in BadBytes : Uncompress([co.out EXCEPT ![i] = b])
  \/ \E n \in 0 .. Max(PieceSizes) : RefillTag(n) \/ LiteralBytes(n)
  \/ Literal \/ CopyTag \/ CheckLength

-----------------------------------------------------------------------------
\* What was compressed is what comes out, whatever words the hash table offered
\* for a match and however the source cuts the stream into pieces.
RoundTrip ==
  co.at = "stored" =>
    /\ de.at # "fail"
    /\ de.at = "ok" => aw.op = Len(co.input) /\ \A i \in DOMAIN co.input : aw.mem[i - 1] = co.input[i]

\* The fast paths move more bytes than they are asked to, yet nothing outside
\* the array is written and nothing behind the input is read, for damaged
\* streams as well; and when one is accepted every byte of the array is one
\* the stream gave.
StaysInside ==
  /\ co.read <= 0
  /\ aw.high <= Max({aw.limit, 0})
  /\ de.at = "ok" => \A i \in 0 .. aw.limit - 1 : aw.mem[i] # Junk0

\* The decompressor reads the bytes behind a tag only when they are buffered.
TagIsWhole == de.at = "tag" => Len(de.buf) >= Extra(de.buf[1]) + 1

\* The compressor loses nothing, and the decompressor touches nothing else.
SnappyIsSound == RoundTrip /\ StaysInside /\ TagIsWhole
=============================================================================
