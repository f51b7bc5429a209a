------------------------------ MODULE Records -------------------------------
(***************************************************************************)
(* The two records leveldb lives on: a WriteBatch, which is written to the *)
(* log and applied from there, and a VersionEdit, which is written to the  *)
(* manifest (write_batch.cc, version_edit.cc), byte by byte as coding.cc   *)
(* writes them.  The bytes read may be a part of those written only.       *)
(*                                                                         *)
(* A byte holds a group of GroupBits bits and one more (7 and 1 in the     *)
(* code), numbers have Width32 or Width64 bits.  Slices are sequences of   *)
(* bytes.                                                                  *)
(***************************************************************************)
EXTENDS Integers, Sequences, SequencesExt, FiniteSetsExt

CONSTANTS
  GroupBits, Width32, Width64,
  FixedBytes32, FixedBytes64,  \* bytes of a fixed32 and a fixed64
  kNumLevels,
  Slices,                      \* keys and values of the operations
  Edits,                       \* the edits to write, see NoEdit
  MaxOps                       \* bound: operations in both batches

VARIABLES
  batch,         \* the batches 1 and 2: rep_, and the operations put in (history)
  reading,       \* the batch that is applied, and what has come of it
  parsing        \* the edit that is read, likewise

rcvars == <<batch, reading, parsing>>

NotReading == [status |-> "none", input |-> <<>>, all |-> FALSE, found |-> 0, applied |-> <<>>]

-----------------------------------------------------------------------------
(* coding.cc: a read answers a value and the rest of the input, or fails. *)

Bit == 2 ^ GroupBits
GroupsOf(width) == (width + GroupBits - 1) \div GroupBits
Bad == [ok |-> FALSE, value |-> 0, rest |-> <<>>]

EncodeFixed(v, n) == [i \in 1 .. n |-> (v \div (2 * Bit) ^ (i - 1)) % (2 * Bit)]
DecodeFixed(b) == FoldRight(LAMBDA d, n : 2 * Bit * n + d, b, 0)

VarintLength(v) == CHOOSE n \in 1 .. GroupsOf(Width64) : v < Bit ^ n /\ (n = 1 \/ v >= Bit ^ (n - 1))
EncodeVarint64(v) ==
  LET n == VarintLength(v)
  IN [i \in 1 .. n |-> ((v \div Bit ^ (i - 1)) % Bit) + (IF i < n THEN Bit ELSE 0)]
\* Unrolled in the code; the last of its bytes takes what is left.
EncodeVarint32(v) ==
  LET g == GroupsOf(Width32)
      n == CHOOSE k \in 1 .. g : (k = g \/ v < Bit ^ k) /\ \A j \in 1 .. k - 1 : v >= Bit ^ j
  IN [i \in 1 .. n |-> IF i < n THEN ((v \div Bit ^ (i - 1)) % Bit) + Bit ELSE v \div Bit ^ (i - 1)]

GetVarint(input, width) ==
  LET ends == {i \in 1 .. Min({Len(input), GroupsOf(width)}) : input[i] < Bit} IN
    IF ends = {} THEN Bad
    ELSE LET n == Min(ends) IN
         [ok |-> TRUE,
          value |-> FoldRight(LAMBDA d, v : Bit * v + (d % Bit), SubSeq(input, 1, n), 0) % 2 ^ width,
          rest |-> SubSeq(input, n + 1, Len(input))]
GetVarint32(input) == GetVarint(input, Width32)
GetVarint64(input) == GetVarint(input, Width64)

PutLengthPrefixedSlice(s) == EncodeVarint32(Len(s)) \o s

GetLengthPrefixedSlice(input) ==
  LET l == GetVarint32(input) IN
    IF l.ok /\ Len(l.rest) >= l.value
      THEN [ok |-> TRUE, value |-> SubSeq(l.rest, 1, l.value),
            rest |-> SubSeq(l.rest, l.value + 1, Len(l.rest))]
      ELSE Bad

-----------------------------------------------------------------------------
(* WriteBatch *)

kTypeDeletion == 0
kTypeValue == 1
kHeader == FixedBytes64 + FixedBytes32

Sequence(rep) == DecodeFixed(SubSeq(rep, 1, FixedBytes64))
Count(rep) == DecodeFixed(SubSeq(rep, FixedBytes64 + 1, kHeader))
Body(rep) == SubSeq(rep, kHeader + 1, Len(rep))
Header(seq, count) == EncodeFixed(seq, FixedBytes64) \o EncodeFixed(count, FixedBytes32)

Cleared == [rep |-> Header(0, 0), ops |-> <<>>]
Op(put, key, value) == [put |-> put, key |-> key, value |-> value]

\* SetCount with one more, and the bytes of the operation.
AddOp(b, op, bytes) ==
  LET rep == batch[b].rep IN
  /\ reading = NotReading /\ Len(batch[1].ops) + Len(batch[2].ops) < MaxOps
  /\ batch' = [batch EXCEPT ![b] = [rep |-> Header(Sequence(rep), Count(rep) + 1) \o Body(rep) \o bytes,
                                    ops |-> Append(@.ops, op)]]
  /\ UNCHANGED <<reading, parsing>>
BatchPut(b, key, value) ==
  AddOp(b, Op(TRUE, key, value), <<kTypeValue>> \o PutLengthPrefixedSlice(key) \o PutLengthPrefixedSlice(value))
BatchDelete(b, key) == AddOp(b, Op(FALSE, key, <<>>), <<kTypeDeletion>> \o PutLengthPrefixedSlice(key))

\* Mutant: the count stays that of the first batch.
BatchAppend_count ==
  LET dst == batch[1] src == batch[2] IN
  /\ reading = NotReading
  /\ batch' = [batch EXCEPT ![1] = [rep |-> dst.rep \o Body(src.rep), ops |-> dst.ops \o src.ops],
                            ![2] = Cleared]
  /\ UNCHANGED <<reading, parsing>>

\* WriteBatchInternal::Append: a writer's batch joins a group; it is not used
\* again.
BatchAppend ==
  LET dst == batch[1] src == batch[2] IN
  /\ reading = NotReading
  /\ batch' = [batch EXCEPT ![1] = [rep |-> Header(Sequence(dst.rep), Count(dst.rep) + Count(src.rep))
                                             \o Body(dst.rep) \o Body(src.rep),
                                    ops |-> dst.ops \o src.ops],
                            ![2] = Cleared]
  /\ UNCHANGED <<reading, parsing>>

\* SetSequence, then SetContents with the first n bytes, and Iterate begins.
\* A record shorter than the header is not applied at all.
IterateStart(seq, n) ==
  LET rep == Header(seq, Count(batch[1].rep)) \o Body(batch[1].rep) IN
  /\ reading = NotReading /\ n \in kHeader .. Len(rep)
  /\ batch' = [batch EXCEPT ![1].rep = rep]
  /\ reading' = [status |-> "running", input |-> Body(SubSeq(rep, 1, n)), all |-> n = Len(rep),
                 found |-> 0, applied |-> <<>>]
  /\ UNCHANGED parsing

\* One round of the loop: MemTableInserter counts the sequence numbers.
IterateOne ==
  LET tag  == reading.input[1]
      key  == GetLengthPrefixedSlice(Tail(reading.input))
      val  == GetLengthPrefixedSlice(key.rest)
      Insert(op, rest) ==
        reading' = [reading EXCEPT !.input = rest, !.found = @ + 1,
                                   !.applied = Append(@, <<Sequence(batch[1].rep) + Len(@), op>>)]
  IN
  /\ reading.status = "running" /\ reading.input # <<>>
  /\ \/ tag = kTypeValue /\ key.ok /\ val.ok /\ Insert(Op(TRUE, key.value, val.value), val.rest)
     \/ tag = kTypeDeletion /\ key.ok /\ Insert(Op(FALSE, key.value, <<>>), key.rest)
     \/ /\ ~(tag = kTypeValue /\ key.ok /\ val.ok) /\ ~(tag = kTypeDeletion /\ key.ok)
        /\ reading' = [reading EXCEPT !.status = "corruption"]
  /\ UNCHANGED <<batch, parsing>>
IterateEnd ==
  /\ reading.status = "running" /\ reading.input = <<>>
  /\ reading' = [reading EXCEPT !.status = IF reading.found # Count(batch[1].rep) THEN "corruption" ELSE "ok"]
  /\ UNCHANGED <<batch, parsing>>

-----------------------------------------------------------------------------
(* VersionEdit: five fields that may be absent, pairs of a level and a     *)
(* key, a set of pairs of a level and a number, and new files.             *)

Absent == <<>>
NoEdit == [comparator |-> Absent, log_number |-> Absent, prev_log_number |-> Absent,
           next_file_number |-> Absent, last_sequence |-> Absent,
           compact_pointers |-> <<>>, deleted_files |-> {}, new_files |-> <<>>]

kComparator == 1
kLogNumber == 2
kNextFileNumber == 3
kLastSequence == 4
kCompactPointer == 5
kDeletedFile == 6
kNewFile == 7
kPrevLogNumber == 9

\* A field that is there is a sequence of one element.
NumberField(tag, f) == IF f = Absent THEN <<>> ELSE EncodeVarint32(tag) \o EncodeVarint64(f[1])
\* The files to delete, as std::set orders them.
ByLevel(S) == SetToSortSeq(S, LAMBDA a, b : a[1] < b[1] \/ (a[1] = b[1] /\ a[2] < b[2]))
EncodeTo(e) ==
  (IF e.comparator = Absent THEN <<>> ELSE EncodeVarint32(kComparator) \o PutLengthPrefixedSlice(e.comparator[1]))
  \o NumberField(kLogNumber, e.log_number) \o NumberField(kPrevLogNumber, e.prev_log_number)
  \o NumberField(kNextFileNumber, e.next_file_number) \o NumberField(kLastSequence, e.last_sequence)
  \o FlattenSeq([i \in DOMAIN e.compact_pointers |->
       EncodeVarint32(kCompactPointer) \o EncodeVarint32(e.compact_pointers[i][1])
         \o PutLengthPrefixedSlice(e.compact_pointers[i][2])])
  \o LET gone == ByLevel(e.deleted_files) IN
     FlattenSeq([i \in DOMAIN gone |->
       EncodeVarint32(kDeletedFile) \o EncodeVarint32(gone[i][1]) \o EncodeVarint64(gone[i][2])])
  \o FlattenSeq([i \in DOMAIN e.new_files |->
       LET f == e.new_files[i] IN
       EncodeVarint32(kNewFile) \o EncodeVarint32(f.level) \o EncodeVarint64(f.number)
         \o EncodeVarint64(f.file_size) \o PutLengthPrefixedSlice(f.smallest)
         \o PutLengthPrefixedSlice(f.largest)])

GetLevel(input) == LET l == GetVarint32(input) IN IF l.ok /\ l.value < kNumLevels THEN l ELSE Bad

\* DecodeFrom of the first n bytes; Clear leaves the compact pointers alone.
DecodeStart(e, n) ==
  /\ parsing.status = "none" /\ n \in 0 .. Len(EncodeTo(e))
  /\ parsing' = [status |-> "running", of |-> e, bytes |-> SubSeq(EncodeTo(e), 1, n),
                 input |-> SubSeq(EncodeTo(e), 1, n), edit |-> NoEdit]
  /\ UNCHANGED <<batch, reading>>

\* One round of the loop: a tag and its field.
DecodeField ==
  LET tag   == GetVarint32(parsing.input)
      str   == GetLengthPrefixedSlice(tag.rest)
      num   == GetVarint64(tag.rest)
      level == GetLevel(tag.rest)
      key   == GetLengthPrefixedSlice(level.rest)
      file  == GetVarint64(level.rest)
      size  == GetVarint64(file.rest)
      small == GetLengthPrefixedSlice(size.rest)
      large == GetLengthPrefixedSlice(small.rest)
      Take(ok, e, rest) ==
        parsing' = IF ok THEN [parsing EXCEPT !.edit = e, !.input = rest]
                   ELSE [parsing EXCEPT !.status = "corruption"]
      e == parsing.edit
  IN
  /\ parsing.status = "running" /\ tag.ok
  /\ CASE tag.value = kComparator      -> Take(str.ok, [e EXCEPT !.comparator = <<str.value>>], str.rest)
       [] tag.value = kLogNumber       -> Take(num.ok, [e EXCEPT !.log_number = <<num.value>>], num.rest)
       [] tag.value = kPrevLogNumber   -> Take(num.ok, [e EXCEPT !.prev_log_number = <<num.value>>], num.rest)
       [] tag.value = kNextFileNumber  -> Take(num.ok, [e EXCEPT !.next_file_number = <<num.value>>], num.rest)
       [] tag.value = kLastSequence    -> Take(num.ok, [e EXCEPT !.last_sequence = <<num.value>>], num.rest)
       [] tag.value = kCompactPointer  ->
            Take(level.ok /\ key.ok, [e EXCEPT !.compact_pointers = Append(@, <<level.value, key.value>>)], key.rest)
       [] tag.value = kDeletedFile     ->
            Take(level.ok /\ file.ok, [e EXCEPT !.deleted_files = @ \cup {<<level.value, file.value>>}], file.rest)
       [] tag.value = kNewFile         ->
            Take(level.ok /\ file.ok /\ size.ok /\ small.ok /\ large.ok,
                 [e EXCEPT !.new_files = Append(@, [level |-> level.value, number |-> file.value,
                                                    file_size |-> size.value, smallest |-> small.value,
                                                    largest |-> large.value])], large.rest)
       [] OTHER                        -> Take(FALSE, e, <<>>)
  /\ UNCHANGED <<batch, reading>>
DecodeEnd ==
  /\ parsing.status = "running" /\ ~GetVarint32(parsing.input).ok
  /\ parsing' = [parsing EXCEPT !.status = IF parsing.input # <<>> THEN "corruption" ELSE "ok"]
  /\ UNCHANGED <<batch, reading>>

-----------------------------------------------------------------------------
RecordsInit ==
  /\ batch = [b \in 1 .. 2 |-> Cleared]
  /\ reading = NotReading
  /\ parsing = [status |-> "none", of |-> NoEdit, bytes |-> <<>>, input |-> <<>>, edit |-> NoEdit]

\* A behaviour is about a batch or about an edit.
RecordsNext ==
  \/ /\ parsing.status = "none"
     /\ \/ \E b \in DOMAIN batch, k \in Slices : BatchDelete(b, k) \/ \E v \in Slices : BatchPut(b, k, v)
        \/ batch[2] # Cleared /\ BatchAppend
        \/ batch[2] = Cleared /\ \E n \in kHeader .. Len(batch[1].rep) : IterateStart(5, n)
        \/ IterateOne
        \/ IterateEnd
  \/ /\ reading = NotReading /\ \A b \in DOMAIN batch : batch[b] = Cleared
     /\ \/ \E e \in Edits : \E n \in 0 .. Len(EncodeTo(e)) : DecodeStart(e, n)
        \/ DecodeField
        \/ DecodeEnd

-----------------------------------------------------------------------------
\* Of a batch, grown by its own operations and by joining others, exactly the
\* operations come out, in order and with consecutive sequence numbers; what
\* is applied of one that was cut is a beginning of them, and it is reported.
BatchIsWhole ==
  LET want == [i \in DOMAIN batch[1].ops |-> <<Sequence(batch[1].rep) + i - 1, batch[1].ops[i]>>] IN
    /\ IsPrefix(reading.applied, want)
    /\ reading.status = "ok" => reading.applied = want
    /\ reading.all => reading.status # "corruption"

\* The edit that is read is the one written; of one that was cut, the part
\* that is accepted has the very bytes that were read, so that no field is
\* made up from half of its bytes.
EditIsWhole ==
  /\ parsing.status = "ok" => EncodeTo(parsing.edit) = parsing.bytes
  /\ parsing.bytes = EncodeTo(parsing.of) =>
       parsing.status # "corruption" /\ (parsing.status = "ok" => parsing.edit = parsing.of)

\* What is read of a batch or an edit is what was written of it.
RecordsAreWhole == BatchIsWhole /\ EditIsWhole
=============================================================================
