---------------------------- MODULE TableFormat ----------------------------
(***************************************************************************)
(* A table file of leveldb: TableBuilder fills blocks with prefix-         *)
(* compressed keys (block_builder.cc), an index block with shortened keys  *)
(* and a filter block with a Bloom filter for every kFilterBase bytes of   *)
(* file offset; Table and Block::Iter find keys in it again, with binary   *)
(* search among the restart points.                                        *)
(*                                                                         *)
(* An internal key is [u, s]: the bytes of the user key, a sequence of     *)
(* numbers below Base, and the sequence number.  Offsets inside a block    *)
(* count entries; the size of a block in the file is any of DiskSizes,     *)
(* since it depends on the compression.                                    *)
(***************************************************************************)
EXTENDS Integers, Sequences, FiniteSets, SequencesExt, FiniteSetsExt

CONSTANTS
  Base,                      \* bytes are 0 .. Base - 1
  UserKeys,                  \* the user keys added and looked up
  MaxEntries,                \* bound: entries in a table
  block_size,                \* entries that fill a block
  block_restart_interval,
  kFilterBase,
  DiskSizes,
  FilterBits,                \* bits of a Bloom filter
  Probes                     \* k_

VARIABLES
  tb,            \* the builder, and after Finish the file
  cur            \* an iterator of one of its blocks

tfvars == <<tb, cur>>

Seqs == 1 .. 2
kMaxSequenceNumber == 3
None0 == [block |-> 0, i |-> 0, r |-> 0, key |-> <<>>]

-----------------------------------------------------------------------------
(* Comparators *)

\* Slice::compare of two user keys: bytewise, a prefix comes first.
BytesLess(a, b) ==
  \/ \E i \in 1 .. Len(a) : i <= Len(b) /\ a[i] < b[i] /\ SubSeq(a, 1, i - 1) = SubSeq(b, 1, i - 1)
  \/ Len(a) < Len(b) /\ SubSeq(b, 1, Len(a)) = a

KeyLess(a, b) == BytesLess(a.u, b.u) \/ (a.u = b.u /\ a.s > b.s)

CommonPrefix(a, b) ==
  Max({n \in 0 .. Min({Len(a), Len(b)}) : SubSeq(a, 1, n) = SubSeq(b, 1, n)})

\* BytewiseComparatorImpl::FindShortestSeparator.
Separator(start, limit) ==
  LET d == CommonPrefix(start, limit) + 1 IN
    IF d <= Min({Len(start), Len(limit)}) /\ start[d] < Base - 1 /\ start[d] + 1 < limit[d]
    THEN Append(SubSeq(start, 1, d - 1), start[d] + 1) ELSE start

\* BytewiseComparatorImpl::FindShortSuccessor.
Successor(key) ==
  LET I == {i \in 1 .. Len(key) : key[i] # Base - 1} IN
    IF I = {} THEN key ELSE Append(SubSeq(key, 1, Min(I) - 1), key[Min(I)] + 1)

\* InternalKeyComparator takes the result only when it is shorter and larger.
Shortened(key, tmp) ==
  IF Len(tmp) < Len(key.u) /\ BytesLess(key.u, tmp) THEN [u |-> tmp, s |-> kMaxSequenceNumber] ELSE key
FindShortSuccessor(key) == Shortened(key, Successor(key.u))

\* Mutant: the limit is not looked at.
FindShortestSeparator_succ(key, limit) == FindShortSuccessor(key)

FindShortestSeparator(key, limit) == Shortened(key, Separator(key.u, limit.u))

-----------------------------------------------------------------------------
(* BlockBuilder.  The bytes of an internal key end with its number.        *)

Flat(key) == Append(key.u, Base + kMaxSequenceNumber - key.s)

\* InternalKeyComparator::Compare of two flat keys.
FlatLess(a, b) ==
  KeyLess([u |-> Front(a), s |-> Base + kMaxSequenceNumber - Last(a)],
          [u |-> Front(b), s |-> Base + kMaxSequenceNumber - Last(b)])

EmptyBlock == [es |-> <<>>, restarts |-> <<1>>, counter |-> 0, last |-> <<>>]

BlockAdd(b, interval, key, value) ==
  LET restart == b.counter >= interval
      shared == IF restart THEN 0 ELSE CommonPrefix(b.last, key)
  IN [es |-> Append(b.es, [shared |-> shared, delta |-> SubSeq(key, shared + 1, Len(key)), value |-> value]),
      restarts |-> IF restart THEN Append(b.restarts, Len(b.es) + 1) ELSE b.restarts,
      counter |-> (IF restart THEN 0 ELSE b.counter) + 1, last |-> key]

-----------------------------------------------------------------------------
(* FilterBlockBuilder and the Bloom filter *)

\* The bits BloomFilterPolicy sets and tests: double hashing of the user key.
HashOf(u) == FoldLeft(LAMBDA h, b : (h * 7 + b + 3) % 256, 11, u)
BloomBits(u) ==
  LET h == HashOf(u)
      delta == (h \div 16) + (h % 16) * 16
  IN {((h + j * delta) % 256) % FilterBits : j \in 0 .. Probes - 1}

\* GenerateFilter: a filter for the keys since the last one.
GenerateFilter(t) ==
  [t EXCEPT !.filters = Append(@, UNION {BloomBits(u) : u \in t.keys}), !.keys = {}]

\* StartBlock: filters up to the one the offset belongs to.
StartBlock(t, offset) ==
  LET n == (offset \div kFilterBase) - Len(t.filters) IN
    FoldLeft(LAMBDA d, i : GenerateFilter(d), t, [i \in 1 .. n |-> i])

-----------------------------------------------------------------------------
(* TableBuilder *)

TableInit ==
  /\ tb = [data |-> EmptyBlock, blocks |-> <<>>, index |-> EmptyBlock, offset |-> 0, pending |-> FALSE,
           last |-> <<>>, n |-> 0, filters |-> <<>>, keys |-> {}, added |-> <<>>, at |-> "build", bad |-> 0]
  /\ cur = None0

\* The index entry of the block before: its handle is its place and offset.
AddIndex(t, key) ==
  [t EXCEPT !.index = BlockAdd(@, 1, Flat(key), Len(t.blocks)), !.pending = FALSE]

\* Flush: write the block, start the next one's filter.
Flush(t, size) ==
  IF t.data.es = <<>> THEN t
  ELSE StartBlock([t EXCEPT !.blocks = Append(@, [t.data EXCEPT !.counter = t.offset]), !.data = EmptyBlock,
                            !.offset = @ + size, !.pending = TRUE],
                  t.offset + size)

TableAdd(key, size) ==
  /\ tb.at = "build" /\ tb.n < MaxEntries
  /\ tb.n > 0 => KeyLess(tb.last, key)
  /\ LET t == IF tb.pending THEN AddIndex(tb, FindShortestSeparator(tb.last, key)) ELSE tb
         d == [t EXCEPT !.keys = @ \cup {key.u}, !.last = key, !.n = @ + 1, !.added = Append(@, key),
                        !.data = BlockAdd(@, block_restart_interval, Flat(key), t.n + 1)]
     IN tb' = IF Len(d.data.es) >= block_size THEN Flush(d, size) ELSE d
  /\ UNCHANGED cur

\* Finish, and Table::Open: the filter is used if it can be read, and one block
\* may be unreadable.
Finish(size, filter, bad) ==
  /\ tb.at = "build" /\ tb.n > 0
  /\ LET t == Flush(tb, size)
         f == IF t.keys # {} THEN GenerateFilter(t) ELSE t
         i == IF f.pending THEN AddIndex(f, FindShortSuccessor(f.last)) ELSE f
     IN /\ bad \in 0 .. Len(i.blocks)
        /\ tb' = [i EXCEPT !.at = IF filter THEN "filter" ELSE "plain", !.bad = bad]
  /\ UNCHANGED cur

-----------------------------------------------------------------------------
(* Block::Iter.  Keys are flat.                                            *)

\* ParseNextKey from restart point r on: the keys of the entries up to i.
KeyAt(b, r, i) ==
  FoldLeft(LAMBDA k, e : SubSeq(k, 1, e.shared) \o e.delta, <<>>, SubSeq(b.es, b.restarts[r], i))

\* restart_index_ after parsing entry i from restart point r on.
RestartIndex(b, r, i) == Max({x \in r .. Len(b.restarts) : x = r \/ b.restarts[x] < i})

\* The binary search of Seek.
SeekRestart(b, t) ==
  LET s[l \in 1 .. Len(b.restarts), r \in 1 .. Len(b.restarts)] ==
        IF l >= r THEN l
        ELSE LET mid == (l + r + 1) \div 2 IN
               IF FlatLess(b.es[b.restarts[mid]].delta, t) THEN s[mid, r] ELSE s[l, mid - 1]
  IN s[1, Len(b.restarts)]

\* Seek: the first entry at or behind t, 0 if there is none.
BlockSeek(b, t) ==
  LET r == SeekRestart(b, t) IN
    Min({i \in b.restarts[r] .. Len(b.es) : ~FlatLess(KeyAt(b, r, i), t)} \cup {Len(b.es) + 1})

Iter(n, b, r, i) ==
  IF i \in 1 .. Len(b.es) THEN [block |-> n, i |-> i, r |-> RestartIndex(b, r, i), key |-> KeyAt(b, r, i)]
  ELSE [block |-> n, i |-> 0, r |-> Len(b.restarts), key |-> <<>>]

IterSeek(n, t) ==
  LET b == tb.blocks[n] IN
    /\ tb.at # "build" /\ n # tb.bad
    /\ cur' = Iter(n, b, SeekRestart(b, Flat(t)), BlockSeek(b, Flat(t)))
    /\ UNCHANGED tb
IterSeekToLast(n) ==
  LET b == tb.blocks[n] IN
    /\ tb.at # "build" /\ n # tb.bad
    /\ cur' = Iter(n, b, Len(b.restarts), Len(b.es))
    /\ UNCHANGED tb
IterNextKey ==
  LET b == tb.blocks[cur.block]
      k == IF cur.i < Len(b.es) THEN SubSeq(cur.key, 1, b.es[cur.i + 1].shared) \o b.es[cur.i + 1].delta ELSE <<>>
  IN /\ cur.i > 0
     /\ cur' = IF cur.i < Len(b.es) THEN [cur EXCEPT !.i = @ + 1, !.r = RestartIndex(b, cur.r, cur.i + 1), !.key = k]
               ELSE Iter(cur.block, b, 1, 0)
     /\ UNCHANGED tb

\* Prev: back to a restart point in front of the entry, and forward again.
IterPrevKey ==
  LET b == tb.blocks[cur.block]
      R == {x \in 1 .. cur.r : b.restarts[x] < cur.i}
  IN /\ cur.i > 0
     /\ cur' = IF R = {} THEN Iter(cur.block, b, 1, 0) ELSE Iter(cur.block, b, Max(R), cur.i - 1)
     /\ UNCHANGED tb

-----------------------------------------------------------------------------
(* Table *)

\* FilterBlockReader::KeyMayMatch for a block at this offset.
KeyMayMatch(offset, u) ==
  LET i == (offset \div kFilterBase) + 1 IN
    i <= Len(tb.filters) => tb.filters[i] # {} /\ BloomBits(u) \subseteq tb.filters[i]

\* InternalGet: the entry handed to the saver, 0 for none, -1 for an error.
InternalGet(t) ==
  LET i == BlockSeek(tb.index, Flat(t))
      n == tb.index.es[i].value
      b == tb.blocks[n]
      e == BlockSeek(b, Flat(t))
  IN IF i > Len(tb.index.es) THEN 0
     ELSE IF tb.at = "filter" /\ ~KeyMayMatch(b.counter, t.u) THEN 0
     ELSE IF n = tb.bad THEN -1
     ELSE IF e > Len(b.es) THEN 0 ELSE b.es[e].value

TableNext ==
  \/ \E u \in UserKeys, s \in Seqs, size \in DiskSizes : TableAdd([u |-> u, s |-> s], size)
  \/ \E size \in DiskSizes, filter \in BOOLEAN, bad \in 0 .. MaxEntries : Finish(size, filter, bad)
  \/ \E n \in DOMAIN tb.blocks :
       IterSeekToLast(n) \/ \E u \in UserKeys, s \in Seqs : IterSeek(n, [u |-> u, s |-> s])
  \/ IterNextKey \/ IterPrevKey

-----------------------------------------------------------------------------
\* A lookup of a user key as of a sequence number finds the newest entry up to
\* it, through the index, the filter and the restart points, unless the block
\* it is in cannot be read.  No shortened index key and no filter hides it.
TableFinds ==
  tb.at # "build" =>
    \A u \in UserKeys, s \in Seqs :
      LET M == {i \in DOMAIN tb.added : tb.added[i].u = u /\ tb.added[i].s <= s}
          g == InternalGet([u |-> u, s |-> s])
      IN M # {} => g = Min(M) \/ (g = -1 /\ tb.bad # 0)

\* An iterator of a block shows the key that was added at its place, however
\* it has got there.
BlockIterIsRight ==
  cur.i > 0 => cur.key = Flat(tb.added[tb.blocks[cur.block].es[cur.i].value])

\* Compressing keys, shortening them and filtering never hides an entry.
TableIsSound == TableFinds /\ BlockIterIsRight
=============================================================================
