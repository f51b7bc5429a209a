------------------------------ MODULE DataKeys ------------------------------
(***************************************************************************)
(* Where things are in leveldb: the keys of the rows of the data types     *)
(* (t_kv.h, t_hash.h, t_zset.h, t_queue.h and binlog.cpp), the Decoder of  *)
(* bytes.h that takes them apart, and the scans that rely on their order   *)
(* (scan, hscan, hlist and the like, key_range); and setbit and getbit.    *)
(*                                                                         *)
(* Bytes are numbers.  A number has NumberBytes bytes (8 in the code) and  *)
(* the byte with a length counts modulo SSDB_KEY_LEN_MAX + 1 (255 in the   *)
(* code), so that both limits are within reach.                            *)
(***************************************************************************)
EXTENDS Integers, Sequences, SequencesExt, FiniteSetsExt

CONSTANTS
  Words,              \* names and keys, also ones that are too long
  QueueSeqs,          \* sequence numbers of items and of log records
  NumberBytes,
  SSDB_KEY_LEN_MAX,
  MaxThings,          \* bound: things in the database
  Offsets             \* arguments of setbit

VARIABLES
  things,             \* what is stored
  bits,               \* the value setbit works on, a sequence of bytes
  ones                \* history: the bits that were switched on

dkvars == <<things, bits, ones>>

-----------------------------------------------------------------------------
(* Encoding. *)

SYNCLOG == 1
HSIZE == 72
QSIZE == 81
ZSIZE == 90
HASH == 104
KV == 107
QUEUE == 113
ZSET == 115
ZSCORE == 122
Equals == 61
Xff == 255

big_endian(n) == [i \in 1 .. NumberBytes |-> (n \div 256 ^ (NumberBytes - i)) % 256]
FromBigEndian(b) == FoldLeft(LAMBDA n, d : 256 * n + d, 0, b)

LengthByte(w) == Len(w) % (SSDB_KEY_LEN_MAX + 1)
Sized(w) == <<LengthByte(w)>> \o w

encode_kv_key(key) == <<KV>> \o key
encode_hsize_key(name) == <<HSIZE>> \o name
encode_zsize_key(name) == <<ZSIZE>> \o name
encode_qsize_key(name) == <<QSIZE>> \o name
encode_hash_key(name, key) == <<HASH>> \o Sized(name) \o <<Equals>> \o key
encode_zset_key(name, key) == <<ZSET>> \o Sized(name) \o Sized(key)
encode_qitem_key(name, seq) == <<QUEUE>> \o Sized(name) \o big_endian(seq)
encode_seq_key(seq) == <<SYNCLOG>> \o big_endian(seq)
\* encode_zscore_key, with the score 0 (SSDBZset has the order of scores).
ScoreKey(name, key) == <<ZSCORE>> \o Sized(name) \o <<Equals>> \o big_endian(0) \o <<Equals>> \o key

-----------------------------------------------------------------------------
(* Decoding: a read takes bytes from the front or fails. *)

Fail == [ok |-> FALSE, data |-> <<>>, rest |-> <<>>]
skip(d, n) ==
  IF Len(d) < n THEN Fail
  ELSE [ok |-> TRUE, data |-> SubSeq(d, 1, n), rest |-> SubSeq(d, n + 1, Len(d))]
read_8_data(d) == IF d = <<>> THEN Fail ELSE skip(Tail(d), d[1])
read_uint64(d) == skip(d, NumberBytes)

decode_kv_key(s) == LET t == skip(s, 1) IN [ok |-> t.ok, name |-> t.rest]
decode_hsize_key(s) == LET t == skip(s, 1) IN [ok |-> t.ok, name |-> t.rest]
decode_zsize_key(s) == LET t == skip(s, 1) IN [ok |-> t.ok, name |-> t.rest]
decode_qsize_key(s) == LET t == skip(s, 1) IN [ok |-> t.ok, name |-> t.rest]

decode_hash_key(s) ==
  LET n == read_8_data(skip(s, 1).rest)
      e == skip(n.rest, 1)
  IN [ok |-> n.ok /\ e.ok, name |-> n.data, key |-> e.rest]
decode_zset_key(s) ==
  LET n == read_8_data(skip(s, 1).rest)
      k == read_8_data(n.rest)
  IN [ok |-> n.ok /\ k.ok, name |-> n.data, key |-> k.data]
decode_qitem_key(s) ==
  LET n == read_8_data(skip(s, 1).rest)
      q == read_uint64(n.rest)
  IN [ok |-> n.ok /\ q.ok, name |-> n.data, seq |-> FromBigEndian(q.data)]
\* 0 for what is not a log record.
decode_seq_key(s) ==
  IF Len(s) = NumberBytes + 1 /\ s[1] = SYNCLOG THEN FromBigEndian(Tail(s)) ELSE 0

-----------------------------------------------------------------------------
(* Rows and things.  A thing is a kv pair, a field, a member or an item.   *)

Thing(kind, name, key) == [kind |-> kind, name |-> name, key |-> key, seq |-> 0]
Numbered(kind, name, seq) == [kind |-> kind, name |-> name, key |-> <<>>, seq |-> seq]
KeyRow(x) ==
  CASE x.kind = "kv"    -> encode_kv_key(x.key)
    [] x.kind = "hash"  -> encode_hash_key(x.name, x.key)
    [] x.kind = "zset"  -> encode_zset_key(x.name, x.key)
    [] x.kind = "queue" -> encode_qitem_key(x.name, x.seq)
    [] x.kind = "log"   -> encode_seq_key(x.seq)
OtherRows(x) ==
  CASE x.kind = "hash"  -> {encode_hsize_key(x.name)}
    [] x.kind = "zset"  -> {encode_zsize_key(x.name), ScoreKey(x.name, x.key)}
    [] x.kind = "queue" -> {encode_qsize_key(x.name)}
    [] OTHER            -> {}
Decoded(row) ==
  CASE row[1] = KV      -> LET d == decode_kv_key(row) IN Thing("kv", <<>>, d.name)
    [] row[1] = HASH    -> LET d == decode_hash_key(row) IN Thing("hash", d.name, d.key)
    [] row[1] = ZSET    -> LET d == decode_zset_key(row) IN Thing("zset", d.name, d.key)
    [] row[1] = QUEUE   -> LET d == decode_qitem_key(row) IN Numbered("queue", d.name, d.seq)
    [] row[1] = SYNCLOG -> Numbered("log", <<>>, decode_seq_key(row))

AllThings ==
  {Thing("kv", <<>>, k) : k \in Words} \cup {Numbered("log", <<>>, s) : s \in QueueSeqs}
    \cup {Thing(kind, n, k) : kind \in {"hash", "zset"}, n \in Words, k \in Words}
    \cup {Numbered("queue", n, s) : n \in Words, s \in QueueSeqs}

\* Mutant: only the name is looked at.
Accepted_name(x) == Len(x.name) <= SSDB_KEY_LEN_MAX

\* What hset_one, zset_one, qset_one and set let through.
Accepted(x) ==
  Len(x.name) <= SSDB_KEY_LEN_MAX /\ Len(x.key) <= SSDB_KEY_LEN_MAX

-----------------------------------------------------------------------------
(* Scans. *)

Less(a, b) ==
  \E i \in DOMAIN b : /\ i > Len(a) \/ a[i] < b[i]
                      /\ \A j \in 1 .. i - 1 : j <= Len(a) /\ a[j] = b[j]
Sorted(S) ==
  [i \in 1 .. Cardinality(S) |-> CHOOSE w \in S : Cardinality({v \in S : Less(v, w)}) = i - 1]
Database == UNION {{KeyRow(x)} \cup OtherRows(x) : x \in things}
Rows == Sorted(Database)

FirstOf(s, limit) == SubSeq(s, 1, Min({limit, Len(s)}))
While(s, Test(_)) ==
  SubSeq(s, 1, Max({i \in 0 .. Len(s) : \A j \in 1 .. i : Test(s[j])}))

\* SSDBImpl::iterator and rev_iterator, without the row at `start', to `end'
\* unless that is empty.
iterator(rows, start, end, limit) ==
  FirstOf(While(SelectSeq(rows, LAMBDA r : Less(start, r)), LAMBDA r : end = <<>> \/ ~Less(end, r)), limit)
rev_iterator(rows, start, end, limit) ==
  FirstOf(While(Reverse(SelectSeq(rows, LAMBDA r : Less(r, start))),
                LAMBDA r : end = <<>> \/ ~Less(r, end)), limit)

\* KIterator::next, get_hnames, get_znames, get_qnames.
Names(rows, type) ==
  LET s == While(rows, LAMBDA r : r[1] = type)
      NameOf(r) ==
        CASE type = KV    -> decode_kv_key(r).name    [] type = HSIZE -> decode_hsize_key(r).name
          [] type = ZSIZE -> decode_zsize_key(r).name [] type = QSIZE -> decode_qsize_key(r).name
  IN [i \in DOMAIN s |-> NameOf(s[i])]
\* HIterator::next.
FieldsOf(rows, name) ==
  LET s == While(rows, LAMBDA r : r[1] = HASH /\ decode_hash_key(r).name = name)
  IN [i \in DOMAIN s |-> decode_hash_key(s[i]).key]

\* The row of a name, and the end of a scan, empty if it has none.
RowOf(type, name) == <<type>> \o name
ScanEnd(row, arg) == IF arg = <<>> THEN <<>> ELSE row

NamesUp(rows, type, start, end, limit) ==
  Names(iterator(rows, RowOf(type, start), ScanEnd(RowOf(type, end), end), limit), type)

NamesDown(rows, type, start, end, limit) ==
  LET from == RowOf(type, start) \o (IF start = <<>> THEN <<Xff>> ELSE <<>>)
  IN Names(rev_iterator(rows, from, ScanEnd(RowOf(type, end), end), limit), type)

scan(rows, start, end, limit)   == NamesUp(rows, KV, start, end, limit)
rscan(rows, start, end, limit)  == NamesDown(rows, KV, start, end, limit)
hlist(rows, start, end, limit)  == NamesUp(rows, HSIZE, start, end, limit)
hrlist(rows, start, end, limit) == NamesDown(rows, HSIZE, start, end, limit)
zlist(rows, start, end, limit)  == NamesUp(rows, ZSIZE, start, end, limit)
zrlist(rows, start, end, limit) == NamesDown(rows, ZSIZE, start, end, limit)
qlist(rows, start, end, limit)  == NamesUp(rows, QSIZE, start, end, limit)
qrlist(rows, start, end, limit) == NamesDown(rows, QSIZE, start, end, limit)

FieldScan(rows, name, start, end, limit) ==
  FieldsOf(iterator(rows, encode_hash_key(name, start),
                  ScanEnd(encode_hash_key(name, end), end), limit), name)
FieldRscan(rows, name, start, end, limit) ==
  LET from == encode_hash_key(name, start) \o (IF start = <<>> THEN <<Xff>> ELSE <<>>)
  IN FieldsOf(rev_iterator(rows, from, ScanEnd(encode_hash_key(name, end), end), limit), name)

\* The first and the last name of a type, empty if there is none.
key_range(rows, type) ==
  LET first == Names(iterator(rows, RowOf(type, <<>>), <<>>, 1), type)
      last  == Names(rev_iterator(rows, RowOf(type, <<Xff>>), <<>>, 1), type)
  IN <<IF first = <<>> THEN <<>> ELSE first[1], IF last = <<>> THEN <<>> ELSE last[1]>>

-----------------------------------------------------------------------------
(* Bits, the first one of a byte being its highest. *)

BitOf(byte, b) == (byte \div 2 ^ b) % 2

setbit(offset, on) ==
  LET len == offset \div 8
      bit == 7 - (offset % 8)
      val == [i \in 1 .. Max({len + 1, Len(bits)}) |-> IF i <= Len(bits) THEN bits[i] ELSE 0]
      was == BitOf(val[len + 1], bit)
  IN /\ bits' = [val EXCEPT ![len + 1] = @ + ((IF on THEN 1 ELSE 0) - was) * 2 ^ bit]
     /\ ones' = IF on THEN ones \cup {offset} ELSE ones \ {offset}
     /\ UNCHANGED things

getbit(offset) ==
  LET len == offset \div 8 IN
    IF len >= Len(bits) THEN 0 ELSE BitOf(bits[len + 1], 7 - (offset % 8))

\* del of the key setbit works on.
DropBits == bits' = <<>> /\ ones' = {} /\ UNCHANGED things

Store(x) ==
  /\ Accepted(x)
  /\ Cardinality(things) < MaxThings
  /\ things' = things \cup {x}
  /\ UNCHANGED <<bits, ones>>
Drop(x) == things' = things \ {x} /\ UNCHANGED <<bits, ones>>

DataKeysInit == things = {} /\ bits = <<>> /\ ones = {}
DataKeysNext ==
  \/ bits = <<>> /\ \E x \in AllThings : x \notin things /\ Store(x)
  \/ \E x \in things : Drop(x)
  \/ things = {} /\ \E o \in Offsets, on \in BOOLEAN : setbit(o, on)
  \/ bits # <<>> /\ DropBits

-----------------------------------------------------------------------------
\* A row leads back to the thing it was written for, numbers sort like their
\* rows, and a look-up finds a row only if that very thing was stored: the
\* calls that read do not check lengths, and a name that is too long has a
\* length byte that belongs to a shorter one.
KeysAreFaithful ==
  /\ \A x \in things : Decoded(KeyRow(x)) = x
  /\ \A x, y \in things :
       x.kind = y.kind /\ x.kind \in {"queue", "log"} /\ x.name = y.name =>
         (x.seq < y.seq <=> Less(KeyRow(x), KeyRow(y)))
  /\ things # {} => \A x \in AllThings : KeyRow(x) \in Database => x \in things

\* What a scan should show: the words above start, up to end, and first those
\* next to start.  The reverse scans that are given no start begin at byte 255
\* and so pass over what begins with it.
Up(W, start, end, limit) ==
  FirstOf(Sorted({w \in W : Less(start, w) /\ (end = <<>> \/ ~Less(end, w))}), limit)
Down(W, start, end, limit) ==
  FirstOf(Reverse(Sorted({w \in W : /\ IF start = <<>> THEN w[1] # Xff ELSE Less(w, start)
                                    /\ end = <<>> \/ ~Less(w, end)})), limit)

\* Scans of names and of fields show what lies in their range, in order and
\* nothing of another name or type, whatever else is stored around it;
\* key_range has the ends.
ScansAreRight ==
  \A rows \in {Rows} :   \* one evaluation
  LET Keys == {x.key : x \in {y \in things : y.kind = "kv"}}
      hashes == {x.name : x \in {y \in things : y.kind = "hash"}}
      zsets  == {x.name : x \in {y \in things : y.kind = "zset"}}
      queues == {x.name : x \in {y \in things : y.kind = "queue"}}
      Ends == {w \in Words : Len(w) <= SSDB_KEY_LEN_MAX} \cup {<<>>}
      RangeIs(type, W) ==
        LET up == Up(W, <<>>, <<>>, 1) down == Down(W, <<>>, <<>>, 1) IN
          /\ up # <<>> => key_range(rows, type)[1] = up[1]
          /\ down # <<>> => key_range(rows, type)[2] = down[1]
  IN things # {} =>
     /\ RangeIs(KV, Keys) /\ RangeIs(HSIZE, hashes)
     /\ RangeIs(ZSIZE, zsets) /\ RangeIs(QSIZE, queues)
     /\ \A s, e \in Ends, n \in {1, 9} :
          /\ scan(rows, s, e, n) = Up(Keys, s, e, n)
          /\ rscan(rows, s, e, n) = Down(Keys, s, e, n)
          /\ hlist(rows, s, e, n) = Up(hashes, s, e, n)
          /\ hrlist(rows, s, e, n) = Down(hashes, s, e, n)
          /\ zlist(rows, s, e, n) = Up(zsets, s, e, n)
          /\ zrlist(rows, s, e, n) = Down(zsets, s, e, n)
          /\ qlist(rows, s, e, n) = Up(queues, s, e, n)
          /\ qrlist(rows, s, e, n) = Down(queues, s, e, n)
          /\ \A name \in hashes :
               LET W == {x.key : x \in {y \in things : y.kind = "hash" /\ y.name = name}} IN
                 /\ FieldScan(rows, name, s, e, n) = Up(W, s, e, n)
                 /\ FieldRscan(rows, name, s, e, n) = Down(W, s, e, n)

\* getbit answers what setbit was last told, for every bit of the value, and
\* a bit never set is 0.
BitsAreRight == \A o \in Offsets : getbit(o) = IF o \in ones THEN 1 ELSE 0

\* The rows of all types live in one key space without meeting each other.
RowsAreSound == KeysAreFaithful /\ ScansAreRight /\ BitsAreRight
=============================================================================
