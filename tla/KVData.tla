------------------------------- MODULE KVData -------------------------------
(***************************************************************************)
(* Keys, values, requests and answers of the key-value operations, and     *)
(* what leveldb's Write does with a batch.                                 *)
(***************************************************************************)
EXTENDS Int64, Sequences, FiniteSets

CONSTANTS
  Keys,        \* keys of a legal length
  Empty,       \* the key of length 0
  TooLong,     \* a key of more than SSDB_KEY_LEN_MAX bytes
  Numbers,     \* decimal strings that callers store
  Text,        \* a value that is no number
  NoVal,       \* a key without a row
  Clients,
  Requests,    \* what callers ask for: [op, pairs of key and value]
  NoReq, NoAns

AnyKey == Keys \cup {Empty, TooLong}
Values == Numbers \cup Int64 \cup {Text}
Ops    == {"set", "setnx", "getset", "del", "incr", "get", "multi_set", "multi_del"}
Single == Ops \ {"multi_set", "multi_del"}

ASSUME KeyAssumption ==
  Empty \notin Keys /\ TooLong \notin Keys /\ Empty # TooLong
ASSUME ValueAssumption ==
  /\ IntMax \in Nat /\ Numbers \subseteq Int
  /\ Text \notin Int /\ NoVal \notin Int \cup {Text}
\* A del has the value NoVal, an incr the number to add.
ASSUME RequestAssumption ==
  /\ NoReq \notin Requests
  /\ \A r \in Requests :
       /\ r \in [op : Ops, pairs : Seq([key : AnyKey, val : Values \cup {NoVal}])]
       /\ r.op \in Single => Len(r.pairs) = 1
       /\ r.op = "incr" => r.pairs[1].val \in Int64
       /\ r.op \notin {"del", "multi_del", "get"} => \A i \in DOMAIN r.pairs : r.pairs[i].val # NoVal

Answer ==
  [ret : {-1, 0, 1} \cup {Len(r.pairs) : r \in Requests}, val : Values \cup {NoVal}]
ASSUME AnswerAssumption == NoAns \notin Answer

\* The store after a sequence of pairs has been written: the last one counts.
Apply(s, pairs) ==
  [k \in AnyKey |->
     LET writes == {i \in DOMAIN pairs : pairs[i].key = k}
     IN IF writes = {} THEN s[k]
        ELSE pairs[CHOOSE i \in writes : \A j \in writes : j <= i].val]
=============================================================================
