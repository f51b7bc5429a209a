----------------------------- MODULE MCSSDBZset -----------------------------
(* Scores of two bits, with inputs beyond them on both sides, and neighbours *)
(* whose first and last rows are next to the zset.                           *)
EXTENDS SSDBZset

MCInputs == ScoreMin - 1 .. ScoreMax + 1
MCPages  == {0, 1, 2, Wrap - 1}
MCOthers ==
  [name : {Name - 1, Name + 1}, sign : {0}, bits : {ScoreMax + 1}, key : {1, 3}] \cup
  [name : {Name - 1, Name + 1}, sign : {1}, bits : {ScoreMax}, key : {1, 3}]
=============================================================================
