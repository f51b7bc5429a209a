------------------------------- MODULE Int64 --------------------------------
(***************************************************************************)
(* int64_t arithmetic as the counters of keys and hashes use it.           *)
(***************************************************************************)
EXTENDS Integers

CONSTANT IntMax   \* INT64_MAX

Int64 == -(IntMax + 1) .. IntMax

\* str_to_int64: strtoll saturates; a whole string of digits is no error.
str_to_int64(x) == IF x > IntMax THEN IntMax ELSE IF x < -(IntMax + 1) THEN -(IntMax + 1) ELSE x

\* A sum of two int64_t; the build wraps around.
AddInt64(x, y) ==
  LET s == x + y
  IN IF s > IntMax THEN s - 2 * (IntMax + 1)
     ELSE IF s < -(IntMax + 1) THEN s + 2 * (IntMax + 1) ELSE s
=============================================================================
