------------------------------ MODULE Prefixes ------------------------------
(***************************************************************************)
(* What parts of different lengths are, laid out one after another: where  *)
(* each one begins, and all of them.                                       *)
(***************************************************************************)
EXTENDS Integers, Sequences

\* The sum of the first k numbers of s.
Sums(s) ==
  LET S[k \in 0 .. Len(s)] == IF k = 0 THEN 0 ELSE S[k - 1] + s[k] IN S

\* The first k sequences of parts, joined.
Joins(parts) ==
  LET C[k \in 0 .. Len(parts)] == IF k = 0 THEN <<>> ELSE C[k - 1] \o parts[k] IN C
=============================================================================
