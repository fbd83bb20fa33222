----------------------------- MODULE MCKmalloc -----------------------------
(***************************************************************************)
(* Words of 7 bits: three buckets, of 8, 16 and 32 bytes, stand to         *)
(* MaxInt = 63 as the 28 buckets of kmalloc.g stand to 2^31 - 1.           *)
(***************************************************************************)
EXTENDS Kmalloc

\* Sizes a program can ask for: refused, empty, the last size of the first
\* bucket and the first of the next, the largest accepted, the first beyond.
MCSizes == {-1, 0, 4, 5, 28, 29}
=============================================================================
