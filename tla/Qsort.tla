------------------------------- MODULE Qsort -------------------------------
(***************************************************************************)
(* qsort of the C library: diskfs/stdlib/_qsort.h.  The record q holds the *)
(* array a, whose elements are at 0 .. n - 1, the part base .. limit - 1   *)
(* that is being sorted, and the stack of the parts that are left to sort. *)
(* Elements are records with a key, which compar compares, and a number    *)
(* that tells equal ones apart.  wild records an access outside the part.  *)
(***************************************************************************)
EXTENDS Integers, Sequences

CONSTANTS
  T,           \* threshold of the insertion sort
  STACKSIZE

ASSUME ThresholdAssumption == T \in Nat /\ T >= 3 /\ STACKSIZE \in Nat

memswp(q, i, j) == [q EXCEPT !.a = [@ EXCEPT ![i] = q.a[j], ![j] = q.a[i]]]
compar(q, i, j) == q.a[i].key - q.a[j].key
SwapIf(q, c, i, j) == IF c THEN memswp(q, i, j) ELSE q

\* Mutant: the last of the three is not compared with the first.
MedianOfThree_Two(q, i, j) ==
  LET q1 == memswp(q, (q.limit - q.base) \div 2 + q.base, q.base)
      q2 == SwapIf(q1, compar(q1, i, j) > 0, i, j)
  IN  SwapIf(q2, compar(q2, i, q2.base) > 0, i, q2.base)

\* The middle element goes to the front, and is sorted there with the second
\* and the last one, i and j.
MedianOfThree(q, i, j) ==
  LET q1 == memswp(q, (q.limit - q.base) \div 2 + q.base, q.base)
      q2 == SwapIf(q1, compar(q1, i, j) > 0, i, j)
      q3 == SwapIf(q2, compar(q2, q2.base, j) > 0, q2.base, j)
  IN  SwapIf(q3, compar(q3, i, q3.base) > 0, i, q3.base)

\* The two scans.  Only the elements themselves stop them.
RECURSIVE ScanUp(_, _)
ScanUp(q, i) == IF i < q.limit /\ compar(q, i, q.base) < 0 THEN ScanUp(q, i + 1) ELSE i
RECURSIVE ScanDown(_, _)
ScanDown(q, j) == IF j >= q.base /\ compar(q, j, q.base) > 0 THEN ScanDown(q, j - 1) ELSE j

\* i moves right, j left, and what they stop at is swapped, until they cross.
Crossed(q, i, j) == [q |-> q, i |-> i, j |-> j]
RECURSIVE Partition(_, _, _)
Partition(q, i, j) ==
  LET up == ScanUp(q, i + 1)
      down == ScanDown(q, j - 1)
  IN  IF up >= q.limit \/ down < q.base THEN Crossed([q EXCEPT !.wild = TRUE], i, j)
      ELSE IF up > down THEN Crossed(q, up, down)
      ELSE Partition(memswp(q, up, down), up, down)

\* The pivot is at j; the larger part is put on the stack.
Split(q, i, j) ==
  IF j - q.base > q.limit - i
  THEN [q EXCEPT !.stack = Append(@, <<q.base, j>>), !.base = i]
  ELSE [q EXCEPT !.stack = Append(@, <<i, q.limit>>), !.limit = j]

PivotPlaced(c) == IF c.q.wild THEN c.q ELSE Split(memswp(c.q, c.q.base, c.j), c.i, c.j)

Quicksort(q) ==
  PivotPlaced(Partition(MedianOfThree(q, q.base + 1, q.limit - 1), q.base + 1, q.limit - 1))

\* Insertion sort: the element at i goes down as far as it is smaller.
RECURSIVE Insert(_, _)
Insert(q, j) ==
  IF compar(q, j, j + 1) <= 0 THEN q
  ELSE IF j = q.base THEN memswp(q, j, j + 1) ELSE Insert(memswp(q, j, j + 1), j - 1)
RECURSIVE Insertion(_, _)
Insertion(q, i) == IF i >= q.limit THEN q ELSE Insertion(Insert(q, i - 1), i + 1)

POP(q) ==
  LET top == q.stack[Len(q.stack)]
  IN  [q EXCEPT !.base = top[1], !.limit = top[2], !.stack = SubSeq(@, 1, Len(@) - 1)]

\* One turn of the main loop.
qsort(q) ==
  IF q.limit - q.base > T THEN Quicksort(q)
  ELSE IF q.stack # <<>> THEN POP(Insertion(q, q.base + 1))
  ELSE [Insertion(q, q.base + 1) EXCEPT !.done = TRUE]

QsortStart(a, n) ==
  [a |-> a, base |-> 0, limit |-> n, stack |-> <<>>, wild |-> FALSE, done |-> FALSE]
=============================================================================
