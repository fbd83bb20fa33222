------------------------------ MODULE HeapSpec ------------------------------
(***************************************************************************)
(* What every user of the heap is promised, whichever of the malloc        *)
(* implementations of asmg is compiled in: a region that is handed out is  *)
(* disjoint from every region that is still in use, and no call other than *)
(* the one that names a region takes it away.                              *)
(*                                                                         *)
(* A region is the half-open interval of addresses lo .. hi-1.             *)
(***************************************************************************)
EXTENDS Integers

VARIABLE regions    \* the set of regions in use

Disjoint(r, q) == r.hi <= q.lo \/ q.hi <= r.lo

Fresh(r) == r.lo <= r.hi /\ \A q \in regions : Disjoint(r, q)

Init == regions = {}

Alloc == \E r \in regions' \ regions :
            Fresh(r) /\ regions' = regions \union {r}

Release == \E r \in regions : regions' = regions \ {r}

\* A region moves: the new copy is obtained while the old one is in use.
Move == \E old \in regions : \E r \in regions' \ regions :
            Fresh(r) /\ regions' = (regions \ {old}) \union {r}

Next == Alloc \/ Release \/ Move

Spec == Init /\ [][Next]_regions
=============================================================================
