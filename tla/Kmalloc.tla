------------------------------ MODULE Kmalloc ------------------------------
(***************************************************************************)
(* The default memory allocator of the G environment: asmg/kmalloc.g and   *)
(* the helpers of asmg/malloc_utils.g, over the kernel's platform_allocate *)
(* (lib/kernel.asm).                                                       *)
(*                                                                         *)
(* Memory is carved from a break that only grows.  A chunk of bucket b is  *)
(* 2^(b+3) bytes; its first word holds the bucket number while the chunk   *)
(* is handed out and the link of the bucket's free list while it is not.   *)
(* Nothing else tells the two meanings of that word apart, so everything   *)
(* rests on `free' finding there what `malloc' stored.                     *)
(*                                                                         *)
(* The break is shared: platform_g_compile puts the code it compiles there *)
(* and other clients call platform_allocate on their own.                  *)
(***************************************************************************)
EXTENDS Integers, FiniteSets

CONSTANTS
  NBUCKETS,     \* KMALLOC_NBUCKETS
  MaxInt,       \* the largest signed word (2^31 - 1 on the i386)
  HeapStart,    \* heap_ptr when the G program starts
  Sizes,        \* the sizes the program passes to malloc and realloc
  ForeignSizes, \* the sizes other clients pass to platform_allocate
  MaxMallocs,   \* bound: calls of malloc in a behaviour
  MaxHeap       \* bound: the break

ASSUME NBUCKETSAssumption == NBUCKETS \in Nat \ {0}
ASSUME HeapStartAssumption == HeapStart \in Nat \ {0} /\ HeapStart % 4 = 0
ASSUME SizesAssumption ==
  MaxInt \in Nat /\ Sizes \subseteq Int /\ (\A s \in Sizes : s <= MaxInt) /\ ForeignSizes \subseteq Nat
ASSUME BoundsAssumption == MaxMallocs \in Nat /\ MaxHeap \in Nat

VARIABLES
  km,       \* the allocator's own data, a record
  live,     \* what the program holds: chunk address -> size it asked for
  foreign,  \* regions that others took from the platform
  panicked  \* an assertion failed: platform_panic, which never returns

vars == <<km, live, foreign, panicked>>

Bucket == 0 .. NBUCKETS - 1

\* Signed words wrap around.
Word(x) == IF x > MaxInt THEN x - 2 * (MaxInt + 1) ELSE x

\* platform_allocate: returns the break and moves it, realigned to 4.
Align4(x) == ((x + 3) \div 4) * 4

platform_allocate(brk, size) == Align4(brk + size)

bucket_actual_size(b) == 2 ^ (b + 3)

\* Mutant: the four bytes of the header are forgotten.
Fits_NoHeader(size, b) == size <= bucket_actual_size(b)

\* The loop of malloc stops at the first bucket that is large enough; with
\* no such bucket it reaches NBUCKETS and _bucket_actual_size panics.
Fits(size, b) == Word(size + 4) <= bucket_actual_size(b)
FirstFit(size, b) == Fits(size, b) /\ \A c \in Bucket : c < b => ~Fits(size, c)
NoFit(size) == \A b \in Bucket : ~Fits(size, b)

With(f, x, y) == [z \in DOMAIN f \union {x} |-> IF z = x THEN y ELSE f[z]]
Without(f, x) == [z \in DOMAIN f \ {x} |-> f[z]]

\* Two facts of arithmetic about the sizes of the buckets.
ASSUME BucketSizes ==
  \A b \in Bucket : 2 ^ (b + 3) \in Nat /\ 2 ^ (b + 3) >= 8

----------------------------------------------------------------------------

Init ==
  /\ km = [heap_ptr |-> HeapStart,
           buckets  |-> 0,                       \* kmalloc_buckets
           head     |-> [b \in Bucket |-> 0],    \* what it points to
           word     |-> [p \in {} |-> 0],        \* first word of each chunk
           home     |-> [p \in {} |-> 0],        \* bucket it was carved for
           num |-> 0, num_tot |-> 0, req_num |-> 0, req_size |-> 0]
  /\ live = [p \in {} |-> 0]
  /\ foreign = {}
  /\ panicked = FALSE

\* Mutant: the list heads are used without reserving their table.
Counted_NoTable(s) ==
  [s EXCEPT !.num = @ + 1, !.num_tot = @ + 1,
            !.buckets = s.heap_ptr]

\* What every non-empty malloc does before it looks for a bucket: count the
\* request and, the first time, get the table of the list heads.  What is
\* only printed (kmalloc_size_tot) is left out.
Counted(s) ==
  LET first == s.buckets = 0 IN
  [s EXCEPT !.num = @ + 1,
            !.num_tot = @ + 1,
            !.buckets = IF first THEN s.heap_ptr ELSE @,
            !.head = IF first THEN [b \in Bucket |-> 0] ELSE @,
            !.heap_ptr = IF first THEN platform_allocate(@, NBUCKETS * 4) ELSE @]

\* The chunk malloc takes, given the state Counted leaves.
Chunk(s, b) == IF s.head[b] = 0 THEN s.heap_ptr ELSE s.head[b]

\* Mutant: the bucket number is stored in new chunks only.
Taken_StaleHeader(s, b) ==
  LET ptr == Chunk(s, b) IN
  IF s.head[b] = 0
  THEN [s EXCEPT !.heap_ptr = platform_allocate(@, bucket_actual_size(b)),
                 !.req_num = @ + 1,
                 !.req_size = @ + bucket_actual_size(b),
                 !.word = With(@, ptr, b),
                 !.home = With(@, ptr, b)]
  ELSE [s EXCEPT !.head[b] = s.word[ptr]]

\* Take the head of the free list of bucket b, or a new chunk.
Taken(s, b) ==
  LET ptr == Chunk(s, b) IN
  IF s.head[b] = 0
  THEN [s EXCEPT !.heap_ptr = platform_allocate(@, bucket_actual_size(b)),
                 !.req_num = @ + 1,
                 !.req_size = @ + bucket_actual_size(b),
                 !.word = With(@, ptr, b),
                 !.home = With(@, ptr, b)]
  ELSE [s EXCEPT !.head[b] = s.word[ptr],
                 !.word = With(@, ptr, b)]

\* Mutants: the link is not stored; every chunk goes to the list of bucket 0.
Returned_NoLink(s, p) ==
  [s EXCEPT !.num = @ - 1, !.head[s.word[p]] = p]

Returned_WrongList(s, p) ==
  [s EXCEPT !.num = @ - 1, !.word = With(@, p, s.head[0]), !.head[0] = p]

\* Put chunk p back on the list of the bucket that its first word names.
Returned(s, p) ==
  LET b == s.word[p] IN
  [s EXCEPT !.num = @ - 1,
            !.word = With(@, p, s.head[b]),
            !.head[b] = p]

Room(s) == s.heap_ptr <= MaxHeap /\ s.num_tot <= MaxMallocs

----------------------------------------------------------------------------

malloc(size) ==
  /\ ~panicked
  /\ size > 0
  /\ \E b \in Bucket :
       LET s == Counted(km) IN
       /\ FirstFit(size, b)
       /\ Room(Taken(s, b))
       /\ km' = Taken(s, b)
       /\ live' = With(live, Chunk(s, b), size)
  /\ UNCHANGED <<foreign, panicked>>

\* A size malloc refuses; the same holds of a realloc to that size, which
\* has only read the old chunk by then.
malloc_panics(size) ==
  /\ ~panicked
  /\ panicked' = TRUE
  /\ \/ size < 0 /\ km' = km
     \/ size > 0 /\ NoFit(size) /\ Room(Counted(km)) /\ km' = Counted(km)
  /\ UNCHANGED <<live, foreign>>

\* The two assertions of free.
FreeAsserts(s, p) == s.num > 0 /\ s.word[p] \in Bucket

\* free of a pointer the program holds, or realloc of it to size 0: malloc(0)
\* returns 0 and nothing is copied.
free(p) ==
  /\ ~panicked
  /\ panicked' = ~FreeAsserts(km, p)
  /\ km' = IF FreeAsserts(km, p) THEN Returned(km, p) ELSE km
  /\ live' = IF FreeAsserts(km, p) THEN Without(live, p) ELSE live
  /\ UNCHANGED foreign

\* realloc of a pointer the program holds: _malloc_get_size, malloc, memcpy,
\* free.  The bytes that memcpy moves are the program's.
realloc(p, newsize) ==
  /\ ~panicked
  /\ newsize > 0
  /\ \E b \in Bucket :
       LET s == Taken(Counted(km), b)
           q == Chunk(Counted(km), b)
           ok == km.word[p] \in Bucket /\ FreeAsserts(s, p) IN
       /\ FirstFit(newsize, b)
       /\ Room(s)
       /\ panicked' = ~ok
       /\ km' = IF ok THEN Returned(s, p) ELSE km
       /\ live' = IF ok THEN Without(With(live, q, newsize), p) ELSE live
  /\ UNCHANGED foreign

\* Someone else takes memory from the platform.
platform_client(size) ==
  LET brk == platform_allocate(km.heap_ptr, size) IN
  /\ ~panicked
  /\ size > 0
  /\ brk <= MaxHeap
  /\ km' = [km EXCEPT !.heap_ptr = brk]
  /\ foreign' = foreign \union {[lo |-> km.heap_ptr, hi |-> km.heap_ptr + size]}
  /\ UNCHANGED <<live, panicked>>

Next ==
  \/ \E size \in Sizes : malloc(size) \/ malloc_panics(size)
  \/ \E p \in DOMAIN live : free(p)
  \/ \E p \in DOMAIN live, size \in Sizes : realloc(p, size)
  \/ \E size \in ForeignSizes : platform_client(size)

Spec == Init /\ [][Next]_vars

----------------------------------------------------------------------------
(* Properties *)

Chunks == DOMAIN km.home
Live == DOMAIN live
Free(b) == {p \in Chunks \ Live : km.home[p] = b}

\* The allocator's record s has its type.
Typed(s) ==
  /\ DOMAIN s = {"heap_ptr", "buckets", "head", "word", "home",
                 "num", "num_tot", "req_num", "req_size"}
  /\ s.heap_ptr \in Nat \ {0} /\ s.heap_ptr % 4 = 0
  /\ s.buckets \in Nat /\ s.head \in [Bucket -> Nat]
  /\ DOMAIN s.word = DOMAIN s.home
  /\ \A p \in DOMAIN s.home :
       p \in Nat \ {0} /\ s.home[p] \in Bucket /\ s.word[p] \in Nat
  /\ s.num \in Int /\ s.num_tot \in Nat /\ s.req_num \in Nat /\ s.req_size \in Nat

\* The state has its type, and the break stays aligned to a word: malloc and
\* platform_allocate promise that of what they return.
TypeOK ==
  /\ Typed(km)
  /\ Live \subseteq Chunks
  /\ \A p \in Live : live[p] \in Nat
  /\ \A r \in foreign : r.lo \in Nat /\ r.hi \in Nat
  /\ panicked \in BOOLEAN

\* The bytes a chunk hands to the program.
Payload(p) == [lo |-> p + 4, hi |-> p + 4 + live[p]]

\* Everything the program and the other clients of the platform hold.
Regions == {Payload(p) : p \in Live} \union foreign

\* What the allocator keeps for itself: the table of list heads and the first
\* word of every chunk.
OwnRegions ==
  {[lo |-> p, hi |-> p + 4] : p \in Chunks} \union
  (IF km.buckets = 0 THEN {}
   ELSE {[lo |-> km.buckets, hi |-> km.buckets + 4 * NBUCKETS]})

Heap == INSTANCE HeapSpec WITH regions <- Regions

\* Writing inside what malloc or platform_allocate returned never touches
\* the allocator's own words nor anybody else's memory, nor memory beyond
\* the break that will be handed out later (malloc, realloc: kmalloc.g).
NoOverlap ==
  \A r \in Regions :
    /\ r.hi <= km.heap_ptr
    /\ \A q \in Regions \union OwnRegions : q # r => Heap!Disjoint(r, q)

\* The first word of a chunk in use is the number of its bucket: with the
\* word being a link at other times, `free' depends on it.
HeaderIntact == \A p \in Live : km.word[p] = km.home[p]

\* No size is so large that adding the header to it overflows a word.
NoHugeSize == \A size \in Sizes : size + 4 <= MaxInt

\* The bucket malloc chooses is large enough for what was asked.
LargeEnough ==
  \A p \in Live : live[p] + 4 <= bucket_actual_size(km.home[p])

\* Following the links from the head of a bucket, n times.
Hop(b) == LET hop[n \in 0 .. Cardinality(Chunks)] ==
                IF n = 0 THEN km.head[b]
                ELSE IF hop[n - 1] = 0 THEN 0 ELSE km.word[hop[n - 1]]
          IN hop

\* Each free list ends, and holds exactly the chunks of its bucket that are
\* not in use: no chunk is lost and none is listed twice or while in use.
FreeListsExact ==
  panicked \/ \A b \in Bucket :
    /\ {Hop(b)[n] : n \in 0 .. Cardinality(Chunks)} \ {0} = Free(b)
    /\ Hop(b)[Cardinality(Chunks)] = 0

\* free and realloc of a pointer the program holds never fail an assertion.
FreeAccepted == panicked \/ \A p \in Live : FreeAsserts(km, p)

\* New memory is requested for a bucket only when none of its chunks is free.
ReuseBeforeGrow ==
  [][\A p \in DOMAIN km'.home \ Chunks : Free(km'.home[p]) = {}]_vars

\* The allocator is a heap.
ImplementsHeap == Heap!Spec

----------------------------------------------------------------------------
(* The inductive invariant.  Every free list is described by what its links *)
(* look like from one chunk to the next, never by following them.           *)

End(s, p) == p + bucket_actual_size(s.home[p])

\* The chunks, the table and the foreign regions F lie below the break and
\* apart from one another.
Layout(s, F) ==
  /\ \A p \in DOMAIN s.home : End(s, p) <= s.heap_ptr
  /\ \A p, q \in DOMAIN s.home : p < q => End(s, p) <= q
  /\ s.buckets = 0 => DOMAIN s.home = {}
  /\ s.buckets # 0 => s.buckets + 4 * NBUCKETS <= s.heap_ptr
  /\ \A p \in DOMAIN s.home :
       End(s, p) <= s.buckets \/ s.buckets + 4 * NBUCKETS <= p
  /\ \A r \in F :
       /\ r.lo \in Nat /\ r.hi \in Nat /\ r.lo < r.hi /\ r.hi <= s.heap_ptr
       /\ \A p \in DOMAIN s.home : End(s, p) <= r.lo \/ r.hi <= p
       /\ s.buckets = 0 \/ r.hi <= s.buckets \/ s.buckets + 4 * NBUCKETS <= r.lo
  /\ \A r, q \in F : r = q \/ r.hi <= q.lo \/ q.hi <= r.lo

\* x is the end of the list of bucket b or a free chunk of b, when L are the
\* chunks in use.
Link(s, L, b, x) ==
  x = 0 \/ (x \in DOMAIN s.home /\ x \notin L /\ s.home[x] = b)

\* Links stay within their bucket and no two of them meet.
Links(s, L) ==
  /\ \A p \in L : s.word[p] = s.home[p]
  /\ \A b \in Bucket : Link(s, L, b, s.head[b])
  /\ \A p \in DOMAIN s.home \ L :
       /\ Link(s, L, s.home[p], s.word[p])
       /\ \A b \in Bucket : s.head[b] # 0 => s.word[p] # s.head[b]
       /\ \A q \in DOMAIN s.home \ L :
            p # q /\ s.word[p] # 0 => s.word[p] # s.word[q]

\* Together with what is asked of the sizes, an inductive invariant.
IInv ==
  /\ TypeOK
  /\ Layout(km, foreign)
  /\ Links(km, Live)
  /\ LargeEnough
  /\ IsFiniteSet(Live)
  /\ panicked \/ km.num = Cardinality(Live)
=============================================================================
