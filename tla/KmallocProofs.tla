--------------------------- MODULE KmallocProofs ---------------------------
(***************************************************************************)
(* Proofs about Kmalloc.  malloc and realloc are compositions of Counted,  *)
(* Taken and Returned, so the invariant is shown to be preserved by each   *)
(* of the three on its own, over an arbitrary record s and set L of chunks *)
(* in use, before any action is considered.                                *)
(***************************************************************************)
EXTENDS Kmalloc, ProofLibrary, FiniteSetTheorems

\* The parts of the invariant that speak of the record only.
Good(s, L, F) == /\ Typed(s) /\ L \subseteq DOMAIN s.home
                 /\ Layout(s, F) /\ Links(s, L)

\* Counting a request, and getting the table of list heads, preserves the
\* invariant (first part of malloc).
LEMMA CountedGood ==
  ASSUME NEW s, NEW L, NEW F, Good(s, L, F)
  PROVE  /\ Good(Counted(s), L, F)
         /\ Counted(s).buckets # 0
         /\ Counted(s).home = s.home
         /\ Counted(s).word = s.word
         /\ Counted(s).num = s.num + 1
<1> DEFINE t == Counted(s)
<1>1. NBUCKETS \in Nat \ {0} /\ NBUCKETS * 4 \in Nat
  BY NBUCKETSAssumption
<1>2. /\ t.num = s.num + 1
      /\ t.num_tot = s.num_tot + 1
      /\ t.buckets = IF s.buckets = 0 THEN s.heap_ptr ELSE s.buckets
      /\ t.head = IF s.buckets = 0 THEN [b \in Bucket |-> 0] ELSE s.head
      /\ t.heap_ptr = IF s.buckets = 0 THEN platform_allocate(s.heap_ptr, NBUCKETS * 4)
                                       ELSE s.heap_ptr
      /\ t.word = s.word /\ t.home = s.home
      /\ t.req_num = s.req_num /\ t.req_size = s.req_size
      /\ DOMAIN t = DOMAIN s
  BY DEF Counted, Good, Typed
<1> HIDE DEF t
<1>3. /\ t.heap_ptr \in Nat /\ t.heap_ptr >= s.heap_ptr /\ t.heap_ptr % 4 = 0
      /\ s.buckets = 0 => t.heap_ptr >= s.heap_ptr + NBUCKETS * 4
  <2>1. s.heap_ptr \in Nat /\ s.heap_ptr % 4 = 0
    BY DEF Good, Typed
  <2>2. CASE s.buckets = 0
    <3>1. t.heap_ptr = platform_allocate(s.heap_ptr, NBUCKETS * 4)
      BY <1>2, <2>2
    <3>2. QED BY <1>1, <2>1, <2>2, <3>1 DEF platform_allocate, Align4
  <2>3. CASE s.buckets # 0
    BY <1>2, <2>1, <2>3
  <2>4. QED BY <2>2, <2>3
<1>4. Typed(t) /\ t.buckets # 0
  BY <1>1, <1>2, <1>3 DEF Good, Typed
<1>5. Layout(t, F)
  <2>1. \A p \in DOMAIN s.home : End(t, p) = End(s, p) /\ End(s, p) \in Nat
    BY <1>2, BucketSizes DEF End, bucket_actual_size, Good, Typed
  <2>2. CASE s.buckets = 0
    BY <1>1, <1>2, <1>3, <2>1, <2>2 DEF Good, Typed, Layout
  <2>3. CASE s.buckets # 0
    BY <1>1, <1>2, <1>3, <2>1, <2>3 DEF Good, Typed, Layout
  <2>4. QED BY <2>2, <2>3
<1>6. Links(t, L)
  BY <1>2 DEF Good, Typed, Layout, Links, Link
<1>7. QED BY <1>2, <1>4, <1>5, <1>6 DEF t, Good
\* Taking a chunk, from the free list or from the platform, preserves the
\* invariant with that chunk in use (last part of malloc).
LEMMA TakenGood ==
  ASSUME NEW s, NEW L, NEW F, NEW b \in Bucket, Good(s, L, F), s.buckets # 0
  PROVE  /\ Good(Taken(s, b), L \union {Chunk(s, b)}, F)
         /\ Chunk(s, b) \notin L
         /\ Taken(s, b).home[Chunk(s, b)] = b
         /\ \A p \in L : Taken(s, b).home[p] = s.home[p]
         /\ Taken(s, b).num = s.num
<1> DEFINE t == Taken(s, b)
           ptr == Chunk(s, b)
           sz == bucket_actual_size(b)
<1>1. sz \in Nat /\ sz >= 8
  BY BucketSizes DEF bucket_actual_size
<1>2. NBUCKETS \in Nat \ {0} /\ NBUCKETS * 4 \in Nat
  BY NBUCKETSAssumption
<1>3. \A p \in DOMAIN s.home : End(s, p) \in Nat /\ End(s, p) >= p + 8
  BY BucketSizes DEF End, bucket_actual_size, Good, Typed
<1>4. CASE s.head[b] = 0
  <2>1. ptr = s.heap_ptr /\ ptr \in Nat \ {0}
    BY <1>4 DEF Chunk, Good, Typed
  <2>2. ptr \notin DOMAIN s.home
    BY <1>3, <2>1 DEF Good, Typed, Layout
  <2>3. /\ t.heap_ptr = platform_allocate(s.heap_ptr, sz)
        /\ t.req_num = s.req_num + 1 /\ t.req_size = s.req_size + sz
        /\ t.word = With(s.word, ptr, b) /\ t.home = With(s.home, ptr, b)
        /\ t.head = s.head /\ t.buckets = s.buckets
        /\ t.num = s.num /\ t.num_tot = s.num_tot
        /\ DOMAIN t = DOMAIN s
    BY <1>4 DEF Taken, Good, Typed
  <2> HIDE DEF t, ptr, sz
  <2>4. t.heap_ptr \in Nat /\ t.heap_ptr % 4 = 0 /\ t.heap_ptr >= ptr + sz
    BY <1>1, <2>1, <2>3 DEF platform_allocate, Align4
  <2>5. /\ DOMAIN t.home = DOMAIN s.home \union {ptr}
        /\ DOMAIN t.word = DOMAIN t.home
        /\ t.home[ptr] = b /\ t.word[ptr] = b
        /\ \A p \in DOMAIN s.home : t.home[p] = s.home[p] /\ t.word[p] = s.word[p]
    BY <2>2, <2>3 DEF Good, Typed, With
  <2>6. Typed(t)
    <3>1. b \in Nat
      BY <1>2 DEF Bucket
    <3>2. \A p \in DOMAIN t.home :
             p \in Nat \ {0} /\ t.home[p] \in Bucket /\ t.word[p] \in Nat
      BY <2>1, <2>5, <3>1 DEF Good, Typed
    <3>3. t.heap_ptr \in Nat \ {0}
      BY <2>4, <2>1, <1>1
    <3>4. QED BY <1>1, <2>3, <2>4, <2>5, <3>2, <3>3 DEF Good, Typed
  <2>7. /\ \A p \in DOMAIN s.home : End(t, p) = End(s, p) /\ End(s, p) <= ptr
        /\ End(t, ptr) = ptr + sz
    BY <2>1, <2>5 DEF End, Good, Layout, sz
  <2>8. Layout(t, F)
    <3>1. \A p \in DOMAIN t.home : End(t, p) <= t.heap_ptr
      BY <1>1, <1>3, <2>1, <2>4, <2>5, <2>7
    <3>2. \A p, q \in DOMAIN t.home : p < q => End(t, p) <= q
      BY <1>1, <1>3, <2>1, <2>5, <2>7 DEF Good, Typed, Layout
    <3>3. t.buckets # 0 /\ t.buckets + 4 * NBUCKETS <= t.heap_ptr
      BY <1>1, <1>2, <2>1, <2>3, <2>4 DEF Good, Typed, Layout
    <3>4. \A p \in DOMAIN t.home :
             End(t, p) <= t.buckets \/ t.buckets + 4 * NBUCKETS <= p
      BY <1>2, <2>1, <2>3, <2>5, <2>7 DEF Good, Typed, Layout
    <3>5. \A r \in F :
            /\ r.lo \in Nat /\ r.hi \in Nat /\ r.lo < r.hi /\ r.hi <= t.heap_ptr
            /\ \A p \in DOMAIN t.home : End(t, p) <= r.lo \/ r.hi <= p
      BY <1>1, <2>1, <2>4, <2>5, <2>7 DEF Good, Layout
    <3>6. QED BY <2>3, <3>1, <3>2, <3>3, <3>4, <3>5 DEF Good, Layout
  <2>9. Links(t, L \union {ptr})
    BY <2>1, <2>2, <2>3, <2>5 DEF Good, Links, Link
  <2>10. QED BY <2>2, <2>3, <2>5, <2>6, <2>8, <2>9 DEF Good, t, ptr
<1>5. CASE s.head[b] # 0
  <2>1. ptr = s.head[b] /\ ptr \in DOMAIN s.home /\ ptr \notin L /\ s.home[ptr] = b
    BY <1>5 DEF Chunk, Good, Links, Link
  <2>2. /\ t.word = With(s.word, ptr, b) /\ t.home = s.home
        /\ t.head = [s.head EXCEPT ![b] = s.word[ptr]]
        /\ t.heap_ptr = s.heap_ptr /\ t.buckets = s.buckets
        /\ t.req_num = s.req_num /\ t.req_size = s.req_size
        /\ t.num = s.num /\ t.num_tot = s.num_tot
        /\ DOMAIN t = DOMAIN s
    BY <1>5 DEF Taken, Good, Typed
  <2> HIDE DEF t, ptr, sz
  <2>3. /\ DOMAIN t.word = DOMAIN s.home
        /\ t.word[ptr] = b
        /\ \A p \in DOMAIN s.home : p # ptr => t.word[p] = s.word[p]
    BY <2>1, <2>2 DEF Good, Typed, With
  <2>4. Typed(t)
    <3>1. b \in Nat
      BY <1>2 DEF Bucket
    <3>2. s.word[ptr] \in Nat
      BY <2>1 DEF Good, Typed
    <3>3. t.head \in [Bucket -> Nat]
      BY <2>2, <3>2 DEF Good, Typed
    <3>4. \A p \in DOMAIN t.home : t.word[p] \in Nat
      BY <2>2, <2>3, <3>1 DEF Good, Typed
    <3>5. QED BY <2>2, <2>3, <3>3, <3>4 DEF Good, Typed
  <2>5. Layout(t, F)
    BY <2>2 DEF Good, Layout, End
  <2>6. /\ t.head[b] = s.word[ptr]
        /\ \A c \in Bucket : c # b => t.head[c] = s.head[c]
    BY <2>2 DEF Good, Typed
  <2>7. Links(t, L \union {ptr})
    <3>1. \A p \in L \union {ptr} : t.word[p] = t.home[p]
      BY <2>1, <2>2, <2>3 DEF Good, Links
    <3>2. Link(s, L, b, s.word[ptr]) /\ s.word[ptr] # ptr
      BY <1>5, <2>1 DEF Good, Links
    <3>3. \A c \in Bucket : Link(t, L \union {ptr}, c, t.head[c])
      <4>1. \A c \in Bucket : c # b => s.head[c] # ptr
        BY <2>1, <1>5 DEF Good, Links, Link
      <4>2. \A c \in Bucket : c # b => Link(s, L, c, s.head[c])
        BY DEF Good, Links
      <4>3. QED BY <2>2, <2>6, <3>2, <4>1, <4>2 DEF Link
    <3>4. \A p \in DOMAIN s.home \ (L \union {ptr}) :
            /\ Link(t, L \union {ptr}, t.home[p], t.word[p])
            /\ \A c \in Bucket : t.head[c] # 0 => t.word[p] # t.head[c]
            /\ \A q \in DOMAIN s.home \ (L \union {ptr}) :
                 p # q /\ t.word[p] # 0 => t.word[p] # t.word[q]
      <4> SUFFICES ASSUME NEW p \in DOMAIN s.home \ (L \union {ptr})
                   PROVE /\ Link(t, L \union {ptr}, t.home[p], t.word[p])
                         /\ \A c \in Bucket : t.head[c] # 0 => t.word[p] # t.head[c]
                         /\ \A q \in DOMAIN s.home \ (L \union {ptr}) :
                              p # q /\ t.word[p] # 0 => t.word[p] # t.word[q]
        OBVIOUS
      <4>1. t.word[p] = s.word[p] /\ s.word[p] # ptr
        BY <1>5, <2>1, <2>3 DEF Good, Links
      <4>2. Link(t, L \union {ptr}, t.home[p], t.word[p])
        BY <2>2, <4>1 DEF Good, Links, Link
      <4>3. \A c \in Bucket : t.head[c] # 0 => t.word[p] # t.head[c]
        BY <2>1, <2>6, <4>1 DEF Good, Links
      <4>4. \A q \in DOMAIN s.home \ (L \union {ptr}) :
              p # q /\ t.word[p] # 0 => t.word[p] # t.word[q]
        BY <2>3, <4>1 DEF Good, Links
      <4>5. QED BY <4>2, <4>3, <4>4
    <3>5. QED BY <2>2, <3>1, <3>3, <3>4 DEF Links
  <2>8. QED BY <2>1, <2>2, <2>4, <2>5, <2>7 DEF Good, t, ptr
<1>6. QED BY <1>4, <1>5
\* Putting a chunk in use back on its free list preserves the invariant
\* (free).
LEMMA ReturnedGood ==
  ASSUME NEW s, NEW L, NEW F, NEW p \in L, Good(s, L, F)
  PROVE  /\ s.word[p] \in Bucket
         /\ Good(Returned(s, p), L \ {p}, F)
         /\ Returned(s, p).home = s.home
         /\ Returned(s, p).num = s.num - 1
<1> DEFINE t == Returned(s, p)
           b == s.word[p]
<1>1. p \in DOMAIN s.home /\ b = s.home[p] /\ b \in Bucket
  BY DEF Good, Typed, Links
<1>2. /\ t.num = s.num - 1
      /\ t.word = With(s.word, p, s.head[b])
      /\ t.head = [s.head EXCEPT ![b] = p]
      /\ t.home = s.home /\ t.heap_ptr = s.heap_ptr /\ t.buckets = s.buckets
      /\ t.num_tot = s.num_tot /\ t.req_num = s.req_num /\ t.req_size = s.req_size
      /\ DOMAIN t = DOMAIN s
  BY DEF Returned, Good, Typed
<1> HIDE DEF t, b
<1>3. /\ DOMAIN t.word = DOMAIN s.home
      /\ t.word[p] = s.head[b]
      /\ \A q \in DOMAIN s.home : q # p => t.word[q] = s.word[q]
  BY <1>1, <1>2 DEF Good, Typed, With
<1>4. /\ t.head \in [Bucket -> Nat]
      /\ t.head[b] = p
      /\ \A c \in Bucket : c # b => t.head[c] = s.head[c]
  BY <1>1, <1>2 DEF Good, Typed
<1>5. Typed(t)
  <2>1. s.head[b] \in Nat
    BY <1>1 DEF Good, Typed
  <2>2. QED BY <1>2, <1>3, <1>4, <2>1 DEF Good, Typed
<1>6. Layout(t, F)
  BY <1>2 DEF Good, Layout, End
<1>7. Links(t, L \ {p})
  <2>1. p # 0
    BY <1>1 DEF Good, Typed
  <2>2. \A q \in L \ {p} : t.word[q] = t.home[q]
    BY <1>2, <1>3 DEF Good, Links
  <2>3. \A c \in Bucket : Link(t, L \ {p}, c, t.head[c])
    BY <1>1, <1>2, <1>4 DEF Good, Links, Link
  <2>4. \A q \in DOMAIN s.home \ L :
          /\ Link(t, L \ {p}, t.home[q], t.word[q])
          /\ t.word[q] = s.word[q] /\ t.word[q] # p
    BY <1>1, <1>2, <1>3, <2>1 DEF Good, Links, Link
  <2>5. Link(t, L \ {p}, t.home[p], t.word[p]) /\ s.head[b] # p
    BY <1>1, <1>2, <1>3, <2>1 DEF Good, Links, Link
  <2>6. \A c \in Bucket : c # b /\ s.head[c] # 0 => s.head[c] # s.head[b]
    BY <1>1 DEF Good, Links, Link
  <2>7. \A q \in DOMAIN s.home \ (L \ {p}), c \in Bucket :
          t.head[c] # 0 => t.word[q] # t.head[c]
    BY <1>1, <1>3, <1>4, <2>4, <2>5, <2>6 DEF Good, Links
  <2>8. \A q, r \in DOMAIN s.home \ (L \ {p}) :
          q # r /\ t.word[q] # 0 => t.word[q] # t.word[r]
    BY <1>1, <1>3, <2>4 DEF Good, Links
  <2>9. \A q \in DOMAIN s.home \ (L \ {p}) : Link(t, L \ {p}, t.home[q], t.word[q])
    BY <2>4, <2>5
  <2>10. QED BY <1>2, <2>2, <2>3, <2>7, <2>8, <2>9 DEF Links
<1>8. QED BY <1>1, <1>2, <1>5, <1>6, <1>7 DEF Good, t, b
----------------------------------------------------------------------------

\* The bucket that malloc's loop stops at can hold the header and the size.
LEMMA FitIsEnough ==
  ASSUME NoHugeSize, NEW size \in Sizes, NEW b \in Bucket, FirstFit(size, b)
  PROVE  size + 4 <= bucket_actual_size(b)
  BY SizesAssumption DEF NoHugeSize, FirstFit, Fits, Word

\* The chunks in use are finitely many, and free's counter assertion counts
\* them.
LEMMA CountFacts ==
  ASSUME NEW L, IsFiniteSet(L), NEW x
  PROVE  /\ IsFiniteSet(L \union {x}) /\ IsFiniteSet(L \ {x})
         /\ Cardinality(L) \in Nat
         /\ x \notin L => Cardinality(L \union {x}) = Cardinality(L) + 1
         /\ x \in L => Cardinality(L \ {x}) = Cardinality(L) - 1 /\ Cardinality(L) > 0
<1>1. /\ IsFiniteSet(L \union {x}) /\ IsFiniteSet(L \ {x})
      /\ Cardinality(L) \in Nat
      /\ x \notin L => Cardinality(L \union {x}) = Cardinality(L) + 1
      /\ x \in L => Cardinality(L \ {x}) = Cardinality(L) - 1
  BY FS_AddElement, FS_RemoveElement, FS_CardinalityType
<1>2. Cardinality(L \ {x}) \in Nat
  BY <1>1, FS_CardinalityType
<1>3. QED BY <1>1, <1>2

\* The invariant holds initially.
LEMMA InitIInv == Init => IInv
<1> SUFFICES ASSUME Init PROVE IInv
  OBVIOUS
<1>1. TypeOK
  <2>1. /\ km.heap_ptr = HeapStart /\ km.buckets = 0
        /\ km.head = [b \in Bucket |-> 0]
        /\ DOMAIN km.word = {} /\ DOMAIN km.home = {}
        /\ km.num = 0 /\ km.num_tot = 0 /\ km.req_num = 0 /\ km.req_size = 0
        /\ DOMAIN km = {"heap_ptr", "buckets", "head", "word", "home",
                        "num", "num_tot", "req_num", "req_size"}
    BY DEF Init
  <2>2. Typed(km)
    BY <2>1, HeapStartAssumption DEF Typed
  <2>3. Live = {} /\ foreign = {} /\ panicked = FALSE
    BY DEF Init, Live
  <2>4. QED BY <2>2, <2>3 DEF TypeOK
<1>2. Layout(km, foreign) /\ Links(km, Live) /\ LargeEnough
  BY DEF Init, Layout, Links, Link, LargeEnough, Live
<1>3. Live = {} /\ km.num = 0
  BY DEF Init, Live
<1>4. QED BY <1>1, <1>2, <1>3, FS_EmptySet DEF IInv

\* malloc preserves the invariant, and adds one chunk to those in use.
LEMMA MallocIInv ==
  ASSUME NoHugeSize, IInv, NEW size \in Sizes, malloc(size)
  PROVE  /\ IInv' /\ foreign' = foreign
         /\ \E q : /\ q \notin Live /\ Live' = Live \union {q}
                   /\ \A p \in Live : live'[p] = live[p]
<1>1. PICK b \in Bucket :
        /\ FirstFit(size, b)
        /\ km' = Taken(Counted(km), b)
        /\ live' = With(live, Chunk(Counted(km), b), size)
  BY DEF malloc
<1> DEFINE s == Counted(km)
           q == Chunk(s, b)
<1>2. Good(km, Live, foreign)
  BY DEF IInv, TypeOK, Good, Chunks
<1>3. Good(s, Live, foreign) /\ s.buckets # 0 /\ s.home = km.home /\ s.num = km.num + 1
  BY <1>2, CountedGood
<1>4. /\ Good(km', Live \union {q}, foreign)
      /\ q \notin Live /\ km'.home[q] = b /\ km'.num = km.num + 1
      /\ \A p \in Live : km'.home[p] = km.home[p]
  BY <1>1, <1>3, TakenGood
<1>5. foreign' = foreign /\ panicked' = FALSE /\ panicked = FALSE /\ size > 0 /\ size \in Int
  BY SizesAssumption DEF malloc, IInv, TypeOK
<1> HIDE DEF s, q
<1>6. /\ Live' = Live \union {q}
      /\ live'[q] = size
      /\ \A p \in Live : live'[p] = live[p]
  BY <1>1, <1>4 DEF Live, With, s, q
<1>7. TypeOK'
  <2>1. Typed(km)' /\ Live' \subseteq Chunks'
    BY <1>4, <1>6 DEF Good, Chunks
  <2>2. \A p \in Live' : live'[p] \in Nat
    BY <1>5, <1>6 DEF IInv, TypeOK
  <2>3. panicked' \in BOOLEAN /\ \A r \in foreign' : r.lo \in Nat /\ r.hi \in Nat
    BY <1>5 DEF IInv, TypeOK
  <2>4. QED BY <2>1, <2>2, <2>3 DEF TypeOK
<1>8. Layout(km, foreign)' /\ Links(km, Live)'
  BY <1>4, <1>5, <1>6 DEF Good
<1>9. LargeEnough'
  BY <1>1, <1>4, <1>6, FitIsEnough DEF IInv, LargeEnough
<1>10. IsFiniteSet(Live') /\ km'.num = Cardinality(Live')
  BY <1>4, <1>5, <1>6, CountFacts DEF IInv
<1>11. IInv'
  BY <1>7, <1>8, <1>9, <1>10 DEF IInv
<1>12. QED BY <1>4, <1>5, <1>6, <1>11

\* free preserves the invariant, its assertions hold, and it gives up one chunk.
LEMMA FreeIInv ==
  ASSUME IInv, NEW p \in Live, free(p)
  PROVE  /\ IInv' /\ panicked' = FALSE /\ foreign' = foreign
         /\ Live' = Live \ {p} /\ \A q \in Live' : live'[q] = live[q]
<1>1. Good(km, Live, foreign)
  BY DEF IInv, TypeOK, Good, Chunks
<1>2. /\ km.word[p] \in Bucket
      /\ Good(Returned(km, p), Live \ {p}, foreign)
      /\ Returned(km, p).home = km.home
      /\ Returned(km, p).num = km.num - 1
  BY <1>1, ReturnedGood
<1>3. km.num = Cardinality(Live) /\ Cardinality(Live) > 0
  BY CountFacts DEF IInv, free
<1>4. /\ km' = Returned(km, p) /\ live' = Without(live, p)
      /\ foreign' = foreign /\ panicked' = FALSE
  BY <1>2, <1>3 DEF free, FreeAsserts
<1>5. Live' = Live \ {p} /\ \A q \in Live' : live'[q] = live[q]
  BY <1>4 DEF Live, Without
<1>6. TypeOK'
  BY <1>2, <1>4, <1>5 DEF IInv, TypeOK, Good, Chunks
<1>7. Layout(km, foreign)' /\ Links(km, Live)'
  BY <1>2, <1>4, <1>5 DEF Good
<1>8. LargeEnough'
  BY <1>2, <1>4, <1>5 DEF IInv, LargeEnough
<1>9. IsFiniteSet(Live') /\ km'.num = Cardinality(Live')
  BY <1>2, <1>3, <1>4, <1>5, CountFacts DEF IInv
<1>10. IInv'
  BY <1>4, <1>6, <1>7, <1>8, <1>9 DEF IInv
<1>11. QED BY <1>4, <1>5, <1>10

\* realloc preserves the invariant, the assertions of the free it ends with
\* hold, and the new chunk is not one that was in use.
LEMMA ReallocIInv ==
  ASSUME NoHugeSize, IInv, NEW p \in Live, NEW newsize \in Sizes, realloc(p, newsize)
  PROVE  /\ IInv' /\ panicked' = FALSE /\ foreign' = foreign
         /\ p \in Chunks' /\ km'.home[p] = km.home[p]
         /\ \E q : /\ q \notin Live /\ Live' = (Live \union {q}) \ {p}
                   /\ \A x \in Live \ {p} : live'[x] = live[x]
<1> DEFINE c == Counted(km)
<1>1. PICK b \in Bucket :
        LET s == Taken(c, b)
            q == Chunk(c, b)
            ok == km.word[p] \in Bucket /\ FreeAsserts(s, p) IN
        /\ FirstFit(newsize, b)
        /\ panicked' = ~ok
        /\ km' = IF ok THEN Returned(s, p) ELSE km
        /\ live' = IF ok THEN Without(With(live, q, newsize), p) ELSE live
  BY DEF realloc
<1> DEFINE s == Taken(c, b)
           q == Chunk(c, b)
           ok == km.word[p] \in Bucket /\ FreeAsserts(s, p)
<1>2. Good(km, Live, foreign)
  BY DEF IInv, TypeOK, Good, Chunks
<1>3. Good(c, Live, foreign) /\ c.buckets # 0 /\ c.home = km.home /\ c.num = km.num + 1
  BY <1>2, CountedGood
<1>4. /\ Good(s, Live \union {q}, foreign)
      /\ q \notin Live /\ s.home[q] = b /\ s.num = km.num + 1
      /\ \A x \in Live : s.home[x] = km.home[x]
  <2>1. b \in Bucket
    BY <1>1
  <2>2. /\ Good(s, Live \union {q}, foreign)
        /\ q \notin Live /\ s.home[q] = b /\ s.num = c.num
        /\ \A x \in Live : s.home[x] = c.home[x]
    <3>1. Good(s, Live \union {q}, foreign)
      BY <1>3, <2>1, TakenGood
    <3>2. q \notin Live
      BY <1>3, <2>1, TakenGood
    <3>3. s.home[q] = b
      BY <1>3, <2>1, TakenGood, ZenonT(60)
    <3>4. s.num = c.num
      BY <1>3, <2>1, TakenGood, ZenonT(60)
    <3>5. \A x \in Live : s.home[x] = c.home[x]
      BY <1>3, <2>1, TakenGood, ZenonT(60)
    <3>6. QED BY <3>1, <3>2, <3>3, <3>4, <3>5
  <2>3. QED BY <1>3, <2>2
<1> HIDE DEF c, s, q
<1>5. /\ s.word[p] \in Bucket
      /\ Good(Returned(s, p), (Live \union {q}) \ {p}, foreign)
      /\ Returned(s, p).home = s.home
      /\ Returned(s, p).num = s.num - 1
  <2>1. p \in Live \union {q}
    OBVIOUS
  <2>2. QED BY <1>4, <2>1, ReturnedGood, Zenon
<1>6. km.num = Cardinality(Live) /\ Cardinality(Live) > 0 /\ Cardinality(Live) \in Nat
  BY CountFacts DEF IInv, realloc
<1>7. ok
  <2>1. km.word[p] \in Bucket
    BY <1>2, ReturnedGood
  <2>2. s.num > 0
    BY <1>4, <1>6
  <2>3. QED BY <1>5, <2>1, <2>2 DEF FreeAsserts
<1>8. /\ km' = Returned(s, p)
      /\ live' = Without(With(live, q, newsize), p)
      /\ foreign' = foreign /\ panicked' = FALSE /\ newsize > 0 /\ newsize \in Int
  BY <1>1, <1>7, SizesAssumption DEF realloc, s, q, c
<1> HIDE DEF ok
<1>9. /\ Live' = (Live \union {q}) \ {p}
      /\ live'[q] = newsize
      /\ \A x \in Live \ {p} : live'[x] = live[x]
  BY <1>4, <1>8 DEF Live, With, Without
<1>10. TypeOK'
  <2>1. Typed(km)' /\ Live' \subseteq Chunks'
    BY <1>5, <1>8, <1>9 DEF Good, Chunks
  <2>2. \A x \in Live' : live'[x] \in Nat
    BY <1>8, <1>9 DEF IInv, TypeOK
  <2>3. panicked' \in BOOLEAN /\ \A r \in foreign' : r.lo \in Nat /\ r.hi \in Nat
    BY <1>8 DEF IInv, TypeOK
  <2>4. QED BY <2>1, <2>2, <2>3 DEF TypeOK
<1>11. Layout(km, foreign)' /\ Links(km, Live)'
  BY <1>5, <1>8, <1>9 DEF Good
<1>12. LargeEnough'
  BY <1>1, <1>4, <1>5, <1>8, <1>9, FitIsEnough DEF IInv, LargeEnough
<1>13. IsFiniteSet(Live') /\ km'.num = Cardinality(Live')
  <2>1. /\ IsFiniteSet(Live \union {q})
        /\ Cardinality(Live \union {q}) = Cardinality(Live) + 1
        /\ Cardinality(Live) \in Nat
    BY <1>4, CountFacts DEF IInv
  <2>2. /\ IsFiniteSet((Live \union {q}) \ {p})
        /\ Cardinality((Live \union {q}) \ {p}) = Cardinality(Live)
    BY <2>1, CountFacts
  <2>3. km'.num = km.num
    BY <1>4, <1>5, <1>6, <1>8, <2>1
  <2>4. QED BY <1>6, <1>9, <2>2, <2>3
<1>14. IInv'
  BY <1>8, <1>10, <1>11, <1>12, <1>13 DEF IInv
<1>15. p \in Chunks' /\ km'.home[p] = km.home[p]
  BY <1>4, <1>5, <1>8 DEF Good, Chunks
<1>16. QED BY <1>4, <1>8, <1>9, <1>14, <1>15

\* A refused size leaves the invariant, the program having stopped.
LEMMA PanicIInv ==
  ASSUME IInv, NEW size \in Sizes, malloc_panics(size)
  PROVE  IInv'
<1>1. Good(km, Live, foreign)
  BY DEF IInv, TypeOK, Good, Chunks
<1>2. Good(Counted(km), Live, foreign) /\ Counted(km).home = km.home
  BY <1>1, CountedGood
<1>3. Good(km', Live, foreign) /\ km'.home = km.home
  BY <1>1, <1>2 DEF malloc_panics
<1>4. live' = live /\ foreign' = foreign /\ panicked' = TRUE
  BY DEF malloc_panics
<1>5. Live' = Live
  BY <1>4 DEF Live
<1>6. TypeOK'
  BY <1>3, <1>4, <1>5 DEF IInv, TypeOK, Good, Chunks
<1>7. Layout(km, foreign)' /\ Links(km, Live)'
  BY <1>3, <1>4, <1>5 DEF Good
<1>8. LargeEnough'
  BY <1>3, <1>4, <1>5 DEF IInv, LargeEnough
<1>9. QED BY <1>4, <1>5, <1>6, <1>7, <1>8 DEF IInv

\* Another client of platform_allocate preserves the invariant.
LEMMA ClientIInv ==
  ASSUME IInv, NEW size \in ForeignSizes, platform_client(size)
  PROVE  IInv'
<1> DEFINE brk == platform_allocate(km.heap_ptr, size)
           new == [lo |-> km.heap_ptr, hi |-> km.heap_ptr + size]
<1>1. /\ size \in Nat /\ size > 0
      /\ km' = [km EXCEPT !.heap_ptr = brk]
      /\ foreign' = foreign \union {new}
      /\ live' = live /\ panicked' = panicked /\ panicked = FALSE
  BY SizesAssumption DEF platform_client, IInv, TypeOK
<1>2. Typed(km)
  BY DEF IInv, TypeOK
<1>3. /\ brk \in Nat /\ brk >= km.heap_ptr + size /\ brk % 4 = 0
  BY <1>1, <1>2 DEF platform_allocate, Align4, Typed
<1>4. /\ km'.heap_ptr = brk /\ DOMAIN km' = DOMAIN km
      /\ km'.buckets = km.buckets /\ km'.head = km.head
      /\ km'.word = km.word /\ km'.home = km.home
      /\ km'.num = km.num /\ km'.num_tot = km.num_tot
      /\ km'.req_num = km.req_num /\ km'.req_size = km.req_size
  BY <1>1, <1>2 DEF Typed
<1> HIDE DEF brk
<1>5. Typed(km)'
  BY <1>1, <1>2, <1>3, <1>4 DEF Typed
<1>6. Live' = Live /\ Chunks' = Chunks
  BY <1>1, <1>4 DEF Live, Chunks
<1>7. new.lo \in Nat /\ new.hi \in Nat /\ new.lo = km.heap_ptr /\ new.hi = km.heap_ptr + size
  BY <1>1, <1>2 DEF Typed
<1> HIDE DEF new
<1>8. TypeOK'
  BY <1>1, <1>5, <1>6, <1>7 DEF IInv, TypeOK
<1>9. Layout(km, foreign)'
  <2>1. \A p \in DOMAIN km.home : End(km', p) = End(km, p) /\ End(km, p) \in Nat
    BY <1>2, <1>4, BucketSizes DEF End, bucket_actual_size, Typed
  <2>2. Layout(km, foreign) /\ 4 * NBUCKETS \in Nat /\ brk >= km.heap_ptr
    BY <1>1, <1>2, <1>3, NBUCKETSAssumption DEF IInv, Typed
  <2>3. /\ \A p \in DOMAIN km.home : End(km', p) <= brk
        /\ \A p, q \in DOMAIN km.home : p < q => End(km', p) <= q
        /\ km.buckets # 0 => km.buckets + 4 * NBUCKETS <= brk
    <3>1. km.heap_ptr \in Nat /\ km.buckets \in Nat /\ \A p \in DOMAIN km.home : p \in Nat
      BY <1>2 DEF Typed
    <3>2. QED BY <1>3, <2>1, <2>2, <3>1 DEF Layout
  <2>4. \A r \in foreign \union {new} :
       /\ r.lo \in Nat /\ r.hi \in Nat /\ r.lo < r.hi /\ r.hi <= brk
       /\ \A p \in DOMAIN km.home : End(km', p) <= r.lo \/ r.hi <= p
       /\ km.buckets = 0 \/ r.hi <= km.buckets \/ km.buckets + 4 * NBUCKETS <= r.lo
    BY <1>1, <1>2, <1>3, <1>7, <2>1, <2>2 DEF Layout, Typed
  <2>5. \A r, q \in foreign \union {new} : r = q \/ r.hi <= q.lo \/ q.hi <= r.lo
    BY <1>7, <2>2 DEF Layout
  <2>6. QED BY <1>1, <1>4, <2>1, <2>2, <2>3, <2>4, <2>5 DEF Layout
<1>10. Links(km, Live)'
  BY <1>4, <1>6 DEF IInv, Links, Link
<1>11. LargeEnough'
  BY <1>1, <1>4, <1>6 DEF IInv, LargeEnough
<1>12. QED BY <1>1, <1>4, <1>6, <1>8, <1>9, <1>10, <1>11 DEF IInv

\* IInv is an invariant of the allocator, whatever the number of buckets,
\* the sizes and the bounds.
THEOREM Invariance == ASSUME NoHugeSize PROVE Spec => []IInv
<1>1. Init => IInv
  BY InitIInv
<1>2. IInv /\ [Next]_vars => IInv'
  <2> SUFFICES ASSUME IInv, [Next]_vars PROVE IInv'
    OBVIOUS
  <2>1. CASE Next
    BY <2>1, MallocIInv, PanicIInv, FreeIInv, ReallocIInv, ClientIInv DEF Next, Live
  <2>2. CASE UNCHANGED vars
    BY <2>2 DEF vars, IInv, TypeOK, LargeEnough, Live, Chunks
  <2>3. QED BY <2>1, <2>2
<1>3. QED BY <1>1, <1>2, PTL DEF Spec

\* Type correctness: in particular the break stays aligned to words.
THEOREM Typing == ASSUME NoHugeSize PROVE Spec => []TypeOK
<1>1. IInv => TypeOK
  BY DEF IInv
<1>2. QED BY <1>1, Invariance, PTL

\* What free relies on: the first word of a chunk in use is its bucket.
THEOREM HeadersIntact == ASSUME NoHugeSize PROVE Spec => []HeaderIntact
<1>1. IInv => HeaderIntact
  BY DEF IInv, HeaderIntact, Links
<1>2. QED BY <1>1, Invariance, PTL
\* The invariant separates what the program and the others hold.
LEMMA IInvNoOverlap == IInv => NoOverlap
<1> SUFFICES ASSUME IInv PROVE NoOverlap
  OBVIOUS
<1>1. Typed(km) /\ Layout(km, foreign) /\ Live \subseteq DOMAIN km.home
  BY DEF IInv, TypeOK, Chunks
<1>2. /\ 4 * NBUCKETS \in Nat /\ km.heap_ptr \in Nat /\ km.buckets \in Nat
      /\ \A p \in DOMAIN km.home :
           p \in Nat /\ End(km, p) \in Nat /\ p + 8 <= End(km, p)
  BY <1>1, NBUCKETSAssumption, BucketSizes DEF Typed, End, bucket_actual_size
<1>3. \A p \in Live : live[p] \in Nat /\ p + 4 + live[p] <= End(km, p)
  <2>1. \A p \in Live : live[p] + 4 <= bucket_actual_size(km.home[p]) /\ live[p] \in Nat
    BY DEF IInv, TypeOK, LargeEnough
  <2>2. \A p \in Live : bucket_actual_size(km.home[p]) \in Nat
    BY <1>1, BucketSizes DEF bucket_actual_size, Typed
  <2>3. QED BY <1>1, <1>2, <2>1, <2>2 DEF End
<1>4. \A p \in Live : Payload(p).lo = p + 4 /\ Payload(p).hi = p + 4 + live[p]
  BY DEF Payload
<1>5. ASSUME NEW r \in foreign
      PROVE  /\ r.hi <= km.heap_ptr
             /\ \A q \in Regions \union OwnRegions : q # r => Heap!Disjoint(r, q)
  <2>1. r.lo \in Nat /\ r.hi \in Nat /\ r.hi <= km.heap_ptr
    BY <1>1 DEF Layout
  <2>2. \A q \in foreign : q # r => Heap!Disjoint(r, q)
    BY <1>1 DEF Layout, Heap!Disjoint
  <2>3. \A p \in DOMAIN km.home : End(km, p) <= r.lo \/ r.hi <= p
    BY <1>1 DEF Layout
  <2>4. \A p \in Live : Heap!Disjoint(r, Payload(p))
    BY <1>1, <1>2, <1>3, <1>4, <2>1, <2>3 DEF Heap!Disjoint
  <2>5. \A p \in DOMAIN km.home : Heap!Disjoint(r, [lo |-> p, hi |-> p + 4])
    BY <1>2, <2>1, <2>3 DEF Heap!Disjoint
  <2>6. km.buckets # 0 =>
          Heap!Disjoint(r, [lo |-> km.buckets, hi |-> km.buckets + 4 * NBUCKETS])
    BY <1>1, <1>2, <2>1 DEF Layout, Heap!Disjoint
  <2>7. QED BY <2>1, <2>2, <2>4, <2>5, <2>6 DEF Regions, OwnRegions, Chunks
<1>6. ASSUME NEW p \in Live
      PROVE  /\ Payload(p).hi <= km.heap_ptr
             /\ \A q \in Regions \union OwnRegions :
                  q # Payload(p) => Heap!Disjoint(Payload(p), q)
  <2>1. End(km, p) <= km.heap_ptr /\ p \in DOMAIN km.home
    BY <1>1 DEF Layout
  <2>2. \A q \in DOMAIN km.home : q # p => End(km, p) <= q \/ End(km, q) <= p
    BY <1>1, <1>2, <2>1 DEF Layout
  <2>3. Payload(p).hi <= km.heap_ptr
    BY <1>1, <1>2, <1>3, <1>4, <2>1
  <2>4. \A q \in Live : q # p => Heap!Disjoint(Payload(p), Payload(q))
    BY <1>1, <1>2, <1>3, <1>4, <2>2 DEF Heap!Disjoint
  <2>5. \A q \in DOMAIN km.home : Heap!Disjoint(Payload(p), [lo |-> q, hi |-> q + 4])
    BY <1>1, <1>2, <1>3, <1>4, <2>2 DEF Heap!Disjoint
  <2>6. \A q \in foreign : Heap!Disjoint(Payload(p), q)
    <3> SUFFICES ASSUME NEW q \in foreign PROVE Heap!Disjoint(Payload(p), q)
      OBVIOUS
    <3>1. /\ q.lo \in Nat /\ q.hi \in Nat /\ q.lo < q.hi
          /\ End(km, p) <= q.lo \/ q.hi <= p
      BY <1>1, <2>1 DEF Layout
    <3>2. QED BY <1>2, <1>3, <1>4, <2>1, <3>1 DEF Heap!Disjoint
  <2>7. km.buckets # 0 =>
          Heap!Disjoint(Payload(p), [lo |-> km.buckets, hi |-> km.buckets + 4 * NBUCKETS])
    <3>1. End(km, p) <= km.buckets \/ km.buckets + 4 * NBUCKETS <= p
      BY <1>1, <2>1 DEF Layout
    <3>2. QED BY <1>2, <1>3, <1>4, <2>1, <3>1 DEF Heap!Disjoint
  <2>8. QED BY <2>3, <2>4, <2>5, <2>6, <2>7 DEF Regions, OwnRegions, Chunks
<1>7. QED BY <1>5, <1>6 DEF NoOverlap, Regions

\* What malloc, realloc and platform_allocate hand out never overlaps
\* anything else in use, nor the allocator's own words.
THEOREM Separation == ASSUME NoHugeSize PROVE Spec => []NoOverlap
<1>1. QED BY Invariance, IInvNoOverlap, PTL

\* free and realloc of a pointer the program holds never fail an assertion.
THEOREM NoSpuriousPanic == ASSUME NoHugeSize PROVE Spec => []FreeAccepted
<1>1. IInv => FreeAccepted
  <2> SUFFICES ASSUME IInv, ~panicked, NEW p \in Live PROVE FreeAsserts(km, p)
    BY DEF FreeAccepted
  <2>1. km.num > 0
    BY CountFacts DEF IInv
  <2>2. km.word[p] \in Bucket
    BY DEF IInv, TypeOK, Typed, Links, Chunks
  <2>3. QED BY <2>1, <2>2 DEF FreeAsserts
<1>2. QED BY <1>1, Invariance, PTL


----------------------------------------------------------------------------
(* The allocator implements the heap. *)

\* The regions of different chunks differ from one another and from those
\* of the platform's other clients, and none ends before it begins.
PayloadsDistinct ==
  /\ \A p, q \in Live : Payload(p) = Payload(q) => p = q
  /\ \A p \in Live : Payload(p) \notin foreign
  /\ \A p \in Live : Payload(p).lo <= Payload(p).hi

\* What is handed out in different chunks, or by the platform, are different
\* regions.
LEMMA PayloadsApart == IInv => PayloadsDistinct
<1> SUFFICES ASSUME IInv PROVE PayloadsDistinct
  OBVIOUS
<1>1. Typed(km) /\ Layout(km, foreign) /\ Live \subseteq DOMAIN km.home
  BY DEF IInv, TypeOK, Chunks
<1>2. \A p \in Live : p \in Nat /\ live[p] \in Nat /\ p + 8 <= End(km, p) /\ End(km, p) \in Nat
  BY <1>1, BucketSizes DEF Typed, End, bucket_actual_size, IInv, TypeOK
<1>3. \A p \in Live : Payload(p).lo = p + 4 /\ Payload(p).hi = p + 4 + live[p]
  BY DEF Payload
<1>4. ASSUME NEW p \in Live, Payload(p) \in foreign PROVE FALSE
  <2>1. /\ Payload(p).lo < Payload(p).hi
        /\ End(km, p) <= Payload(p).lo \/ Payload(p).hi <= p
    BY <1>1, <1>4 DEF Layout
  <2>2. QED BY <1>2, <1>3, <2>1
<1>5. \A p, q \in Live : Payload(p) = Payload(q) => p = q
  BY <1>2, <1>3
<1>6. QED BY <1>2, <1>3, <1>4, <1>5 DEF PayloadsDistinct

\* A region in use is apart from any other that is in use.
LEMMA NewIsFresh ==
  ASSUME IInv', NEW r, r \in Regions', NEW Old, Old \subseteq Regions', r \notin Old
  PROVE  \A q \in Old : Heap!Disjoint(r, q)
<1>1. NoOverlap'
  BY IInvNoOverlap, PTL
<1>2. QED BY <1>1 DEF NoOverlap

\* malloc hands out one region.
LEMMA MallocAllocates ==
  ASSUME NoHugeSize, IInv, NEW size \in Sizes, malloc(size)
  PROVE  Heap!Alloc
<1>1. PICK q : /\ q \notin Live /\ Live' = Live \union {q}
               /\ \A p \in Live : live'[p] = live[p]
  BY MallocIInv
<1>2. IInv' /\ foreign' = foreign
  BY MallocIInv
<1> DEFINE r == Payload(q)'
<1>3. \A p \in Live : Payload(p)' = Payload(p)
  BY <1>1 DEF Payload
<1>4. Regions' = Regions \union {r}
  BY <1>1, <1>2, <1>3 DEF Regions
<1>5. PayloadsDistinct'
  BY <1>2, PayloadsApart, PTL
<1>6. /\ \A p \in Live : Payload(q)' # Payload(p)'
      /\ r \notin foreign
      /\ r.lo <= r.hi
  BY <1>1, <1>2, <1>5 DEF PayloadsDistinct
<1>7. r \notin Regions
  BY <1>3, <1>6 DEF Regions
<1> HIDE DEF r
<1>8. \A x \in Regions : Heap!Disjoint(r, x)
  BY <1>2, <1>4, <1>7, NewIsFresh
<1>9. QED BY <1>4, <1>6, <1>7, <1>8 DEF Heap!Alloc, Heap!Fresh

\* free takes back the region of its chunk and no other.
LEMMA FreeReleases ==
  ASSUME NoHugeSize, IInv, NEW p \in Live, free(p)
  PROVE  Heap!Release
<1>1. /\ foreign' = foreign /\ Live' = Live \ {p}
      /\ \A x \in Live \ {p} : live'[x] = live[x]
  BY FreeIInv
<1>2. \A x \in Live \ {p} : Payload(x)' = Payload(x)
  BY <1>1 DEF Payload
<1>3. PayloadsDistinct
  BY PayloadsApart
<1>4. Regions' = Regions \ {Payload(p)} /\ Payload(p) \in Regions
  BY <1>1, <1>2, <1>3 DEF Regions, PayloadsDistinct
<1>5. QED BY <1>4 DEF Heap!Release

\* realloc hands out a region apart from all those in use, the one it then
\* takes back included: memcpy reads and writes different memory.
LEMMA ReallocMoves ==
  ASSUME NoHugeSize, IInv, NEW p \in Live, NEW newsize \in Sizes, realloc(p, newsize)
  PROVE  Heap!Move
<1>1. /\ IInv' /\ foreign' = foreign
      /\ p \in Chunks' /\ km'.home[p] = km.home[p]
  BY ReallocIInv
<1>2. PICK q : /\ q \notin Live /\ Live' = (Live \union {q}) \ {p}
               /\ \A x \in Live \ {p} : live'[x] = live[x]
  BY ReallocIInv
<1> DEFINE r == Payload(q)'
           old == Payload(p)
<1>3. \A x \in Live \ {p} : Payload(x)' = Payload(x)
  BY <1>2 DEF Payload
<1>4. PayloadsDistinct /\ PayloadsDistinct'
  BY <1>1, PayloadsApart, PTL
<1>5. old \in Regions /\ Regions' = (Regions \ {old}) \union {r}
  BY <1>1, <1>2, <1>3, <1>4 DEF Regions, PayloadsDistinct
<1>6. /\ \A x \in Live \ {p} : Payload(q)' # Payload(x)'
      /\ r \notin foreign
      /\ r.lo <= r.hi
  BY <1>1, <1>2, <1>4 DEF PayloadsDistinct
<1>7. r \notin Regions \ {old}
  BY <1>3, <1>6 DEF Regions
<1>8. Heap!Disjoint(r, old) /\ r # old
  <2>1. /\ q \in Live' /\ q # p
        /\ q \in DOMAIN km'.home /\ p \in DOMAIN km'.home
        /\ Typed(km') /\ Layout(km', foreign')
    BY <1>1, <1>2 DEF IInv, TypeOK, Chunks
  <2>2. /\ q \in Nat /\ p \in Nat
        /\ End(km', p) <= q \/ End(km', q) <= p
    BY <2>1 DEF Typed, Layout
  <2>3. live'[q] \in Nat /\ live'[q] + 4 <= bucket_actual_size(km'.home[q])
    BY <1>1, <2>1 DEF IInv, TypeOK, LargeEnough
  <2>4. live[p] \in Nat /\ live[p] + 4 <= bucket_actual_size(km'.home[p])
    BY <1>1 DEF IInv, TypeOK, LargeEnough
  <2>5. /\ bucket_actual_size(km'.home[q]) \in Nat
        /\ bucket_actual_size(km'.home[p]) \in Nat
    BY <2>1, BucketSizes DEF Typed, bucket_actual_size
  <2>6. /\ q + 4 + live'[q] <= End(km', q)
        /\ p + 4 + live[p] <= End(km', p)
    BY <2>2, <2>3, <2>4, <2>5 DEF End
  <2>7. /\ r.lo = q + 4 /\ r.hi = q + 4 + live'[q]
        /\ old.lo = p + 4 /\ old.hi = p + 4 + live[p]
    BY DEF Payload
  <2>8. End(km', p) \in Nat /\ End(km', q) \in Nat
    BY <2>2, <2>5 DEF End
  <2> HIDE DEF r, old
  <2>9. Heap!Disjoint(r, old)
    BY <2>2, <2>3, <2>4, <2>6, <2>7, <2>8 DEF Heap!Disjoint
  <2>10. r # old
    BY <2>1, <2>2, <2>7
  <2>11. QED BY <2>9, <2>10
<1> HIDE DEF r, old
<1>9. \A x \in Regions \ {old} : Heap!Disjoint(r, x)
  BY <1>1, <1>5, <1>7, NewIsFresh
<1>10. r \notin Regions /\ Heap!Fresh(r)
  BY <1>6, <1>7, <1>8, <1>9 DEF Heap!Fresh
<1>11. QED BY <1>5, <1>10 DEF Heap!Move

\* Another client of platform_allocate is handed out one region.
LEMMA ClientAllocates ==
  ASSUME NoHugeSize, IInv, NEW size \in ForeignSizes, platform_client(size)
  PROVE  Heap!Alloc
<1> DEFINE r == [lo |-> km.heap_ptr, hi |-> km.heap_ptr + size]
<1>1. /\ size \in Nat /\ size > 0
      /\ km'.home = km.home /\ live' = live /\ foreign' = foreign \union {r}
  BY SizesAssumption DEF platform_client, IInv, TypeOK, Typed
<1>2. Regions' = Regions \union {r}
  BY <1>1 DEF Regions, Live, Payload
<1>3. NoOverlap
  BY IInvNoOverlap
<1>4. km.heap_ptr \in Nat /\ \A x \in Regions : x.hi \in Nat /\ x.hi <= km.heap_ptr
  <2>1. km.heap_ptr \in Nat /\ \A p \in Live : p \in Nat /\ live[p] \in Nat
    BY DEF IInv, TypeOK, Typed, Chunks
  <2>2. \A p \in Live : Payload(p).hi \in Nat
    BY <2>1 DEF Payload
  <2>3. \A x \in foreign : x.hi \in Nat
    BY DEF IInv, TypeOK
  <2>4. QED BY <1>3, <2>1, <2>2, <2>3 DEF NoOverlap, Regions
<1>5. r.lo = km.heap_ptr /\ r.hi = km.heap_ptr + size
  OBVIOUS
<1> HIDE DEF r
<1>6. r \notin Regions /\ r.lo <= r.hi /\ \A x \in Regions : Heap!Disjoint(r, x)
  BY <1>1, <1>4, <1>5 DEF Heap!Disjoint
<1>7. QED BY <1>2, <1>6 DEF Heap!Alloc, Heap!Fresh

\* The allocator implements the heap: malloc and platform_allocate hand out
\* fresh regions, free takes back its own, realloc moves one, and a failed
\* assertion takes nothing from anybody.
THEOREM Refinement == ASSUME NoHugeSize PROVE Spec => ImplementsHeap
<1>1. Init => Heap!Init
  BY DEF Init, Heap!Init, Regions, Live
<1>2. IInv /\ [Next]_vars => [Heap!Next]_Regions
  <2> SUFFICES ASSUME IInv, [Next]_vars PROVE [Heap!Next]_Regions
    OBVIOUS
  <2>1. ASSUME NEW size \in Sizes, malloc(size) PROVE Heap!Next
    BY <2>1, MallocAllocates DEF Heap!Next
  <2>2. ASSUME NEW size \in Sizes, malloc_panics(size) PROVE Regions' = Regions
    BY <2>2 DEF malloc_panics, Regions, Live, Payload
  <2>3. ASSUME NEW p \in Live, free(p) PROVE Heap!Next
    BY <2>3, FreeReleases DEF Heap!Next
  <2>4. ASSUME NEW p \in Live, NEW size \in Sizes, realloc(p, size) PROVE Heap!Next
    BY <2>4, ReallocMoves DEF Heap!Next
  <2>5. ASSUME NEW size \in ForeignSizes, platform_client(size) PROVE Heap!Next
    BY <2>5, ClientAllocates DEF Heap!Next
  <2>6. CASE UNCHANGED vars
    BY <2>6 DEF vars, Regions, Live, Payload
  <2>7. QED BY <2>1, <2>2, <2>3, <2>4, <2>5, <2>6 DEF Next, Live
<1>3. QED BY <1>1, <1>2, Invariance, PTL DEF ImplementsHeap, Heap!Spec, Spec
----------------------------------------------------------------------------
(* The free lists *)

\* q holds the chunks of bucket b that are not in use, in the order in which
\* the links have them.
IsList(s, L, b, q) ==
  /\ q \in Seq(DOMAIN s.home)
  /\ s.head[b] = IF q = <<>> THEN 0 ELSE q[1]
  /\ \A i \in 1 .. Len(q) : s.word[q[i]] = IF i = Len(q) THEN 0 ELSE q[i + 1]
  /\ \A i, j \in 1 .. Len(q) : i # j => q[i] # q[j]
  /\ \A p \in DOMAIN s.home : p \notin L /\ s.home[p] = b <=> \E i \in 1 .. Len(q) : q[i] = p

Listed(s, L) == IsFiniteSet(DOMAIN s.home) /\ \A b \in Bucket : \E q : IsList(s, L, b, q)

\* A list stays one when neither its head nor its chunks change.
LEMMA ListKept ==
  ASSUME NEW s, NEW L, NEW b, NEW q, IsList(s, L, b, q), NEW t, NEW M,
         DOMAIN s.home \subseteq DOMAIN t.home, t.head[b] = s.head[b],
         \A p \in DOMAIN s.home : s.home[p] = b /\ p \notin L => t.word[p] = s.word[p],
         \A p \in DOMAIN s.home : t.home[p] = s.home[p] /\ (s.home[p] = b => (p \in L <=> p \in M)),
         \A p \in DOMAIN t.home \ DOMAIN s.home : p \in M
  PROVE  IsList(t, M, b, q)
<1>1. q \in Seq(DOMAIN s.home) /\ Len(q) \in Nat /\ \A i \in 1 .. Len(q) : q[i] \in DOMAIN s.home
  BY DEF IsList
<1>2. q \in Seq(DOMAIN t.home)
  BY <1>1
<1>3. \A i \in 1 .. Len(q) : s.home[q[i]] = b /\ q[i] \notin L
  BY <1>1 DEF IsList
<1>4. \A i \in 1 .. Len(q) : t.word[q[i]] = IF i = Len(q) THEN 0 ELSE q[i + 1]
  BY <1>1, <1>3 DEF IsList
<1>5. \A p \in DOMAIN t.home : p \notin M /\ t.home[p] = b <=> \E i \in 1 .. Len(q) : q[i] = p
  <2>1. ASSUME NEW p \in DOMAIN t.home, p \notin DOMAIN s.home
        PROVE  ~ \E i \in 1 .. Len(q) : q[i] = p
    BY <1>1, <2>1
  <2>2. ASSUME NEW p \in DOMAIN s.home
        PROVE  p \notin M /\ t.home[p] = b <=> p \notin L /\ s.home[p] = b
    OBVIOUS
  <2>3. \A p \in DOMAIN s.home : p \notin L /\ s.home[p] = b <=> \E i \in 1 .. Len(q) : q[i] = p
    BY DEF IsList
  <2>4. QED BY <2>1, <2>2, <2>3
<1>6. QED BY <1>2, <1>4, <1>5 DEF IsList

\* Counting a request leaves the lists alone.
LEMMA CountedLists ==
  ASSUME NEW s, NEW L, NEW F, Good(s, L, F), Listed(s, L)
  PROVE  Listed(Counted(s), L)
<1> DEFINE t == Counted(s)
<1>1. /\ t.head = IF s.buckets = 0 THEN [b \in Bucket |-> 0] ELSE s.head
      /\ t.word = s.word /\ t.home = s.home
  BY DEF Counted, Good, Typed
<1> HIDE DEF t
<1>2. IsFiniteSet(DOMAIN t.home)
  BY <1>1 DEF Listed
<1>3. ASSUME NEW b \in Bucket PROVE \E q : IsList(t, L, b, q)
  <2>1. CASE s.buckets = 0
    <3>1. DOMAIN t.home = {} /\ t.head[b] = 0
      BY <1>1, <2>1 DEF Good, Layout
    <3>2. <<>> \in Seq(DOMAIN t.home) /\ Len(<<>>) = 0
      OBVIOUS
    <3>3. IsList(t, L, b, <<>>)
      BY <3>1, <3>2 DEF IsList
    <3>4. QED BY <3>3
  <2>2. CASE s.buckets # 0
    <3>1. PICK q : IsList(s, L, b, q)
      BY DEF Listed
    <3>2. IsList(t, L, b, q)
      BY <1>1, <2>2, <3>1 DEF IsList
    <3>3. QED BY <3>2
  <2>3. QED BY <2>1, <2>2
<1>4. QED BY <1>2, <1>3 DEF Listed, t

\* A chunk that is taken was the first of its list, or is in none.
LEMMA TakenLists ==
  ASSUME NEW s, NEW L, NEW F, NEW b \in Bucket, Good(s, L, F), s.buckets # 0, Listed(s, L)
  PROVE  /\ Listed(Taken(s, b), L \union {Chunk(s, b)})
         /\ \A p \in DOMAIN Taken(s, b).home \ DOMAIN s.home :
              Taken(s, b).home[p] = b /\ \A q \in DOMAIN s.home : s.home[q] = b => q \in L
<1> DEFINE t == Taken(s, b)
           ptr == Chunk(s, b)
           M == L \union {ptr}
<1>1. PICK q : IsList(s, L, b, q)
  BY DEF Listed
<1>2. q \in Seq(DOMAIN s.home) /\ Len(q) \in Nat /\ (q = <<>> <=> Len(q) = 0)
      /\ \A i \in 1 .. Len(q) : q[i] \in DOMAIN s.home
  BY <1>1 DEF IsList
<1>3. \A p \in DOMAIN s.home : p # 0
  BY DEF Good, Typed
<1>4. CASE s.head[b] = 0
  <2>1. ptr \notin DOMAIN s.home
    BY <1>4, TakenGood, BucketSizes DEF Chunk, Good, Typed, Layout, End, bucket_actual_size
  <2>2. t.word = With(s.word, ptr, b) /\ t.home = With(s.home, ptr, b) /\ t.head = s.head
    BY <1>4 DEF Taken, Good, Typed
  <2> HIDE DEF t, ptr
  <2>3. /\ DOMAIN t.home = DOMAIN s.home \union {ptr} /\ t.home[ptr] = b
        /\ \A p \in DOMAIN s.home : t.home[p] = s.home[p] /\ t.word[p] = s.word[p]
    BY <2>1, <2>2 DEF Good, Typed, With
  <2>4. q = <<>>
    BY <1>1, <1>2, <1>3, <1>4 DEF IsList
  <2>5. \A p \in DOMAIN s.home : s.home[p] = b => p \in L
    BY <1>1, <1>2, <2>4 DEF IsList
  <2>6. ASSUME NEW c \in Bucket PROVE \E r : IsList(t, M, c, r)
    <3>1. PICK r : IsList(s, L, c, r)
      BY DEF Listed
    <3>2. IsList(t, M, c, r)
      BY <2>1, <2>2, <2>3, <3>1, ListKept
    <3>3. QED BY <3>2
  <2>7. IsFiniteSet(DOMAIN t.home)
    BY <2>3, FS_AddElement DEF Listed
  <2>8. QED BY <2>3, <2>5, <2>6, <2>7 DEF Listed, t, ptr
<1>5. CASE s.head[b] # 0
  <2>1. ptr = s.head[b] /\ q # <<>> /\ ptr = q[1] /\ Len(q) >= 1
    BY <1>1, <1>2, <1>5 DEF Chunk, IsList
  <2>2. ptr \in DOMAIN s.home /\ ptr \notin L /\ s.home[ptr] = b
    BY <1>1, <1>2, <2>1 DEF IsList
  <2>3. /\ t.word = With(s.word, ptr, b) /\ t.home = s.home
        /\ t.head = [s.head EXCEPT ![b] = s.word[ptr]]
    BY <1>5 DEF Taken, Good, Typed
  <2> HIDE DEF t, ptr
  <2>4. \A p \in DOMAIN s.home : p # ptr => t.word[p] = s.word[p]
    BY <2>2, <2>3 DEF Good, Typed, With
  <2>5. t.head[b] = s.word[ptr] /\ \A c \in Bucket : c # b => t.head[c] = s.head[c]
    BY <2>3 DEF Good, Typed
  <2> DEFINE r == Tail(q)
  <2>6. /\ r \in Seq(DOMAIN s.home) /\ Len(r) = Len(q) - 1
        /\ \A i \in 1 .. Len(r) : r[i] = q[i + 1] /\ i + 1 \in 1 .. Len(q)
    BY <1>2, <2>1
  <2> HIDE DEF r
  <2>7. r = <<>> <=> Len(q) = 1
    <3>1. r = <<>> <=> Len(r) = 0
      BY <2>6, EmptySeq
    <3>2. QED BY <1>2, <2>6, <3>1
  <2>8. IsList(t, M, b, r)
    <3>1. s.word[q[1]] = IF 1 = Len(q) THEN 0 ELSE q[1 + 1]
      <4>1. 1 \in 1 .. Len(q)
        BY <1>2, <2>1
      <4>2. QED BY <1>1, <4>1 DEF IsList
    <3>2. t.head[b] = IF r = <<>> THEN 0 ELSE r[1]
      BY <1>2, <2>1, <2>5, <2>6, <2>7, <3>1
    <3>3. ASSUME NEW i \in 1 .. Len(r)
          PROVE  t.word[r[i]] = IF i = Len(r) THEN 0 ELSE r[i + 1]
      <4>1. r[i] = q[i + 1] /\ i + 1 \in 1 .. Len(q) /\ i + 1 # 1 /\ 1 \in 1 .. Len(q)
        BY <1>2, <2>1, <2>6
      <4>2. q[i + 1] # ptr /\ q[i + 1] \in DOMAIN s.home
        BY <1>1, <1>2, <2>1, <4>1 DEF IsList
      <4>3. s.word[q[i + 1]] = IF i + 1 = Len(q) THEN 0 ELSE q[(i + 1) + 1]
        BY <1>1, <4>1 DEF IsList
      <4>4. i # Len(r) => i + 1 \in 1 .. Len(r)
        BY <1>2, <2>6
      <4>5. i = Len(r) <=> i + 1 = Len(q)
        BY <1>2, <2>6
      <4>6. QED BY <2>4, <2>6, <4>1, <4>2, <4>3, <4>4, <4>5
    <3>4. \A i, j \in 1 .. Len(r) : i # j => r[i] # r[j]
      BY <1>1, <1>2, <2>6 DEF IsList
    <3>5. ASSUME NEW p \in DOMAIN s.home
          PROVE  p \notin M /\ s.home[p] = b <=> \E i \in 1 .. Len(r) : r[i] = p
      <4>1. p \notin L /\ s.home[p] = b <=> \E i \in 1 .. Len(q) : q[i] = p
        BY <1>1 DEF IsList
      <4>2. (\E i \in 1 .. Len(q) : q[i] = p) /\ p # ptr <=> \E i \in 1 .. Len(r) : r[i] = p
        <5>1. ASSUME NEW i \in 1 .. Len(q), q[i] = p, p # ptr PROVE \E k \in 1 .. Len(r) : r[k] = p
          <6>1. i # 1 /\ i - 1 \in 1 .. Len(r) /\ (i - 1) + 1 = i
            BY <1>2, <2>1, <2>6, <5>1
          <6>2. QED BY <2>6, <5>1, <6>1
        <5>2. ASSUME NEW k \in 1 .. Len(r), r[k] = p
              PROVE  p # ptr /\ \E i \in 1 .. Len(q) : q[i] = p
          <6>1. q[k + 1] = p /\ k + 1 \in 1 .. Len(q) /\ k + 1 # 1 /\ 1 \in 1 .. Len(q)
            BY <1>2, <2>1, <2>6, <5>2
          <6>2. q[k + 1] # q[1]
            BY <1>1, <6>1 DEF IsList
          <6>3. QED BY <2>1, <6>1, <6>2
        <5>3. QED BY <5>1, <5>2
      <4>3. QED BY <4>1, <4>2
    <3>6. QED BY <2>3, <2>6, <3>2, <3>3, <3>4, <3>5 DEF IsList
  <2>9. ASSUME NEW c \in Bucket, c # b PROVE \E u : IsList(t, M, c, u)
    <3>1. PICK u : IsList(s, L, c, u)
      BY DEF Listed
    <3>2. \A p \in DOMAIN s.home : s.home[p] = c => p # ptr
      BY <2>2, <2>9
    <3>3. /\ DOMAIN s.home \subseteq DOMAIN t.home /\ t.head[c] = s.head[c]
          /\ \A p \in DOMAIN s.home : s.home[p] = c /\ p \notin L => t.word[p] = s.word[p]
          /\ \A p \in DOMAIN s.home : t.home[p] = s.home[p] /\ (s.home[p] = c => (p \in L <=> p \in M))
          /\ \A p \in DOMAIN t.home \ DOMAIN s.home : p \in M
      BY <2>3, <2>4, <2>5, <2>9, <3>2
    <3> HIDE DEF M
    <3>4. IsList(t, M, c, u)
      BY <3>1, <3>3, ListKept, Zenon
    <3>5. QED BY <3>4
  <2>10. QED BY <2>3, <2>8, <2>9 DEF Listed, t, ptr
<1>6. QED BY <1>4, <1>5

\* A chunk that is given back becomes the first of its list.
LEMMA ReturnedLists ==
  ASSUME NEW s, NEW L, NEW F, NEW p \in L, Good(s, L, F), Listed(s, L)
  PROVE  Listed(Returned(s, p), L \ {p}) /\ Returned(s, p).home = s.home
<1> DEFINE t == Returned(s, p)
           b == s.word[p]
           M == L \ {p}
<1>1. p \in DOMAIN s.home /\ b = s.home[p] /\ b \in Bucket /\ p # 0
  BY DEF Good, Typed, Links
<1>2. /\ t.word = With(s.word, p, s.head[b])
      /\ t.head = [s.head EXCEPT ![b] = p]
      /\ t.home = s.home
  BY DEF Returned, Good, Typed
<1> HIDE DEF t, b
<1>3. /\ t.word[p] = s.head[b]
      /\ \A x \in DOMAIN s.home : x # p => t.word[x] = s.word[x]
  BY <1>1, <1>2 DEF Good, Typed, With
<1>4. t.head[b] = p /\ \A c \in Bucket : c # b => t.head[c] = s.head[c]
  BY <1>1, <1>2 DEF Good, Typed
<1>5. PICK q : IsList(s, L, b, q)
  BY <1>1 DEF Listed
<1>6. q \in Seq(DOMAIN s.home) /\ Len(q) \in Nat /\ (q = <<>> <=> Len(q) = 0)
      /\ \A i \in 1 .. Len(q) : q[i] \in DOMAIN s.home /\ q[i] # p
  BY <1>5 DEF IsList
<1> DEFINE r == <<p>> \o q
<1>7. /\ r \in Seq(DOMAIN s.home) /\ Len(r) = Len(q) + 1 /\ r[1] = p
      /\ \A i \in 1 .. Len(q) : r[i + 1] = q[i]
  <2>1. PICK h : h = <<p>>
    OBVIOUS
  <2>2. h \in Seq(DOMAIN s.home) /\ Len(h) = 1 /\ h[1] = p
    <3>1. PICK S : S = DOMAIN s.home
      OBVIOUS
    <3>2. p \in S
      BY <1>1, <3>1
    <3>3. h \in Seq(S) /\ Len(h) = 1 /\ h[1] = p
      BY <2>1, <3>2
    <3>4. QED BY <3>1, <3>3
  <2>3. r = h \o q
    BY <2>1
  <2> HIDE DEF r
  <2>4. r \in Seq(DOMAIN s.home) /\ Len(r) = Len(h) + Len(q)
    BY <1>6, <2>2, <2>3, ConcatProperties
  <2>5. \A i \in 1 .. Len(h) + Len(q) : r[i] = IF i <= Len(h) THEN h[i] ELSE q[i - Len(h)]
    BY <1>6, <2>2, <2>3, ConcatProperties
  <2>6. r[1] = p
    BY <1>6, <2>2, <2>5
  <2>7. ASSUME NEW i \in 1 .. Len(q) PROVE r[i + 1] = q[i]
    <3>1. i + 1 \in 1 .. Len(h) + Len(q) /\ ~(i + 1 <= Len(h)) /\ (i + 1) - Len(h) = i
      BY <1>6, <2>2
    <3>2. QED BY <2>5, <3>1
  <2>8. QED BY <1>6, <2>2, <2>4, <2>6, <2>7
<1>8. r # <<>>
  BY <1>6, <1>7
<1> HIDE DEF r
<1>9. IsList(t, M, b, r)
  <2>1. \A i \in 1 .. Len(r) : i = 1 \/ (i - 1 \in 1 .. Len(q) /\ r[i] = q[i - 1])
    BY <1>6, <1>7
  <2>2. ASSUME NEW i \in 1 .. Len(r)
        PROVE  t.word[r[i]] = IF i = Len(r) THEN 0 ELSE r[i + 1]
    <3>1. CASE i = 1
      <4>1. t.word[r[i]] = IF q = <<>> THEN 0 ELSE q[1]
        BY <1>3, <1>5, <1>7, <3>1 DEF IsList
      <4>2. q # <<>> => r[1 + 1] = q[1]
        BY <1>6, <1>7
      <4>3. i = Len(r) <=> q = <<>>
        BY <1>6, <1>7, <3>1
      <4>4. QED BY <3>1, <4>1, <4>2, <4>3
    <3>2. CASE i # 1
      <4>1. PICK k \in 1 .. Len(q) : k = i - 1 /\ r[i] = q[k]
        BY <2>1, <3>2
      <4>2. t.word[r[i]] = IF k = Len(q) THEN 0 ELSE q[k + 1]
        BY <1>3, <1>5, <1>6, <4>1 DEF IsList
      <4>3. k # Len(q) => k + 1 \in 1 .. Len(q)
        BY <1>6
      <4>4. k # Len(q) => r[(k + 1) + 1] = q[k + 1]
        BY <1>7, <4>3
      <4>5. k + 1 = i /\ (k = Len(q) <=> i = Len(r))
        BY <1>6, <1>7, <4>1
      <4>6. QED BY <4>2, <4>4, <4>5
    <3>3. QED BY <3>1, <3>2
  <2>3. ASSUME NEW i \in 1 .. Len(r), NEW j \in 1 .. Len(r), i # j PROVE r[i] # r[j]
    <3>1. CASE i = 1
      BY <1>6, <1>7, <2>1, <2>3, <3>1
    <3>2. CASE j = 1
      BY <1>6, <1>7, <2>1, <2>3, <3>2
    <3>3. CASE i # 1 /\ j # 1
      <4>1. /\ i - 1 \in 1 .. Len(q) /\ r[i] = q[i - 1] /\ j - 1 \in 1 .. Len(q) /\ r[j] = q[j - 1]
            /\ i - 1 # j - 1
        BY <1>6, <1>7, <2>1, <2>3, <3>3
      <4>2. QED BY <1>5, <4>1 DEF IsList
    <3>4. QED BY <3>1, <3>2, <3>3
  <2>4. ASSUME NEW x \in DOMAIN s.home
        PROVE  x \notin M /\ s.home[x] = b <=> \E i \in 1 .. Len(r) : r[i] = x
    <3>1. x \notin L /\ s.home[x] = b <=> \E i \in 1 .. Len(q) : q[i] = x
      BY <1>5 DEF IsList
    <3>2. (\E i \in 1 .. Len(r) : r[i] = x) <=> x = p \/ \E i \in 1 .. Len(q) : q[i] = x
      <4>1. 1 \in 1 .. Len(r) /\ \A i \in 1 .. Len(q) : i + 1 \in 1 .. Len(r)
        BY <1>6, <1>7
      <4>2. QED BY <1>7, <2>1, <4>1
    <3>3. QED BY <1>1, <3>1, <3>2
  <2>5. t.head[b] = IF r = <<>> THEN 0 ELSE r[1]
    BY <1>4, <1>7, <1>8
  <2>6. QED BY <1>2, <1>7, <2>2, <2>3, <2>4, <2>5 DEF IsList
<1>10. ASSUME NEW c \in Bucket, c # b PROVE \E u : IsList(t, M, c, u)
  <2>1. PICK u : IsList(s, L, c, u)
    BY DEF Listed
  <2>2. \A x \in DOMAIN s.home : s.home[x] = c => x # p
    BY <1>1, <1>10
  <2>3. /\ DOMAIN s.home \subseteq DOMAIN t.home /\ t.head[c] = s.head[c]
        /\ \A x \in DOMAIN s.home : s.home[x] = c /\ x \notin L => t.word[x] = s.word[x]
        /\ \A x \in DOMAIN s.home : t.home[x] = s.home[x] /\ (s.home[x] = c => (x \in L <=> x \in M))
        /\ \A x \in DOMAIN t.home \ DOMAIN s.home : x \in M
    BY <1>2, <1>3, <1>4, <1>10, <2>2
  <2> HIDE DEF M
  <2>4. IsList(t, M, c, u)
    BY <2>1, <2>3, ListKept, Zenon
  <2>5. QED BY <2>4
<1>11. QED BY <1>2, <1>9, <1>10 DEF Listed, t
\* Following the links from the head of a bucket, one meets its list.
LEMMA HopsAlongList ==
  ASSUME NEW b, NEW q, IsList(km, Live, b, q), 0 \notin Chunks,
         NEW n \in Nat, n = Cardinality(Chunks)
  PROVE  \A k \in 0 .. n : Hop(b)[k] = IF k < Len(q) THEN q[k + 1] ELSE 0
<1> DEFINE f == [k \in 0 .. n |-> IF k < Len(q) THEN q[k + 1] ELSE 0]
           Body(h) == [k \in 0 .. n |-> IF k = 0 THEN km.head[b] ELSE IF h[k - 1] = 0 THEN 0 ELSE km.word[h[k - 1]]]
           g == Hop(b)
           T == {k \in Nat : k <= n => g[k] = f[k]}
<1>1. /\ q \in Seq(Chunks) /\ Len(q) \in Nat /\ \A i \in 1 .. Len(q) : q[i] \in Chunks /\ q[i] # 0
      /\ Len(q) = 0 <=> q = <<>>
  BY EmptySeq DEF IsList, Chunks
<1>2. \A k \in 0 .. n : f[k] = IF k < Len(q) THEN q[k + 1] ELSE 0
  OBVIOUS
<1>3. f[0] = km.head[b]
  BY <1>1 DEF IsList
<1>4. ASSUME NEW k \in 1 .. n PROVE f[k] = IF f[k - 1] = 0 THEN 0 ELSE km.word[f[k - 1]]
  <2>1. k - 1 \in 0 .. n /\ k \in 0 .. n /\ (k - 1) + 1 = k
    OBVIOUS
  <2>2. CASE k - 1 < Len(q)
    <3>1. f[k - 1] = q[k] /\ k \in 1 .. Len(q)
      BY <1>1, <2>1, <2>2
    <3>2. km.word[q[k]] = IF k = Len(q) THEN 0 ELSE q[k + 1]
      BY <3>1 DEF IsList
    <3>3. k = Len(q) <=> ~(k < Len(q))
      BY <1>1, <3>1
    <3>4. q[k] # 0
      BY <1>1, <3>1
    <3>5. QED BY <1>2, <2>1, <3>1, <3>2, <3>3, <3>4
  <2>3. CASE ~(k - 1 < Len(q))
    <3>1. f[k - 1] = 0 /\ ~(k < Len(q))
      BY <1>1, <2>1, <2>3
    <3>2. QED BY <1>2, <2>1, <3>1
  <2>4. QED BY <2>2, <2>3
<1>5. f = [k \in 0 .. n |-> f[k]]
  OBVIOUS
<1> HIDE DEF f
<1>6. f = Body(f)
  <2>1. ASSUME NEW k \in 0 .. n
        PROVE  f[k] = IF k = 0 THEN km.head[b] ELSE IF f[k - 1] = 0 THEN 0 ELSE km.word[f[k - 1]]
    <3>1. k # 0 => k \in 1 .. n
      OBVIOUS
    <3>2. QED BY <1>3, <1>4, <3>1
  <2>2. QED BY <1>5, <2>1, Zenon
<1>7. g = Body(g)
  BY <1>6, Zenon DEF Hop
<1> HIDE DEF g
<1>8. /\ g[0] = km.head[b]
      /\ \A k \in 1 .. n : g[k] = IF g[k - 1] = 0 THEN 0 ELSE km.word[g[k - 1]]
  <2>1. \A k \in 0 .. n : g[k] = IF k = 0 THEN km.head[b] ELSE IF g[k - 1] = 0 THEN 0 ELSE km.word[g[k - 1]]
    BY <1>7, Zenon
  <2>2. 0 \in 0 .. n /\ \A k \in 1 .. n : k \in 0 .. n /\ k # 0
    OBVIOUS
  <2>3. QED BY <2>1, <2>2
<1>9. 0 \in T
  BY <1>3, <1>8
<1>10. ASSUME NEW k \in Nat, k \in T PROVE k + 1 \in T
  <2>1. CASE k + 1 <= n
    <3>1. k + 1 \in 1 .. n /\ (k + 1) - 1 = k /\ g[k] = f[k]
      BY <1>10, <2>1
    <3>2. g[k + 1] = IF g[k] = 0 THEN 0 ELSE km.word[g[k]]
      BY <1>8, <3>1
    <3>3. f[k + 1] = IF f[k] = 0 THEN 0 ELSE km.word[f[k]]
      BY <1>4, <3>1
    <3>4. QED BY <3>1, <3>2, <3>3
  <2>2. QED BY <2>1
<1>11. \A k \in Nat : k \in T
  <2> HIDE DEF T
  <2> QED BY <1>9, <1>10, SetInduction
<1>12. QED BY <1>2, <1>11 DEF g

\* A list has no more places than there are chunks.
LEMMA ListIsShort ==
  ASSUME NEW s, NEW L, NEW b, NEW q, IsList(s, L, b, q), IsFiniteSet(DOMAIN s.home)
  PROVE  Len(q) \in Nat /\ Len(q) <= Cardinality(DOMAIN s.home)
<1>1. q \in [1 .. Len(q) -> DOMAIN s.home] /\ Len(q) \in Nat
  BY DEF IsList
<1>2. q \in Injection(1 .. Len(q), DOMAIN s.home)
  BY <1>1 DEF IsList, Injection, IsInjective
<1>3. Cardinality(1 .. Len(q)) <= Cardinality(DOMAIN s.home)
  BY <1>2, FS_Injection
<1>4. Cardinality(1 .. Len(q)) = Len(q)
  <2>1. 1 \in Int /\ Len(q) \in Int
    BY <1>1
  <2>2. Cardinality(1 .. Len(q)) = IF 1 > Len(q) THEN 0 ELSE Len(q) - 1 + 1
    BY <2>1, FS_Interval, Zenon
  <2>3. QED BY <1>1, <2>2
<1>5. QED BY <1>1, <1>3, <1>4

ListInv == panicked \/ Listed(km, Live)

\* The lists are what the property says of them.
LEMMA ListsExact == IInv /\ ListInv => FreeListsExact
<1> SUFFICES ASSUME IInv, ListInv, ~panicked, NEW b \in Bucket
             PROVE  /\ {Hop(b)[k] : k \in 0 .. Cardinality(Chunks)} \ {0} = Free(b)
                    /\ Hop(b)[Cardinality(Chunks)] = 0
  BY DEF FreeListsExact
<1>1. PICK q : IsList(km, Live, b, q)
  BY DEF ListInv, Listed
<1>2. IsFiniteSet(DOMAIN km.home) /\ Chunks = DOMAIN km.home /\ 0 \notin Chunks
  BY DEF ListInv, Listed, Chunks, IInv, TypeOK, Typed
<1>3. PICK n \in Nat : n = Cardinality(Chunks)
  BY <1>2, FS_CardinalityType
<1>4. Len(q) \in Nat /\ Len(q) <= n
  BY <1>1, <1>2, <1>3, ListIsShort
<1>5. \A k \in 0 .. n : Hop(b)[k] = IF k < Len(q) THEN q[k + 1] ELSE 0
  BY <1>1, <1>2, <1>3, HopsAlongList
<1>6. Hop(b)[n] = 0
  BY <1>4, <1>5
<1>7. \A p : p \in Free(b) <=> \E i \in 1 .. Len(q) : q[i] = p
  <2>1. \A i \in 1 .. Len(q) : q[i] \in Chunks
    BY <1>1, <1>2 DEF IsList
  <2>2. QED BY <1>1, <1>2, <2>1 DEF IsList, Free
<1>8. ASSUME NEW p, p \in Free(b) PROVE \E k \in 0 .. n : Hop(b)[k] = p /\ p # 0
  <2>1. PICK i \in 1 .. Len(q) : q[i] = p
    BY <1>7, <1>8
  <2>2. i - 1 \in 0 .. n /\ i - 1 < Len(q) /\ (i - 1) + 1 = i
    BY <1>4
  <2>3. p # 0
    BY <1>2, <1>8 DEF Free
  <2>4. QED BY <1>5, <2>1, <2>2, <2>3
<1>9. ASSUME NEW k \in 0 .. n, Hop(b)[k] # 0 PROVE Hop(b)[k] \in Free(b)
  <2>1. k < Len(q) /\ Hop(b)[k] = q[k + 1]
    BY <1>5, <1>9
  <2>2. k + 1 \in 1 .. Len(q)
    BY <1>4, <2>1
  <2>3. QED BY <1>7, <2>1, <2>2
<1>10. {Hop(b)[k] : k \in 0 .. n} \ {0} = Free(b)
  BY <1>8, <1>9
<1>11. QED BY <1>3, <1>6, <1>10

\* What a step does to the lists, and where a new chunk comes from.
LEMMA ListStep ==
  ASSUME NoHugeSize, IInv, ListInv, Next
  PROVE  ListInv' /\ \A p \in DOMAIN km'.home \ Chunks : Free(km'.home[p]) = {}
<1> DEFINE Grown == \A p \in DOMAIN km'.home \ Chunks : Free(km'.home[p]) = {}
<1>1. Good(km, Live, foreign) /\ Chunks = DOMAIN km.home
  BY DEF IInv, TypeOK, Good, Chunks
<1>2. /\ Good(Counted(km), Live, foreign) /\ Counted(km).buckets # 0 /\ Counted(km).home = km.home
  BY <1>1, CountedGood
<1>3. ASSUME ~panicked, NEW b \in Bucket
      PROVE  LET c == Counted(km)
                 s == Taken(c, b)
             IN  /\ Listed(s, Live \union {Chunk(c, b)})
                 /\ Good(s, Live \union {Chunk(c, b)}, foreign)
                 /\ Chunk(c, b) \notin Live
                 /\ \A p \in DOMAIN s.home \ Chunks : Free(s.home[p]) = {}
  <2> DEFINE c == Counted(km)
             s == Taken(c, b)
  <2>1. Listed(c, Live)
    BY <1>1, <1>3, CountedLists DEF ListInv
  <2> HIDE DEF c
  <2>2. Good(c, Live, foreign) /\ c.buckets # 0 /\ c.home = km.home
    BY <1>2 DEF c
  <2>3. /\ Listed(s, Live \union {Chunk(c, b)})
        /\ \A p \in DOMAIN s.home \ DOMAIN c.home :
             s.home[p] = b /\ \A q \in DOMAIN c.home : c.home[q] = b => q \in Live
    BY <2>1, <2>2, TakenLists
  <2>4. Good(s, Live \union {Chunk(c, b)}, foreign) /\ Chunk(c, b) \notin Live
    BY <2>2, TakenGood
  <2>5. \A p \in DOMAIN s.home \ Chunks : Free(s.home[p]) = {}
    BY <1>1, <2>2, <2>3 DEF Free
  <2>6. QED BY <2>3, <2>4, <2>5 DEF c
<1>4. ASSUME NEW size \in Sizes, malloc(size) PROVE ListInv' /\ Grown
  <2>1. PICK b \in Bucket :
          /\ km' = Taken(Counted(km), b)
          /\ live' = With(live, Chunk(Counted(km), b), size)
    BY <1>4 DEF malloc
  <2>2. ~panicked
    BY <1>4 DEF malloc
  <2>3. Live' = Live \union {Chunk(Counted(km), b)}
    BY <2>1 DEF Live, With
  <2>4. QED BY <1>3, <2>1, <2>2, <2>3 DEF ListInv
<1>5. ASSUME NEW size \in Sizes, malloc_panics(size) PROVE ListInv' /\ Grown
  <2>1. panicked' = TRUE /\ (km' = km \/ km' = Counted(km))
    BY <1>5 DEF malloc_panics
  <2>2. DOMAIN km'.home = Chunks
    BY <1>1, <1>2, <2>1
  <2>3. QED BY <2>1, <2>2 DEF ListInv
<1>6. ASSUME NEW p \in Live, free(p) PROVE ListInv' /\ Grown
  <2>1. panicked' = FALSE /\ Live' = Live \ {p}
    BY <1>6, FreeIInv
  <2>2. km' = Returned(km, p) /\ ~panicked
    BY <1>6, <2>1 DEF free
  <2>3. Listed(km', Live') /\ km'.home = km.home
    BY <1>1, <2>1, <2>2, ReturnedLists DEF ListInv
  <2>4. QED BY <1>1, <2>3 DEF ListInv
<1>7. ASSUME NEW p \in Live, NEW size \in Sizes, realloc(p, size) PROVE ListInv' /\ Grown
  <2>1. panicked' = FALSE /\ ~panicked
    BY <1>7, ReallocIInv DEF realloc
  <2>2. PICK b \in Bucket :
          /\ km' = Returned(Taken(Counted(km), b), p)
          /\ live' = Without(With(live, Chunk(Counted(km), b), size), p)
    BY <1>7, <2>1 DEF realloc
  <2> DEFINE q == Chunk(Counted(km), b)
             s == Taken(Counted(km), b)
  <2>3. /\ Listed(s, Live \union {q}) /\ Good(s, Live \union {q}, foreign)
        /\ \A x \in DOMAIN s.home \ Chunks : Free(s.home[x]) = {}
    BY <1>3, <2>1
  <2>4. Live' = (Live \union {q}) \ {p}
    BY <2>2 DEF Live, With, Without
  <2> HIDE DEF q, s
  <2>5. p \in Live \union {q} /\ km' = Returned(s, p)
    BY <2>2 DEF s
  <2>6. Listed(km', Live') /\ km'.home = s.home
    BY <2>3, <2>4, <2>5, ReturnedLists
  <2>7. QED BY <2>3, <2>6 DEF ListInv
<1>8. ASSUME NEW size \in ForeignSizes, platform_client(size) PROVE ListInv' /\ Grown
  <2>1. /\ km' = [km EXCEPT !.heap_ptr = platform_allocate(km.heap_ptr, size)]
        /\ live' = live /\ ~panicked
    BY <1>8 DEF platform_client
  <2>2. km'.home = km.home /\ km'.word = km.word /\ km'.head = km.head
    BY <1>1, <2>1 DEF Good, Typed
  <2>3. Live' = Live
    BY <2>1 DEF Live
  <2>4. Listed(km', Live')
    BY <2>1, <2>2, <2>3 DEF ListInv, Listed, IsList
  <2>5. QED BY <1>1, <2>2, <2>4 DEF ListInv
<1>9. QED BY <1>4, <1>5, <1>6, <1>7, <1>8 DEF Next, Live

\* No chunk is lost, and none is listed twice or while in use.
LEMMA ListsHold == ASSUME NoHugeSize PROVE Spec => [](IInv /\ ListInv)
<1>1. Init => IInv /\ ListInv
  <2> SUFFICES ASSUME Init PROVE ListInv
    BY InitIInv
  <2>1. DOMAIN km.home = {} /\ \A b \in Bucket : km.head[b] = 0
    BY DEF Init
  <2>2. <<>> \in Seq(DOMAIN km.home) /\ Len(<<>>) = 0
    OBVIOUS
  <2>3. \A b \in Bucket : IsList(km, Live, b, <<>>)
    BY <2>1, <2>2 DEF IsList
  <2>4. QED BY <2>1, <2>3, FS_EmptySet DEF ListInv, Listed
<1>2. IInv /\ ListInv /\ [Next]_vars => ListInv'
  <2> SUFFICES ASSUME IInv, ListInv, [Next]_vars PROVE ListInv'
    OBVIOUS
  <2>1. CASE Next
    BY <2>1, ListStep
  <2>2. CASE UNCHANGED vars
    BY <2>2 DEF vars, ListInv, Live
  <2>3. QED BY <2>1, <2>2
<1>3. QED BY <1>1, <1>2, Invariance, PTL DEF Spec

\* Each free list ends, and holds exactly the chunks of its bucket that are not
\* in use: what free puts back is found again by malloc (kmalloc.g).
THEOREM ListsStayExact == ASSUME NoHugeSize PROVE Spec => []FreeListsExact
<1>1. QED BY ListsExact, ListsHold, PTL

\* malloc and realloc ask the platform for memory only when no chunk of the
\* bucket is free.
THEOREM MemoryIsReused == ASSUME NoHugeSize PROVE Spec => ReuseBeforeGrow
<1> DEFINE Grown == \A p \in DOMAIN km'.home \ Chunks : Free(km'.home[p]) = {}
<1>1. IInv /\ ListInv /\ [Next]_vars => [Grown]_vars
  BY ListStep
<1>2. QED BY <1>1, ListsHold, PTL DEF Spec, ReuseBeforeGrow
=============================================================================
