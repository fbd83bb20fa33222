----------------------------- MODULE RbMapProofs ----------------------------
(***************************************************************************)
(* Proofs about RbMap: at every step of every call the nodes in use are a  *)
(* tree, no routine follows a pointer that is not there, the map owns one  *)
(* copy of each of its keys, the keys are in order, and the calls do what  *)
(* the interface MapSpec promises.                                         *)
(***************************************************************************)
EXTENDS TreeProofs

Inserting == {"insert1", "insert3", "insert4", "insert5"}
Deleting == {"delete1", "delete2", "delete3", "delete5", "delete6"}

----------------------------------------------------------------------------
(* The links and the copies *)

\* The null pointer counts as a black node (rb_node_color).
LEMMA ColorOf ==
  ASSUME NEW m, NEW x
  PROVE  /\ Red(m, x) <=> x # 0 /\ m.color[x] = 0
         /\ Black(m, x) <=> x = 0 \/ m.color[x] = 1
BY DEF Red, Black, rb_node_color, RB_RED, RB_BLACK

\* No node has both colors.
LEMMA OneColor ==
  ASSUME NEW m, NEW x
  PROVE  Black(m, x) => ~Red(m, x)
BY DEF Red, Black, RB_RED, RB_BLACK

\* A holds the nodes on the way up from v to x, and none above x.
Way(m, v, x, A) ==
  /\ A \subseteq m.used /\ v \in A /\ x \in A
  /\ \A a \in A : a # x => m.parent[a] \in A
  /\ m.parent[x] \notin A

\* Where the call that runs is.
Control(m) ==
  /\ pc \in {"idle", "panic", "unlink"} \union Inserting \union Deleting
  /\ n \in Ptr /\ victim \in Ptr /\ child \in Ptr
  /\ pc = "idle" => n = 0 /\ victim = 0 /\ child = 0
  /\ pc \in Inserting => n \in m.used /\ victim = 0 /\ child = 0
  /\ pc \in Deleting \union {"unlink"} => Goes(m, victim, child)
  /\ pc \in Deleting => \E A \in SUBSET m.used : Way(m, victim, n, A)
  /\ pc \in Deleting \ {"delete1"} => m.parent[n] # 0

Named(m, k) == {x \in m.used : m.key[x] = k}
Owned(m) ==
  /\ \A x \in m.used : m.key[x] \in Keys
  /\ copies \in [Keys -> Int]
  /\ \A k \in Keys : copies[k] = Cardinality(Named(m, k))

LinkInv == Tree(t) /\ Control(t) /\ Owned(t)

----------------------------------------------------------------------------
(* The way up from the node that goes *)

\* Beside the way: q is the parent of its top x, s the sibling of x.
Aside(m, v, x, A, q, d, s) ==
  /\ x \in m.used /\ x \in Ptr /\ x # 0 /\ v \in m.used /\ v \in Ptr /\ v # 0
  /\ q \in m.used /\ q \in Ptr /\ q # 0 /\ d \in Sides /\ Opp(d) \in Sides
  /\ q = m.parent[x] /\ d = Side(m, x) /\ m.child[q, d] = x
  /\ q # v /\ q \notin A /\ m.parent[q] \notin A /\ m.parent[q] # v
  /\ s \in Ptr /\ s = m.child[q, Opp(d)]
  /\ s # 0 => s \in m.used /\ s # x /\ s # v /\ s \notin A /\ m.parent[s] = q

\* Neither the parent of the top nor its parent is on the way: a way that came
\* back to itself would be a circle.
LEMMA BesideTheWay ==
  ASSUME NEW m, Tree(m), NEW v, NEW x, NEW A, Way(m, v, x, A),
         NEW q, q = m.parent[x], q # 0, NEW d, d = Side(m, x), NEW s, s = rb_sibling(m, x)
  PROVE  Aside(m, v, x, A, q, d, s)
<1>1. /\ A \subseteq m.used /\ v \in A /\ x \in A /\ q \notin A
      /\ \A a \in A : a # x => m.parent[a] \in A
  BY DEF Way
<1>2. /\ x \in m.used /\ x \in Ptr /\ x # 0 /\ v \in m.used /\ v \in Ptr /\ v # 0
  BY <1>1, Addresses, MapFields DEF Tree
<1>3. Hangs(m, x, q, d)
  BY <1>2, ParentOf
<1>4. /\ q \in m.used /\ q \in Ptr /\ q # 0 /\ d \in Sides /\ Opp(d) \in Sides
      /\ q = m.parent[x] /\ d = Side(m, x) /\ m.child[q, d] = x
  BY <1>3, TwoSides DEF Hangs
<1>5. s = m.child[q, Opp(d)]
  BY DEF rb_sibling
<1>6. Kids(m, q, x, s)
  BY <1>4, <1>5, Children
<1>7. s \in Ptr /\ (s # 0 => s \in m.used /\ s # x /\ m.parent[s] = q)
  BY <1>6 DEF Kids
<1>8. s # 0 => s \notin A
  BY <1>1, <1>7
<1>9. m.parent[q] \notin A
  <2>1. SUFFICES ASSUME m.parent[q] \in A PROVE FALSE
    OBVIOUS
  <2>2. PICK U : U = A \union {q}
    OBVIOUS
  <2>3. U \in SUBSET m.used /\ U # {}
    BY <1>1, <1>4, <2>2
  <2>4. \A z \in U : m.parent[z] \in U
    BY <1>1, <2>1, <2>2
  <2>5. QED BY <2>3, <2>4 DEF Tree, Rooted
<1>10. q # v /\ m.parent[q] # v /\ (s # 0 => s # v)
  BY <1>1, <1>8, <1>9
<1>11. QED BY <1>1, <1>2, <1>4, <1>5, <1>7, <1>8, <1>9, <1>10 DEF Aside

\* A rotation outside the way leaves it as it is.
LEMMA WayAfterTurn ==
  ASSUME NEW m, Tree(m), NEW v, NEW z, NEW A, Way(m, v, z, A),
         NEW m1, NEW m2, NEW x, NEW d, NEW p, NEW e, NEW r, NEW y,
         Around(m, x, d, p, e, r, y), Turned(m, m1, m2, x, d, p, e, r, y),
         x \notin A, r \notin A, y # z
  PROVE  Way(m2, v, z, A) /\ m2.parent[z] = m.parent[z]
<1>1. /\ A \subseteq m.used /\ v \in A /\ z \in A /\ m.parent[z] \notin A
      /\ \A a \in A : a # z => m.parent[a] \in A
  BY DEF Way
<1>2. y # 0 => m.parent[y] = r
  BY DEF Around
<1>3. y # 0 => y \notin A
  BY <1>1, <1>2
<1>4. /\ m2.used = m.used
      /\ \A u \in Ptr : m2.parent[u] = IF u = x THEN r
                                       ELSE IF u = r THEN p
                                       ELSE IF u = y /\ y # 0 THEN x ELSE m.parent[u]
  BY DEF Turned, Others
<1>5. m.used \subseteq Ptr /\ 0 \notin m.used
  BY Addresses, MapFields DEF Tree
<1>6. \A a \in A : m2.parent[a] = m.parent[a]
  BY <1>1, <1>3, <1>4, <1>5
<1>7. QED BY <1>1, <1>4, <1>6 DEF Way

\* It leaves the children of the node that goes as they are.
LEMMA GoesAfterTurn ==
  ASSUME NEW m, Tree(m), NEW v, NEW c, Goes(m, v, c),
         NEW m1, NEW m2, NEW x, NEW d, NEW p, NEW e, NEW r, NEW y,
         Turned(m, m1, m2, x, d, p, e, r, y), v # x, v # r, v # p
  PROVE  Goes(m2, v, c)
<1>1. PICK f \in Sides : m.child[v, f] = c /\ m.child[v, Opp(f)] = 0
  BY DEF Goes
<1>2. v \in m.used /\ v \in Ptr /\ Opp(f) \in Sides
  BY TwoSides, Addresses, MapFields DEF Goes, Tree
<1>3. /\ m2.used = m.used
      /\ \A z \in Ptr, g \in Sides :
           m2.child[z, g] = IF z = r /\ g = d THEN x
                            ELSE IF z = x /\ g = Opp(d) THEN y
                            ELSE IF z = p /\ p # 0 /\ g = e THEN r ELSE m.child[z, g]
  BY DEF Turned, Others
<1>4. m2.child[v, f] = c /\ m2.child[v, Opp(f)] = 0
  BY <1>1, <1>2, <1>3
<1>5. QED BY <1>2, <1>3, <1>4 DEF Goes

----------------------------------------------------------------------------
(* The rebalancing keeps the links *)

\* The rebalancing touches neither keys nor copies.
LEMMA OwnedKept ==
  ASSUME Owned(t), Tree(t), Others(t, t') \/ t' = t, copies' = copies
  PROVE  Owned(t)'
<1>1. t'.used = t.used /\ t'.key = t.key
  BY DEF Others
<1>2. \A k \in Keys : Named(t, k)' = Named(t, k)
  BY <1>1 DEF Named
<1>3. QED BY <1>1 DEF Owned, Named

\* What a node in use is.
LEMMA UsedNode ==
  ASSUME NEW m, Tree(m), NEW x \in m.used
  PROVE  x \in Ptr /\ x # 0 /\ m.parent[x] \in Ptr /\ (m.parent[x] # 0 => m.parent[x] \in m.used)
<1>1. x \in Ptr /\ x # 0 /\ m.parent[x] \in Ptr
  BY Addresses, MapFields DEF Tree
<1>2. Ties(m)
  BY TreeLinks
<1>3. QED BY <1>1, <1>2 DEF Ties

\* rb_insert_case1 and rb_insert_case2 keep the links.
LEMMA Insert1Links ==
  ASSUME LinkInv, insert1
  PROVE  LinkInv'
<1>1. /\ Tree(t) /\ Control(t) /\ Owned(t) /\ pc = "insert1"
      /\ UNCHANGED <<victim, child, copies, result>>
  BY DEF LinkInv, insert1, Rebalances
<1>2. n \in t.used /\ victim = 0 /\ child = 0
  BY <1>1 DEF Control, Inserting
<1>3. n \in Ptr /\ 0 \in Ptr
  BY <1>1, <1>2, UsedNode, Addresses
<1>4. CASE Parent(n) = 0
  <2>1. t' = Paint(t, n, RB_BLACK) /\ pc' = "idle" /\ n' = 0
    BY <1>4 DEF insert1, Return, Goto
  <2>2. Painted(t, t', n, RB_BLACK)
    BY <1>1, <1>2, <1>3, <2>1, PaintKeepsTree
  <2>3. Tree(t') /\ Others(t, t')
    BY <2>2 DEF Painted, SameLinks
  <2>4. Control(t)'
    BY <1>1, <1>2, <1>3, <2>1 DEF Control, Inserting, Deleting
  <2>5. QED BY <1>1, <2>3, <2>4, OwnedKept DEF LinkInv
<1>5. CASE Parent(n) # 0
  <2>1. t' = t /\ ((pc' = "idle" /\ n' = 0) \/ (pc' = "insert3" /\ n' = n))
    BY <1>5 DEF insert1, Return, Goto
  <2>2. Control(t)'
    BY <1>1, <1>2, <1>3, <2>1 DEF Control, Inserting, Deleting
  <2>3. QED BY <1>1, <2>1, <2>2, OwnedKept DEF LinkInv
<1>6. QED BY <1>4, <1>5

\* A node with a parent and a grandparent.
Generations(m, x, q, g) ==
  /\ x \in m.used /\ x \in Ptr /\ x # 0 /\ q = m.parent[x] /\ q \in m.used /\ q \in Ptr /\ q # 0
  /\ g = m.parent[q] /\ g \in m.used /\ g \in Ptr /\ g # 0 /\ x # q /\ q # g /\ x # g

\* A node, its parent and its grandparent are three nodes: a repaint of one is none
\* of another.
LEMMA GenerationsOf ==
  ASSUME NEW m, Tree(m), NEW x \in m.used, HasGrandparent(m, x),
         NEW q, q = m.parent[x], NEW g, g = rb_grandparent(m, x)
  PROVE  Generations(m, x, q, g)
<1>1. q # 0 /\ g # 0 /\ g = m.parent[q]
  BY DEF HasGrandparent, rb_grandparent
<1>2. x \in Ptr /\ x # 0 /\ q \in Ptr /\ q \in m.used
  BY <1>1, UsedNode
<1>3. g \in Ptr /\ g \in m.used
  BY <1>1, <1>2, UsedNode
<1>4. x # q /\ q # g /\ x # g
  BY <1>1, <1>2, NoCircles
<1>5. QED BY <1>1, <1>2, <1>3, <1>4 DEF Generations

\* rb_insert_case3 keeps the links: it paints parent, uncle and grandparent.
LEMMA Insert3Links ==
  ASSUME LinkInv, insert3
  PROVE  LinkInv'
<1>1. /\ Tree(t) /\ Control(t) /\ Owned(t) /\ pc = "insert3"
      /\ UNCHANGED <<victim, child, copies, result>>
  BY DEF LinkInv, insert3, Rebalances
<1>2. n \in t.used /\ victim = 0 /\ child = 0
  BY <1>1 DEF Control, Inserting
<1>3. n \in Ptr /\ 0 \in Ptr
  BY <1>1, <1>2, UsedNode, Addresses
<1>4. CASE HasGrandparent(t, n) /\ Red(t, rb_uncle(t, n))
  <2>1. PICK q, g, u : q = Parent(n) /\ g = rb_grandparent(t, n) /\ u = rb_uncle(t, n)
    OBVIOUS
  <2>2. Generations(t, n, q, g)
    BY <1>1, <1>2, <1>4, <2>1, GenerationsOf DEF Parent
  <2>3. q \in t.used /\ q \in Ptr /\ g \in t.used /\ g \in Ptr
    BY <2>2 DEF Generations
  <2>4. u # 0
    BY <1>4, <2>1 DEF Red, rb_node_color, RB_RED, RB_BLACK
  <2>5. u = rb_sibling(t, q) /\ u = t.child[g, Opp(Side(t, q))]
    BY <2>1, <2>2 DEF rb_uncle, rb_sibling, Generations, Parent
  <2>6. Side(t, q) \in Sides /\ Opp(Side(t, q)) \in Sides
    BY <1>1, <2>3, TwoSides, MapFields DEF Tree
  <2>7. u \in t.used /\ u \in Ptr
    <3>1. PICK w : w = t.child[g, Opp(Opp(Side(t, q)))]
      OBVIOUS
    <3>2. Kids(t, g, u, w)
      BY <1>1, <2>3, <2>5, <2>6, <3>1, Children
    <3>3. QED BY <2>4, <3>2 DEF Kids
  <2>8. /\ t' = Paint(Paint(Paint(t, q, RB_BLACK), u, RB_BLACK), g, RB_RED)
        /\ pc' = "insert1" /\ n' = g
    BY <1>4, <2>1 DEF insert3, Goto
  <2>9. PaintedThree(t, t', q, RB_BLACK, u, RB_BLACK, g, RB_RED)
    BY <1>1, <2>3, <2>7, <2>8, PaintThree
  <2>10. Tree(t') /\ t'.used = t.used /\ Others(t, t')
    BY <2>9 DEF PaintedThree, SameLinks, Others
  <2>11. Control(t)'
    BY <1>1, <1>2, <1>3, <2>3, <2>8, <2>10 DEF Control, Inserting, Deleting
  <2>12. QED BY <1>1, <2>10, <2>11, OwnedKept DEF LinkInv
<1>5. CASE ~(HasGrandparent(t, n) /\ Red(t, rb_uncle(t, n)))
  <2>1. t' = t /\ pc' \in {"panic", "insert4"} /\ n' = n
    BY <1>5 DEF insert3, Panic, Goto
  <2>2. Control(t)'
    BY <1>1, <1>2, <1>3, <2>1 DEF Control, Inserting, Deleting
  <2>3. QED BY <1>1, <2>1, <2>2, OwnedKept DEF LinkInv
<1>6. QED BY <1>4, <1>5

\* insert4 rotates the parent of n to the side away from n.
LEMMA Insert4Turn ==
  ASSUME NEW m, Tree(m), NEW x, NEW q, NEW g, Generations(m, x, q, g),
         NEW d \in Sides, Chain(m, x, Opp(d), d), NEW e, e = Side(m, q), NEW y, y = m.child[x, d],
         NEW m2, m2 = rb_rotate(m, q, d)
  PROVE  Around(m, q, d, g, e, x, y) /\ Turned(m, m, m2, q, d, g, e, x, y)
<1>1. x # 0 /\ q \in m.used /\ q = m.parent[x] /\ g = m.parent[q]
  BY DEF Generations
<1>2. x = m.child[q, Opp(d)]
  BY <1>1 DEF Chain
<1>3. Around(m, q, d, g, e, x, y)
  BY <1>1, <1>2, AroundRotation
<1>4. SameLinks(m, m)
  BY DEF SameLinks, Others, Tree
<1>5. QED BY <1>3, <1>4, TurnKeepsTree

\* rb_insert_case4 keeps the links: it rotates at the parent.
LEMMA Insert4Links ==
  ASSUME LinkInv, insert4
  PROVE  LinkInv'
<1>1. /\ Tree(t) /\ Control(t) /\ Owned(t) /\ pc = "insert4"
      /\ UNCHANGED <<victim, child, copies, result>>
  BY DEF LinkInv, insert4, Rebalances
<1>2. n \in t.used /\ victim = 0 /\ child = 0
  BY <1>1 DEF Control, Inserting
<1>3. n \in Ptr /\ 0 \in Ptr
  BY <1>1, <1>2, UsedNode, Addresses
<1>4. ASSUME HasGrandparent(t, n), NEW d \in Sides, Chain(t, n, Opp(d), d),
             NEW m, m = rb_rotate(t, Parent(n), d), t' = m, Goto("insert5", m.child[n, d])
      PROVE  LinkInv'
  <2>1. PICK q, g, e, y : q = Parent(n) /\ g = rb_grandparent(t, n) /\ e = Side(t, q) /\ y = t.child[n, d]
    OBVIOUS
  <2>2. Generations(t, n, q, g)
    BY <1>1, <1>2, <1>4, <2>1, GenerationsOf DEF Parent
  <2>3. Around(t, q, d, g, e, n, y) /\ Turned(t, t, m, q, d, g, e, n, y)
    BY <1>1, <1>4, <2>1, <2>2, Insert4Turn
  <2>4. Tree(m) /\ Others(t, m) /\ m.child[n, d] = q /\ m.used = t.used /\ q \in t.used /\ q \in Ptr
    BY <1>3, <2>2, <2>3 DEF Turned, Others, Generations
  <2>5. Control(t)'
    BY <1>1, <1>2, <1>3, <1>4, <2>4 DEF Control, Inserting, Deleting, Goto
  <2>6. QED BY <1>1, <1>4, <2>4, <2>5, OwnedKept DEF LinkInv
<1>5. ASSUME t' = t, pc' \in {"panic", "insert5"}, n' = n PROVE LinkInv'
  <2>1. Control(t)'
    BY <1>1, <1>2, <1>3, <1>5 DEF Control, Inserting, Deleting
  <2>2. QED BY <1>1, <1>5, <2>1, OwnedKept DEF LinkInv
<1>6. CASE HasGrandparent(t, n)
  BY <1>4, <1>5, <1>6 DEF insert4, Goto
<1>7. CASE ~HasGrandparent(t, n)
  BY <1>5, <1>7 DEF insert4, Panic, Goto
<1>8. QED BY <1>6, <1>7

\* insert5 paints the parent and the grandparent of n and rotates the latter
\* away from n.
LEMMA Insert5Turn ==
  ASSUME NEW m, Tree(m), NEW x, NEW q, NEW g, Generations(m, x, q, g),
         NEW d \in Sides, Chain(m, x, d, d), NEW p, p = m.parent[g], NEW e, e = Side(m, g),
         NEW y, y = m.child[q, Opp(d)],
         NEW m1, m1 = Paint(Paint(m, q, RB_BLACK), g, RB_RED),
         NEW m2, m2 = rb_rotate(m1, g, Opp(d))
  PROVE  /\ PaintedTwo(m, m1, q, RB_BLACK, g, RB_RED)
         /\ Around(m, g, Opp(d), p, e, q, y) /\ Turned(m, m1, m2, g, Opp(d), p, e, q, y)
<1>1. /\ x # 0 /\ q \in m.used /\ q = m.parent[x] /\ g = m.parent[q] /\ g \in m.used
      /\ q \in Ptr /\ g \in Ptr /\ q # 0
  BY DEF Generations
<1>2. q = m.child[g, d]
  BY <1>1 DEF Chain, rb_grandparent
<1>3. PICK o \in Sides : o = Opp(d) /\ Opp(o) = d
  BY TwoSides
<1>4. Around(m, g, o, p, e, q, y)
  BY <1>1, <1>2, <1>3, AroundRotation
<1>5. PaintedTwo(m, m1, q, RB_BLACK, g, RB_RED)
  BY <1>1, PaintTwo
<1>6. Turned(m, m1, m2, g, o, p, e, q, y)
  BY <1>3, <1>4, <1>5, TurnKeepsTree DEF PaintedTwo
<1>7. QED BY <1>3, <1>4, <1>5, <1>6

\* rb_insert_case5 keeps the links: it rotates at the grandparent.
LEMMA Insert5Links ==
  ASSUME LinkInv, insert5
  PROVE  LinkInv'
<1>1. /\ Tree(t) /\ Control(t) /\ Owned(t) /\ pc = "insert5"
      /\ UNCHANGED <<victim, child, copies, result>>
  BY DEF LinkInv, insert5, Rebalances
<1>2. n \in t.used /\ victim = 0 /\ child = 0
  BY <1>1 DEF Control, Inserting
<1>3. n \in Ptr /\ 0 \in Ptr
  BY <1>1, <1>2, UsedNode, Addresses
<1>4. CASE HasGrandparent(t, n) /\ ~(\A d \in Sides : ~Chain(t, n, d, d))
  <2>1. PICK q, g : q = Parent(n) /\ g = rb_grandparent(t, n)
    OBVIOUS
  <2>2. PICK d \in Sides : /\ Chain(t, n, d, d) /\ Return
                           /\ t' = rb_rotate(Paint(Paint(t, q, RB_BLACK), g, RB_RED), g, Opp(d))
    BY <1>4, <2>1 DEF insert5
  <2>3. PICK p, e, y, m1 : /\ p = t.parent[g] /\ e = Side(t, g) /\ y = t.child[q, Opp(d)]
                           /\ m1 = Paint(Paint(t, q, RB_BLACK), g, RB_RED)
    OBVIOUS
  <2>4. Generations(t, n, q, g)
    BY <1>1, <1>2, <1>4, <2>1, GenerationsOf DEF Parent
  <2>5. Turned(t, m1, t', g, Opp(d), p, e, q, y)
    BY <1>1, <2>2, <2>3, <2>4, Insert5Turn
  <2>6. Tree(t') /\ Others(t, t')
    BY <2>5 DEF Turned
  <2>7. Control(t)'
    BY <1>1, <1>2, <1>3, <2>2 DEF Control, Inserting, Deleting, Return, Goto
  <2>8. QED BY <1>1, <2>6, <2>7, OwnedKept DEF LinkInv
<1>5. CASE ~(HasGrandparent(t, n) /\ ~(\A d \in Sides : ~Chain(t, n, d, d)))
  <2>1. t' = t /\ pc' = "panic" /\ n' = n
    BY <1>5 DEF insert5, Panic, Goto
  <2>2. Control(t)'
    BY <1>1, <1>2, <1>3, <2>1 DEF Control, Inserting, Deleting
  <2>3. QED BY <1>1, <2>1, <2>2, OwnedKept DEF LinkInv
<1>6. QED BY <1>4, <1>5

\* What a deletion may rely on.
LEMMA DeletingLinks ==
  ASSUME Control(t), pc \in Deleting
  PROVE  /\ Goes(t, victim, child) /\ n \in Ptr /\ victim \in Ptr /\ child \in Ptr
         /\ \E A \in SUBSET t.used : Way(t, victim, n, A)
         /\ pc # "delete1" => Parent(n) # 0
BY DEF Control, Deleting, Parent

\* rb_delete_case1 keeps the links, and goes on only below a parent.
LEMMA Delete1Links ==
  ASSUME LinkInv, delete1
  PROVE  LinkInv'
<1>1. /\ Tree(t) /\ Control(t) /\ Owned(t) /\ pc = "delete1" /\ t' = t /\ n' = n
      /\ pc' = (IF Parent(n) = 0 THEN "unlink" ELSE "delete2")
      /\ UNCHANGED <<victim, child, copies, result>>
  BY DEF LinkInv, delete1, Rebalances, Goto
<1>2. Control(t)'
  BY <1>1, DeletingLinks DEF Control, Inserting, Deleting, Parent
<1>3. QED BY <1>1, <1>2, OwnedKept DEF LinkInv

\* delete2 paints the parent q and the sibling s of x and rotates the parent
\* towards x.
LEMMA Delete2Turn ==
  ASSUME NEW m, Tree(m), NEW v, NEW x, NEW A, NEW q, NEW d, NEW s,
         Aside(m, v, x, A, q, d, s), s # 0,
         NEW p, p = m.parent[q], NEW e, e = Side(m, q), NEW y, y = m.child[s, d],
         NEW m1, m1 = Paint(Paint(m, q, RB_RED), s, RB_BLACK),
         NEW m2, m2 = rb_rotate(m1, q, d)
  PROVE  /\ PaintedTwo(m, m1, q, RB_RED, s, RB_BLACK)
         /\ Around(m, q, d, p, e, s, y) /\ Turned(m, m1, m2, q, d, p, e, s, y)
<1>1. /\ q \in m.used /\ q \in Ptr /\ d \in Sides /\ s = m.child[q, Opp(d)] /\ s \in m.used /\ s \in Ptr
  BY DEF Aside
<1>2. Around(m, q, d, p, e, s, y)
  BY <1>1, AroundRotation
<1>3. PaintedTwo(m, m1, q, RB_RED, s, RB_BLACK)
  BY <1>1, PaintTwo
<1>4. Turned(m, m1, m2, q, d, p, e, s, y)
  BY <1>2, <1>3, TurnKeepsTree DEF PaintedTwo
<1>5. QED BY <1>2, <1>3, <1>4

\* rb_delete_case2 keeps the links, and n hangs below the same parent afterwards.
LEMMA Delete2Links ==
  ASSUME LinkInv, delete2
  PROVE  LinkInv'
<1>1. /\ Tree(t) /\ Control(t) /\ Owned(t) /\ pc = "delete2" /\ n' = n /\ pc' = "delete3"
      /\ UNCHANGED <<victim, child, copies, result>>
  BY DEF LinkInv, delete2, Rebalances, Goto
<1>2. /\ Goes(t, victim, child) /\ n \in Ptr /\ victim \in Ptr /\ child \in Ptr
      /\ \E A \in SUBSET t.used : Way(t, victim, n, A)
      /\ Parent(n) # 0
  BY <1>1, DeletingLinks DEF Deleting
<1>3. CASE Red(t, rb_sibling(t, n))
  <2>1. PICK A \in SUBSET t.used : Way(t, victim, n, A)
    BY <1>2
  <2>2. PICK q, d, s : q = Parent(n) /\ d = Side(t, n) /\ s = rb_sibling(t, n)
    OBVIOUS
  <2>3. Aside(t, victim, n, A, q, d, s)
    BY <1>1, <1>2, <2>1, <2>2, BesideTheWay DEF Parent
  <2>4. s # 0
    BY <1>3, <2>2 DEF Red, rb_node_color, RB_RED, RB_BLACK
  <2>5. PICK p, e, y, m1 : /\ p = t.parent[q] /\ e = Side(t, q) /\ y = t.child[s, d]
                           /\ m1 = Paint(Paint(t, q, RB_RED), s, RB_BLACK)
    OBVIOUS
  <2>6. t' = rb_rotate(m1, q, d)
    BY <1>3, <2>2, <2>5 DEF delete2
  <2>7. Around(t, q, d, p, e, s, y) /\ Turned(t, m1, t', q, d, p, e, s, y)
    BY <1>1, <2>3, <2>4, <2>5, <2>6, Delete2Turn
  <2>8. q \notin A /\ s \notin A /\ victim # q /\ victim # s /\ victim # p /\ q = t.parent[n]
    BY <2>3, <2>4, <2>5 DEF Aside
  <2>9. y # n
    BY <2>3, <2>4, <2>7 DEF Around, Aside
  <2>10. Way(t', victim, n, A) /\ t'.parent[n] = t.parent[n]
    BY <1>1, <2>1, <2>7, <2>8, <2>9, WayAfterTurn
  <2>11. Goes(t', victim, child)
    BY <1>1, <1>2, <2>7, <2>8, GoesAfterTurn
  <2>12. Tree(t') /\ Others(t, t')
    BY <2>7 DEF Turned
  <2>13. A \in SUBSET t'.used
    BY <2>12 DEF Others
  <2>14. Control(t)'
    BY <1>1, <1>2, <2>2, <2>8, <2>10, <2>11, <2>13 DEF Control, Inserting, Deleting
  <2>15. QED BY <1>1, <2>12, <2>14, OwnedKept DEF LinkInv
<1>4. CASE ~Red(t, rb_sibling(t, n))
  <2>1. t' = t
    BY <1>4 DEF delete2
  <2>2. Control(t)'
    BY <1>1, <1>2, <2>1 DEF Control, Inserting, Deleting, Parent
  <2>3. QED BY <1>1, <2>1, <2>2, OwnedKept DEF LinkInv
<1>5. QED BY <1>3, <1>4

\* rb_delete_case3 and rb_delete_case4 keep the links; the way up gets longer.
LEMMA Delete3Links ==
  ASSUME LinkInv, delete3
  PROVE  LinkInv'
<1>1. /\ Tree(t) /\ Control(t) /\ Owned(t) /\ pc = "delete3"
      /\ UNCHANGED <<victim, child, copies, result>>
  BY DEF LinkInv, delete3, Rebalances
<1>2. /\ Goes(t, victim, child) /\ n \in Ptr /\ victim \in Ptr /\ child \in Ptr
      /\ \E A \in SUBSET t.used : Way(t, victim, n, A)
      /\ Parent(n) # 0
  BY <1>1, DeletingLinks DEF Deleting
<1>3. PICK A \in SUBSET t.used : Way(t, victim, n, A)
  BY <1>2
<1>4. PICK q, d, s : q = Parent(n) /\ d = Side(t, n) /\ s = rb_sibling(t, n)
  OBVIOUS
<1>5. Aside(t, victim, n, A, q, d, s)
  BY <1>1, <1>2, <1>3, <1>4, BesideTheWay DEF Parent
<1>6. /\ q \in t.used /\ q \in Ptr /\ q # 0 /\ q \notin A /\ t.parent[q] \notin A /\ q = t.parent[n]
      /\ s \in Ptr /\ (s # 0 => s \in t.used)
  BY <1>5 DEF Aside
<1>7. PICK m1 : m1 = Paint(t, s, RB_RED)
  OBVIOUS
<1>8. Tree(m1) /\ SameLinks(t, m1)
  BY <1>1, <1>6, <1>7, PaintKeepsTree DEF Painted
<1>9. ASSUME NEW m, SameLinks(t, m) PROVE Goes(m, victim, child)
  BY <1>2, <1>9 DEF Goes, SameLinks, Others
<1>10. CASE AllBlack /\ Black(t, Parent(n))
  <2>1. t' = m1 /\ pc' = "delete1" /\ n' = q
    BY <1>4, <1>7, <1>10 DEF delete3, Goto, Red, Black, RB_RED, RB_BLACK
  <2>2. PICK U : U = A \union {q}
    OBVIOUS
  <2>3. Way(t, victim, q, U) /\ U \in SUBSET t.used
    <3>1. t.parent[q] # q
      BY <1>1, <1>6, NoCircles
    <3>2. /\ A \subseteq t.used /\ victim \in A /\ n \in A
          /\ \A a \in A : a # n => t.parent[a] \in A
      BY <1>3 DEF Way
    <3>3. QED BY <1>6, <2>2, <3>1, <3>2 DEF Way
  <2>4. Way(t', victim, q, U) /\ U \in SUBSET t'.used
    BY <1>8, <2>1, <2>3 DEF Way, SameLinks, Others
  <2>5. Control(t)'
    BY <1>1, <1>2, <1>6, <1>8, <1>9, <2>1, <2>4 DEF Control, Inserting, Deleting
  <2>6. QED BY <1>1, <1>8, <2>1, <2>5, OwnedKept DEF LinkInv, SameLinks
<1>11. CASE AllBlack /\ ~Black(t, Parent(n))
  <2>1. t' = Paint(m1, q, RB_BLACK) /\ pc' = "unlink" /\ n' = n
    BY <1>4, <1>7, <1>11 DEF delete3, Goto
  <2>2. PaintedTwo(t, t', s, RB_RED, q, RB_BLACK)
    BY <1>1, <1>6, <1>7, <2>1, PaintTwo
  <2>3. Tree(t') /\ SameLinks(t, t') /\ Others(t, t')
    BY <2>2 DEF PaintedTwo, SameLinks
  <2>4. Control(t)'
    BY <1>1, <1>2, <1>9, <2>1, <2>3 DEF Control, Inserting, Deleting
  <2>5. QED BY <1>1, <2>3, <2>4, OwnedKept DEF LinkInv
<1>12. CASE ~AllBlack
  <2>1. t' = t /\ pc' = "delete5" /\ n' = n
    BY <1>12 DEF delete3, Goto
  <2>2. Control(t)'
    BY <1>1, <1>2, <2>1 DEF Control, Inserting, Deleting, Parent
  <2>3. QED BY <1>1, <2>1, <2>2, OwnedKept DEF LinkInv
<1>13. QED BY <1>10, <1>11, <1>12

\* delete5 paints the sibling s of x and its child a on the side of x and
\* rotates the sibling away from x.
LEMMA Delete5Turn ==
  ASSUME NEW m, Tree(m), NEW v, NEW x, NEW A, NEW q, NEW d, NEW s,
         Aside(m, v, x, A, q, d, s), s # 0, NEW a, a = m.child[s, d], a # 0,
         NEW e, e = Side(m, s), NEW y, y = m.child[a, Opp(d)],
         NEW m1, m1 = Paint(Paint(m, s, RB_RED), a, RB_BLACK),
         NEW m2, m2 = rb_rotate(m1, s, Opp(d))
  PROVE  /\ PaintedTwo(m, m1, s, RB_RED, a, RB_BLACK)
         /\ Around(m, s, Opp(d), q, e, a, y) /\ Turned(m, m1, m2, s, Opp(d), q, e, a, y)
<1>1. /\ s \in m.used /\ s \in Ptr /\ d \in Sides /\ q = m.parent[s]
  BY DEF Aside
<1>2. PICK o \in Sides : o = Opp(d) /\ Opp(o) = d
  BY <1>1, TwoSides
<1>3. a = m.child[s, Opp(o)] /\ y = m.child[a, o]
  BY <1>2
<1>4. Around(m, s, o, q, e, a, y)
  BY <1>1, <1>3, AroundRotation
<1>5. a \in Ptr /\ a \in m.used
  BY <1>4 DEF Around
<1>6. PaintedTwo(m, m1, s, RB_RED, a, RB_BLACK)
  BY <1>1, <1>5, PaintTwo
<1>7. Turned(m, m1, m2, s, o, q, e, a, y)
  BY <1>2, <1>4, <1>6, TurnKeepsTree DEF PaintedTwo
<1>8. QED BY <1>2, <1>4, <1>6, <1>7

\* rb_delete_case5 keeps the links: it rotates at the sibling.
LEMMA Delete5Links ==
  ASSUME LinkInv, delete5
  PROVE  LinkInv'
<1>1. /\ Tree(t) /\ Control(t) /\ Owned(t) /\ pc = "delete5" /\ pc' = "delete6" /\ n' = n
      /\ UNCHANGED <<victim, child, copies, result>>
  BY DEF LinkInv, delete5, Rebalances, Goto
<1>2. /\ Goes(t, victim, child) /\ n \in Ptr /\ victim \in Ptr /\ child \in Ptr
      /\ \E A \in SUBSET t.used : Way(t, victim, n, A)
      /\ Parent(n) # 0
  BY <1>1, DeletingLinks DEF Deleting
<1>3. PICK A \in SUBSET t.used : Way(t, victim, n, A)
  BY <1>2
<1>4. PICK q, d, s : q = Parent(n) /\ d = Side(t, n) /\ s = rb_sibling(t, n)
  OBVIOUS
<1>5. Aside(t, victim, n, A, q, d, s)
  BY <1>1, <1>2, <1>3, <1>4, BesideTheWay DEF Parent
<1>6. PICK a : a = t.child[s, d]
  OBVIOUS
<1>7. CASE Black(t, s) /\ Red(t, a) /\ Black(t, t.child[s, Opp(d)])
  <2>1. a # 0
    BY <1>7, ColorOf
  <2>2. s # 0
    <3>1. t.child[0, d] = 0
      BY <1>1, <1>5, Addresses, MapFields, ZenonT(30) DEF Aside, Tree, Clean
    <3>2. QED BY <1>6, <2>1, <3>1
  <2>3. PICK e, y, m1 : /\ e = Side(t, s) /\ y = t.child[a, Opp(d)]
                        /\ m1 = Paint(Paint(t, s, RB_RED), a, RB_BLACK)
    OBVIOUS
  <2>4. t' = rb_rotate(m1, s, Opp(d))
    BY <1>4, <1>6, <1>7, <2>3 DEF delete5
  <2>5. Around(t, s, Opp(d), q, e, a, y) /\ Turned(t, m1, t', s, Opp(d), q, e, a, y)
    BY <1>1, <1>5, <1>6, <2>1, <2>2, <2>3, <2>4, Delete5Turn
  <2>6. s \notin A /\ victim # s /\ victim # q /\ q = t.parent[n] /\ n # s
    BY <1>5, <2>2 DEF Aside
  <2>7. t.parent[a] = s /\ (y # 0 => t.parent[y] = a) /\ a # q /\ a # s /\ s # q
    BY <2>5 DEF Around
  <2>8. /\ victim \in A /\ n \in A /\ n # 0
        /\ \A b \in A : b # n => t.parent[b] \in A
    BY <1>3, <1>5 DEF Way, Aside
  <2>9. a # n
    BY <2>6, <2>7
  <2>10. a \notin A /\ victim # a
    BY <2>6, <2>7, <2>8, <2>9
  <2>11. y # n
    BY <2>6, <2>7, <2>8
  <2>12. Way(t', victim, n, A) /\ t'.parent[n] = t.parent[n]
    BY <1>1, <1>3, <2>5, <2>6, <2>10, <2>11, WayAfterTurn
  <2>13. Goes(t', victim, child)
    BY <1>1, <1>2, <2>5, <2>6, <2>10, GoesAfterTurn
  <2>14. Tree(t') /\ Others(t, t')
    BY <2>5 DEF Turned
  <2>15. A \in SUBSET t'.used
    BY <2>14 DEF Others
  <2>16. Control(t)'
    BY <1>1, <1>2, <1>4, <2>6, <2>12, <2>13, <2>15 DEF Control, Inserting, Deleting
  <2>17. QED BY <1>1, <2>14, <2>16, OwnedKept DEF LinkInv
<1>8. CASE ~(Black(t, s) /\ Red(t, a) /\ Black(t, t.child[s, Opp(d)]))
  <2>1. t' = t
    BY <1>4, <1>6, <1>8 DEF delete5
  <2>2. Control(t)'
    BY <1>1, <1>2, <2>1 DEF Control, Inserting, Deleting, Parent
  <2>3. QED BY <1>1, <2>1, <2>2, OwnedKept DEF LinkInv
<1>9. QED BY <1>7, <1>8

\* delete6 paints the sibling s of x like its parent q, the parent and the
\* child w of the sibling on the side away from x, and rotates the parent.
LEMMA Delete6Turn ==
  ASSUME NEW m, Tree(m), NEW v, NEW x, NEW A, NEW q, NEW d, NEW s,
         Aside(m, v, x, A, q, d, s), s # 0, NEW w, w = m.child[s, Opp(d)], w # 0,
         NEW p, p = m.parent[q], NEW e, e = Side(m, q), NEW y, y = m.child[s, d],
         NEW c, c = m.color[q],
         NEW m1, m1 = Paint(Paint(Paint(m, s, c), q, RB_BLACK), w, RB_BLACK),
         NEW m2, m2 = rb_rotate(m1, q, d)
  PROVE  /\ PaintedThree(m, m1, s, c, q, RB_BLACK, w, RB_BLACK)
         /\ Around(m, q, d, p, e, s, y) /\ Turned(m, m1, m2, q, d, p, e, s, y)
<1>1. /\ q \in m.used /\ q \in Ptr /\ d \in Sides /\ Opp(d) \in Sides
      /\ s = m.child[q, Opp(d)] /\ s \in m.used /\ s \in Ptr
  BY DEF Aside
<1>2. Around(m, q, d, p, e, s, y)
  BY <1>1, AroundRotation
<1>3. w \in m.used /\ w \in Ptr
  <2>1. PICK u : u = m.child[s, Opp(Opp(d))]
    OBVIOUS
  <2>2. Kids(m, s, w, u)
    BY <1>1, <2>1, Children
  <2>3. QED BY <2>2 DEF Kids
<1>4. c \in {RB_RED, RB_BLACK}
  BY <1>1, MapFields DEF Tree, RB_RED, RB_BLACK
<1>5. PaintedThree(m, m1, s, c, q, RB_BLACK, w, RB_BLACK)
  BY <1>1, <1>3, <1>4, PaintThree, ZenonT(30)
<1>6. Turned(m, m1, m2, q, d, p, e, s, y)
  BY <1>2, <1>5, TurnKeepsTree DEF PaintedThree
<1>7. QED BY <1>2, <1>5, <1>6

\* rb_delete_case6 keeps the links: it rotates at the parent.
LEMMA Delete6Links ==
  ASSUME LinkInv, delete6
  PROVE  LinkInv'
<1>1. /\ Tree(t) /\ Control(t) /\ Owned(t) /\ pc = "delete6"
      /\ UNCHANGED <<victim, child, copies, result>>
  BY DEF LinkInv, delete6, Rebalances
<1>2. /\ Goes(t, victim, child) /\ n \in Ptr /\ victim \in Ptr /\ child \in Ptr
      /\ \E A \in SUBSET t.used : Way(t, victim, n, A)
      /\ Parent(n) # 0
  BY <1>1, DeletingLinks DEF Deleting
<1>3. PICK A \in SUBSET t.used : Way(t, victim, n, A)
  BY <1>2
<1>4. PICK q, d, s : q = Parent(n) /\ d = Side(t, n) /\ s = rb_sibling(t, n)
  OBVIOUS
<1>5. Aside(t, victim, n, A, q, d, s)
  BY <1>1, <1>2, <1>3, <1>4, BesideTheWay DEF Parent
<1>6. PICK w : w = t.child[s, Opp(d)]
  OBVIOUS
<1>7. CASE ~Black(t, w)
  <2>1. w # 0
    BY <1>7 DEF Black, rb_node_color
  <2>2. s # 0
    <3>1. t.child[0, Opp(d)] = 0
      BY <1>1, <1>5, Addresses, MapFields, ZenonT(30) DEF Aside, Tree, Clean
    <3>2. QED BY <1>6, <2>1, <3>1
  <2>3. PICK p, e, y, c, m1 : /\ p = t.parent[q] /\ e = Side(t, q) /\ y = t.child[s, d] /\ c = t.color[q]
                              /\ m1 = Paint(Paint(Paint(t, s, c), q, RB_BLACK), w, RB_BLACK)
    OBVIOUS
  <2>4. t' = rb_rotate(m1, q, d) /\ pc' = "unlink" /\ n' = n
    BY <1>4, <1>6, <1>7, <2>3 DEF delete6, Goto
  <2>5. Turned(t, m1, t', q, d, p, e, s, y)
    BY <1>1, <1>5, <1>6, <2>1, <2>2, <2>3, <2>4, Delete6Turn
  <2>6. victim # q /\ victim # s /\ victim # p
    BY <1>5, <2>2, <2>3 DEF Aside
  <2>7. Goes(t', victim, child)
    BY <1>1, <1>2, <2>5, <2>6, GoesAfterTurn
  <2>8. Tree(t') /\ Others(t, t')
    BY <2>5 DEF Turned
  <2>9. Control(t)'
    BY <1>1, <1>2, <2>4, <2>7 DEF Control, Inserting, Deleting
  <2>10. QED BY <1>1, <2>8, <2>9, OwnedKept DEF LinkInv
<1>8. CASE Black(t, w)
  <2>1. t' = t /\ pc' = "panic" /\ n' = n
    BY <1>4, <1>6, <1>8 DEF delete6, Panic, Goto
  <2>2. Control(t)'
    BY <1>1, <1>2, <2>1 DEF Control, Inserting, Deleting, Parent
  <2>3. QED BY <1>1, <2>1, <2>2, OwnedKept DEF LinkInv
<1>9. QED BY <1>7, <1>8

----------------------------------------------------------------------------
(* The nodes that come and go *)

\* What free leaves of a node.
Frees(m, m2, x) ==
  /\ m2 \in Maps /\ m2.root = m.root /\ m2.size = m.size /\ m2.used = m.used \ {x}
  /\ \A z \in Ptr : /\ m2.key[z] = (IF z = x THEN 0 ELSE m.key[z])
                    /\ m2.value[z] = (IF z = x THEN 0 ELSE m.value[z])
                    /\ m2.color[z] = (IF z = x THEN RB_RED ELSE m.color[z])
                    /\ m2.parent[z] = (IF z = x THEN 0 ELSE m.parent[z])
  /\ \A z \in Ptr, f \in Sides : m2.child[z, f] = IF z = x THEN 0 ELSE m.child[z, f]

\* What is freed is zero afterwards, and nothing else changes.
LEMMA FreedFields ==
  ASSUME NEW m \in Maps, NEW x \in Ptr, NEW m2, m2 = Freed(m, x)
  PROVE  Frees(m, m2, x)
<1>1. 0 \in Ptr /\ 0 \in Int /\ RB_RED \in {RB_RED, RB_BLACK} /\ "left" \in Sides /\ "right" \in Sides
  BY Addresses DEF Sides
<1>2. PICK l : l = [m EXCEPT !.child[<<x, "left">>] = 0]
  OBVIOUS
<1>3. WritesChild(m, l, x, "left", 0)
  BY <1>1, <1>2, WriteFields
<1>4. l \in Maps
  BY <1>3 DEF WritesChild, Others
<1>5. PICK r : r = [l EXCEPT !.child[<<x, "right">>] = 0]
  OBVIOUS
<1>6. WritesChild(l, r, x, "right", 0)
  BY <1>1, <1>4, <1>5, WriteFields
<1>7. r \in Maps
  BY <1>6 DEF WritesChild, Others
<1>8. PICK o : o = [r EXCEPT !.parent[x] = 0]
  OBVIOUS
<1>9. WritesParent(r, o, x, 0)
  BY <1>1, <1>7, <1>8, WriteFields
<1>10. o \in Maps
  BY <1>9 DEF WritesParent, Others
<1>11. PICK c : c = [o EXCEPT !.color[x] = RB_RED]
  OBVIOUS
<1>12. WritesColor(o, c, x, RB_RED)
  BY <1>1, <1>10, <1>11, WriteFields DEF Paint, RB_RED, RB_BLACK
<1>13. c \in Maps
  BY <1>12 DEF WritesColor, Others
<1>14. m2 = [c EXCEPT !.used = @ \ {x}, !.key[x] = 0, !.value[x] = 0]
  BY <1>2, <1>5, <1>8, <1>11, <1>13, ZenonT(30) DEF Freed, Maps
<1>15. PICK k, v : k = [c EXCEPT !.key[x] = 0] /\ v = [k EXCEPT !.value[x] = 0]
  OBVIOUS
<1>16. /\ k \in Maps /\ k.root = c.root /\ k.size = c.size /\ k.used = c.used /\ k.value = c.value
       /\ k.color = c.color /\ k.parent = c.parent /\ k.child = c.child
       /\ \A z \in Ptr : k.key[z] = IF z = x THEN 0 ELSE c.key[z]
  BY <1>1, <1>13, <1>15 DEF Maps
<1>17. /\ v \in Maps /\ v.root = c.root /\ v.size = c.size /\ v.used = c.used /\ v.key = k.key
       /\ v.color = c.color /\ v.parent = c.parent /\ v.child = c.child
       /\ \A z \in Ptr : v.value[z] = IF z = x THEN 0 ELSE c.value[z]
  <2>1. /\ v \in Maps /\ v.root = k.root /\ v.size = k.size /\ v.used = k.used /\ v.key = k.key
        /\ v.color = k.color /\ v.parent = k.parent /\ v.child = k.child
        /\ \A z \in Ptr : v.value[z] = IF z = x THEN 0 ELSE k.value[z]
    <3>1. k \in Maps
      BY <1>16
    <3>2. QED BY <1>1, <1>15, <3>1 DEF Maps
  <2>2. QED BY <1>16, <2>1
<1>18. m2 = [v EXCEPT !.used = @ \ {x}]
  BY <1>13, <1>14, <1>15 DEF Maps
<1>19. /\ m2 \in Maps /\ m2.root = c.root /\ m2.size = c.size /\ m2.used = c.used \ {x} /\ m2.key = v.key
       /\ m2.value = v.value /\ m2.color = c.color /\ m2.parent = c.parent /\ m2.child = c.child
  BY <1>17, <1>18 DEF Maps
<1>20. /\ c.root = m.root /\ c.size = m.size /\ c.used = m.used /\ c.key = m.key /\ c.value = m.value
       /\ c.child = r.child /\ c.parent = o.parent /\ o.color = m.color /\ r.parent = m.parent
  BY <1>3, <1>6, <1>9, <1>12 DEF WritesChild, WritesParent, WritesColor, Others
<1>21. \A z \in Ptr : c.color[z] = IF z = x THEN RB_RED ELSE m.color[z]
  BY <1>12, <1>20 DEF WritesColor
<1>22. \A z \in Ptr : o.parent[z] = IF z = x THEN 0 ELSE m.parent[z]
  BY <1>9, <1>20 DEF WritesParent
<1>23. ASSUME NEW z \in Ptr, NEW f \in Sides PROVE r.child[z, f] = IF z = x THEN 0 ELSE m.child[z, f]
  <2>1. f = "left" \/ f = "right"
    BY DEF Sides
  <2>2. r.child[z, f] = IF z = x /\ f = "right" THEN 0 ELSE l.child[z, f]
    BY <1>6 DEF WritesChild
  <2>3. l.child[z, f] = IF z = x /\ f = "left" THEN 0 ELSE m.child[z, f]
    BY <1>3 DEF WritesChild
  <2>4. QED BY <2>1, <2>2, <2>3
<1>24. m2 \in Maps /\ m2.root = m.root /\ m2.size = m.size /\ m2.used = m.used \ {x}
  BY <1>19, <1>20
<1>25. \A z \in Ptr : m2.key[z] = IF z = x THEN 0 ELSE m.key[z]
  BY <1>16, <1>17, <1>19, <1>20
<1>26. \A z \in Ptr : m2.value[z] = IF z = x THEN 0 ELSE m.value[z]
  BY <1>17, <1>19, <1>20
<1>27. \A z \in Ptr : m2.color[z] = IF z = x THEN RB_RED ELSE m.color[z]
  BY <1>19, <1>21
<1>28. \A z \in Ptr : m2.parent[z] = IF z = x THEN 0 ELSE m.parent[z]
  BY <1>19, <1>20, <1>22
<1>29. \A z \in Ptr, f \in Sides : m2.child[z, f] = IF z = x THEN 0 ELSE m.child[z, f]
  BY <1>23, <1>19, <1>20, ZenonT(30)
<1>30. QED BY <1>24, <1>25, <1>26, <1>27, <1>28, <1>29 DEF Frees

\* The rest of rb_rbtree_delete, field by field.
LEMMA UnlinkFields ==
  ASSUME NEW m, Tree(m), NEW v, NEW c, Goes(m, v, c), NEW p, p = m.parent[v], NEW e, e = Side(m, v),
         NEW m1, m1 = rb_replace_node(m, v, c),
         NEW m2, m2 = IF m1.parent[v] = 0 /\ c # 0 THEN Paint(m1, c, RB_BLACK) ELSE m1,
         NEW m3, m3 = Freed(m2, v)
  PROVE  Leaves(m, v, c, p, e) /\ Shrinks(m, m3, v, c, p, e) /\ m2.key = m.key
<1>1. Leaves(m, v, c, p, e)
  BY LeavesFrom
<1>2. /\ v \in m.used /\ v \in Ptr /\ v # 0 /\ c \in Ptr /\ p \in Ptr /\ e \in Sides
      /\ (c # 0 => c # v) /\ (p # 0 => p # v) /\ m \in Maps /\ v \in Nodes
  BY <1>1, Addresses DEF Leaves, Tree
<1>3. Replaces(m, m1, v, c, p, e)
  BY <1>2, ReplaceFields
<1>4. /\ m1 \in Maps /\ m1.size = m.size /\ m1.used = m.used /\ m1.key = m.key /\ m1.value = m.value
      /\ m1.color = m.color
      /\ m1.root = IF p = 0 THEN c ELSE m.root
      /\ \A z \in Ptr : m1.parent[z] = IF z = c /\ c # 0 THEN p ELSE m.parent[z]
      /\ \A z \in Ptr, f \in Sides :
           m1.child[z, f] = IF z = p /\ p # 0 /\ f = e THEN c ELSE m.child[z, f]
  BY <1>3 DEF Replaces, Others
<1>5. m1.parent[v] = p
  BY <1>2, <1>4
<1>6. /\ m2 \in Maps /\ m2.size = m1.size /\ m2.used = m1.used /\ m2.key = m1.key /\ m2.value = m1.value
      /\ m2.root = m1.root /\ m2.parent = m1.parent /\ m2.child = m1.child
      /\ \A z \in Ptr : m2.color[z] = IF z = c /\ c # 0 /\ p = 0 THEN RB_BLACK ELSE m1.color[z]
  <2>1. CASE p = 0 /\ c # 0
    <3>1. m2 = Paint(m1, c, RB_BLACK)
      BY <1>5, <2>1
    <3>2. WritesColor(m1, m2, c, RB_BLACK)
      BY <1>2, <1>4, <3>1, WriteFields DEF RB_BLACK
    <3>3. QED BY <2>1, <3>2 DEF WritesColor, Others
  <2>2. CASE ~(p = 0 /\ c # 0)
    <3>1. m2 = m1
      BY <1>5, <2>2
    <3>2. QED BY <1>4, <2>2, <3>1
  <2>3. QED BY <2>1, <2>2
<1>7. Frees(m2, m3, v)
  BY <1>2, <1>6, FreedFields
<1>8. m3 \in Maps /\ m3.root = m2.root /\ m3.size = m2.size /\ m3.used = m2.used \ {v}
  BY <1>7 DEF Frees
<1>9. \A z \in Ptr : m3.key[z] = IF z = v THEN 0 ELSE m2.key[z]
  BY <1>7 DEF Frees
<1>10. \A z \in Ptr : m3.value[z] = IF z = v THEN 0 ELSE m2.value[z]
  BY <1>7 DEF Frees
<1>11. \A z \in Ptr : m3.color[z] = IF z = v THEN RB_RED ELSE m2.color[z]
  BY <1>7 DEF Frees
<1>12. \A z \in Ptr : m3.parent[z] = IF z = v THEN 0 ELSE m2.parent[z]
  BY <1>7 DEF Frees
<1>13. \A z \in Ptr, f \in Sides : m3.child[z, f] = IF z = v THEN 0 ELSE m2.child[z, f]
  BY <1>7 DEF Frees
<1>14. /\ m2.used = m.used /\ m2.size = m.size /\ m2.key = m.key /\ m2.value = m.value
       /\ m2.root = IF p = 0 THEN c ELSE m.root
  BY <1>4, <1>6
<1>15. \A z \in Ptr : m2.color[z] = IF z = c /\ c # 0 /\ p = 0 THEN RB_BLACK ELSE m.color[z]
  <2>1. m1.color = m.color
    BY <1>4
  <2>2. QED BY <1>6, <2>1
<1>16. \A z \in Ptr : m2.parent[z] = IF z = c /\ c # 0 THEN p ELSE m.parent[z]
  <2>1. m2.parent = m1.parent
    BY <1>6
  <2>2. QED BY <1>4, <2>1
<1>17. \A z \in Ptr, f \in Sides :
         m2.child[z, f] = IF z = p /\ p # 0 /\ f = e THEN c ELSE m.child[z, f]
  <2>1. m2.child = m1.child
    BY <1>6
  <2>2. QED BY <1>4, <2>1, ZenonT(30)
<1>18. /\ m3 \in Maps /\ m3.used = m.used \ {v} /\ m3.size = m.size
      /\ m3.root = IF p = 0 THEN c ELSE m.root
  BY <1>8, <1>14
<1>19. \A z \in Ptr : m3.key[z] = IF z = v THEN 0 ELSE m.key[z]
  BY <1>9, <1>14
<1>20. \A z \in Ptr : m3.value[z] = IF z = v THEN 0 ELSE m.value[z]
  BY <1>10, <1>14
<1>21. \A z \in Ptr : m3.color[z] = IF z = v THEN RB_RED
                                    ELSE IF z = c /\ c # 0 /\ p = 0 THEN RB_BLACK ELSE m.color[z]
  BY <1>11, <1>15
<1>22. \A z \in Ptr : m3.parent[z] = IF z = v THEN 0 ELSE IF z = c /\ c # 0 THEN p ELSE m.parent[z]
  BY <1>12, <1>16
<1>23. \A z \in Ptr, f \in Sides :
         m3.child[z, f] = IF z = v THEN 0 ELSE IF z = p /\ p # 0 /\ f = e THEN c ELSE m.child[z, f]
  <2>1. ASSUME NEW z \in Ptr, NEW f \in Sides
        PROVE  m3.child[z, f] = IF z = v THEN 0 ELSE IF z = p /\ p # 0 /\ f = e THEN c ELSE m.child[z, f]
    <3>1. m3.child[z, f] = IF z = v THEN 0 ELSE m2.child[z, f]
      BY <1>13
    <3>2. m2.child[z, f] = IF z = p /\ p # 0 /\ f = e THEN c ELSE m.child[z, f]
      BY <1>17
    <3>3. QED BY <3>1, <3>2
  <2>2. QED BY <2>1
<1>24. Shrinks(m, m3, v, c, p, e)
  BY <1>18, <1>19, <1>20, <1>21, <1>22, <1>23 DEF Shrinks
<1>25. QED BY <1>1, <1>24, <1>14

\* There are finitely many nodes.
LEMMA NamedFinite ==
  ASSUME NEW m, Tree(m), NEW k
  PROVE  IsFiniteSet(Named(m, k)) /\ Cardinality(Named(m, k)) \in Nat
<1>1. 1 \in Int /\ MaxNodes \in Int
  BY Addresses
<1>2. IsFiniteSet(Nodes)
  BY <1>1, FS_Interval DEF Nodes
<1>3. Named(m, k) \subseteq Nodes
  BY MapFields DEF Tree, Named
<1>4. QED BY <1>2, <1>3, FS_Subset, FS_CardinalityType

\* The end of rb_rbtree_delete: the node leaves the tree, and its copy of the key is
\* destroyed with it.
LEMMA UnlinkLinks ==
  ASSUME LinkInv, unlink
  PROVE  LinkInv'
<1>1. Tree(t) /\ Control(t) /\ Owned(t) /\ pc = "unlink"
  BY DEF LinkInv, unlink
<1>2. Goes(t, victim, child)
  BY <1>1 DEF Control
<1>3. PICK p, e, m1 : p = t.parent[victim] /\ e = Side(t, victim) /\ m1 = rb_replace_node(t, victim, child)
  OBVIOUS
<1>4. PICK m2 : m2 = IF m1.parent[victim] = 0 /\ child # 0 THEN Paint(m1, child, RB_BLACK) ELSE m1
  OBVIOUS
<1>5. /\ t' = Freed(m2, victim) /\ copies' = [copies EXCEPT ![m2.key[victim]] = @ - 1]
      /\ pc' = "idle" /\ n' = 0 /\ victim' = 0 /\ child' = 0
  BY <1>3, <1>4 DEF unlink, Return, Goto, _map_key_destroy
<1>6. Leaves(t, victim, child, p, e) /\ Shrinks(t, t', victim, child, p, e) /\ m2.key = t.key
  BY <1>1, <1>2, <1>3, <1>4, <1>5, UnlinkFields
<1>7. Tree(t')
  BY <1>1, <1>6, ShrinkingKeepsTree
<1>8. 0 \in Ptr
  BY Addresses
<1>9. Control(t)'
  BY <1>5, <1>8 DEF Control, Inserting, Deleting
<1>10. PICK j : j = t.key[victim]
  OBVIOUS
<1>11. /\ \A x \in t.used : t.key[x] \in Keys
       /\ copies \in [Keys -> Int]
       /\ \A k \in Keys : copies[k] = Cardinality(Named(t, k))
  BY <1>1 DEF Owned
<1>12. victim \in t.used /\ j \in Keys /\ t.used \subseteq Ptr
  BY <1>1, <1>2, <1>10, <1>11, Addresses, MapFields DEF Goes, Tree
<1>13. /\ t'.used = t.used \ {victim}
       /\ \A z \in t.used \ {victim} : t'.key[z] = t.key[z]
  BY <1>6, <1>12 DEF Shrinks
<1>14. ASSUME NEW k \in Keys PROVE copies'[k] = Cardinality(Named(t', k))
  <2>1. copies'[k] = IF k = j THEN copies[k] - 1 ELSE copies[k]
    BY <1>5, <1>6, <1>10, <1>11, <1>12
  <2>2. Named(t', k) = Named(t, k) \ {victim}
    BY <1>13 DEF Named
  <2>3. CASE k = j
    <3>1. victim \in Named(t, k)
      BY <1>10, <1>12, <2>3 DEF Named
    <3>2. Cardinality(Named(t, k) \ {victim}) = Cardinality(Named(t, k)) - 1
      BY <1>1, <3>1, NamedFinite, FS_RemoveElement
    <3>3. QED BY <1>11, <2>1, <2>2, <2>3, <3>2
  <2>4. CASE k # j
    <3>1. victim \notin Named(t, k)
      BY <1>10, <2>4 DEF Named
    <3>2. Named(t', k) = Named(t, k)
      BY <2>2, <3>1
    <3>3. QED BY <1>11, <2>1, <2>4, <3>2
  <2>5. QED BY <2>3, <2>4
<1>15. \A x \in t'.used : t'.key[x] \in Keys
  BY <1>11, <1>13
<1>16. copies' \in [Keys -> Int]
  <2>1. m2.key[victim] = j /\ copies[j] \in Int
    BY <1>6, <1>10, <1>11, <1>12
  <2>2. copies' = [copies EXCEPT ![j] = copies[j] - 1]
    BY <1>5, <2>1
  <2>3. copies[j] - 1 \in Int
    BY <2>1
  <2>4. QED BY <1>11, <2>2, <2>3
<1>17. Owned(t)'
  BY <1>14, <1>15, <1>16 DEF Owned
<1>18. QED BY <1>7, <1>9, <1>17 DEF LinkInv

\* malloc returns a node that is not in use.
LEMMA FreshNode ==
  ASSUME NEW m, Tree(m), m.used # Nodes, NEW k, NEW x, x = Fresh(m, k)
  PROVE  x \in Nodes /\ x \notin m.used
<1>1. PICK U : U = Nodes \ m.used
  OBVIOUS
<1>2. m.used \subseteq Nodes /\ Nodes \subseteq Nat
  BY MapFields, Addresses DEF Tree
<1>3. U # {} /\ U \in SUBSET Nat
  BY <1>1, <1>2
<1>4. PICK y \in U : \A z \in U : y <= z
  BY <1>3, LeastNat
<1>5. \E z \in U : z = k \/ (k \notin U /\ \A w \in U : z <= w)
  BY <1>4
<1>6. x = CHOOSE z \in U : z = k \/ (k \notin U /\ \A w \in U : z <= w)
  BY <1>1 DEF Fresh
<1>7. x \in U
  BY <1>5, <1>6
<1>8. QED BY <1>1, <1>7

\* rb_new_node, field by field.
Adds(m, m1, x, k, v) ==
  /\ m1 \in Maps /\ m1.used = m.used \union {x} /\ m1.root = m.root /\ m1.size = m.size
  /\ m1.color = m.color /\ m1.parent = m.parent /\ m1.child = m.child
  /\ \A z \in Ptr : m1.key[z] = IF z = x THEN k ELSE m.key[z]
  /\ \A z \in Ptr : m1.value[z] = IF z = x THEN v ELSE m.value[z]

\* What rb_new_node writes.
LEMMA NewNodeFields ==
  ASSUME NEW m \in Maps, NEW k \in Int, NEW v \in Int, NEW x \in Nodes, x = Fresh(m, k),
         NEW m1, m1 = rb_new_node(m, k, v)
  PROVE  Adds(m, m1, x, k, v)
<1>1. x \in Ptr
  BY Addresses
<1>2. m1 = [m EXCEPT !.used = @ \union {x}, !.key[x] = k, !.value[x] = v]
  BY DEF rb_new_node
<1>3. /\ m1.used = m.used \union {x} /\ m1.root = m.root /\ m1.size = m.size
      /\ m1.color = m.color /\ m1.parent = m.parent /\ m1.child = m.child
      /\ m1.key = [m.key EXCEPT ![x] = k] /\ m1.value = [m.value EXCEPT ![x] = v]
  BY <1>2 DEF Maps
<1>4. m.key \in [Ptr -> Int] /\ m.value \in [Ptr -> Int] /\ m.used \union {x} \in SUBSET Nodes
  BY DEF Maps
<1>5. m1 \in Maps
  <2>1. PICK a, b : a = [m EXCEPT !.key[x] = k] /\ b = [a EXCEPT !.value[x] = v]
    OBVIOUS
  <2>2. a \in Maps
    BY <1>1, <2>1 DEF Maps
  <2>3. b \in Maps /\ b.used = m.used
    BY <1>1, <2>1, <2>2 DEF Maps
  <2>4. m1 = [b EXCEPT !.used = m.used \union {x}]
    BY <1>2, <2>1 DEF Maps
  <2>5. QED BY <1>4, <2>3, <2>4 DEF Maps
<1>6. /\ \A z \in Ptr : m1.key[z] = IF z = x THEN k ELSE m.key[z]
      /\ \A z \in Ptr : m1.value[z] = IF z = x THEN v ELSE m.value[z]
  BY <1>3, <1>4
<1>7. QED BY <1>3, <1>5, <1>6 DEF Adds

\* What programs set (Settings) are keys and values.
LEMMA SettingsTyped ==
  ASSUME NEW kv \in Settings
  PROVE  kv[1] \in Int /\ kv[2] \in Int /\ kv[1] \in Keys
<1>1. kv \in Int \X Int
  BY RbConstants
<1>2. QED BY <1>1 DEF Keys

\* Functions are equal that have the same values (a field of all nodes).
SameValues(a, b, S, R) == a \in [S -> R] /\ b \in [S -> R] /\ \A z \in S : a[z] = b[z]

\* Two states of a field of all nodes are the same when they agree on every node.
LEMMA SameFunction ==
  ASSUME NEW S, NEW R, NEW a, NEW b, SameValues(a, b, S, R)
  PROVE  a = b
BY DEF SameValues

\* So are the fields that have two sides.
SameCells(a, b, S, D, R) ==
  a \in [S \X D -> R] /\ b \in [S \X D -> R] /\ \A z \in S, f \in D : a[<<z, f>>] = b[<<z, f>>]

\* Two states of the children are the same when they agree on every node and side.
LEMMA SameTable ==
  ASSUME NEW S, NEW D, NEW R, NEW a, NEW b, SameCells(a, b, S, D, R)
  PROVE  a = b
<1>1. \A w \in S \X D : a[w] = b[w]
  BY DEF SameCells
<1>2. SameValues(a, b, S \X D, R)
  BY <1>1 DEF SameCells, SameValues
<1>3. QED BY <1>2, SameFunction

\* Two maps of the same nodes and links.
LEMMA SameLinksPointwise ==
  ASSUME NEW m \in Maps, NEW m2 \in Maps, m2.root = m.root, m2.used = m.used,
         \A z \in Ptr : m2.parent[z] = m.parent[z],
         \A z \in Ptr, f \in Sides : m2.child[z, f] = m.child[z, f]
  PROVE  SameShape(m, m2)
<1>1. m2.parent \in [Ptr -> Ptr] /\ m.parent \in [Ptr -> Ptr]
  BY DEF Maps
<1>2. SameValues(m2.parent, m.parent, Ptr, Ptr)
  BY <1>1 DEF SameValues
<1>3. m2.parent = m.parent
  BY <1>2, SameFunction
<1>4. m2.child \in [Ptr \X Sides -> Ptr] /\ m.child \in [Ptr \X Sides -> Ptr]
  BY DEF Maps
<1>5. \A z \in Ptr, f \in Sides : m2.child[<<z, f>>] = m.child[<<z, f>>]
  OBVIOUS
<1>6. SameCells(m2.child, m.child, Ptr, Sides, Ptr)
  BY <1>4, <1>5 DEF SameCells
<1>7. m2.child = m.child
  BY <1>6, SameTable
<1>8. QED BY <1>3, <1>7 DEF SameShape

\* Only the value of x differs.
Revalues(m, m2, x, v) ==
  /\ m2 \in Maps /\ SameShape(m, m2) /\ m2.size = m.size
  /\ \A z \in Ptr : m2.key[z] = m.key[z]
  /\ \A z \in Ptr : m2.color[z] = m.color[z]
  /\ \A z \in Ptr : m2.value[z] = IF z = x THEN v ELSE m.value[z]

\* A set of a key that is there leaves of the node made for it nothing behind.
LEMMA OverwriteFields ==
  ASSUME NEW m, Tree(m), NEW k \in Int, NEW v \in Int, NEW x \in m.used,
         NEW y \in Nodes, y \notin m.used, y = Fresh(m, k),
         NEW m2, m2 = Freed([rb_new_node(m, k, v) EXCEPT !.value[x] = v], y)
  PROVE  Revalues(m, m2, x, v)
<1>1. m \in Maps /\ x \in Ptr /\ y \in Ptr /\ x # y /\ Clean(m)
  BY Addresses, MapFields DEF Tree
<1>2. PICK a : a = rb_new_node(m, k, v)
  OBVIOUS
<1>3. Adds(m, a, y, k, v)
  BY <1>1, <1>2, NewNodeFields
<1>4. PICK b : b = [a EXCEPT !.value[x] = v]
  OBVIOUS
<1>5. a \in Maps
  BY <1>3 DEF Adds
<1>6. /\ b \in Maps /\ b.root = a.root /\ b.size = a.size /\ b.used = a.used /\ b.key = a.key
      /\ b.color = a.color /\ b.parent = a.parent /\ b.child = a.child
      /\ \A z \in Ptr : b.value[z] = IF z = x THEN v ELSE a.value[z]
  BY <1>1, <1>4, <1>5 DEF Maps
<1>7. Frees(b, m2, y)
  BY <1>1, <1>2, <1>4, <1>6, FreedFields
<1>8. /\ m.key[y] = 0 /\ m.value[y] = 0 /\ m.color[y] = RB_RED /\ m.parent[y] = 0
      /\ \A d \in Sides : m.child[y, d] = 0
  BY <1>1 DEF Clean
<1>9. /\ b.root = m.root /\ b.size = m.size /\ b.used = m.used \union {y}
      /\ b.color = m.color /\ b.parent = m.parent /\ b.child = m.child
  BY <1>3, <1>6 DEF Adds
<1>10. m2 \in Maps /\ m2.root = m.root /\ m2.size = m.size /\ m2.used = m.used
  <2>1. m2 \in Maps /\ m2.root = b.root /\ m2.size = b.size /\ m2.used = b.used \ {y}
    BY <1>7 DEF Frees
  <2>2. (m.used \union {y}) \ {y} = m.used
    OBVIOUS
  <2>3. QED BY <1>9, <2>1, <2>2
<1>11. \A z \in Ptr : m2.key[z] = m.key[z]
  <2>1. \A z \in Ptr : m2.key[z] = IF z = y THEN 0 ELSE b.key[z]
    BY <1>7 DEF Frees
  <2>2. \A z \in Ptr : b.key[z] = IF z = y THEN k ELSE m.key[z]
    BY <1>3, <1>6 DEF Adds
  <2>3. QED BY <1>8, <2>1, <2>2
<1>12. \A z \in Ptr : m2.color[z] = m.color[z]
  <2>1. \A z \in Ptr : m2.color[z] = IF z = y THEN RB_RED ELSE b.color[z]
    BY <1>7 DEF Frees
  <2>2. QED BY <1>8, <1>9, <2>1
<1>13. \A z \in Ptr : m2.parent[z] = m.parent[z]
  <2>1. \A z \in Ptr : m2.parent[z] = IF z = y THEN 0 ELSE b.parent[z]
    BY <1>7 DEF Frees
  <2>2. QED BY <1>8, <1>9, <2>1
<1>14. ASSUME NEW z \in Ptr, NEW f \in Sides PROVE m2.child[z, f] = m.child[z, f]
  <2>1. m2.child[z, f] = IF z = y THEN 0 ELSE b.child[z, f]
    BY <1>7 DEF Frees
  <2>2. QED BY <1>8, <1>9, <2>1
<1>15. \A z \in Ptr : m2.value[z] = IF z = x THEN v ELSE m.value[z]
  <2>1. \A z \in Ptr : m2.value[z] = IF z = y THEN 0 ELSE b.value[z]
    BY <1>7 DEF Frees
  <2>2. \A z \in Ptr : b.value[z] = IF z = x THEN v ELSE a.value[z]
    BY <1>6
  <2>3. \A z \in Ptr : a.value[z] = IF z = y THEN v ELSE m.value[z]
    BY <1>3 DEF Adds
  <2>4. QED BY <1>1, <1>8, <2>1, <2>2, <2>3
<1>16. SameShape(m, m2)
  BY <1>1, <1>10, <1>13, <1>14, SameLinksPointwise
<1>17. QED BY <1>10, <1>11, <1>12, <1>15, <1>16 DEF Revalues

\* It stays a tree.
LEMMA RevalueKeepsTree ==
  ASSUME NEW m, Tree(m), NEW x \in m.used, NEW v, NEW m2, Revalues(m, m2, x, v)
  PROVE  Tree(m2)
<1>1. /\ m2 \in Maps /\ SameShape(m, m2)
      /\ \A z \in Ptr : m2.key[z] = m.key[z]
      /\ \A z \in Ptr : m2.color[z] = m.color[z]
      /\ \A z \in Ptr : m2.value[z] = IF z = x THEN v ELSE m.value[z]
  BY DEF Revalues
<1>2. m2.used = m.used /\ m2.parent = m.parent /\ m2.child = m.child
  BY <1>1 DEF SameShape
<1>3. Clean(m2)
  <2>1. ASSUME NEW z \in Ptr, z \notin m2.used
        PROVE  /\ m2.key[z] = 0 /\ m2.value[z] = 0 /\ m2.color[z] = RB_RED /\ m2.parent[z] = 0
               /\ \A f \in Sides : m2.child[z, f] = 0
    <3>1. /\ m.key[z] = 0 /\ m.value[z] = 0 /\ m.color[z] = RB_RED /\ m.parent[z] = 0
          /\ \A f \in Sides : m.child[z, f] = 0 /\ z # x
      BY <1>2, <2>1 DEF Tree, Clean
    <3>2. QED BY <1>1, <1>2, <2>1, <3>1
  <2>2. QED BY <2>1 DEF Clean
<1>4. QED BY <1>1, <1>3, ShapeKeepsTree

\* A set of a key that is there (map_set) keeps the links and the count of copies.
LEMMA OverwriteLinks ==
  ASSUME LinkInv, pc = "idle", t.used # Nodes, UNCHANGED <<victim, child>>,
         NEW kv \in Settings, NEW k, k = kv[1], NEW v, v = kv[2], Overwrite(k, v)
  PROVE  LinkInv'
<1>1. Tree(t) /\ Control(t) /\ Owned(t)
  BY DEF LinkInv
<1>2. k \in Int /\ v \in Int /\ k \in Keys
  BY SettingsTyped
<1>3. PICK x, y : x = rb_lookup_node(t, k) /\ y = Fresh(t, k)
  OBVIOUS
<1>4. /\ x # 0
      /\ t' = Freed([rb_new_node(t, k, v) EXCEPT !.value[x] = v], y)
      /\ pc' = "idle" /\ n' = 0
      /\ copies' = [[copies EXCEPT ![k] = @ + 1] EXCEPT ![k] = @ - 1]
  BY <1>3 DEF Overwrite, Return, Goto, _map_key_init, _map_key_destroy
<1>5. x \in t.used
  <2>1. Finds(t, k, x)
    BY <1>1, <1>2, <1>3, LookupFinds
  <2>2. QED BY <1>4, <2>1 DEF Finds
<1>6. y \in Nodes /\ y \notin t.used
  BY <1>1, <1>3, FreshNode
<1>7. Revalues(t, t', x, v)
  BY <1>1, <1>2, <1>3, <1>4, <1>5, <1>6, OverwriteFields
<1>8. Tree(t')
  BY <1>1, <1>5, <1>7, RevalueKeepsTree
<1>9. Control(t)'
  <2>1. pc' = "idle" /\ n' = 0 /\ victim' = 0 /\ child' = 0
    BY <1>1, <1>4 DEF Control
  <2>2. QED BY <2>1, Addresses DEF Control, Inserting, Deleting
<1>10. /\ \A x1 \in t.used : t.key[x1] \in Keys
       /\ copies \in [Keys -> Int]
       /\ \A j \in Keys : copies[j] = Cardinality(Named(t, j))
  BY <1>1 DEF Owned
<1>11. t'.used = t.used /\ t.used \subseteq Ptr /\ \A z \in Ptr : t'.key[z] = t.key[z]
  BY <1>1, <1>7, Addresses, MapFields DEF Revalues, SameShape, Tree
<1>12. \A j \in Keys : Named(t', j) = Named(t, j)
  BY <1>11 DEF Named
<1>13. copies' \in [Keys -> Int] /\ \A j \in Keys : copies'[j] = copies[j]
  <2>1. PICK c : c = [copies EXCEPT ![k] = copies[k] + 1]
    OBVIOUS
  <2>2. copies[k] \in Int
    BY <1>2, <1>10
  <2>3. c \in [Keys -> Int] /\ c[k] = copies[k] + 1 /\ \A j \in Keys : j # k => c[j] = copies[j]
    BY <1>2, <1>10, <2>1, <2>2
  <2>4. copies' = [c EXCEPT ![k] = c[k] - 1]
    BY <1>4, <2>1
  <2>5. QED BY <1>2, <2>2, <2>3, <2>4
<1>14. \A x1 \in t'.used : t'.key[x1] \in Keys
  BY <1>10, <1>11
<1>15. Owned(t)'
  BY <1>10, <1>12, <1>13, <1>14 DEF Owned
<1>16. QED BY <1>8, <1>9, <1>15 DEF LinkInv

\* Where rb_rbtree_insert links a new node, and how.
Place(m, k, p, f) == p = (IF m.root = 0 THEN 0 ELSE LastOnPath(m, k)) /\ f = Toward(m, p, k)
Hooks(m, m1, m2, x, p, f) ==
  m2 = IF m.root = 0
       THEN [m1 EXCEPT !.root = x, !.size = @ + 1]
       ELSE [m1 EXCEPT !.child[<<p, f>>] = x, !.parent[x] = p, !.size = @ + 1]

\* The insertion of a node, field by field.
LEMMA InsertFields ==
  ASSUME NEW m, Tree(m), NEW k \in Int, NEW v \in Int, m.used # Nodes, NEW x, x = Fresh(m, k),
         NEW p, NEW f, Place(m, k, p, f), NEW m1, m1 = rb_new_node(m, k, v),
         NEW m2, Hooks(m, m1, m2, x, p, f)
  PROVE  Room(m, x, p, f) /\ Grows(m, m2, x, k, v, p, f)
<1>1. p = (IF m.root = 0 THEN 0 ELSE LastOnPath(m, k)) /\ f = Toward(m, p, k)
  BY DEF Place
<1>2. m2 = IF m.root = 0
            THEN [m1 EXCEPT !.root = x, !.size = @ + 1]
            ELSE [m1 EXCEPT !.child[<<p, f>>] = x, !.parent[x] = p, !.size = @ + 1]
  BY DEF Hooks
<1>3. m \in Maps /\ m.used \subseteq Ptr /\ 0 \in Ptr /\ 0 \notin m.used
  BY Addresses, MapFields DEF Tree
<1>4. x \in Nodes /\ x \notin m.used /\ x \in Ptr /\ x # 0
  BY FreshNode, Addresses
<1>5. p \in Ptr /\ f \in Sides
  <2>1. m.root # 0 => p \in m.used
    BY <1>1, LastHasRoom
  <2>2. p \in Ptr
    BY <1>3, <1>1, <2>1
  <2>3. QED BY <1>1, <2>2 DEF Toward, Sides
<1>6. Room(m, x, p, f)
  <2>1. CASE m.root = 0
    BY <1>4, <1>5, <1>1, <2>1 DEF Room
  <2>2. CASE m.root # 0
    <3>1. p \in m.used /\ m.child[p, f] = 0
      BY <1>1, <2>2, LastHasRoom
    <3>2. QED BY <1>3, <1>4, <1>5, <3>1 DEF Room
  <2>3. QED BY <2>1, <2>2
<1>7. Adds(m, m1, x, k, v)
  BY <1>3, <1>4, NewNodeFields
<1>8. /\ m1 \in Maps /\ m1.used = m.used \union {x} /\ m1.root = m.root /\ m1.size = m.size
      /\ m1.color = m.color /\ m1.parent = m.parent /\ m1.child = m.child
  BY <1>7 DEF Adds
<1>9. /\ \A z \in Ptr : m1.key[z] = IF z = x THEN k ELSE m.key[z]
      /\ \A z \in Ptr : m1.value[z] = IF z = x THEN v ELSE m.value[z]
  BY <1>7 DEF Adds
<1>10. m1.size \in Int /\ m1.size + 1 \in Int /\ m.parent[x] = 0
  <2>1. m1.size \in Int
    BY <1>8, MapFields
  <2>2. m.parent[x] = 0
    BY <1>4 DEF Tree, Clean
  <2>3. QED BY <2>1, <2>2
<1>11. CASE m.root = 0
  <2>1. p = 0
    BY <1>11, <1>1
  <2>2. /\ m2 \in Maps /\ m2.root = x /\ m2.size = m1.size + 1 /\ m2.used = m1.used /\ m2.key = m1.key
        /\ m2.value = m1.value /\ m2.color = m1.color /\ m2.parent = m1.parent /\ m2.child = m1.child
    <3>1. PICK a : a = [m1 EXCEPT !.root = x]
      OBVIOUS
    <3>2. /\ a \in Maps /\ a.root = x /\ a.size = m1.size /\ a.used = m1.used /\ a.key = m1.key
          /\ a.value = m1.value /\ a.color = m1.color /\ a.parent = m1.parent /\ a.child = m1.child
      BY <1>4, <1>8, <3>1 DEF Maps
    <3>3. m2 = [a EXCEPT !.size = m1.size + 1]
      BY <1>8, <1>11, <1>2, <3>1 DEF Maps
    <3>4. QED BY <1>10, <3>2, <3>3 DEF Maps
  <2>3. m2.used = m.used \union {x} /\ m2.color = m.color /\ m2.size = m.size + 1 /\ m2.root = x
    BY <1>8, <2>2
  <2>4. \A z \in Ptr : m2.parent[z] = IF z = x THEN p ELSE m.parent[z]
    BY <1>8, <1>10, <2>1, <2>2
  <2>5. m2.child = m.child /\ m2.key = m1.key /\ m2.value = m1.value
    BY <1>8, <2>2
  <2>6. \A z \in Ptr : /\ m2.key[z] = (IF z = x THEN k ELSE m.key[z])
                       /\ m2.value[z] = (IF z = x THEN v ELSE m.value[z])
                       /\ m2.parent[z] = (IF z = x THEN p ELSE m.parent[z])
    BY <1>9, <2>4, <2>5
  <2>7. \A z \in Ptr, g \in Sides : m2.child[z, g] = IF z = p /\ p # 0 /\ g = f THEN x ELSE m.child[z, g]
    <3>1. \A z \in Ptr, g \in Sides : m2.child[z, g] = m.child[z, g]
      BY <2>5
    <3>2. QED BY <2>1, <3>1
  <2>8. Grows(m, m2, x, k, v, p, f)
    BY <2>1, <2>2, <2>3, <2>6, <2>7 DEF Grows
  <2>9. QED BY <1>6, <2>8
<1>12. CASE m.root # 0
  <2>1. p # 0
    BY <1>6, <1>12 DEF Room
  <2>2. PICK a, b : a = [m1 EXCEPT !.child[<<p, f>>] = x] /\ b = [a EXCEPT !.parent[x] = p]
    OBVIOUS
  <2>3. WritesChild(m1, a, p, f, x)
    BY <1>4, <1>5, <1>8, <2>2, WriteFields
  <2>4. a \in Maps
    BY <2>3 DEF WritesChild, Others
  <2>5. WritesParent(a, b, x, p)
    BY <1>4, <1>5, <2>2, <2>4, WriteFields
  <2>6. b \in Maps /\ b.size = m1.size
    BY <2>3, <2>5 DEF WritesChild, WritesParent, Others
  <2>7. m2 = [b EXCEPT !.size = m1.size + 1]
    BY <1>8, <1>12, <1>2, <2>2 DEF Maps
  <2>8. /\ m2 \in Maps /\ m2.root = b.root /\ m2.size = m1.size + 1 /\ m2.used = b.used /\ m2.key = b.key
        /\ m2.value = b.value /\ m2.color = b.color /\ m2.parent = b.parent /\ m2.child = b.child
    BY <1>10, <2>6, <2>7 DEF Maps
  <2>9. /\ b.root = m.root /\ b.used = m1.used /\ b.key = m1.key /\ b.value = m1.value
        /\ b.color = m.color /\ b.child = a.child /\ a.parent = m.parent
    BY <1>8, <2>3, <2>5 DEF WritesChild, WritesParent, Others
  <2>10. /\ m2.used = m.used \union {x} /\ m2.color = m.color /\ m2.size = m.size + 1 /\ m2.root = m.root
         /\ m2.key = m1.key /\ m2.value = m1.value
    BY <1>8, <2>8, <2>9
  <2>11. \A z \in Ptr : m2.parent[z] = IF z = x THEN p ELSE m.parent[z]
    BY <2>5, <2>8, <2>9 DEF WritesParent
  <2>12. \A z \in Ptr, g \in Sides : a.child[z, g] = IF z = p /\ g = f THEN x ELSE m1.child[z, g]
    BY <2>3 DEF WritesChild
  <2>13. m2.child = a.child /\ m1.child = m.child
    BY <1>8, <2>8, <2>9
  <2>14. \A z \in Ptr, g \in Sides : m2.child[z, g] = IF z = p /\ p # 0 /\ g = f THEN x ELSE m.child[z, g]
    BY <2>1, <2>12, <2>13
  <2>15. \A z \in Ptr : /\ m2.key[z] = (IF z = x THEN k ELSE m.key[z])
                        /\ m2.value[z] = (IF z = x THEN v ELSE m.value[z])
                        /\ m2.parent[z] = (IF z = x THEN p ELSE m.parent[z])
    BY <1>9, <2>10, <2>11
  <2>16. Grows(m, m2, x, k, v, p, f)
    BY <2>1, <2>8, <2>10, <2>14, <2>15 DEF Grows
  <2>17. QED BY <1>6, <2>16
<1>13. QED BY <1>11, <1>12

\* A set of a new key (map_set) hangs a leaf below the last node of the way down.
LEMMA InsertLinks ==
  ASSUME LinkInv, pc = "idle", t.used # Nodes, UNCHANGED <<victim, child>>,
         NEW kv \in Settings, NEW k, k = kv[1], NEW v, v = kv[2], Insert(k, v)
  PROVE  LinkInv'
<1>1. Tree(t) /\ Control(t) /\ Owned(t)
  BY DEF LinkInv
<1>2. k \in Int /\ v \in Int /\ k \in Keys
  BY SettingsTyped
<1>3. PICK x, p, f, m : /\ x = Fresh(t, k) /\ p = IF t.root = 0 THEN 0 ELSE LastOnPath(t, k)
                        /\ f = Toward(t, p, k) /\ m = rb_new_node(t, k, v)
  OBVIOUS
<1>4. /\ t' = IF t.root = 0
              THEN [m EXCEPT !.root = x, !.size = @ + 1]
              ELSE [m EXCEPT !.child[<<p, f>>] = x, !.parent[x] = p, !.size = @ + 1]
      /\ pc' = "insert1" /\ n' = x
      /\ copies' = [copies EXCEPT ![k] = @ + 1]
  BY <1>3 DEF Insert, Goto, _map_key_init
<1>5. Room(t, x, p, f) /\ Grows(t, t', x, k, v, p, f)
  <2>1. Place(t, k, p, f) /\ Hooks(t, m, t', x, p, f)
    BY <1>3, <1>4 DEF Place, Hooks
  <2>2. QED BY <1>1, <1>2, <1>3, <2>1, InsertFields
<1>6. Tree(t')
  BY <1>1, <1>5, GrowthKeepsTree
<1>7. x \in Nodes /\ x \in Ptr /\ x \notin t.used /\ t'.used = t.used \union {x}
  BY <1>5, Addresses DEF Room, Grows
<1>8. Control(t)'
  <2>1. victim' = 0 /\ child' = 0
    BY <1>1 DEF Control
  <2>2. QED BY <1>4, <1>7, <2>1, Addresses DEF Control, Inserting, Deleting
<1>9. /\ \A z \in t.used : t.key[z] \in Keys
      /\ copies \in [Keys -> Int]
      /\ \A j \in Keys : copies[j] = Cardinality(Named(t, j))
  BY <1>1 DEF Owned
<1>10. t.used \subseteq Ptr /\ \A z \in Ptr : t'.key[z] = IF z = x THEN k ELSE t.key[z]
  BY <1>1, <1>5, Addresses, MapFields DEF Grows, Tree
<1>11. copies' \in [Keys -> Int] /\ \A j \in Keys : copies'[j] = IF j = k THEN copies[k] + 1 ELSE copies[j]
  <2>1. copies[k] \in Int /\ copies[k] + 1 \in Int
    BY <1>2, <1>9
  <2>2. QED BY <1>4, <1>9, <2>1
<1>12. ASSUME NEW j \in Keys PROVE copies'[j] = Cardinality(Named(t', j))
  <2>1. CASE j = k
    <3>1. Named(t', j) = Named(t, j) \union {x}
      BY <1>7, <1>10, <2>1 DEF Named
    <3>2. x \notin Named(t, j)
      BY <1>7 DEF Named
    <3>3. Cardinality(Named(t, j) \union {x}) = Cardinality(Named(t, j)) + 1
      BY <1>1, <3>2, NamedFinite, FS_AddElement
    <3>4. QED BY <1>9, <1>11, <2>1, <3>1, <3>3
  <2>2. CASE j # k
    <3>1. Named(t', j) = Named(t, j)
      BY <1>7, <1>10, <2>2 DEF Named
    <3>2. QED BY <1>9, <1>11, <2>2, <3>1
  <2>3. QED BY <2>1, <2>2
<1>13. \A z \in t'.used : t'.key[z] \in Keys
  BY <1>2, <1>7, <1>9, <1>10
<1>14. Owned(t)'
  BY <1>11, <1>12, <1>13 DEF Owned
<1>15. QED BY <1>6, <1>8, <1>14 DEF LinkInv

\* x and y trade their keys and values, and the size is one less.
Trades(m, m2, x, y) ==
  /\ m2 \in Maps /\ SameShape(m, m2) /\ m2.color = m.color /\ m2.size = m.size - 1
  /\ \A z \in Ptr : m2.key[z] = IF z = x THEN m.key[y] ELSE IF z = y THEN m.key[x] ELSE m.key[z]
  /\ \A z \in Ptr :
       m2.value[z] = IF z = x THEN m.value[y] ELSE IF z = y THEN m.value[x] ELSE m.value[z]

\* What the trade of key and value with the predecessor writes (rb_rbtree_delete).
LEMMA TradeFields ==
  ASSUME NEW m \in Maps, NEW x \in Ptr, NEW y \in Ptr, NEW two \in BOOLEAN, ~two => y = x,
         NEW m2, m2 = [IF two THEN Swapped(m, x, y) ELSE m EXCEPT !.size = @ - 1]
  PROVE  Trades(m, m2, x, y)
<1>1. PICK a : a = IF two THEN Swapped(m, x, y) ELSE m
  OBVIOUS
<1>2. m.key[x] \in Int /\ m.key[y] \in Int /\ m.value[x] \in Int /\ m.value[y] \in Int
  BY MapFields
<1>3. /\ a \in Maps /\ a.size = m.size /\ a.used = m.used /\ a.root = m.root /\ a.parent = m.parent
      /\ a.child = m.child /\ a.color = m.color
      /\ \A z \in Ptr : a.key[z] = IF z = x THEN m.key[y] ELSE IF z = y THEN m.key[x] ELSE m.key[z]
      /\ \A z \in Ptr :
           a.value[z] = IF z = x THEN m.value[y] ELSE IF z = y THEN m.value[x] ELSE m.value[z]
  <2>1. CASE two
    <3>1. PICK b : b = [m EXCEPT !.key[x] = m.key[y]]
      OBVIOUS
    <3>2. /\ b \in Maps /\ b.size = m.size /\ b.used = m.used /\ b.root = m.root /\ b.parent = m.parent
          /\ b.child = m.child /\ b.color = m.color /\ b.value = m.value
          /\ \A z \in Ptr : b.key[z] = IF z = x THEN m.key[y] ELSE m.key[z]
      BY <1>2, <3>1 DEF Maps
    <3>3. PICK c : c = [b EXCEPT !.key[y] = m.key[x]]
      OBVIOUS
    <3>4. b \in Maps
      BY <3>2
    <3>5. /\ c \in Maps /\ c.size = b.size /\ c.used = b.used /\ c.root = b.root /\ c.parent = b.parent
          /\ c.child = b.child /\ c.color = b.color /\ c.value = b.value
          /\ \A z \in Ptr : c.key[z] = IF z = y THEN m.key[x] ELSE b.key[z]
      BY <1>2, <3>3, <3>4 DEF Maps
    <3>6. PICK d : d = [c EXCEPT !.value[x] = m.value[y]]
      OBVIOUS
    <3>7. c \in Maps
      BY <3>5
    <3>8. /\ d \in Maps /\ d.size = c.size /\ d.used = c.used /\ d.root = c.root /\ d.parent = c.parent
          /\ d.child = c.child /\ d.color = c.color /\ d.key = c.key
          /\ \A z \in Ptr : d.value[z] = IF z = x THEN m.value[y] ELSE c.value[z]
      BY <1>2, <3>6, <3>7 DEF Maps
    <3>9. a = [d EXCEPT !.value[y] = m.value[x]]
      BY <1>1, <2>1, <3>1, <3>3, <3>6 DEF Swapped, Maps
    <3>10. d \in Maps
      BY <3>8
    <3>11. /\ a \in Maps /\ a.size = d.size /\ a.used = d.used /\ a.root = d.root /\ a.parent = d.parent
           /\ a.child = d.child /\ a.color = d.color /\ a.key = d.key
           /\ \A z \in Ptr : a.value[z] = IF z = y THEN m.value[x] ELSE d.value[z]
      BY <1>2, <3>9, <3>10 DEF Maps
    <3>12. /\ a \in Maps /\ a.size = m.size /\ a.used = m.used /\ a.root = m.root /\ a.parent = m.parent
           /\ a.child = m.child /\ a.color = m.color
      BY <3>2, <3>5, <3>8, <3>11
    <3>13. \A z \in Ptr : a.key[z] = IF z = x THEN m.key[y] ELSE IF z = y THEN m.key[x] ELSE m.key[z]
      <4>1. a.key = c.key
        BY <3>8, <3>11
      <4>2. \A z \in Ptr : c.key[z] = IF z = y THEN m.key[x] ELSE b.key[z]
        BY <3>5
      <4>3. \A z \in Ptr : b.key[z] = IF z = x THEN m.key[y] ELSE m.key[z]
        BY <3>2
      <4>4. QED BY <4>1, <4>2, <4>3
    <3>14. \A z \in Ptr :
             a.value[z] = IF z = x THEN m.value[y] ELSE IF z = y THEN m.value[x] ELSE m.value[z]
      <4>1. c.value = m.value
        BY <3>2, <3>5
      <4>2. \A z \in Ptr : d.value[z] = IF z = x THEN m.value[y] ELSE c.value[z]
        BY <3>8
      <4>3. \A z \in Ptr : a.value[z] = IF z = y THEN m.value[x] ELSE d.value[z]
        BY <3>11
      <4>4. QED BY <4>1, <4>2, <4>3
    <3>15. QED BY <3>12, <3>13, <3>14
  <2>2. CASE ~two
    BY <1>1, <2>2
  <2>3. QED BY <2>1, <2>2
<1>4. a \in Maps /\ m2 = [a EXCEPT !.size = a.size - 1]
  BY <1>1, <1>3
<1>5. a.size \in Int
  BY <1>4, MapFields
<1>6. /\ m2 \in Maps /\ m2.size = a.size - 1 /\ m2.used = a.used /\ m2.root = a.root /\ m2.parent = a.parent
      /\ m2.child = a.child /\ m2.color = a.color /\ m2.key = a.key /\ m2.value = a.value
  BY <1>4, <1>5 DEF Maps
<1>7. /\ m2.used = m.used /\ m2.root = m.root /\ m2.parent = m.parent
      /\ m2.child = m.child /\ m2.color = m.color /\ m2.size = m.size - 1
  BY <1>3, <1>6
<1>8. SameShape(m, m2)
  BY <1>6, <1>7 DEF SameShape
<1>9. \A z \in Ptr : m2.key[z] = IF z = x THEN m.key[y] ELSE IF z = y THEN m.key[x] ELSE m.key[z]
  BY <1>3, <1>6
<1>10. \A z \in Ptr :
         m2.value[z] = IF z = x THEN m.value[y] ELSE IF z = y THEN m.value[x] ELSE m.value[z]
  BY <1>3, <1>6
<1>11. QED BY <1>6, <1>7, <1>8, <1>9, <1>10 DEF Trades

\* What map_erase finds: the node x with the key, the node y that goes, the map
\* m2 in which they have traded places, and the child c of y.
Erases(m, k, x, y, m2, c) ==
  /\ x = rb_lookup_node(m, k) /\ x # 0
  /\ y = (IF \A d \in Sides : m.child[x, d] # 0 THEN rb_maximum_node(m, m.child[x, "left"]) ELSE x)
  /\ m2 = [IF \A d \in Sides : m.child[x, d] # 0 THEN Swapped(m, x, y) ELSE m EXCEPT !.size = @ - 1]
  /\ c = (IF m2.child[y, "right"] = 0 THEN m2.child[y, "left"] ELSE m2.child[y, "right"])

\* The node that goes has at most one child.
LEMMA EraseFinds ==
  ASSUME NEW m, Tree(m), NEW k \in Int, NEW x, NEW y, NEW m2, NEW c, Erases(m, k, x, y, m2, c)
  PROVE  x \in m.used /\ y \in m.used /\ Trades(m, m2, x, y) /\ Tree(m2) /\ Goes(m2, y, c)
<1>1. PICK two : two = (\A d \in Sides : m.child[x, d] # 0)
  OBVIOUS
<1>2. /\ x = rb_lookup_node(m, k) /\ x # 0
      /\ y = (IF two THEN rb_maximum_node(m, m.child[x, "left"]) ELSE x)
      /\ m2 = [IF two THEN Swapped(m, x, y) ELSE m EXCEPT !.size = @ - 1]
      /\ c = (IF m2.child[y, "right"] = 0 THEN m2.child[y, "left"] ELSE m2.child[y, "right"])
  BY <1>1 DEF Erases
<1>3. m \in Maps /\ m.used \subseteq Ptr /\ "left" \in Sides /\ "right" \in Sides /\ two \in BOOLEAN
  BY <1>1, Addresses, MapFields DEF Tree, Sides
<1>4. x \in m.used
  <2>1. Finds(m, k, x)
    BY <1>2, LookupFinds
  <2>2. QED BY <1>2, <2>1 DEF Finds
<1>5. ASSUME two PROVE y \in m.used /\ m.child[y, "right"] = 0
  <2>1. PICK l : l = m.child[x, "left"]
    OBVIOUS
  <2>2. l # 0
    BY <1>1, <1>3, <1>5, <2>1
  <2>3. PICK r : r = m.child[x, Opp("left")]
    OBVIOUS
  <2>4. Kids(m, x, l, r)
    BY <1>3, <1>4, <2>1, <2>3, Children
  <2>5. l \in m.used
    BY <2>2, <2>4 DEF Kids
  <2>6. y = rb_maximum_node(m, l)
    BY <1>2, <1>5, <2>1
  <2>7. QED BY <2>5, <2>6, MaximumHasRoom
<1>6. ASSUME ~two PROVE y = x /\ (m.child[y, "right"] = 0 \/ m.child[y, "left"] = 0)
  BY <1>1, <1>2, <1>6 DEF Sides
<1>7. y \in m.used /\ (m.child[y, "right"] = 0 \/ m.child[y, "left"] = 0)
  BY <1>3, <1>4, <1>5, <1>6
<1>8. x \in Ptr /\ y \in Ptr /\ (~two => y = x)
  BY <1>3, <1>4, <1>6, <1>7
<1>9. Trades(m, m2, x, y)
  BY <1>2, <1>3, <1>8, TradeFields
<1>10. SameShape(m, m2) /\ m2.color = m.color /\ m2 \in Maps
  BY <1>9 DEF Trades
<1>11. m2.used = m.used /\ m2.parent = m.parent /\ m2.child = m.child
  BY <1>10 DEF SameShape
<1>12. Clean(m2)
  <2>1. ASSUME NEW z \in Ptr, z \notin m2.used
        PROVE  /\ m2.key[z] = 0 /\ m2.value[z] = 0 /\ m2.color[z] = RB_RED /\ m2.parent[z] = 0
               /\ \A f \in Sides : m2.child[z, f] = 0
    <3>1. /\ m.key[z] = 0 /\ m.value[z] = 0 /\ m.color[z] = RB_RED /\ m.parent[z] = 0
          /\ \A f \in Sides : m.child[z, f] = 0
      BY <1>11, <2>1 DEF Tree, Clean
    <3>2. z # x /\ z # y
      BY <1>4, <1>7, <1>11, <2>1
    <3>3. m2.key[z] = m.key[z] /\ m2.value[z] = m.value[z]
      BY <1>9, <2>1, <3>2 DEF Trades
    <3>4. QED BY <1>10, <1>11, <3>1, <3>3
  <2>2. QED BY <2>1 DEF Clean
<1>13. Tree(m2)
  BY <1>10, <1>12, ShapeKeepsTree
<1>14. Goes(m2, y, c)
  <2>1. y \in m2.used /\ (m2.child[y, "right"] = 0 \/ m2.child[y, "left"] = 0)
    BY <1>7, <1>11
  <2>2. Opp("left") = "right" /\ Opp("right") = "left"
    BY DEF Opp
  <2>3. CASE m2.child[y, "right"] = 0
    <3>1. c = m2.child[y, "left"]
      BY <1>2, <2>3
    <3>2. QED BY <1>3, <2>1, <2>2, <2>3, <3>1 DEF Goes
  <2>4. CASE m2.child[y, "right"] # 0
    <3>1. c = m2.child[y, "right"] /\ m2.child[y, "left"] = 0
      BY <1>2, <2>1, <2>4
    <3>2. QED BY <1>3, <2>1, <2>2, <3>1 DEF Goes
  <2>5. QED BY <2>3, <2>4
<1>15. QED BY <1>4, <1>7, <1>9, <1>13, <1>14

\* A trade leaves the number of the nodes with a key.
LEMMA TradeKeepsNumbers ==
  ASSUME NEW m, Tree(m), NEW x \in m.used, NEW y \in m.used, NEW m2, Trades(m, m2, x, y), NEW j
  PROVE  Cardinality(Named(m2, j)) = Cardinality(Named(m, j))
<1>1. m.used \subseteq Ptr /\ m2.used = m.used
  BY Addresses, MapFields DEF Tree, Trades, SameShape
<1>2. \A z \in Ptr : m2.key[z] = IF z = x THEN m.key[y] ELSE IF z = y THEN m.key[x] ELSE m.key[z]
  BY DEF Trades
<1>3. IsFiniteSet(Named(m, j)) /\ Cardinality(Named(m, j)) \in Nat
  BY NamedFinite
<1>4. CASE m.key[x] = m.key[y] \/ (m.key[x] # j /\ m.key[y] # j)
  <2>1. Named(m2, j) = Named(m, j)
    BY <1>1, <1>2, <1>4 DEF Named
  <2>2. QED BY <2>1
<1>5. ASSUME NEW a \in m.used, NEW b \in m.used, m.key[a] = j, m.key[b] # j,
             Named(m2, j) = (Named(m, j) \ {a}) \union {b}
      PROVE  Cardinality(Named(m2, j)) = Cardinality(Named(m, j))
  <2>1. a \in Named(m, j) /\ b \notin Named(m, j)
    BY <1>5 DEF Named
  <2>2. PICK S : S = Named(m, j) \ {a}
    OBVIOUS
  <2>3. IsFiniteSet(S) /\ Cardinality(S) = Cardinality(Named(m, j)) - 1
    BY <1>3, <2>1, <2>2, FS_RemoveElement
  <2>4. b \notin S
    BY <2>1, <2>2
  <2>5. Cardinality(S \union {b}) = Cardinality(S) + 1
    BY <2>3, <2>4, FS_AddElement
  <2>6. Named(m2, j) = S \union {b}
    BY <1>5, <2>2
  <2>7. QED BY <1>3, <2>3, <2>5, <2>6
<1>6. CASE m.key[x] = j /\ m.key[y] # j
  <2>1. x # y
    BY <1>6
  <2>2. Named(m2, j) = (Named(m, j) \ {x}) \union {y}
    BY <1>1, <1>2, <1>6, <2>1 DEF Named
  <2>3. QED BY <1>5, <1>6, <2>2
<1>7. CASE m.key[y] = j /\ m.key[x] # j
  <2>1. x # y
    BY <1>7
  <2>2. Named(m2, j) = (Named(m, j) \ {y}) \union {x}
    BY <1>1, <1>2, <1>7, <2>1 DEF Named
  <2>3. QED BY <1>5, <1>7, <2>2
<1>8. QED BY <1>4, <1>6, <1>7

\* The begin of map_erase keeps the links and the copies: keys move between nodes,
\* and the node that goes has at most one child.
LEMMA EraseLinks ==
  ASSUME LinkInv, NEW k \in Keys, map_erase(k)
  PROVE  LinkInv'
<1>1. Tree(t) /\ Control(t) /\ Owned(t) /\ pc = "idle" /\ copies' = copies
  BY DEF LinkInv, map_erase, Idle
<1>2. k \in Int
  BY RbConstants DEF Keys
<1>3. PICK x, y : /\ x = rb_lookup_node(t, k)
                  /\ y = (IF \A d \in Sides : t.child[x, d] # 0 THEN rb_maximum_node(t, t.child[x, "left"]) ELSE x)
  OBVIOUS
<1>4. PICK m : m = [IF \A d \in Sides : t.child[x, d] # 0 THEN Swapped(t, x, y) ELSE t EXCEPT !.size = @ - 1]
  OBVIOUS
<1>5. PICK c : c = (IF m.child[y, "right"] = 0 THEN m.child[y, "left"] ELSE m.child[y, "right"])
  OBVIOUS
<1>6. IF x = 0 THEN UNCHANGED <<t, pc, n, victim, child>>
      ELSE IF \A d \in Sides : m.child[y, d] # 0 THEN Panic /\ UNCHANGED <<victim, child, result>>
      ELSE /\ victim' = y /\ child' = c
           /\ IF Red(m, y) THEN t' = m /\ Goto("unlink", y)
              ELSE t' = Paint(m, y, rb_node_color(m, c)) /\ Goto("delete1", y)
  BY <1>3, <1>4, <1>5 DEF map_erase
<1>7. CASE x = 0
  <2>1. t' = t /\ pc' = pc /\ n' = n /\ victim' = victim /\ child' = child
    BY <1>6, <1>7
  <2>2. Control(t)'
    BY <1>1, <2>1 DEF Control
  <2>3. QED BY <1>1, <2>1, <2>2, OwnedKept DEF LinkInv
<1>8. CASE x # 0
  <2>1. Erases(t, k, x, y, m, c)
    BY <1>3, <1>4, <1>5, <1>8 DEF Erases
  <2>2. x \in t.used /\ y \in t.used /\ Trades(t, m, x, y) /\ Tree(m) /\ Goes(m, y, c)
    BY <1>1, <1>2, <2>1, EraseFinds
  <2>3. ~ \A d \in Sides : m.child[y, d] # 0
    BY <2>2, TwoSides DEF Goes
  <2>4. /\ victim' = y /\ child' = c /\ n' = y
        /\ \/ t' = m /\ pc' = "unlink"
           \/ t' = Paint(m, y, rb_node_color(m, c)) /\ pc' = "delete1"
    BY <1>6, <1>8, <2>3 DEF Goto
  <2>5. y \in Ptr /\ y \in m.used /\ c \in Ptr
    <3>1. y \in m.used /\ y \in Ptr
      BY <2>2, Addresses, MapFields DEF Goes, Tree
    <3>2. QED BY <2>2, <3>1, MapFields DEF Goes, Tree
  <2>6. rb_node_color(m, c) \in {RB_RED, RB_BLACK}
    BY <2>2, <2>5, MapFields DEF Tree, rb_node_color, RB_RED, RB_BLACK
  <2>7. Tree(t') /\ SameLinks(m, t')
    <3>1. CASE t' = m
      BY <2>2, <3>1 DEF SameLinks, Others, Tree
    <3>2. CASE t' = Paint(m, y, rb_node_color(m, c))
      <4>1. Painted(m, t', y, rb_node_color(m, c))
        BY <2>2, <2>5, <2>6, <3>2, PaintKeepsTree
      <4>2. QED BY <4>1 DEF Painted
    <3>3. QED BY <2>4, <3>1, <3>2
  <2>8. t'.used = m.used /\ t'.key = m.key /\ t'.parent = m.parent /\ t'.child = m.child
    BY <2>7 DEF SameLinks, Others
  <2>9. Goes(t', y, c)
    BY <2>2, <2>8 DEF Goes
  <2>10. Way(t', y, y, {y})
    BY <2>5, <2>7, <2>8, NoCircles DEF Way
  <2>11. Control(t)'
    <3>1. \E A \in SUBSET t'.used : Way(t', y, y, A)
      BY <2>5, <2>8, <2>10
    <3>2. pc' \in {"unlink", "delete1"} /\ n' \in Ptr /\ victim' \in Ptr /\ child' \in Ptr
      BY <2>4, <2>5
    <3>3. QED BY <2>4, <2>9, <3>1, <3>2 DEF Control, Inserting, Deleting
  <2>12. \A j \in Keys : Cardinality(Named(t', j)) = Cardinality(Named(t, j))
    <3>1. ASSUME NEW j \in Keys PROVE Cardinality(Named(t', j)) = Cardinality(Named(t, j))
      <4>1. Named(t', j) = Named(m, j)
        BY <2>8 DEF Named
      <4>2. QED BY <1>1, <2>2, <4>1, TradeKeepsNumbers
    <3>2. QED BY <3>1
  <2>13. ASSUME NEW z \in t'.used PROVE t'.key[z] \in Keys
    <3>1. z \in t.used /\ t.used \subseteq Ptr /\ \A w \in t.used : t.key[w] \in Keys
      BY <1>1, <2>2, <2>8, Addresses, MapFields DEF Trades, SameShape, Owned, Tree
    <3>2. m.key[z] = IF z = x THEN t.key[y] ELSE IF z = y THEN t.key[x] ELSE t.key[z]
      BY <2>2, <3>1 DEF Trades
    <3>3. QED BY <2>2, <2>8, <3>1, <3>2
  <2>14. Owned(t)'
    BY <1>1, <2>12, <2>13 DEF Owned
  <2>15. QED BY <2>7, <2>11, <2>14 DEF LinkInv
<1>9. QED BY <1>7, <1>8

\* The map of map_init.
LEMMA BlankIsTree == Tree(Blank)
<1>1. 0 \in Ptr /\ 0 \in Int /\ RB_RED \in {RB_RED, RB_BLACK}
  BY Addresses
<1>2. Blank \in Maps
  BY <1>1 DEF Blank, Maps
<1>3. /\ Blank.used = {} /\ Blank.root = 0
      /\ \A z \in Ptr : /\ Blank.key[z] = 0 /\ Blank.value[z] = 0 /\ Blank.color[z] = RB_RED
                        /\ Blank.parent[z] = 0 /\ \A f \in Sides : Blank.child[z, f] = 0
  BY DEF Blank
<1>4. Clean(Blank) /\ Linked(Blank) /\ Rooted(Blank)
  BY <1>3 DEF Clean, Linked, Rooted
<1>5. QED BY <1>2, <1>4 DEF Tree

\* A map without nodes owns no key.
LEMMA NothingOwned ==
  ASSUME NEW m, m.used = {}, NEW c, c = [k \in Keys |-> 0]
  PROVE  \A k \in Keys : c[k] = Cardinality(Named(m, k))
<1>1. \A k \in Keys : Named(m, k) = {}
  BY DEF Named
<1>2. Cardinality({}) = 0
  BY FS_EmptySet
<1>3. QED BY <1>1, <1>2

\* A new map is an empty tree.
LEMMA InitLinks ==
  ASSUME Init
  PROVE  LinkInv
<1>1. /\ t = Blank /\ pc = "idle" /\ n = 0 /\ victim = 0 /\ child = 0
      /\ copies = [k \in Keys |-> 0]
  BY DEF Init
<1>2. t.used = {}
  BY <1>1 DEF Blank
<1>3. Owned(t)
  BY <1>1, <1>2, NothingOwned DEF Owned
<1>4. Control(t)
  BY <1>1, Addresses DEF Control, Inserting, Deleting
<1>5. QED BY <1>1, <1>3, <1>4, BlankIsTree DEF LinkInv

\* map_destroy frees all nodes and all copies.
LEMMA DestroyLinks ==
  ASSUME LinkInv, map_destroy
  PROVE  LinkInv'
<1>1. Tree(t) /\ Control(t) /\ Owned(t) /\ pc = "idle"
  BY DEF LinkInv, map_destroy, Idle
<1>2. PICK order : order = Visit(t)
  OBVIOUS
<1>3. PICK gone : gone = Members(order)
  OBVIOUS
<1>4. gone = t.used
  BY <1>1, <1>2, <1>3, VisitReaches
<1>5. /\ t' = [Blank EXCEPT !.used = t.used \ gone]
      /\ copies' = [k \in Keys |-> copies[k] - Cardinality({x \in gone : t.key[x] = k})]
      /\ pc' = "idle" /\ n' = 0 /\ victim' = victim /\ child' = child
  BY <1>2, <1>3 DEF map_destroy, Return, Goto, Members
<1>6. t' = Blank /\ t'.used = {}
  <2>1. t.used \ gone = {}
    BY <1>4
  <2>2. t' = [Blank EXCEPT !.used = {}]
    BY <1>5, <2>1
  <2>3. QED BY <2>2 DEF Blank
<1>7. copies' = [k \in Keys |-> 0]
  <2>1. ASSUME NEW k \in Keys PROVE copies[k] - Cardinality({x \in gone : t.key[x] = k}) = 0
    <3>1. {x \in gone : t.key[x] = k} = Named(t, k)
      BY <1>4 DEF Named
    <3>2. copies[k] = Cardinality(Named(t, k)) /\ copies[k] \in Int
      BY <1>1 DEF Owned
    <3>3. QED BY <3>1, <3>2
  <2>2. QED BY <1>5, <2>1
<1>8. Owned(t)'
  BY <1>6, <1>7, NothingOwned DEF Owned
<1>9. Control(t)'
  BY <1>1, <1>5, Addresses DEF Control, Inserting, Deleting
<1>10. QED BY <1>6, <1>8, <1>9, BlankIsTree DEF LinkInv

\* The calls that only answer leave the map as it is.
LEMMA AnswerLinks ==
  ASSUME LinkInv, NEW r, Answers(r), pc' \in {"idle", "panic"}, n' = 0, pc = "idle"
  PROVE  LinkInv'
<1>1. Tree(t) /\ Control(t) /\ Owned(t) /\ t' = t /\ victim' = victim /\ child' = child /\ copies' = copies
  BY DEF LinkInv, Answers
<1>2. Control(t)'
  BY <1>1, Addresses DEF Control, Inserting, Deleting
<1>3. QED BY <1>1, <1>2, OwnedKept DEF LinkInv

\* Every call that a program makes between calls keeps the links.
LEMMA CallsLinks ==
  ASSUME LinkInv, Calls
  PROVE  LinkInv'
<1>1. ASSUME NEW kv \in Settings, map_set(kv[1], kv[2]) PROVE LinkInv'
  <2>1. /\ pc = "idle" /\ t.used # Nodes /\ UNCHANGED <<victim, child>>
        /\ Overwrite(kv[1], kv[2]) \/ Insert(kv[1], kv[2])
    BY <1>1 DEF map_set, Idle
  <2>2. PICK k, v : k = kv[1] /\ v = kv[2]
    OBVIOUS
  <2>3. CASE Overwrite(kv[1], kv[2])
    BY <2>1, <2>2, <2>3, OverwriteLinks
  <2>4. CASE Insert(kv[1], kv[2])
    BY <2>1, <2>2, <2>4, InsertLinks
  <2>5. QED BY <2>1, <2>3, <2>4
<1>2. ASSUME NEW k \in Keys, map_erase(k) PROVE LinkInv'
  BY <1>2, EraseLinks
<1>3. ASSUME NEW r, Answers(r), pc' \in {"idle", "panic"}, n' = 0, pc = "idle" PROVE LinkInv'
  BY <1>3, AnswerLinks
<1>4. ASSUME NEW k \in Keys, map_at(k) PROVE LinkInv'
  <2>1. PICK x : x = rb_lookup_node(t, k)
    OBVIOUS
  <2>2. /\ pc = "idle"
        /\ IF x = 0 THEN Answers(Result("panic", <<>>)) /\ Goto("panic", 0)
           ELSE Answers(Result("at", << <<k, t.value[x]>> >>)) /\ Return
    BY <1>4, <2>1 DEF map_at, Idle
  <2>3. pc' \in {"idle", "panic"} /\ n' = 0
    BY <2>2 DEF Goto, Return
  <2>4. \E r : Answers(r)
    BY <2>2
  <2>5. QED BY <1>3, <2>2, <2>3, <2>4
<1>5. ASSUME NEW k \in Keys, map_has(k) PROVE LinkInv'
  <2>1. pc = "idle" /\ pc' = "idle" /\ n' = 0 /\ \E r : Answers(r)
    BY <1>5 DEF map_has, Idle, Return, Goto
  <2>2. QED BY <1>3, <2>1
<1>6. ASSUME map_size PROVE LinkInv'
  <2>1. pc = "idle" /\ pc' = "idle" /\ n' = 0 /\ \E r : Answers(r)
    BY <1>6 DEF map_size, Idle, Return, Goto
  <2>2. QED BY <1>3, <2>1
<1>7. ASSUME map_foreach PROVE LinkInv'
  <2>1. pc = "idle" /\ pc' = "idle" /\ n' = 0
    BY <1>7 DEF map_foreach, Idle, Return, Goto
  <2>2. \E r : Answers(r)
    BY <1>7 DEF map_foreach
  <2>3. QED BY <1>3, <2>1, <2>2
<1>8. ASSUME map_destroy PROVE LinkInv'
  BY <1>8, DestroyLinks
<1>9. QED BY <1>1, <1>2, <1>4, <1>5, <1>6, <1>7, <1>8 DEF Calls

\* Every routine of the rebalancing keeps the links.
LEMMA StepsLinks ==
  ASSUME LinkInv, Steps
  PROVE  LinkInv'
BY Insert1Links, Insert3Links, Insert4Links, Insert5Links, Delete1Links, Delete2Links,
   Delete3Links, Delete5Links, Delete6Links, UnlinkLinks DEF Steps

\* So does every step.
LEMMA NextLinks ==
  ASSUME LinkInv, [Next]_vars
  PROVE  LinkInv'
<1>1. CASE UNCHANGED vars
  <2>1. /\ t' = t /\ pc' = pc /\ n' = n /\ victim' = victim /\ child' = child /\ copies' = copies
    BY <1>1 DEF vars
  <2>2. Control(t)'
    BY <2>1 DEF LinkInv, Control
  <2>3. QED BY <2>1, <2>2, OwnedKept DEF LinkInv
<1>2. QED BY <1>1, CallsLinks, StepsLinks DEF Next

\* At every step the nodes in use are a tree, the routine that runs stands
\* where its code expects it, and the copies of the keys are counted.
THEOREM LinksHold == Spec => []LinkInv
<1>1. Init => LinkInv
  BY InitLinks
<1>2. LinkInv /\ [Next]_vars => LinkInv'
  BY NextLinks
<1>3. QED BY <1>1, <1>2, PTL DEF Spec

\* Between calls there is one copy of every key of the map and of no other.
THEOREM KeysAreOwned == Spec => []KeysOwned
<1>1. ASSUME LinkInv PROVE KeysOwned
  <2>1. ASSUME NEW k \in Keys PROVE copies[k] = Cardinality({x \in t.used : t.key[x] = k})
    <3>1. copies[k] = Cardinality(Named(t, k))
      BY <1>1 DEF LinkInv, Owned
    <3>2. QED BY <3>1 DEF Named
  <2>2. QED BY <2>1 DEF KeysOwned
<1>2. QED BY <1>1, LinksHold, PTL

----------------------------------------------------------------------------
(* The order of the keys.  rank gives the place of a node in the order, and *)
(* bound[z, d] is the nearest node above z on side d of it, 0 if there is   *)
(* none: a node lies between its two bounds.                                *)

\* a is on side d of z.
OnSide(rank, d, a, z) == IF d = "left" THEN rank[a] < rank[z] ELSE rank[z] < rank[a]

Bounded(m, rank, bound) ==
  \A z \in m.used, d \in Sides :
    bound[z, d] # 0 => bound[z, d] \in m.used /\ OnSide(rank, d, bound[z, d], z)
Inherited(m, bound) ==
  /\ \A z \in m.used, f \in Sides :
       m.child[z, f] # 0 => /\ bound[m.child[z, f], f] = bound[z, f]
                            /\ bound[m.child[z, f], Opp(f)] = z
  /\ m.root # 0 => \A f \in Sides : bound[m.root, f] = 0

Sorted(m, rank, bound) ==
  /\ rank \in [Ptr -> Int] /\ bound \in [Ptr \X Sides -> Ptr]
  /\ Bounded(m, rank, bound) /\ Inherited(m, bound)

\* The order is strict and transitive, and the sides are opposites of each other.
Order(rank) ==
  /\ rank \in [Ptr -> Int]
  /\ \A d \in Sides, x, y \in Ptr : OnSide(rank, Opp(d), x, y) <=> OnSide(rank, d, y, x)
  /\ \A d \in Sides, x \in Ptr : ~OnSide(rank, d, x, x)
  /\ \A d \in Sides, x, y, z \in Ptr :
       OnSide(rank, d, x, y) /\ OnSide(rank, d, y, z) => OnSide(rank, d, x, z)

\* So it is with numbers for ranks, as strcmp gives them.
LEMMA RanksOrder ==
  ASSUME NEW rank \in [Ptr -> Int]
  PROVE  Order(rank)
<1>1. \A z \in Ptr : rank[z] \in Int
  OBVIOUS
<1>2. ASSUME NEW d \in Sides, NEW x \in Ptr, NEW y \in Ptr
      PROVE  OnSide(rank, Opp(d), x, y) <=> OnSide(rank, d, y, x)
  BY DEF OnSide, Opp, Sides
<1>3. ASSUME NEW d \in Sides, NEW x \in Ptr PROVE ~OnSide(rank, d, x, x)
  BY <1>1 DEF OnSide
<1>4. ASSUME NEW d \in Sides, NEW x \in Ptr, NEW y \in Ptr, NEW z \in Ptr,
             OnSide(rank, d, x, y), OnSide(rank, d, y, z)
      PROVE  OnSide(rank, d, x, z)
  BY <1>1, <1>4 DEF OnSide
<1>5. QED BY <1>2, <1>3, <1>4 DEF Order

\* What is on a side of a node is on that side of all on the other.
LEMMA SidePast ==
  ASSUME NEW rank \in [Ptr -> Int], NEW d \in Sides, NEW x \in Ptr, NEW y \in Ptr, NEW z \in Ptr,
         OnSide(rank, d, x, y), OnSide(rank, d, y, z)
  PROVE  OnSide(rank, d, x, z)
<1>1. rank[x] \in Int /\ rank[y] \in Int /\ rank[z] \in Int
  OBVIOUS
<1>2. QED BY <1>1 DEF OnSide

\* u, on side f of z, has the bound of z on that side and z on the other.
Within(m, rank, bound, z, f, u) ==
  /\ u \in m.used /\ u \in Ptr /\ bound[u, f] = bound[z, f] /\ bound[u, Opp(f)] = z
  /\ OnSide(rank, f, u, z) /\ OnSide(rank, Opp(f), z, u)

\* A child has.
LEMMA ChildBounds ==
  ASSUME NEW m, Tree(m), NEW rank, NEW bound, Sorted(m, rank, bound),
         NEW z \in m.used, NEW f \in Sides, NEW u, u = m.child[z, f], u # 0
  PROVE  Within(m, rank, bound, z, f, u)
<1>1. u \in m.used
  BY DEF Tree, Linked
<1>2. u \in Ptr /\ z \in Ptr /\ z # 0 /\ rank \in [Ptr -> Int]
  BY <1>1, UsedNode DEF Sorted
<1>3. bound[u, f] = bound[z, f] /\ bound[u, Opp(f)] = z
  BY DEF Sorted, Inherited
<1>4. OnSide(rank, Opp(f), z, u)
  BY <1>1, <1>2, <1>3, TwoSides DEF Sorted, Bounded
<1>5. OnSide(rank, f, u, z)
  <2>1. Order(rank)
    BY <1>2, RanksOrder
  <2>2. QED BY <1>2, <1>4, <2>1 DEF Order
<1>6. QED BY <1>1, <1>2, <1>3, <1>4, <1>5 DEF Within

\* A rotation changes one bound of each of the two nodes: the one that comes up has
\* the bound of the other, which is bounded by it now.
TurnedBound(bound, x, d, r) ==
  [zf \in Ptr \X Sides |->
     IF zf = <<r, d>> THEN bound[x, d] ELSE IF zf = <<x, Opp(d)>> THEN r ELSE bound[zf]]

\* rb_rotate_left and rb_rotate_right keep the order.
LEMMA TurnKeepsOrder ==
  ASSUME NEW m, Tree(m), NEW m1, NEW m2, NEW x, NEW d, NEW p, NEW e, NEW r, NEW y,
         Around(m, x, d, p, e, r, y), Turned(m, m1, m2, x, d, p, e, r, y),
         NEW rank, NEW bound, Sorted(m, rank, bound),
         NEW bound2, bound2 = TurnedBound(bound, x, d, r)
  PROVE  Sorted(m2, rank, bound2)
<1>1. /\ x \in m.used /\ x \in Ptr /\ d \in Sides /\ Opp(d) \in Sides /\ p \in Ptr /\ p = m.parent[x]
      /\ e \in Sides /\ e = Side(m, x)
      /\ r \in m.used /\ r \in Ptr /\ r = m.child[x, Opp(d)]
      /\ y \in Ptr /\ y = m.child[r, d]
      /\ x # r /\ x # p /\ p # r /\ y # x /\ y # r /\ x # 0 /\ r # 0 /\ (y # 0 => y # p)
  BY DEF Around
<1>2. d # Opp(d) /\ Opp(Opp(d)) = d /\ \A f \in Sides : f = d \/ f = Opp(d)
  BY <1>1, TwoSides
<1>3. m2.used = m.used /\ m2.root = IF p = 0 THEN r ELSE m.root
  BY DEF Turned, Others
<1>4. \A z \in Ptr, f \in Sides :
        m2.child[z, f] = IF z = r /\ f = d THEN x
                         ELSE IF z = x /\ f = Opp(d) THEN y
                         ELSE IF z = p /\ p # 0 /\ f = e THEN r ELSE m.child[z, f]
  BY DEF Turned
<1>5. rank \in [Ptr -> Int] /\ bound \in [Ptr \X Sides -> Ptr]
  BY DEF Sorted
<1>6. m.used \subseteq Ptr /\ 0 \notin m.used
  BY Addresses, MapFields DEF Tree
<1>7. /\ bound2 \in [Ptr \X Sides -> Ptr] /\ bound2[r, d] = bound[x, d] /\ bound2[x, Opp(d)] = r
      /\ \A z \in Ptr, f \in Sides :
           ~(z = r /\ f = d) /\ ~(z = x /\ f = Opp(d)) => bound2[z, f] = bound[z, f]
  <2>1. /\ bound[x, d] \in Ptr /\ <<r, d>> \in Ptr \X Sides /\ <<x, Opp(d)>> \in Ptr \X Sides
        /\ <<x, Opp(d)>> # <<r, d>>
    BY <1>1, <1>5
  <2>2. ASSUME NEW z \in Ptr, NEW f \in Sides, ~(z = r /\ f = d), ~(z = x /\ f = Opp(d))
        PROVE  bound2[z, f] = bound[z, f]
    <3>1. <<z, f>> \in Ptr \X Sides /\ <<z, f>> # <<r, d>> /\ <<z, f>> # <<x, Opp(d)>>
      BY <2>2
    <3>2. QED BY <3>1 DEF TurnedBound
  <2>3. bound2 \in [Ptr \X Sides -> Ptr]
    BY <1>1, <1>5, <2>1 DEF TurnedBound
  <2>4. bound2[r, d] = bound[x, d] /\ bound2[x, Opp(d)] = r
    BY <2>1 DEF TurnedBound
  <2>5. QED BY <2>2, <2>3, <2>4
<1>8. bound[r, Opp(d)] = bound[x, Opp(d)] /\ bound[r, d] = x /\ OnSide(rank, Opp(d), r, x)
  <2>1. Within(m, rank, bound, x, Opp(d), r)
    BY <1>1, ChildBounds
  <2>2. QED BY <1>2, <2>1 DEF Within
<1>9. OnSide(rank, d, x, r) /\ Order(rank)
  <2>1. Order(rank)
    BY <1>5, RanksOrder
  <2>2. QED BY <1>1, <1>8, <2>1 DEF Order
<1>10. y # 0 => bound[y, d] = x /\ bound[y, Opp(d)] = r
  <2>1. y # 0 => Within(m, rank, bound, r, d, y)
    BY <1>1, ChildBounds
  <2>2. QED BY <1>8, <2>1 DEF Within
<1>15. ASSUME NEW g \in Sides PROVE bound2[r, g] = bound[x, g]
  <2>1. CASE g = d
    BY <1>7, <2>1
  <2>2. CASE g = Opp(d)
    <3>1. bound2[r, Opp(d)] = bound[r, Opp(d)]
      BY <1>1, <1>2, <1>7
    <3>2. QED BY <1>8, <2>2, <3>1
  <2>3. QED BY <1>2, <2>1, <2>2
<1>11. Bounded(m2, rank, bound2)
  <2>1. SUFFICES ASSUME NEW z \in m.used, NEW f \in Sides, bound2[z, f] # 0
                 PROVE  bound2[z, f] \in m.used /\ OnSide(rank, f, bound2[z, f], z)
    BY <1>3 DEF Bounded
  <2>2. \A w \in m.used, g \in Sides :
          bound[w, g] # 0 => bound[w, g] \in m.used /\ OnSide(rank, g, bound[w, g], w)
    BY DEF Sorted, Bounded
  <2>3. CASE z = r /\ f = d
    <3>1. bound[x, d] \in m.used /\ OnSide(rank, d, bound[x, d], x)
      BY <1>1, <1>7, <2>1, <2>2, <2>3
    <3>2. OnSide(rank, d, bound[x, d], r)
      <4>1. PICK w : w = bound[x, d]
        OBVIOUS
      <4>2. w \in Ptr /\ OnSide(rank, d, w, x)
        BY <1>6, <3>1, <4>1
      <4>3. OnSide(rank, d, w, r)
        BY <1>1, <1>5, <1>9, <4>2, SidePast
      <4>4. QED BY <4>1, <4>3
    <3>3. QED BY <1>7, <2>3, <3>1, <3>2
  <2>4. CASE z = x /\ f = Opp(d)
    BY <1>1, <1>7, <1>8, <2>4
  <2>5. CASE ~(z = r /\ f = d) /\ ~(z = x /\ f = Opp(d))
    <3>1. bound2[z, f] = bound[z, f]
      BY <1>6, <1>7, <2>5
    <3>2. QED BY <2>1, <2>2, <3>1
  <2>6. QED BY <2>3, <2>4, <2>5
<1>12. ASSUME NEW z \in m.used, NEW f \in Sides, NEW u, u = m2.child[z, f], u # 0
       PROVE  bound2[u, f] = bound2[z, f] /\ bound2[u, Opp(f)] = z
  <2>1. z \in Ptr
    BY <1>6
  <2>2. CASE z = r /\ f = d
    <3>1. u = x
      BY <1>1, <1>4, <1>12, <2>2
    <3>2. QED BY <1>1, <1>2, <1>7, <2>2, <3>1
  <2>3. CASE z = x /\ f = Opp(d)
    <3>1. u = y
      BY <1>1, <1>4, <1>12, <2>3
    <3>2. bound[u, d] = x /\ bound[u, Opp(d)] = r
      BY <1>10, <1>12, <3>1
    <3>3. bound2[u, d] = bound[u, d] /\ bound2[u, Opp(d)] = bound[u, Opp(d)]
      BY <1>1, <1>7, <3>1
    <3>4. QED BY <1>2, <1>7, <2>3, <3>2, <3>3
  <2>4. CASE z = p /\ p # 0 /\ f = e
    <3>1. u = r /\ Hangs(m, x, p, e)
      BY <1>1, <1>4, <1>12, <2>4, ParentOf
    <3>2. bound[x, e] = bound[p, e] /\ bound[x, Opp(e)] = p
      <4>1. Within(m, rank, bound, p, e, x)
        BY <1>1, <2>4, <3>1, ChildBounds DEF Hangs
      <4>2. QED BY <4>1 DEF Within
    <3>3. bound2[p, e] = bound[p, e] /\ Opp(e) \in Sides /\ Opp(e) # e
      BY <1>1, <1>7, <2>4, TwoSides
    <3>4. \A g \in Sides : bound2[r, g] = bound[x, g]
      BY <1>15
    <3>5. QED BY <1>1, <2>4, <3>1, <3>2, <3>3, <3>4
  <2>5. CASE ~(z = r /\ f = d) /\ ~(z = x /\ f = Opp(d)) /\ ~(z = p /\ p # 0 /\ f = e)
    <3>1. u = m.child[z, f]
      BY <1>4, <1>12, <2>1, <2>5
    <3>2. u \in m.used /\ u \in Ptr /\ bound[u, f] = bound[z, f] /\ bound[u, Opp(f)] = z
      <4>1. Within(m, rank, bound, z, f, u)
        BY <1>12, <3>1, ChildBounds
      <4>2. QED BY <4>1 DEF Within
    <3>3. bound2[z, f] = bound[z, f]
      BY <1>7, <2>1, <2>5
    <3>4. /\ m.parent[u] = z /\ m.parent[r] = x /\ m.child[z, f] # m.child[z, Opp(f)]
          /\ p # 0 => p \in m.used /\ m.child[p, e] = x
      <4>1. PICK w : w = m.child[z, Opp(f)]
        OBVIOUS
      <4>5. Kids(m, z, u, w)
        BY <3>1, <4>1, Children
      <4>2. m.parent[u] = z /\ m.child[z, f] # m.child[z, Opp(f)]
        BY <1>12, <3>1, <4>1, <4>5 DEF Kids
      <4>3. p # 0 => Hangs(m, x, p, e)
        BY <1>1, ParentOf
      <4>4. QED BY <4>2, <4>3 DEF Hangs, Around
    <3>5. u # r
      BY <1>1, <1>2, <2>5, <3>1, <3>4
    <3>6. u # x
      <4>1. SUFFICES ASSUME u = x PROVE FALSE
        OBVIOUS
      <4>2. z = p /\ p # 0 /\ f # e
        BY <1>1, <1>6, <2>5, <3>4, <4>1
      <4>3. e = Opp(f)
        BY <1>1, <4>2, TwoSides
      <4>4. QED BY <3>1, <3>4, <4>1, <4>2, <4>3
    <3>7. QED BY <1>7, <3>2, <3>3, <3>5, <3>6, TwoSides
  <2>6. QED BY <2>2, <2>3, <2>4, <2>5
<1>13. ASSUME m2.root # 0, NEW f \in Sides PROVE bound2[m2.root, f] = 0
  <2>1. Ties(m) /\ (m.root # 0 => \A g \in Sides : bound[m.root, g] = 0)
    BY TreeLinks DEF Sorted, Inherited
  <2>2. CASE p = 0
    <3>1. x = m.root /\ m2.root = r
      BY <1>1, <1>3, <2>1, <2>2 DEF Ties
    <3>2. bound2[r, f] = bound[x, f]
      BY <1>15
    <3>3. QED BY <1>1, <2>1, <3>1, <3>2
  <2>3. CASE p # 0
    <3>1. m2.root = m.root /\ m.root # 0 /\ m.root \in Ptr
      BY <1>3, <1>13, <2>3, MapFields DEF Tree
    <3>2. m.parent[m.root] = 0 /\ m.parent[r] = x
      BY <2>1, <3>1 DEF Ties, Around
    <3>3. m.root # x /\ m.root # r
      BY <1>1, <2>3, <3>2
    <3>4. QED BY <1>7, <2>1, <3>1, <3>3
  <2>4. QED BY <2>2, <2>3
<1>14. Inherited(m2, bound2)
  <2>1. \A z \in m2.used, f \in Sides :
          m2.child[z, f] # 0 => /\ bound2[m2.child[z, f], f] = bound2[z, f]
                                /\ bound2[m2.child[z, f], Opp(f)] = z
    <3>1. ASSUME NEW z \in m.used, NEW f \in Sides, m2.child[z, f] # 0
          PROVE  /\ bound2[m2.child[z, f], f] = bound2[z, f]
                 /\ bound2[m2.child[z, f], Opp(f)] = z
      <4>1. PICK u : u = m2.child[z, f]
        OBVIOUS
      <4>2. QED BY <1>12, <3>1, <4>1
    <3>2. QED BY <1>3, <3>1
  <2>2. QED BY <1>13, <2>1 DEF Inherited
<1>16. QED BY <1>5, <1>7, <1>11, <1>14 DEF Sorted

\* The order depends on the links only.
LEMMA ShapeKeepsOrder ==
  ASSUME NEW m, NEW m2, m2.used = m.used, m2.root = m.root, m2.child = m.child,
         NEW rank, NEW bound, Sorted(m, rank, bound)
  PROVE  Sorted(m2, rank, bound)
<1>1. Bounded(m2, rank, bound)
  BY DEF Sorted, Bounded
<1>2. ASSUME NEW z \in m.used, NEW f \in Sides, m.child[z, f] # 0
      PROVE  bound[m.child[z, f], f] = bound[z, f] /\ bound[m.child[z, f], Opp(f)] = z
  BY <1>2 DEF Sorted, Inherited
<1>3. m.root # 0 => \A f \in Sides : bound[m.root, f] = 0
  BY DEF Sorted, Inherited
<1>4. Inherited(m2, bound)
  BY <1>2, <1>3 DEF Inherited
<1>5. QED BY <1>1, <1>4 DEF Sorted

\* k belongs between the bounds of z.
Between(m, bound, z, k) ==
  /\ bound[z, "left"] # 0 => m.key[bound[z, "left"]] < k
  /\ bound[z, "right"] # 0 => k < m.key[bound[z, "right"]]

\* The keys are in order: between calls the keys are the ranks.
KeysSorted(m, bound) == Sorted(m, m.key, bound)

\* A key that belongs below a node belongs below all nodes above, on the side on
\* which these look for it.
Upwards(m, bound, q, g, k) ==
  q \in m.used /\ Between(m, bound, q, k) /\ m.key[q] # k /\ g = Toward(m, q, k)

\* Where a key belongs below a node, it belongs below its parent on that side.
LEMMA BetweenAbove ==
  ASSUME NEW m, Tree(m), NEW bound, KeysSorted(m, bound), NEW k \in Int,
         NEW z \in m.used, Between(m, bound, z, k), NEW q, q = m.parent[z], q # 0, NEW g, g = Side(m, z)
  PROVE  Upwards(m, bound, q, g, k)
<1>1. Hangs(m, z, q, g)
  BY ParentOf
<1>2. q \in m.used /\ q \in Ptr /\ g \in Sides /\ m.child[q, g] = z /\ z # 0
  BY <1>1, UsedNode DEF Hangs
<1>3. Within(m, m.key, bound, q, g, z)
  BY <1>2, ChildBounds DEF KeysSorted
<1>4. bound[z, g] = bound[q, g] /\ bound[z, Opp(g)] = q
  BY <1>3 DEF Within
<1>5. PICK o : o = bound[q, Opp(g)]
  OBVIOUS
<1>6. o # 0 => o \in Ptr /\ OnSide(m.key, Opp(g), o, q)
  <2>1. Bounded(m, m.key, bound) /\ m.used \subseteq Ptr
    BY Addresses, MapFields DEF KeysSorted, Sorted, Tree
  <2>2. QED BY <1>2, <1>5, <2>1, TwoSides DEF Bounded
<1>7. m.key[q] \in Int /\ (o # 0 => m.key[o] \in Int)
  BY <1>2, <1>6, MapFields DEF Tree
<1>11. PICK l : l = bound[q, g]
  OBVIOUS
<1>12. "left" \in Sides /\ "right" \in Sides /\ "left" # "right"
  BY DEF Sides
<1>8. CASE g = "left"
  <2>1. Opp(g) = "right"
    BY <1>8 DEF Opp
  <2>2. bound[z, "right"] = q /\ bound[z, "left"] = l /\ bound[q, "left"] = l /\ bound[q, "right"] = o
    BY <1>4, <1>5, <1>8, <1>11, <2>1
  <2>3. k < m.key[q] /\ (l # 0 => m.key[l] < k)
    BY <1>2, <2>2 DEF Between
  <2>4. o # 0 => m.key[q] < m.key[o]
    BY <1>6, <1>12, <2>1 DEF OnSide
  <2>5. o # 0 => k < m.key[o]
    BY <1>7, <2>3, <2>4
  <2>6. Between(m, bound, q, k)
    BY <2>2, <2>3, <2>5 DEF Between
  <2>7. m.key[q] # k /\ Toward(m, q, k) = "left"
    BY <1>7, <2>3 DEF Toward
  <2>8. QED BY <1>2, <1>8, <2>6, <2>7 DEF Upwards
<1>9. CASE g = "right"
  <2>1. Opp(g) = "left"
    BY <1>9 DEF Opp
  <2>2. bound[z, "left"] = q /\ bound[z, "right"] = l /\ bound[q, "right"] = l /\ bound[q, "left"] = o
    BY <1>4, <1>5, <1>9, <1>11, <2>1
  <2>3. m.key[q] < k /\ (l # 0 => k < m.key[l])
    BY <1>2, <2>2 DEF Between
  <2>4. o # 0 => m.key[o] < m.key[q]
    BY <1>6, <1>12, <2>1 DEF OnSide
  <2>5. o # 0 => m.key[o] < k
    BY <1>7, <2>3, <2>4
  <2>6. Between(m, bound, q, k)
    BY <2>2, <2>3, <2>5 DEF Between
  <2>7. m.key[q] # k /\ Toward(m, q, k) = "right"
    BY <1>7, <2>3 DEF Toward
  <2>8. QED BY <1>2, <1>9, <2>6, <2>7 DEF Upwards
<1>10. QED BY <1>2, <1>8, <1>9 DEF Sides

\* Of two keys that differ one is less (strcmp).
LEMMA OtherLess ==
  ASSUME NEW a \in Int, NEW b \in Int, a # b, ~(a < b)
  PROVE  b < a
OBVIOUS

\* It belongs below the child on that side.
LEMMA BetweenBelow ==
  ASSUME NEW m, Tree(m), NEW bound, KeysSorted(m, bound), NEW k \in Int,
         NEW q \in m.used, Between(m, bound, q, k), m.key[q] # k,
         NEW g, g = Toward(m, q, k), NEW u, u = m.child[q, g], u # 0
  PROVE  u \in m.used /\ Between(m, bound, u, k)
<1>2. q \in Ptr /\ m.key[q] \in Int /\ g \in Sides
  BY Addresses, MapFields DEF Tree, Toward, Sides
<1>3. Within(m, m.key, bound, q, g, u)
  BY <1>2, ChildBounds DEF KeysSorted
<1>4. u \in m.used /\ bound[u, g] = bound[q, g] /\ bound[u, Opp(g)] = q
  BY <1>3 DEF Within
<1>5. CASE g = "left"
  <2>1. Opp(g) = "right" /\ k < m.key[q]
    BY <1>5 DEF Opp, Toward
  <2>2. QED BY <1>4, <1>5, <2>1 DEF Between
<1>6. CASE g = "right"
  <2>1. Opp(g) = "left" /\ ~(k < m.key[q])
    BY <1>6 DEF Opp, Toward
  <2>3. m.key[q] < k
    BY <1>2, <2>1, OtherLess
  <2>2. QED BY <1>4, <1>6, <2>1, <2>3 DEF Between
<1>7. QED BY <1>2, <1>5, <1>6 DEF Sides

\* The key of a node belongs where the node is, and not below it.
LEMMA OwnPlace ==
  ASSUME NEW m, Tree(m), NEW bound, KeysSorted(m, bound), NEW w \in m.used
  PROVE  /\ Between(m, bound, w, m.key[w])
         /\ \A f \in Sides : m.child[w, f] # 0 => ~Between(m, bound, m.child[w, f], m.key[w])
<1>1. w \in Ptr /\ m.key[w] \in Int /\ w # 0 /\ m.used \subseteq Ptr
  BY Addresses, MapFields DEF Tree
<1>2. Between(m, bound, w, m.key[w])
  BY DEF KeysSorted, Sorted, Bounded, Between, OnSide, Sides
<1>3. ASSUME NEW f \in Sides, m.child[w, f] # 0
      PROVE  ~Between(m, bound, m.child[w, f], m.key[w])
  <2>1. PICK u : u = m.child[w, f]
    OBVIOUS
  <2>2. Within(m, m.key, bound, w, f, u)
    BY <1>3, <2>1, ChildBounds DEF KeysSorted
  <2>3. bound[u, Opp(f)] = w
    BY <2>2 DEF Within
  <2>4. ~(m.key[w] < m.key[w])
    BY <1>1
  <2>5. Opp(f) = "left" \/ Opp(f) = "right"
    BY DEF Opp
  <2>6. ~Between(m, bound, u, m.key[w])
    BY <1>1, <2>3, <2>4, <2>5 DEF Between
  <2>7. QED BY <2>1, <2>6
<1>4. QED BY <1>2, <1>3

\* A holds w and the nodes above it, each of which but w has a child there.
Above(m, w, A) ==
  /\ A \subseteq m.used /\ w \in A /\ m.root \in A
  /\ \A a \in A : m.parent[a] # 0 => m.parent[a] \in A
  /\ \A a \in A : a # w => \E f \in Sides : m.child[a, f] \in A

\* The nodes on the way up stay in a set that has the parents of its nodes.
LEMMA WayUp ==
  ASSUME NEW m, Tree(m), NEW T \in SUBSET m.used, NEW w \in T,
         \A a \in T : m.parent[a] # 0 => m.parent[a] \in T
  PROVE  \E A \in SUBSET T : Above(m, w, A)
<1>1. /\ m \in Maps /\ m.parent[0] = 0 /\ MaxNodes \in Nat /\ m.used \subseteq Ptr /\ 0 \notin m.used
      /\ w \in Ptr /\ w \in m.used
  BY Addresses, MapFields DEF Tree, Clean
<1>2. PICK G : G = Following(m.parent, w)
  OBVIOUS
<1>3. Steps1(G, m.parent, w)
  BY <1>1, <1>2, FollowingDef DEF Maps
<1>4. G[MaxNodes] = 0
  BY <1>1, <1>3, WaysUpEnd
<1>5. G[0] = w /\ \A i \in 1 .. MaxNodes : G[i] = m.parent[G[i - 1]]
  BY <1>3 DEF Steps1
<1> DEFINE S == {i \in Nat : i <= MaxNodes => G[i] = 0 \/ G[i] \in T}
           A == {a \in T : \E i \in 0 .. MaxNodes : G[i] = a}
<1>6. 0 \in S
  BY <1>5
<1>7. ASSUME NEW i \in Nat, i \in S PROVE i + 1 \in S
  <2>1. SUFFICES ASSUME i + 1 <= MaxNodes PROVE G[i + 1] = 0 \/ G[i + 1] \in T
    OBVIOUS
  <2>2. i + 1 \in 1 .. MaxNodes /\ (i + 1) - 1 = i /\ i <= MaxNodes
    BY <1>1, <2>1
  <2>3. G[i + 1] = m.parent[G[i]] /\ (G[i] = 0 \/ G[i] \in T)
    BY <1>5, <1>7, <2>2
  <2>4. QED BY <1>1, <2>3
<1>8. \A i \in Nat : i \in S
  <2> HIDE DEF S
  <2> QED BY <1>6, <1>7, SetInduction
<1>9. \A i \in 0 .. MaxNodes : G[i] = 0 \/ G[i] \in T
  <2>1. \A i \in 0 .. MaxNodes : i \in Nat /\ i <= MaxNodes
    BY <1>1
  <2>2. QED BY <1>8, <2>1
<1>10. ASSUME NEW a \in A, m.parent[a] # 0 PROVE m.parent[a] \in A
  <2>1. PICK i \in 0 .. MaxNodes : G[i] = a
    OBVIOUS
  <2>2. i # MaxNodes
    BY <1>1, <1>4, <2>1
  <2>3. i + 1 \in 1 .. MaxNodes /\ i + 1 \in 0 .. MaxNodes /\ (i + 1) - 1 = i
    BY <1>1, <2>2
  <2>4. G[i + 1] = m.parent[a]
    BY <1>5, <2>1, <2>3
  <2>5. QED BY <1>10, <2>3, <2>4
<1>11. ASSUME NEW a \in A, a # w PROVE \E f \in Sides : m.child[a, f] \in A
  <2>1. PICK i \in 0 .. MaxNodes : G[i] = a
    OBVIOUS
  <2>2. i # 0
    BY <1>5, <1>11, <2>1
  <2>3. i \in 1 .. MaxNodes /\ i - 1 \in 0 .. MaxNodes
    BY <1>1, <2>2
  <2>4. PICK z : z = G[i - 1]
    OBVIOUS
  <2>5. a = m.parent[z] /\ (z = 0 \/ z \in T) /\ a # 0
    BY <1>1, <1>5, <1>9, <2>1, <2>3, <2>4
  <2>6. z \in T /\ z \in A
    BY <1>1, <2>3, <2>4, <2>5
  <2>7. PICK g : g = Side(m, z)
    OBVIOUS
  <2>8. Hangs(m, z, a, g)
    BY <2>5, <2>6, <2>7, ParentOf
  <2>9. QED BY <2>6, <2>8 DEF Hangs
<1>12. w \in A
  <2>1. 0 \in 0 .. MaxNodes
    BY <1>1
  <2>2. QED BY <1>5, <2>1
<1>13. A \in SUBSET T /\ A \in SUBSET m.used
  OBVIOUS
<1> HIDE DEF A
<1>14. m.root \in A
  <2>1. PICK a \in A : m.parent[a] \notin A
    BY <1>12, <1>13 DEF Tree, Rooted
  <2>2. m.parent[a] = 0
    BY <1>10, <2>1
  <2>3. a = m.root
    BY <1>13, <2>1, <2>2 DEF Tree, Linked
  <2>4. QED BY <2>1, <2>3
<1>15. Above(m, w, A)
  BY <1>10, <1>11, <1>12, <1>13, <1>14 DEF Above
<1>16. QED BY <1>13, <1>15

\* From every node between whose bounds a key belongs that is in the tree, the side of the
\* key leads on towards its node.
Onwards(m, bound, z, k) ==
  /\ m.key[z] # k /\ m.child[z, Toward(m, z, k)] \in m.used
  /\ Between(m, bound, m.child[z, Toward(m, z, k)], k)

\* From a node on the way to w, the way goes on to the child on the side of the key.
LEMMA OneWay ==
  ASSUME NEW m, Tree(m), NEW bound, KeysSorted(m, bound), NEW w \in m.used, NEW k, k = m.key[w],
         NEW z \in m.used, Between(m, bound, z, k), z # w
  PROVE  Onwards(m, bound, z, k) /\ Between(m, bound, m.root, k) /\ m.root \in m.used
<1> DEFINE U == {a \in m.used : Between(m, bound, a, k)}
<1>1. w \in Ptr /\ k \in Int /\ m.used \subseteq Ptr /\ 0 \notin m.used
  BY Addresses, MapFields DEF Tree
<1>2. w \in U /\ \A f \in Sides : m.child[w, f] # 0 => m.child[w, f] \notin U
  BY OwnPlace
<1>3. ASSUME NEW a \in U, m.parent[a] # 0
      PROVE  /\ m.parent[a] \in U /\ m.key[m.parent[a]] # k
             /\ a = m.child[m.parent[a], Toward(m, m.parent[a], k)]
  <2>1. PICK q, g : q = m.parent[a] /\ g = Side(m, a)
    OBVIOUS
  <2>2. Upwards(m, bound, q, g, k) /\ Hangs(m, a, q, g)
    BY <1>1, <1>3, <2>1, BetweenAbove, ParentOf
  <2>3. QED BY <2>1, <2>2 DEF Upwards, Hangs
<1>4. U \in SUBSET m.used
  OBVIOUS
<1>5. z \in U
  OBVIOUS
<1> HIDE DEF U
<1>6. PICK A \in SUBSET U : Above(m, w, A)
  BY <1>2, <1>3, <1>4, WayUp
<1>7. ASSUME NEW a \in A, a # w
      PROVE  /\ m.key[a] # k /\ m.child[a, Toward(m, a, k)] \in A
             /\ \A u \in U : m.parent[u] = a => u \in A
  <2>1. PICK f \in Sides : m.child[a, f] \in A
    BY <1>6, <1>7 DEF Above
  <2>2. PICK u : u = m.child[a, f]
    OBVIOUS
  <2>3. u \in U /\ u # 0 /\ m.parent[u] = a /\ a # 0
    <3>1. a \in m.used /\ u \in A /\ u \in U
      BY <1>4, <1>6, <2>1, <2>2
    <3>2. u # 0 /\ a # 0
      BY <1>1, <1>4, <3>1
    <3>3. PICK w2 : w2 = m.child[a, Opp(f)]
      OBVIOUS
    <3>4. Kids(m, a, u, w2)
      BY <2>2, <3>1, <3>3, Children
    <3>5. QED BY <3>1, <3>2, <3>4 DEF Kids
  <2>4. m.key[a] # k /\ u = m.child[a, Toward(m, a, k)]
    BY <1>3, <2>3
  <2>5. ASSUME NEW u2 \in U, m.parent[u2] = a PROVE u2 \in A
    <3>1. u2 = m.child[a, Toward(m, a, k)]
      BY <1>3, <2>3, <2>5
    <3>2. QED BY <2>1, <2>2, <2>4, <3>1
  <2>6. QED BY <2>1, <2>2, <2>4, <2>5
<1>8. ASSUME NEW u \in U, m.parent[u] = w PROVE FALSE
  <2>1. w # 0 /\ u \in m.used
    BY <1>1, <1>4
  <2>2. PICK g : g = Side(m, u)
    OBVIOUS
  <2>3. Hangs(m, u, w, g)
    BY <1>8, <2>1, <2>2, ParentOf
  <2>4. g \in Sides /\ m.child[w, g] = u /\ u # 0
    BY <1>1, <2>1, <2>3 DEF Hangs
  <2>5. QED BY <1>2, <2>4
<1>9. z \in A
  <2>1. SUFFICES ASSUME U \ A # {} PROVE FALSE
    BY <1>5
  <2>2. PICK B : B = U \ A
    OBVIOUS
  <2>3. B \in SUBSET m.used /\ B # {}
    BY <1>4, <2>1, <2>2
  <2>4. PICK u \in B : m.parent[u] \notin B
    BY <2>3 DEF Tree, Rooted
  <2>5. u \in U /\ u \notin A /\ u \in m.used
    BY <2>2, <2>3, <2>4
  <2>6. m.parent[u] # 0
    <3>1. SUFFICES ASSUME m.parent[u] = 0 PROVE FALSE
      OBVIOUS
    <3>2. u = m.root
      BY <2>5, <3>1 DEF Tree, Linked
    <3>3. QED BY <1>6, <2>5, <3>2 DEF Above
  <2>7. m.parent[u] \in A
    BY <1>3, <2>2, <2>4, <2>5, <2>6
  <2>8. m.parent[u] # w
    BY <1>8, <2>5
  <2>9. QED BY <1>7, <2>5, <2>7, <2>8
<1>10. PICK u : u = m.child[z, Toward(m, z, k)]
  OBVIOUS
<1>11. m.key[z] # k /\ u \in A
  BY <1>7, <1>9, <1>10
<1>12. u \in U /\ m.root \in U
  BY <1>6, <1>11 DEF Above
<1>13. \A a \in U : a \in m.used /\ Between(m, bound, a, k)
  BY DEF U
<1>14. QED BY <1>10, <1>11, <1>12, <1>13 DEF Onwards

\* Keys compare as numbers do (strcmp): what is less than the less is less,
LEMMA Together ==
  ASSUME NEW a \in Int, NEW b \in Int, NEW c \in Int, a < b, b < c
  PROVE  a < c
OBVIOUS

\* and of two keys at most one is less.
LEMMA NotBoth ==
  ASSUME NEW a \in Int, NEW b \in Int, a < b
  PROVE  a # b /\ ~(b < a)
OBVIOUS

\* A way down that leads from nodes of T to nodes of T ends in one.
LEMMA WaysKeep ==
  ASSUME NEW m, Tree(m), NEW next, Descends(m, next), NEW T \in SUBSET m.used, NEW x \in T,
         \A y \in T : next[y] \in T,
         NEW F, F = Following(next, x), NEW last, last = F[MaxNodes]
  PROVE  last \in T /\ next[last] = last
<1>1. MaxNodes \in Nat /\ x \in m.used
  BY Addresses
<1>2. Arrives(m, next, x, F, last)
  BY <1>1, WaysDownEnd
<1>3. /\ F[0] = x /\ \A k \in 1 .. MaxNodes : F[k] = next[F[k - 1]]
      /\ next[last] = last
  BY <1>2 DEF Arrives, Steps1
<1> DEFINE S == {k \in Nat : k <= MaxNodes => F[k] \in T}
<1>4. 0 \in S
  BY <1>1, <1>3
<1>5. ASSUME NEW k \in Nat, k \in S PROVE k + 1 \in S
  <2>1. SUFFICES ASSUME k + 1 <= MaxNodes PROVE F[k + 1] \in T
    OBVIOUS
  <2>2. k + 1 \in 1 .. MaxNodes /\ (k + 1) - 1 = k /\ k <= MaxNodes
    BY <1>1, <2>1
  <2>3. F[k + 1] = next[F[k]] /\ F[k] \in T
    BY <1>3, <1>5, <2>2
  <2>4. QED BY <2>3
<1>6. \A k \in Nat : k \in S
  <2> HIDE DEF S
  <2> QED BY <1>4, <1>5, SetInduction
<1>7. MaxNodes \in S /\ MaxNodes <= MaxNodes
  BY <1>1, <1>6
<1>8. QED BY <1>3, <1>7

\* What rb_lookup_node does in a step, and that it goes down.
Searches(m, k, next) ==
  /\ Descends(m, next)
  /\ \A y \in Ptr, g \in Sides :
       g = Toward(m, y, k) => next[y] = IF y = 0 \/ m.key[y] = k THEN y ELSE m.child[y, g]

\* Search stops at the key and goes on to the child on its side.
LEMMA SearchSteps ==
  ASSUME NEW m, Tree(m), NEW k \in Int, NEW next, next = Search(m, k)
  PROVE  Searches(m, k, next)
<1>1. /\ m.used \subseteq Ptr /\ 0 \in Ptr
      /\ \A y \in Ptr, f \in Sides : m.child[y, f] \in Ptr
      /\ \A y \in Ptr : Toward(m, y, k) \in Sides
  BY Addresses, MapFields DEF Tree, Toward, Sides
<1>3. \A y \in Ptr : next[y] = IF y = 0 \/ m.key[y] = k THEN y ELSE m.child[y, Toward(m, y, k)]
  BY DEF Search
<1>4. next \in [Ptr -> Ptr]
  BY <1>1 DEF Search
<1>5. QED BY <1>1, <1>3, <1>4 DEF Searches, Descends

\* What rb_rbtree_insert does on its way down.
Falls(m, k, next) ==
  /\ Descends(m, next)
  /\ \A y \in Ptr, g \in Sides :
       g = Toward(m, y, k) => next[y] = IF m.child[y, g] = 0 THEN y ELSE m.child[y, g]

\* Descent stops where there is no child on the side of the key.
LEMMA DescentSteps ==
  ASSUME NEW m, Tree(m), NEW k \in Int, NEW next, next = Descent(m, k)
  PROVE  Falls(m, k, next)
<1>1. /\ m.used \subseteq Ptr /\ 0 \in Ptr /\ 0 \notin m.used
      /\ \A y \in Ptr, f \in Sides : m.child[y, f] \in Ptr
      /\ \A y \in Ptr : Toward(m, y, k) \in Sides
  BY Addresses, MapFields DEF Tree, Toward, Sides
<1>3. \A y \in Ptr : next[y] = IF m.child[y, Toward(m, y, k)] = 0 THEN y
                               ELSE m.child[y, Toward(m, y, k)]
  BY DEF Descent
<1>4. next \in [Ptr -> Ptr]
  BY <1>1 DEF Descent
<1>5. \A g \in Sides : m.child[0, g] = 0
  BY <1>1 DEF Tree, Clean
<1>6. next[0] = 0
  BY <1>1, <1>3, <1>5
<1>7. QED BY <1>1, <1>3, <1>4, <1>6 DEF Falls, Descends

\* Every key belongs below the root.
LEMMA RootBetween ==
  ASSUME NEW m, Tree(m), m.root # 0, NEW bound, KeysSorted(m, bound), NEW k
  PROVE  m.root \in m.used /\ Between(m, bound, m.root, k)
<1>1. m.root \in m.used
  BY DEF Tree, Linked
<1>2. \A f \in Sides : bound[m.root, f] = 0
  BY DEF KeysSorted, Sorted, Inherited
<1>3. bound[m.root, "left"] = 0 /\ bound[m.root, "right"] = 0
  BY <1>2 DEF Sides
<1>4. QED BY <1>1, <1>3 DEF Between

\* The rebalancing and the trades of rb_map.g never hide a key: the search finds
\* every node.
LEMMA LookupComplete ==
  ASSUME NEW m, Tree(m), NEW bound, KeysSorted(m, bound), NEW w \in m.used,
         NEW k, k = m.key[w]
  PROVE  rb_lookup_node(m, k) = w
<1>1. w \in Ptr /\ k \in Int /\ m.used \subseteq Ptr /\ 0 \notin m.used
  BY Addresses, MapFields DEF Tree
<1>2. PICK next : next = Search(m, k)
  OBVIOUS
<1>3. Searches(m, k, next)
  BY <1>1, <1>2, SearchSteps
<1> DEFINE T == {z \in m.used : Between(m, bound, z, k)}
<1>4. m.root # 0
  BY EmptyTree
<1>5. m.root \in T
  BY <1>4, RootBetween
<1>6. w \in T /\ next[w] = w
  <2>1. Toward(m, w, k) \in Sides
    BY DEF Toward, Sides
  <2>2. next[w] = w
    BY <1>1, <1>3, <2>1 DEF Searches
  <2>3. QED BY <2>2, OwnPlace
<1>7. ASSUME NEW z \in T, z # w PROVE next[z] \in T /\ next[z] # z
  <2>1. Onwards(m, bound, z, k)
    BY <1>7, OneWay
  <2>2. PICK g : g = Toward(m, z, k)
    OBVIOUS
  <2>3. g \in Sides /\ z \in m.used /\ z \in Ptr /\ z # 0
    BY <1>1, <2>2 DEF Toward, Sides
  <2>4. m.key[z] # k /\ m.child[z, g] \in m.used /\ Between(m, bound, m.child[z, g], k)
    BY <2>1, <2>2 DEF Onwards
  <2>5. next[z] = m.child[z, g]
    BY <1>3, <2>2, <2>3, <2>4 DEF Searches
  <2>6. m.child[z, g] # z
    BY <2>3, NotOwnChild
  <2>7. QED BY <2>4, <2>5, <2>6
<1>8. T \in SUBSET m.used /\ \A z \in T : next[z] \in T
  BY <1>6, <1>7
<1> HIDE DEF T
<1>9. PICK F, last : F = Following(next, m.root) /\ last = F[MaxNodes]
  OBVIOUS
<1>10. last \in T /\ next[last] = last
  <2>1. Descends(m, next)
    BY <1>3 DEF Searches
  <2>2. QED BY <1>5, <1>8, <1>9, <2>1, WaysKeep
<1>11. last = w
  BY <1>7, <1>10
<1>12. QED BY <1>2, <1>9, <1>11 DEF rb_lookup_node

\* No key is there twice.
Distinct(m) == \A a, c \in m.used : m.key[a] = m.key[c] => a = c

\* Sorted keys are different.
LEMMA SortedDistinct ==
  ASSUME NEW m, Tree(m), NEW bound, KeysSorted(m, bound)
  PROVE  Distinct(m)
<1>1. SUFFICES ASSUME NEW a \in m.used, NEW c \in m.used, m.key[a] = m.key[c] PROVE a = c
  BY DEF Distinct
<1>2. PICK k : k = m.key[a]
  OBVIOUS
<1>3. rb_lookup_node(m, k) = a /\ rb_lookup_node(m, k) = c
  BY <1>1, <1>2, LookupComplete
<1>4. QED BY <1>3

\* What rb_lookup_node does not find is not there.
LEMMA LookupMisses ==
  ASSUME NEW m, Tree(m), NEW bound, KeysSorted(m, bound), NEW k, rb_lookup_node(m, k) = 0
  PROVE  \A w \in m.used : m.key[w] # k
<1>1. 0 \notin m.used
  BY Addresses, MapFields DEF Tree
<1>2. QED BY <1>1, LookupComplete

\* A new key belongs below the node at which the insertion stops.
LEMMA LastBetween ==
  ASSUME NEW m, Tree(m), m.root # 0, NEW bound, KeysSorted(m, bound), NEW k \in Int,
         \A w \in m.used : m.key[w] # k, NEW p, p = LastOnPath(m, k)
  PROVE  p \in m.used /\ Between(m, bound, p, k)
<1>1. m.used \subseteq Ptr
  BY Addresses, MapFields DEF Tree
<1>2. PICK next : next = Descent(m, k)
  OBVIOUS
<1>3. Falls(m, k, next)
  BY <1>2, DescentSteps
<1> DEFINE T == {z \in m.used : Between(m, bound, z, k)}
<1>4. m.root \in T
  BY RootBetween
<1>5. ASSUME NEW z \in T PROVE next[z] \in T
  <2>1. PICK g : g = Toward(m, z, k)
    OBVIOUS
  <2>2. g \in Sides /\ z \in m.used /\ z \in Ptr
    BY <1>1, <2>1 DEF Toward, Sides
  <2>3. PICK u : u = m.child[z, g]
    OBVIOUS
  <2>4. next[z] = IF u = 0 THEN z ELSE u
    BY <1>3, <2>1, <2>2, <2>3 DEF Falls
  <2>5. CASE u = 0
    BY <2>4, <2>5
  <2>6. CASE u # 0
    <3>1. u \in m.used /\ Between(m, bound, u, k)
      BY <2>1, <2>2, <2>3, <2>6, BetweenBelow
    <3>2. QED BY <2>4, <2>6, <3>1
  <2>7. QED BY <2>5, <2>6
<1>6. T \in SUBSET m.used
  OBVIOUS
<1>7. p \in T
  <2> HIDE DEF T
  <2>1. PICK F : F = Following(next, m.root)
    OBVIOUS
  <2>2. p = F[MaxNodes]
    BY <1>2, <2>1 DEF LastOnPath
  <2>3. Descends(m, next)
    BY <1>3 DEF Falls
  <2>4. \A z \in T : next[z] \in T
    BY <1>5
  <2>5. QED BY <1>4, <1>6, <2>1, <2>2, <2>3, <2>4, WaysKeep
<1>8. QED BY <1>7

\* y comes right before x in the order of the keys.
Before(m, bound, y, x) ==
  /\ y \in m.used /\ y # x /\ m.child[y, "right"] = 0 /\ m.key[y] < m.key[x]
  /\ \A w \in m.used : ~(m.key[y] < m.key[w] /\ m.key[w] < m.key[x])

\* So does the node with which rb_rbtree_delete makes a node with two children trade.
LEMMA Predecessor ==
  ASSUME NEW m, Tree(m), NEW bound, KeysSorted(m, bound), NEW x \in m.used,
         NEW u, u = m.child[x, "left"], u # 0, NEW y, y = rb_maximum_node(m, u)
  PROVE  Before(m, bound, y, x)
<1>1. /\ m \in Maps /\ m.used \subseteq Ptr /\ 0 \in Ptr /\ 0 \notin m.used
      /\ \A z \in Ptr, g \in Sides : m.child[z, g] \in Ptr
      /\ "right" \in Sides /\ "left" \in Sides /\ Opp("left") = "right"
      /\ \A z \in m.used : m.key[z] \in Int
  BY Addresses, MapFields DEF Tree, Sides, Opp
<1>2. Within(m, m.key, bound, x, "left", u)
  BY <1>1, ChildBounds DEF KeysSorted
<1>3. u \in m.used /\ bound[u, "right"] = x
  BY <1>1, <1>2 DEF Within
<1>4. y \in m.used /\ m.child[y, "right"] = 0
  BY <1>3, MaximumHasRoom
<1>5. PICK next : next = Rightmost(m)
  OBVIOUS
<1>6. \A z \in Ptr : next[z] = IF m.child[z, "right"] = 0 THEN z ELSE m.child[z, "right"]
  BY <1>5 DEF Rightmost
<1>7. Descends(m, next)
  <2>1. next \in [Ptr -> Ptr]
    BY <1>1, <1>5 DEF Rightmost
  <2>2. \A g \in Sides : m.child[0, g] = 0
    BY <1>1 DEF Tree, Clean
  <2>3. next[0] = 0
    BY <1>1, <1>6, <2>2
  <2>4. QED BY <1>1, <1>6, <2>1, <2>3 DEF Descends
<1> DEFINE T == {z \in m.used : bound[z, "right"] = x}
<1>8. ASSUME NEW z \in T PROVE next[z] \in T
  <2>1. z \in m.used /\ z \in Ptr /\ bound[z, "right"] = x
    BY <1>1
  <2>2. PICK o : o = m.child[z, "right"]
    OBVIOUS
  <2>3. next[z] = IF o = 0 THEN z ELSE o
    BY <1>6, <2>1, <2>2
  <2>4. o # 0 => o \in m.used /\ bound[o, "right"] = x
    <3>1. o # 0 => Within(m, m.key, bound, z, "right", o)
      BY <1>1, <2>1, <2>2, ChildBounds DEF KeysSorted
    <3>2. QED BY <2>1, <3>1 DEF Within
  <2>5. QED BY <2>1, <2>3, <2>4
<1>9. T \in SUBSET m.used /\ u \in T
  BY <1>3
<1>10. y \in T
  <2> HIDE DEF T
  <2>1. PICK F : F = Following(next, u)
    OBVIOUS
  <2>2. y = F[MaxNodes]
    BY <1>5, <2>1 DEF rb_maximum_node
  <2>3. \A z \in T : next[z] \in T
    BY <1>8
  <2>4. F[MaxNodes] \in T
    BY <1>7, <1>9, <2>1, <2>3, WaysKeep, ZenonT(60)
  <2>5. QED BY <2>2, <2>4
<1>11. bound[y, "right"] = x /\ x # 0
  BY <1>1, <1>10
<1>12. m.key[y] < m.key[x]
  BY <1>1, <1>4, <1>11 DEF KeysSorted, Sorted, Bounded, OnSide
<1>13. y # x
  BY <1>1, <1>4, <1>12, NotBoth
<1>14. ASSUME NEW w \in m.used, m.key[y] < m.key[w], m.key[w] < m.key[x] PROVE FALSE
  <2>1. PICK k : k = m.key[w]
    OBVIOUS
  <2>2. PICK l : l = bound[y, "left"]
    OBVIOUS
  <2>3. l # 0 => l \in m.used /\ m.key[l] < m.key[y]
    BY <1>1, <1>4, <2>2 DEF KeysSorted, Sorted, Bounded, OnSide
  <2>4. l # 0 => m.key[l] < k
    BY <1>1, <1>4, <1>14, <2>1, <2>3, Together
  <2>5. Between(m, bound, y, k)
    BY <1>11, <1>14, <2>1, <2>2, <2>4 DEF Between
  <2>6. y # w /\ ~(k < m.key[y])
    BY <1>1, <1>4, <1>14, <2>1, NotBoth
  <2>7. Onwards(m, bound, y, k)
    BY <1>4, <2>1, <2>5, <2>6, OneWay
  <2>8. Toward(m, y, k) = "right"
    BY <2>6 DEF Toward
  <2>9. m.child[y, "right"] \in m.used
    BY <2>7, <2>8 DEF Onwards
  <2>10. QED BY <1>1, <1>4, <2>9
<1>15. QED BY <1>4, <1>12, <1>13, <1>14 DEF Before

\* The bounds of a new leaf x on side f of p (rb_rbtree_insert).
LeafBound(bound, x, p, f) ==
  [zg \in Ptr \X Sides |->
     IF zg = <<x, Opp(f)>> THEN p
     ELSE IF zg = <<x, f>> THEN (IF p = 0 THEN 0 ELSE bound[p, f]) ELSE bound[zg]]

\* k belongs below p on side f, if there is a node p.
Belongs(m, bound, p, f, k) ==
  p # 0 => Between(m, bound, p, k) /\ m.key[p] # k /\ f = Toward(m, p, k)

Leafed(bound, bound2, x, p, f) ==
  /\ bound2 \in [Ptr \X Sides -> Ptr] /\ bound2[x, Opp(f)] = p
  /\ bound2[x, f] = (IF p = 0 THEN 0 ELSE bound[p, f])
  /\ \A z \in Ptr, g \in Sides : z # x => bound2[z, g] = bound[z, g]

\* These are its bounds, and those of the others stay.
LEMMA LeafBounds ==
  ASSUME NEW bound \in [Ptr \X Sides -> Ptr], NEW x \in Ptr, NEW p \in Ptr, NEW f \in Sides,
         NEW bound2, bound2 = LeafBound(bound, x, p, f)
  PROVE  Leafed(bound, bound2, x, p, f)
<1>1. /\ Opp(f) \in Sides /\ Opp(f) # f /\ 0 \in Ptr
  BY TwoSides, Addresses
<1>2. <<x, Opp(f)>> \in Ptr \X Sides /\ <<x, f>> \in Ptr \X Sides /\ <<x, Opp(f)>> # <<x, f>>
  BY <1>1
<1>3. bound[p, f] \in Ptr
  OBVIOUS
<1>4. bound2 \in [Ptr \X Sides -> Ptr]
  BY <1>1, <1>3 DEF LeafBound
<1>5. ASSUME NEW z \in Ptr, NEW g \in Sides, z # x PROVE bound2[z, g] = bound[z, g]
  <2>1. <<z, g>> \in Ptr \X Sides /\ <<z, g>> # <<x, Opp(f)>> /\ <<z, g>> # <<x, f>>
    BY <1>5
  <2>2. QED BY <2>1 DEF LeafBound
<1>6. bound2[x, Opp(f)] = p /\ bound2[x, f] = (IF p = 0 THEN 0 ELSE bound[p, f])
  BY <1>2 DEF LeafBound
<1>7. QED BY <1>4, <1>5, <1>6 DEF Leafed

\* rb_rbtree_insert keeps the order: the new key is where the search looks for it.
LEMMA GrowthKeepsOrder ==
  ASSUME NEW m, Tree(m), NEW bound, KeysSorted(m, bound), NEW x, NEW k \in Int, NEW v, NEW p, NEW f,
         Room(m, x, p, f), Belongs(m, bound, p, f, k), NEW m2, Grows(m, m2, x, k, v, p, f),
         NEW bound2, bound2 = LeafBound(bound, x, p, f)
  PROVE  KeysSorted(m2, bound2)
<1>1. /\ x \in Nodes /\ x \in Ptr /\ x # 0 /\ x \notin m.used /\ p \in Ptr /\ f \in Sides
      /\ (p = 0 => m.root = 0) /\ (p # 0 => p \in m.used /\ p # x)
  BY Addresses DEF Room
<1>2. /\ m.key \in [Ptr -> Int] /\ bound \in [Ptr \X Sides -> Ptr]
      /\ Bounded(m, m.key, bound) /\ Inherited(m, bound)
  BY DEF KeysSorted, Sorted
<1>3. /\ m2.used = m.used \union {x} /\ m2.root = (IF p = 0 THEN x ELSE m.root)
      /\ m2 \in Maps
  BY DEF Grows
<1>4. m2.key[x] = k /\ \A z \in m.used : m2.key[z] = m.key[z] /\ z \in Ptr /\ z # x /\ z # 0
  <2>1. \A z \in Ptr : m2.key[z] = IF z = x THEN k ELSE m.key[z]
    BY DEF Grows
  <2>2. QED BY <1>1, <2>1, UsedNode
<1>5. /\ bound2 \in [Ptr \X Sides -> Ptr] /\ bound2[x, Opp(f)] = p
      /\ bound2[x, f] = (IF p = 0 THEN 0 ELSE bound[p, f])
      /\ \A z \in Ptr, g \in Sides : z # x => bound2[z, g] = bound[z, g]
  <2>1. Leafed(bound, bound2, x, p, f)
    BY <1>1, <1>2, LeafBounds
  <2>2. QED BY <2>1 DEF Leafed
<1>6. Opp(f) \in Sides /\ f # Opp(f) /\ Opp(Opp(f)) = f /\ \A g \in Sides : g = f \/ g = Opp(f)
  BY <1>1, TwoSides
<1>7. ASSUME NEW z \in m.used, NEW g \in Sides, bound2[z, g] # 0
      PROVE  bound2[z, g] \in m2.used /\ OnSide(m2.key, g, bound2[z, g], z)
  <2>1. PICK o : o = bound[z, g]
    OBVIOUS
  <2>2. bound2[z, g] = o /\ o # 0
    BY <1>4, <1>5, <1>7, <2>1
  <2>3. o \in m.used /\ OnSide(m.key, g, o, z)
    BY <1>2, <1>7, <2>1, <2>2 DEF Bounded
  <2>4. m2.key[o] = m.key[o] /\ m2.key[z] = m.key[z]
    BY <1>4, <2>3
  <2>5. OnSide(m2.key, g, o, z)
    BY <2>3, <2>4 DEF OnSide
  <2>6. QED BY <1>3, <2>2, <2>3, <2>5
<1>8. ASSUME NEW g \in Sides, bound2[x, g] # 0
      PROVE  bound2[x, g] \in m2.used /\ OnSide(m2.key, g, bound2[x, g], x)
  <2>1. p # 0 /\ p \in m.used /\ Between(m, bound, p, k) /\ m.key[p] # k /\ f = Toward(m, p, k)
    BY <1>1, <1>5, <1>6, <1>8 DEF Belongs
  <2>2. m.key[p] \in Int /\ m2.key[p] = m.key[p] /\ m2.key[x] = k
    BY <1>2, <1>4, <2>1
  <2>3. CASE g = f
    <3>1. PICK o : o = bound[p, f]
      OBVIOUS
    <3>2. bound2[x, g] = o /\ o # 0
      BY <1>5, <1>8, <2>1, <2>3, <3>1
    <3>3. o \in m.used
      BY <1>1, <1>2, <2>1, <3>1, <3>2 DEF Bounded
    <3>4. m2.key[o] = m.key[o]
      BY <1>4, <3>3
    <3>5. OnSide(m2.key, f, o, x)
      <4>1. f = "left" => m.key[o] < k
        BY <2>1, <3>1, <3>2 DEF Between
      <4>2. f = "right" => k < m.key[o]
        BY <2>1, <3>1, <3>2 DEF Between
      <4>3. f = "left" \/ f = "right"
        BY <1>1 DEF Sides
      <4>4. QED BY <2>2, <3>4, <4>1, <4>2, <4>3 DEF OnSide
    <3>6. QED BY <1>3, <2>3, <3>2, <3>3, <3>5
  <2>4. CASE g = Opp(f)
    <3>1. bound2[x, g] = p
      BY <1>5, <2>4
    <3>2. OnSide(m2.key, g, p, x)
      <4>1. f = "left" => k < m.key[p] /\ g = "right"
        BY <2>1, <2>4 DEF Toward, Opp
      <4>2. f = "right" => ~(k < m.key[p]) /\ g = "left"
        BY <2>1, <2>4 DEF Toward, Opp
      <4>3. f = "right" => m.key[p] < k
        BY <2>1, <2>2, <4>2, OtherLess
      <4>4. f = "left" \/ f = "right"
        BY <1>1 DEF Sides
      <4>5. QED BY <2>2, <4>1, <4>2, <4>3, <4>4 DEF OnSide
    <3>3. QED BY <1>3, <2>1, <3>1, <3>2
  <2>5. QED BY <1>6, <2>3, <2>4
<1>9. Bounded(m2, m2.key, bound2)
  BY <1>3, <1>7, <1>8 DEF Bounded
<1>10. \A z \in Ptr, g \in Sides : m2.child[z, g] = IF z = p /\ p # 0 /\ g = f THEN x ELSE m.child[z, g]
  BY DEF Grows
<1>11. ASSUME NEW z \in m2.used, NEW g \in Sides, m2.child[z, g] # 0
       PROVE  bound2[m2.child[z, g], g] = bound2[z, g] /\ bound2[m2.child[z, g], Opp(g)] = z
  <2>1. z \in Ptr
    BY <1>1, <1>3, <1>4
  <2>2. CASE z = p /\ p # 0 /\ g = f
    <3>1. m2.child[z, g] = x
      BY <1>10, <2>1, <2>2
    <3>2. bound2[p, f] = bound[p, f] /\ bound2[x, f] = bound[p, f]
      BY <1>1, <1>5, <2>2
    <3>3. QED BY <1>5, <2>2, <3>1, <3>2
  <2>3. CASE ~(z = p /\ p # 0 /\ g = f)
    <3>1. PICK u : u = m.child[z, g]
      OBVIOUS
    <3>2. m2.child[z, g] = u /\ u # 0
      BY <1>10, <1>11, <2>1, <2>3, <3>1
    <3>3. z # x
      <4>1. \A h \in Sides : m.child[x, h] = 0
        BY <1>1 DEF Tree, Clean
      <4>2. QED BY <3>1, <3>2, <4>1
    <3>4. z \in m.used
      BY <1>3, <3>3
    <3>5. Within(m, m.key, bound, z, g, u)
      BY <3>1, <3>2, <3>4, ChildBounds DEF KeysSorted
    <3>6. u \in m.used /\ u \in Ptr /\ bound[u, g] = bound[z, g] /\ bound[u, Opp(g)] = z
      BY <3>5 DEF Within
    <3>7. u # x /\ Opp(g) \in Sides
      BY <1>1, <3>6, TwoSides
    <3>8. bound2[u, g] = bound[u, g] /\ bound2[u, Opp(g)] = bound[u, Opp(g)] /\ bound2[z, g] = bound[z, g]
      BY <1>5, <2>1, <3>3, <3>6, <3>7
    <3>9. QED BY <3>2, <3>6, <3>8
  <2>4. QED BY <2>2, <2>3
<1>12. ASSUME m2.root # 0, NEW g \in Sides PROVE bound2[m2.root, g] = 0
  <2>1. CASE p = 0
    <3>1. m2.root = x
      BY <1>3, <2>1
    <3>2. bound2[x, f] = 0 /\ bound2[x, Opp(f)] = 0
      BY <1>5, <2>1
    <3>3. QED BY <1>6, <3>1, <3>2
  <2>2. CASE p # 0
    <3>1. m2.root = m.root /\ m.root # 0
      BY <1>3, <1>12, <2>2
    <3>2. m.root \in m.used
      BY <3>1, TreeLinks DEF Ties
    <3>3. bound[m.root, g] = 0
      BY <1>2, <3>1 DEF Inherited
    <3>4. PICK o : o = m.root
      OBVIOUS
    <3>5. bound2[o, g] = bound[o, g]
      BY <1>4, <1>5, <3>2, <3>4
    <3>6. QED BY <3>1, <3>3, <3>4, <3>5
  <2>3. QED BY <2>1, <2>2
<1>13. Inherited(m2, bound2)
  BY <1>11, <1>12 DEF Inherited
<1>14. m2.key \in [Ptr -> Int]
  BY <1>3 DEF Maps
<1>15. QED BY <1>5, <1>9, <1>13, <1>14 DEF KeysSorted, Sorted

\* What was bounded by the node that goes is bounded by what bounded that.
CutBound(bound, v) ==
  [zf \in Ptr \X Sides |-> IF bound[zf] = v THEN bound[v, zf[2]] ELSE bound[zf]]

Cut(bound, bound2, v) ==
  /\ bound2 \in [Ptr \X Sides -> Ptr]
  /\ \A z \in Ptr, f \in Sides : bound2[z, f] = IF bound[z, f] = v THEN bound[v, f] ELSE bound[z, f]

\* Where v was a bound, its own bound takes its place.
LEMMA CutBounds ==
  ASSUME NEW bound \in [Ptr \X Sides -> Ptr], NEW v \in Ptr, NEW bound2, bound2 = CutBound(bound, v)
  PROVE  Cut(bound, bound2, v)
<1>1. ASSUME NEW z \in Ptr, NEW f \in Sides
      PROVE  bound2[z, f] = IF bound[z, f] = v THEN bound[v, f] ELSE bound[z, f]
  <2>1. <<z, f>> \in Ptr \X Sides /\ <<z, f>>[2] = f
    OBVIOUS
  <2>2. QED BY <2>1 DEF CutBound
<1>2. ASSUME NEW zf \in Ptr \X Sides PROVE bound[zf] \in Ptr /\ bound[v, zf[2]] \in Ptr
  <2>1. zf[2] \in Sides
    OBVIOUS
  <2>2. QED BY <2>1
<1>3. bound2 \in [Ptr \X Sides -> Ptr]
  BY <1>2 DEF CutBound
<1>4. QED BY <1>1, <1>3 DEF Cut

\* The end of rb_rbtree_delete keeps the order.
LEMMA ShrinkingKeepsOrder ==
  ASSUME NEW m, Tree(m), NEW v, NEW c, NEW p, NEW e, Leaves(m, v, c, p, e),
         NEW rank, NEW bound, Sorted(m, rank, bound),
         NEW m2, Shrinks(m, m2, v, c, p, e), NEW bound2, bound2 = CutBound(bound, v)
  PROVE  Sorted(m2, rank, bound2)
<1>1. /\ v \in m.used /\ v \in Ptr /\ v # 0 /\ c \in Ptr /\ p \in Ptr /\ e \in Sides
      /\ p # 0 => p \in m.used /\ m.child[p, e] = v /\ p # v
      /\ p = 0 => m.root = v
      /\ p = m.parent[v]
  BY DEF Leaves, Hangs
<1>2. /\ rank \in [Ptr -> Int] /\ bound \in [Ptr \X Sides -> Ptr]
      /\ Bounded(m, rank, bound) /\ Inherited(m, bound)
  BY DEF Sorted
<1>3. m2.used = m.used \ {v} /\ m2.root = (IF p = 0 THEN c ELSE m.root)
  BY DEF Shrinks
<1>4. m.used \subseteq Ptr /\ 0 \notin m.used
  BY Addresses, MapFields DEF Tree
<1>5. /\ bound2 \in [Ptr \X Sides -> Ptr]
      /\ \A z \in Ptr, f \in Sides : bound2[z, f] = IF bound[z, f] = v THEN bound[v, f] ELSE bound[z, f]
  <2>1. Cut(bound, bound2, v)
    BY <1>1, <1>2, CutBounds
  <2>2. QED BY <2>1 DEF Cut
<1>6. PICK d \in Sides : m.child[v, d] = c /\ m.child[v, Opp(d)] = 0
  BY DEF Leaves, Goes
<1>7. /\ Opp(d) \in Sides /\ d # Opp(d) /\ (e = d \/ e = Opp(d)) /\ Opp(e) \in Sides /\ Opp(Opp(d)) = d
      /\ e # Opp(e) /\ \A g \in Sides : g = d \/ g = Opp(d)
  BY <1>1, TwoSides
<1>8. c # 0 => c \in m.used /\ bound[c, d] = bound[v, d] /\ bound[c, Opp(d)] = v
  <2>1. c # 0 => Within(m, rank, bound, v, d, c)
    BY <1>1, <1>6, ChildBounds
  <2>2. QED BY <2>1 DEF Within
<1>9. p # 0 => bound[v, e] = bound[p, e] /\ bound[v, Opp(e)] = p
  <2>1. p # 0 => Within(m, rank, bound, p, e, v)
    BY <1>1, ChildBounds
  <2>2. QED BY <2>1 DEF Within
<1>10. Bounded(m2, rank, bound2)
  <2>1. SUFFICES ASSUME NEW z \in m.used, z # v, NEW f \in Sides, bound2[z, f] # 0
                 PROVE  bound2[z, f] \in m.used \ {v} /\ OnSide(rank, f, bound2[z, f], z)
    BY <1>3 DEF Bounded
  <2>2. PICK o : o = bound[z, f]
    OBVIOUS
  <2>3. z \in Ptr /\ Order(rank)
    BY <1>2, <1>4, RanksOrder
  <2>4. CASE o = v
    <3>1. PICK w : w = bound[v, f]
      OBVIOUS
    <3>2. bound2[z, f] = w /\ w # 0
      BY <1>5, <2>1, <2>2, <2>3, <2>4, <3>1
    <3>3. w \in m.used /\ OnSide(rank, f, w, v) /\ OnSide(rank, f, v, z)
      BY <1>1, <1>2, <2>1, <2>2, <2>4, <3>1, <3>2 DEF Bounded
    <3>4. w # v
      <4>1. ~OnSide(rank, f, v, v)
        BY <1>1, <2>3 DEF Order
      <4>2. QED BY <3>3, <4>1
    <3>5. w \in Ptr
      BY <1>4, <3>3
    <3>6. OnSide(rank, f, w, z)
      BY <1>1, <1>2, <2>3, <3>3, <3>5, SidePast
    <3>7. QED BY <3>2, <3>3, <3>4, <3>6
  <2>5. CASE o # v
    <3>1. bound2[z, f] = o /\ o # 0
      BY <1>5, <2>1, <2>2, <2>3, <2>5
    <3>2. o \in m.used /\ OnSide(rank, f, o, z)
      BY <1>2, <2>1, <2>2, <3>1 DEF Bounded
    <3>3. QED BY <2>5, <3>1, <3>2
  <2>6. QED BY <2>4, <2>5
<1>11. \A z \in Ptr, f \in Sides :
         m2.child[z, f] = IF z = v THEN 0 ELSE IF z = p /\ p # 0 /\ f = e THEN c ELSE m.child[z, f]
  BY DEF Shrinks
<1>12. ASSUME p # 0, c # 0 PROVE bound2[c, e] = bound2[p, e] /\ bound2[c, Opp(e)] = p
  <2>1. c \in Ptr /\ p \in Ptr /\ p # v
    BY <1>1, <1>12
  <2>2. /\ bound2[c, e] = (IF bound[c, e] = v THEN bound[v, e] ELSE bound[c, e])
        /\ bound2[p, e] = (IF bound[p, e] = v THEN bound[v, e] ELSE bound[p, e])
        /\ bound2[c, Opp(e)] = (IF bound[c, Opp(e)] = v THEN bound[v, Opp(e)] ELSE bound[c, Opp(e)])
    BY <1>1, <1>5, <1>7, <2>1
  <2>3. CASE e = d
    <3>1. bound[c, e] = bound[p, e] /\ bound[c, Opp(e)] = v
      BY <1>8, <1>9, <1>12, <2>3
    <3>2. QED BY <1>9, <1>12, <2>2, <3>1
  <2>4. CASE e = Opp(d)
    <3>1. bound[c, Opp(e)] = p /\ bound[c, e] = v
      BY <1>7, <1>8, <1>9, <1>12, <2>4
    <3>2. QED BY <1>9, <1>12, <2>1, <2>2, <3>1
  <2>5. QED BY <1>7, <2>3, <2>4
<1>13. ASSUME NEW z \in m2.used, NEW f \in Sides, m2.child[z, f] # 0
       PROVE  bound2[m2.child[z, f], f] = bound2[z, f] /\ bound2[m2.child[z, f], Opp(f)] = z
  <2>1. z \in Ptr /\ z \in m.used /\ z # v
    BY <1>3, <1>4
  <2>2. CASE z = p /\ p # 0 /\ f = e
    <3>1. m2.child[z, f] = c
      BY <1>11, <2>1, <2>2
    <3>2. QED BY <1>12, <1>13, <2>2, <3>1
  <2>3. CASE ~(z = p /\ p # 0 /\ f = e)
    <3>1. PICK u : u = m.child[z, f]
      OBVIOUS
    <3>2. m2.child[z, f] = u /\ u # 0
      BY <1>11, <1>13, <2>1, <2>3, <3>1
    <3>3. u \in m.used /\ u \in Ptr /\ bound[u, f] = bound[z, f] /\ bound[u, Opp(f)] = z
      <4>1. Within(m, rank, bound, z, f, u)
        BY <2>1, <3>1, <3>2, ChildBounds
      <4>2. QED BY <4>1 DEF Within
    <3>4. Opp(f) \in Sides
      BY TwoSides
    <3>5. /\ bound2[u, f] = (IF bound[u, f] = v THEN bound[v, f] ELSE bound[u, f])
          /\ bound2[z, f] = (IF bound[z, f] = v THEN bound[v, f] ELSE bound[z, f])
          /\ bound2[u, Opp(f)] = (IF bound[u, Opp(f)] = v THEN bound[v, Opp(f)] ELSE bound[u, Opp(f)])
      BY <1>5, <2>1, <3>3, <3>4
    <3>6. QED BY <2>1, <3>2, <3>3, <3>5
  <2>4. QED BY <2>2, <2>3
<1>14. ASSUME m2.root # 0, NEW g \in Sides PROVE bound2[m2.root, g] = 0
  <2>1. CASE p = 0
    <3>1. m2.root = c /\ c # 0 /\ m.root = v /\ m.root # 0
      BY <1>1, <1>3, <1>14, <2>1
    <3>2. \A h \in Sides : bound[v, h] = 0
      BY <1>2, <3>1 DEF Inherited
    <3>3. bound2[c, g] = (IF bound[c, g] = v THEN bound[v, g] ELSE bound[c, g])
      BY <1>1, <1>5
    <3>4. bound[c, g] = v \/ bound[c, g] = 0
      BY <1>7, <1>8, <3>1, <3>2
    <3>5. QED BY <1>1, <3>1, <3>2, <3>3, <3>4
  <2>2. CASE p # 0
    <3>1. m2.root = m.root /\ m.root # 0
      BY <1>3, <1>14, <2>2
    <3>2. m.root \in Ptr
      BY MapFields DEF Tree
    <3>3. bound[m.root, g] = 0
      BY <1>2, <3>1 DEF Inherited
    <3>4. bound2[m.root, g] = (IF bound[m.root, g] = v THEN bound[v, g] ELSE bound[m.root, g])
      BY <1>5, <3>2
    <3>5. QED BY <1>1, <3>1, <3>3, <3>4
  <2>3. QED BY <2>1, <2>2
<1>15. Inherited(m2, bound2)
  BY <1>13, <1>14 DEF Inherited
<1>16. QED BY <1>2, <1>5, <1>10, <1>15 DEF Sorted

\* The ranks order the nodes other than v like their keys.
Agrees(m, rank, v) ==
  \A a, c \in m.used \ {v} : rank[a] < rank[c] <=> m.key[a] < m.key[c]

\* Ranks that agree with all keys can be replaced by them.
LEMMA AgreeingRanks ==
  ASSUME NEW m \in Maps, NEW rank, NEW bound, Sorted(m, rank, bound), Agrees(m, rank, 0)
  PROVE  KeysSorted(m, bound)
<1>1. m.key \in [Ptr -> Int] /\ m.used \ {0} = m.used
  BY Addresses, MapFields DEF Maps
<1>2. Bounded(m, m.key, bound)
  <2>1. SUFFICES ASSUME NEW z \in m.used, NEW d \in Sides, bound[z, d] # 0
                 PROVE  bound[z, d] \in m.used /\ OnSide(m.key, d, bound[z, d], z)
    BY DEF Bounded
  <2>2. PICK o : o = bound[z, d]
    OBVIOUS
  <2>3. o \in m.used /\ OnSide(rank, d, o, z)
    BY <2>1, <2>2 DEF Sorted, Bounded
  <2>4. (rank[o] < rank[z] <=> m.key[o] < m.key[z]) /\ (rank[z] < rank[o] <=> m.key[z] < m.key[o])
    BY <1>1, <2>3 DEF Agrees
  <2>5. OnSide(m.key, d, o, z)
    BY <2>3, <2>4 DEF OnSide
  <2>6. QED BY <2>2, <2>3, <2>5
<1>3. QED BY <1>1, <1>2 DEF KeysSorted, Sorted

\* Keys agree with themselves.
LEMMA OwnRanks ==
  ASSUME NEW m, NEW bound, KeysSorted(m, bound), NEW v
  PROVE  Sorted(m, m.key, bound) /\ Agrees(m, m.key, v)
BY DEF KeysSorted, Agrees

\* The order depends on the keys and the links only.
LEMMA SameKeysKeepOrder ==
  ASSUME NEW m, NEW m2 \in Maps, SameShape(m, m2), \A z \in Ptr : m2.key[z] = m.key[z],
         NEW bound, KeysSorted(m, bound)
  PROVE  KeysSorted(m2, bound)
<1>1. Sorted(m2, m.key, bound)
  BY ShapeKeepsOrder DEF SameShape, KeysSorted
<1>2. m2.used \subseteq Ptr
  BY Addresses, MapFields
<1>3. Agrees(m2, m.key, 0)
  BY <1>2 DEF Agrees
<1>4. QED BY <1>1, <1>3, AgreeingRanks

\* After the trade of a node with the one before it the old keys are ranks that agree
\* with the new ones but at the node that goes.
LEMMA TradeKeepsOrder ==
  ASSUME NEW m, Tree(m), NEW bound, KeysSorted(m, bound), NEW x \in m.used, NEW y \in m.used,
         y = x \/ Before(m, bound, y, x), NEW m2, Trades(m, m2, x, y)
  PROVE  Sorted(m2, m.key, bound) /\ Agrees(m2, m.key, y)
<1>1. SameShape(m, m2) /\ m2.used = m.used
  BY DEF Trades, SameShape
<1>2. Sorted(m2, m.key, bound)
  BY <1>1, ShapeKeepsOrder DEF SameShape, KeysSorted
<1>3. m.used \subseteq Ptr /\ (\A z \in m.used : m.key[z] \in Int) /\ Distinct(m)
  BY Addresses, MapFields, SortedDistinct DEF Tree
<1>4. \A z \in m.used : z # y => m2.key[z] = IF z = x THEN m.key[y] ELSE m.key[z]
  BY <1>3 DEF Trades
<1>5. ASSUME y = x PROVE Agrees(m2, m.key, y)
  BY <1>1, <1>4, <1>5 DEF Agrees
<1>6. ASSUME Before(m, bound, y, x) PROVE Agrees(m2, m.key, y)
  <2>1. SUFFICES ASSUME NEW a \in m.used \ {y}, NEW c \in m.used \ {y}
                 PROVE  m.key[a] < m.key[c] <=> m2.key[a] < m2.key[c]
    BY <1>1 DEF Agrees
  <2>2. m.key[y] < m.key[x] /\ \A w \in m.used : ~(m.key[y] < m.key[w] /\ m.key[w] < m.key[x])
    BY <1>6 DEF Before
  <2>3. ASSUME NEW w \in m.used, w # x, w # y
        PROVE  /\ m.key[w] \in Int /\ m.key[x] \in Int /\ m.key[y] \in Int
               /\ m.key[w] # m.key[x] /\ m.key[w] # m.key[y]
               /\ m.key[w] < m.key[x] <=> m.key[w] < m.key[y]
               /\ m.key[x] < m.key[w] <=> m.key[y] < m.key[w]
    <3>1. m.key[w] \in Int /\ m.key[x] \in Int /\ m.key[y] \in Int
      BY <1>3
    <3>2. m.key[w] # m.key[x] /\ m.key[w] # m.key[y]
      BY <1>3, <2>3 DEF Distinct
    <3>3. QED BY <2>2, <3>1, <3>2
  <2>4. m.key[x] \in Int /\ m.key[y] \in Int /\ m.key[a] \in Int /\ m.key[c] \in Int
    BY <1>3
  <2>5. CASE a = x /\ c = x
    BY <1>4, <2>1, <2>4, <2>5
  <2>6. CASE a = x /\ c # x
    BY <1>4, <2>1, <2>3, <2>6
  <2>7. CASE a # x /\ c = x
    BY <1>4, <2>1, <2>3, <2>7
  <2>8. CASE a # x /\ c # x
    BY <1>4, <2>1, <2>8
  <2>9. QED BY <2>5, <2>6, <2>7, <2>8
<1>7. QED BY <1>2, <1>5, <1>6

----------------------------------------------------------------------------
(* What the rebalancing leaves *)

\* A step of it keeps the nodes, their keys and values, and their order.
Moves(m, m2) ==
  /\ m2.used = m.used /\ m2.size = m.size /\ m2.key = m.key /\ m2.value = m.value
  /\ \A rank, bound : Sorted(m, rank, bound) => \E bound2 : Sorted(m2, rank, bound2)

\* To paint nodes moves nothing (rb_set_color),
LEMMA PaintMoves ==
  ASSUME NEW m, NEW m2, SameLinks(m, m2)
  PROVE  Moves(m, m2)
<1>1. /\ m2.used = m.used /\ m2.size = m.size /\ m2.key = m.key /\ m2.value = m.value
      /\ m2.root = m.root /\ m2.child = m.child
  BY DEF SameLinks, Others
<1>2. \A rank, bound : Sorted(m, rank, bound) => Sorted(m2, rank, bound)
  BY <1>1, ShapeKeepsOrder
<1>3. QED BY <1>1, <1>2 DEF Moves

\* nor does a step that leaves the map as it is;
LEMMA StayMoves ==
  ASSUME NEW m
  PROVE  Moves(m, m)
BY DEF Moves

\* a rotation keeps the order (rb_rotate_left, rb_rotate_right).
LEMMA TurnMoves ==
  ASSUME NEW m, Tree(m), NEW m1, NEW m2, NEW x, NEW d, NEW p, NEW e, NEW r, NEW y,
         Around(m, x, d, p, e, r, y), Turned(m, m1, m2, x, d, p, e, r, y)
  PROVE  Moves(m, m2)
<1>1. m2.used = m.used /\ m2.size = m.size /\ m2.key = m.key /\ m2.value = m.value
  BY DEF Turned, Others
<1>2. ASSUME NEW rank, NEW bound, Sorted(m, rank, bound) PROVE \E bound2 : Sorted(m2, rank, bound2)
  <2>1. PICK bound2 : bound2 = TurnedBound(bound, x, d, r)
    OBVIOUS
  <2>2. Sorted(m2, rank, bound2)
    BY <1>2, <2>1, TurnKeepsOrder
  <2>3. QED BY <2>2
<1>3. QED BY <1>1, <1>2 DEF Moves

\* rb_insert_case1, 2 and 3 paint.
LEMMA Insert1Moves ==
  ASSUME LinkInv, insert1
  PROVE  Moves(t, t')
<1>1. Tree(t) /\ Control(t) /\ pc = "insert1"
  BY DEF LinkInv, insert1
<1>2. n \in t.used
  BY <1>1 DEF Control, Inserting
<1>3. n \in Ptr
  BY <1>1, <1>2, UsedNode
<1>4. CASE Parent(n) = 0
  <2>1. t' = Paint(t, n, RB_BLACK)
    BY <1>4 DEF insert1
  <2>2. Painted(t, t', n, RB_BLACK)
    BY <1>1, <1>2, <1>3, <2>1, PaintKeepsTree
  <2>3. SameLinks(t, t')
    BY <2>2 DEF Painted
  <2>4. QED BY <2>3, PaintMoves
<1>5. CASE Parent(n) # 0
  <2>1. t' = t
    BY <1>5 DEF insert1
  <2>2. QED BY <2>1, StayMoves
<1>6. QED BY <1>4, <1>5

\* rb_insert_case3 paints the parent, the uncle and the grandparent.
LEMMA Insert3Moves ==
  ASSUME LinkInv, insert3
  PROVE  Moves(t, t')
<1>1. Tree(t) /\ Control(t) /\ pc = "insert3"
  BY DEF LinkInv, insert3
<1>2. n \in t.used
  BY <1>1 DEF Control, Inserting
<1>4. CASE HasGrandparent(t, n) /\ Red(t, rb_uncle(t, n))
  <2>1. PICK q, g, u : q = Parent(n) /\ g = rb_grandparent(t, n) /\ u = rb_uncle(t, n)
    OBVIOUS
  <2>2. Generations(t, n, q, g)
    BY <1>1, <1>2, <1>4, <2>1, GenerationsOf DEF Parent
  <2>3. q \in t.used /\ q \in Ptr /\ g \in t.used /\ g \in Ptr
    BY <2>2 DEF Generations
  <2>4. u # 0
    BY <1>4, <2>1 DEF Red, rb_node_color, RB_RED, RB_BLACK
  <2>5. u = rb_sibling(t, q) /\ u = t.child[g, Opp(Side(t, q))]
    BY <2>1, <2>2 DEF rb_uncle, rb_sibling, Generations, Parent
  <2>6. Side(t, q) \in Sides /\ Opp(Side(t, q)) \in Sides
    BY <1>1, <2>3, TwoSides, MapFields DEF Tree
  <2>7. u \in t.used /\ u \in Ptr
    <3>1. PICK w : w = t.child[g, Opp(Opp(Side(t, q)))]
      OBVIOUS
    <3>2. Kids(t, g, u, w)
      BY <1>1, <2>3, <2>5, <2>6, <3>1, Children
    <3>3. QED BY <2>4, <3>2 DEF Kids
  <2>8. t' = Paint(Paint(Paint(t, q, RB_BLACK), u, RB_BLACK), g, RB_RED)
    BY <1>4, <2>1 DEF insert3
  <2>9. PaintedThree(t, t', q, RB_BLACK, u, RB_BLACK, g, RB_RED)
    BY <1>1, <2>3, <2>7, <2>8, PaintThree
  <2>10. SameLinks(t, t')
    BY <2>9 DEF PaintedThree
  <2>11. QED BY <2>10, PaintMoves
<1>5. CASE ~(HasGrandparent(t, n) /\ Red(t, rb_uncle(t, n)))
  <2>1. t' = t
    BY <1>5 DEF insert3, Panic
  <2>2. QED BY <2>1, StayMoves
<1>6. QED BY <1>4, <1>5

\* rb_insert_case4 rotates.
LEMMA Insert4Moves ==
  ASSUME LinkInv, insert4
  PROVE  Moves(t, t')
<1>1. Tree(t) /\ Control(t) /\ pc = "insert4"
  BY DEF LinkInv, insert4
<1>2. n \in t.used
  BY <1>1 DEF Control, Inserting
<1>4. ASSUME HasGrandparent(t, n), NEW d \in Sides, Chain(t, n, Opp(d), d),
             NEW m, m = rb_rotate(t, Parent(n), d), t' = m
      PROVE  Moves(t, t')
  <2>1. PICK q, g, e, y : q = Parent(n) /\ g = rb_grandparent(t, n) /\ e = Side(t, q) /\ y = t.child[n, d]
    OBVIOUS
  <2>2. Generations(t, n, q, g)
    BY <1>1, <1>2, <1>4, <2>1, GenerationsOf DEF Parent
  <2>3. Around(t, q, d, g, e, n, y) /\ Turned(t, t, m, q, d, g, e, n, y)
    BY <1>1, <1>4, <2>1, <2>2, Insert4Turn
  <2>4. QED BY <1>1, <1>4, <2>3, TurnMoves
<1>5. ASSUME t' = t PROVE Moves(t, t')
  BY <1>5, StayMoves
<1>6. CASE HasGrandparent(t, n)
  BY <1>4, <1>5, <1>6 DEF insert4
<1>7. CASE ~HasGrandparent(t, n)
  BY <1>5, <1>7 DEF insert4, Panic
<1>8. QED BY <1>6, <1>7

\* rb_insert_case5 paints and rotates.
LEMMA Insert5Moves ==
  ASSUME LinkInv, insert5
  PROVE  Moves(t, t')
<1>1. Tree(t) /\ Control(t) /\ pc = "insert5"
  BY DEF LinkInv, insert5
<1>2. n \in t.used
  BY <1>1 DEF Control, Inserting
<1>4. CASE HasGrandparent(t, n) /\ ~(\A d \in Sides : ~Chain(t, n, d, d))
  <2>1. PICK q, g : q = Parent(n) /\ g = rb_grandparent(t, n)
    OBVIOUS
  <2>2. PICK d \in Sides : /\ Chain(t, n, d, d) /\ Return
                           /\ t' = rb_rotate(Paint(Paint(t, q, RB_BLACK), g, RB_RED), g, Opp(d))
    BY <1>4, <2>1 DEF insert5
  <2>3. PICK p, e, y, m1 : /\ p = t.parent[g] /\ e = Side(t, g) /\ y = t.child[q, Opp(d)]
                           /\ m1 = Paint(Paint(t, q, RB_BLACK), g, RB_RED)
    OBVIOUS
  <2>4. Generations(t, n, q, g)
    BY <1>1, <1>2, <1>4, <2>1, GenerationsOf DEF Parent
  <2>5. Around(t, g, Opp(d), p, e, q, y) /\ Turned(t, m1, t', g, Opp(d), p, e, q, y)
    BY <1>1, <2>2, <2>3, <2>4, Insert5Turn
  <2>6. QED BY <1>1, <2>5, TurnMoves
<1>5. CASE ~(HasGrandparent(t, n) /\ ~(\A d \in Sides : ~Chain(t, n, d, d)))
  <2>1. t' = t
    BY <1>5 DEF insert5, Panic
  <2>2. QED BY <2>1, StayMoves
<1>6. QED BY <1>4, <1>5

\* rb_delete_case2 paints and rotates.
LEMMA Delete2Moves ==
  ASSUME LinkInv, delete2
  PROVE  Moves(t, t')
<1>1. Tree(t) /\ Control(t) /\ pc = "delete2"
  BY DEF LinkInv, delete2
<1>2. (\E A \in SUBSET t.used : Way(t, victim, n, A)) /\ Parent(n) # 0
  BY <1>1, DeletingLinks DEF Deleting
<1>3. CASE Red(t, rb_sibling(t, n))
  <2>1. PICK A \in SUBSET t.used : Way(t, victim, n, A)
    BY <1>2
  <2>2. PICK q, d, s : q = Parent(n) /\ d = Side(t, n) /\ s = rb_sibling(t, n)
    OBVIOUS
  <2>3. Aside(t, victim, n, A, q, d, s)
    BY <1>1, <1>2, <2>1, <2>2, BesideTheWay DEF Parent
  <2>4. s # 0
    BY <1>3, <2>2 DEF Red, rb_node_color, RB_RED, RB_BLACK
  <2>5. PICK p, e, y, m1 : /\ p = t.parent[q] /\ e = Side(t, q) /\ y = t.child[s, d]
                           /\ m1 = Paint(Paint(t, q, RB_RED), s, RB_BLACK)
    OBVIOUS
  <2>6. t' = rb_rotate(m1, q, d)
    BY <1>3, <2>2, <2>5 DEF delete2
  <2>7. Around(t, q, d, p, e, s, y) /\ Turned(t, m1, t', q, d, p, e, s, y)
    BY <1>1, <2>3, <2>4, <2>5, <2>6, Delete2Turn
  <2>8. QED BY <1>1, <2>7, TurnMoves
<1>4. CASE ~Red(t, rb_sibling(t, n))
  <2>1. t' = t
    BY <1>4 DEF delete2
  <2>2. QED BY <2>1, StayMoves
<1>5. QED BY <1>3, <1>4

\* rb_delete_case3 and rb_delete_case4 paint.
LEMMA Delete3Moves ==
  ASSUME LinkInv, delete3
  PROVE  Moves(t, t')
<1>1. Tree(t) /\ Control(t) /\ pc = "delete3"
  BY DEF LinkInv, delete3
<1>2. (\E A \in SUBSET t.used : Way(t, victim, n, A)) /\ Parent(n) # 0
  BY <1>1, DeletingLinks DEF Deleting
<1>3. PICK A \in SUBSET t.used : Way(t, victim, n, A)
  BY <1>2
<1>4. PICK q, d, s : q = Parent(n) /\ d = Side(t, n) /\ s = rb_sibling(t, n)
  OBVIOUS
<1>5. Aside(t, victim, n, A, q, d, s)
  BY <1>1, <1>2, <1>3, <1>4, BesideTheWay DEF Parent
<1>6. q \in t.used /\ q \in Ptr /\ s \in Ptr /\ (s # 0 => s \in t.used)
  BY <1>5 DEF Aside
<1>7. PICK m1 : m1 = Paint(t, s, RB_RED)
  OBVIOUS
<1>8. Tree(m1) /\ SameLinks(t, m1)
  BY <1>1, <1>6, <1>7, PaintKeepsTree DEF Painted
<1>10. CASE AllBlack /\ Black(t, Parent(n))
  <2>1. t' = m1
    BY <1>4, <1>7, <1>10 DEF delete3, Red, Black, RB_RED, RB_BLACK
  <2>2. QED BY <1>8, <2>1, PaintMoves
<1>11. CASE AllBlack /\ ~Black(t, Parent(n))
  <2>1. t' = Paint(m1, q, RB_BLACK)
    BY <1>4, <1>7, <1>11 DEF delete3
  <2>2. PaintedTwo(t, t', s, RB_RED, q, RB_BLACK)
    BY <1>1, <1>6, <1>7, <2>1, PaintTwo
  <2>3. SameLinks(t, t')
    BY <2>2 DEF PaintedTwo
  <2>4. QED BY <2>3, PaintMoves
<1>12. CASE ~AllBlack
  <2>1. t' = t
    BY <1>12 DEF delete3
  <2>2. QED BY <2>1, StayMoves
<1>13. QED BY <1>10, <1>11, <1>12

\* rb_delete_case5 and rb_delete_case6 paint and rotate.
LEMMA Delete5Moves ==
  ASSUME LinkInv, delete5
  PROVE  Moves(t, t')
<1>1. Tree(t) /\ Control(t) /\ pc = "delete5"
  BY DEF LinkInv, delete5
<1>2. (\E A \in SUBSET t.used : Way(t, victim, n, A)) /\ Parent(n) # 0
  BY <1>1, DeletingLinks DEF Deleting
<1>3. PICK A \in SUBSET t.used : Way(t, victim, n, A)
  BY <1>2
<1>4. PICK q, d, s : q = Parent(n) /\ d = Side(t, n) /\ s = rb_sibling(t, n)
  OBVIOUS
<1>5. Aside(t, victim, n, A, q, d, s)
  BY <1>1, <1>2, <1>3, <1>4, BesideTheWay DEF Parent
<1>6. PICK a : a = t.child[s, d]
  OBVIOUS
<1>7. CASE Black(t, s) /\ Red(t, a) /\ Black(t, t.child[s, Opp(d)])
  <2>1. a # 0
    BY <1>7, ColorOf
  <2>2. s # 0
    <3>1. t.child[0, d] = 0
      BY <1>1, <1>5, Addresses, MapFields, ZenonT(30) DEF Aside, Tree, Clean
    <3>2. QED BY <1>6, <2>1, <3>1
  <2>3. PICK e, y, m1 : /\ e = Side(t, s) /\ y = t.child[a, Opp(d)]
                        /\ m1 = Paint(Paint(t, s, RB_RED), a, RB_BLACK)
    OBVIOUS
  <2>4. t' = rb_rotate(m1, s, Opp(d))
    BY <1>4, <1>6, <1>7, <2>3 DEF delete5
  <2>5. Around(t, s, Opp(d), q, e, a, y) /\ Turned(t, m1, t', s, Opp(d), q, e, a, y)
    BY <1>1, <1>5, <1>6, <2>1, <2>2, <2>3, <2>4, Delete5Turn
  <2>6. QED BY <1>1, <2>5, TurnMoves
<1>8. CASE ~(Black(t, s) /\ Red(t, a) /\ Black(t, t.child[s, Opp(d)]))
  <2>1. t' = t
    BY <1>4, <1>6, <1>8 DEF delete5
  <2>2. QED BY <2>1, StayMoves
<1>9. QED BY <1>7, <1>8

\* rb_delete_case6 paints and turns the parent.
LEMMA Delete6Moves ==
  ASSUME LinkInv, delete6
  PROVE  Moves(t, t')
<1>1. Tree(t) /\ Control(t) /\ pc = "delete6"
  BY DEF LinkInv, delete6
<1>2. (\E A \in SUBSET t.used : Way(t, victim, n, A)) /\ Parent(n) # 0
  BY <1>1, DeletingLinks DEF Deleting
<1>3. PICK A \in SUBSET t.used : Way(t, victim, n, A)
  BY <1>2
<1>4. PICK q, d, s : q = Parent(n) /\ d = Side(t, n) /\ s = rb_sibling(t, n)
  OBVIOUS
<1>5. Aside(t, victim, n, A, q, d, s)
  BY <1>1, <1>2, <1>3, <1>4, BesideTheWay DEF Parent
<1>6. PICK w : w = t.child[s, Opp(d)]
  OBVIOUS
<1>7. CASE ~Black(t, w)
  <2>1. w # 0
    BY <1>7 DEF Black, rb_node_color
  <2>2. s # 0
    <3>1. t.child[0, Opp(d)] = 0
      BY <1>1, <1>5, Addresses, MapFields, ZenonT(30) DEF Aside, Tree, Clean
    <3>2. QED BY <1>6, <2>1, <3>1
  <2>3. PICK p, e, y, c, m1 : /\ p = t.parent[q] /\ e = Side(t, q) /\ y = t.child[s, d] /\ c = t.color[q]
                              /\ m1 = Paint(Paint(Paint(t, s, c), q, RB_BLACK), w, RB_BLACK)
    OBVIOUS
  <2>4. t' = rb_rotate(m1, q, d)
    BY <1>4, <1>6, <1>7, <2>3 DEF delete6
  <2>5. Around(t, q, d, p, e, s, y) /\ Turned(t, m1, t', q, d, p, e, s, y)
    BY <1>1, <1>5, <1>6, <2>1, <2>2, <2>3, <2>4, Delete6Turn
  <2>6. QED BY <1>1, <2>5, TurnMoves
<1>8. CASE Black(t, w)
  <2>1. t' = t
    BY <1>4, <1>6, <1>8 DEF delete6, Panic
  <2>2. QED BY <2>1, StayMoves
<1>9. QED BY <1>7, <1>8

\* Every routine but the last of rb_rbtree_delete moves nodes only.
LEMMA StepsMove ==
  ASSUME LinkInv, Steps, pc # "unlink"
  PROVE  Moves(t, t') /\ UNCHANGED <<victim, result>>
<1>1. delete1 => t' = t
  BY DEF delete1
<1>2. delete1 => Moves(t, t')
  BY <1>1, StayMoves
<1>3. ~unlink
  BY DEF unlink
<1>4. Moves(t, t')
  BY <1>2, <1>3, Insert1Moves, Insert3Moves, Insert4Moves, Insert5Moves,
     Delete2Moves, Delete3Moves, Delete5Moves, Delete6Moves DEF Steps
<1>5. UNCHANGED <<victim, result>>
  BY <1>3 DEF Steps, insert1, insert3, insert4, insert5, delete1, delete2, delete3, delete5,
              delete6, Rebalances
<1>6. QED BY <1>4, <1>5

----------------------------------------------------------------------------
(* The contents of the map *)

\* What RbMap!Contents is of the map t.
ContentsOf(m) ==
  LET live == {x \in m.used : x # 0}
  IN  [k \in {m.key[x] : x \in live} |-> m.value[CHOOSE x \in live : m.key[x] = k]]

\* C maps the keys of the nodes to their values.
Holds(m, C) ==
  /\ C = [k \in DOMAIN C |-> C[k]] /\ DOMAIN C = {m.key[z] : z \in m.used}
  /\ \A z \in m.used : C[m.key[z]] = m.value[z]

\* The contents do,
LEMMA ContentsHold ==
  ASSUME NEW m, Tree(m), Distinct(m)
  PROVE  Holds(m, ContentsOf(m))
<1>1. 0 \notin m.used
  BY Addresses, MapFields DEF Tree
<1>2. {x \in m.used : x # 0} = m.used
  BY <1>1
<1>3. PICK C : C = ContentsOf(m)
  OBVIOUS
<1>4. C = [k \in {m.key[x] : x \in m.used} |-> m.value[CHOOSE x \in m.used : m.key[x] = k]]
  <2> DEFINE Pick(S) == [k \in {m.key[x] : x \in S} |-> m.value[CHOOSE x \in S : m.key[x] = k]]
  <2>1. C = Pick({x \in m.used : x # 0})
    BY <1>3 DEF ContentsOf
  <2>2. C = Pick(m.used)
    <3> HIDE DEF Pick
    <3> QED BY <1>2, <2>1
  <2>3. QED BY <2>2
<1>5. ASSUME NEW z \in m.used PROVE C[m.key[z]] = m.value[z]
  <2>1. PICK k : k = m.key[z]
    OBVIOUS
  <2>2. k \in {m.key[x] : x \in m.used}
    BY <2>1
  <2>3. PICK c : c = CHOOSE x \in m.used : m.key[x] = k
    OBVIOUS
  <2>4. c \in m.used /\ m.key[c] = k
    BY <2>1, <2>3
  <2>5. c = z
    BY <2>1, <2>4 DEF Distinct
  <2>6. C[k] = m.value[c]
    BY <1>4, <2>2, <2>3
  <2>7. QED BY <2>1, <2>5, <2>6
<1>6. DOMAIN C = {m.key[x] : x \in m.used} /\ C = [k \in DOMAIN C |-> C[k]]
  BY <1>4
<1>7. Holds(m, C)
  BY <1>5, <1>6 DEF Holds
<1>8. QED BY <1>3, <1>7

\* and nothing else does.
LEMMA HoldsOne ==
  ASSUME NEW m, NEW C, Holds(m, C), NEW D, Holds(m, D)
  PROVE  C = D
<1>1. C = [k \in DOMAIN C |-> C[k]] /\ D = [k \in DOMAIN D |-> D[k]] /\ DOMAIN C = DOMAIN D
  BY DEF Holds
<1>2. ASSUME NEW k \in DOMAIN C PROVE C[k] = D[k]
  <2>1. PICK z \in m.used : m.key[z] = k
    BY DEF Holds
  <2>2. C[m.key[z]] = m.value[z] /\ D[m.key[z]] = m.value[z]
    BY DEF Holds
  <2>3. QED BY <2>1, <2>2
<1>3. QED BY <1>1, <1>2

\* What map_set and map_erase are to do.
With(C, k, v) == [j \in DOMAIN C \union {k} |-> IF j = k THEN v ELSE C[j]]
Without(C, k) == [j \in DOMAIN C \ {k} |-> C[j]]

\* A set of a key that is there does the first,
LEMMA OverwriteHolds ==
  ASSUME NEW m, Tree(m), Distinct(m), NEW k, NEW v, NEW x \in m.used, m.key[x] = k,
         NEW m2, Revalues(m, m2, x, v), NEW C, Holds(m, C)
  PROVE  Holds(m2, With(C, k, v))
<1>1. m2.used = m.used /\ m.used \subseteq Ptr
  BY Addresses, MapFields DEF Revalues, SameShape, Tree
<1>2. \A z \in m.used : m2.key[z] = m.key[z] /\ m2.value[z] = IF z = x THEN v ELSE m.value[z]
  BY <1>1 DEF Revalues
<1>3. PICK D : D = With(C, k, v)
  OBVIOUS
<1>4. D = [j \in DOMAIN D |-> D[j]] /\ DOMAIN D = DOMAIN C \union {k}
  BY <1>3 DEF With
<1>5. \A j \in DOMAIN D : D[j] = IF j = k THEN v ELSE C[j]
  BY <1>3 DEF With
<1>6. DOMAIN C = {m.key[z] : z \in m.used} /\ \A z \in m.used : C[m.key[z]] = m.value[z]
  BY DEF Holds
<1>7. DOMAIN D = {m2.key[z] : z \in m2.used}
  <2>1. {m2.key[z] : z \in m2.used} = {m.key[z] : z \in m.used}
    BY <1>1, <1>2
  <2>2. k \in DOMAIN C
    BY <1>6
  <2>3. QED BY <1>4, <1>6, <2>1, <2>2
<1>8. ASSUME NEW z \in m.used PROVE D[m2.key[z]] = m2.value[z]
  <2>1. m.key[z] \in DOMAIN D /\ m2.key[z] = m.key[z]
    BY <1>1, <1>2, <1>7
  <2>2. D[m.key[z]] = IF m.key[z] = k THEN v ELSE C[m.key[z]]
    BY <1>5, <2>1
  <2>3. m.key[z] = k <=> z = x
    BY DEF Distinct
  <2>4. QED BY <1>2, <1>6, <2>1, <2>2, <2>3
<1>9. Holds(m2, D)
  BY <1>1, <1>4, <1>7, <1>8 DEF Holds
<1>10. QED BY <1>3, <1>9

\* and so does one of a new key;
LEMMA GrowthHolds ==
  ASSUME NEW m, Tree(m), NEW x, x \notin m.used, x \in Ptr, NEW k, NEW v, \A w \in m.used : m.key[w] # k,
         NEW p, NEW f, NEW m2, Grows(m, m2, x, k, v, p, f), NEW C, Holds(m, C)
  PROVE  Holds(m2, With(C, k, v))
<1>1. m2.used = m.used \union {x} /\ m.used \subseteq Ptr
  BY Addresses, MapFields DEF Grows, Tree
<1>2. /\ m2.key[x] = k /\ m2.value[x] = v
      /\ \A z \in m.used : m2.key[z] = m.key[z] /\ m2.value[z] = m.value[z]
  <2>1. \A z \in Ptr : /\ m2.key[z] = (IF z = x THEN k ELSE m.key[z])
                       /\ m2.value[z] = (IF z = x THEN v ELSE m.value[z])
    BY DEF Grows
  <2>2. QED BY <1>1, <2>1
<1>3. PICK D : D = With(C, k, v)
  OBVIOUS
<1>4. D = [j \in DOMAIN D |-> D[j]] /\ DOMAIN D = DOMAIN C \union {k}
  BY <1>3 DEF With
<1>5. \A j \in DOMAIN D : D[j] = IF j = k THEN v ELSE C[j]
  BY <1>3 DEF With
<1>6. DOMAIN C = {m.key[z] : z \in m.used} /\ \A z \in m.used : C[m.key[z]] = m.value[z]
  BY DEF Holds
<1>7. DOMAIN D = {m2.key[z] : z \in m2.used}
  BY <1>1, <1>2, <1>4, <1>6
<1>8. ASSUME NEW z \in m2.used PROVE D[m2.key[z]] = m2.value[z]
  <2>1. CASE z = x
    BY <1>2, <1>4, <1>5, <2>1
  <2>2. CASE z # x
    <3>1. z \in m.used /\ m.key[z] # k
      BY <1>1, <2>2
    <3>2. m.key[z] \in DOMAIN D
      BY <1>4, <1>6, <3>1
    <3>3. D[m.key[z]] = C[m.key[z]]
      BY <1>5, <3>1, <3>2
    <3>4. QED BY <1>2, <1>6, <3>1, <3>3
  <2>3. QED BY <2>1, <2>2
<1>9. Holds(m2, D)
  BY <1>4, <1>7, <1>8 DEF Holds
<1>10. QED BY <1>3, <1>9

\* the end of rb_rbtree_delete does the second;
LEMMA ShrinkingHolds ==
  ASSUME NEW m, Tree(m), Distinct(m), NEW v \in m.used, NEW k, k = m.key[v], NEW c, NEW p, NEW e,
         NEW m2, Shrinks(m, m2, v, c, p, e), NEW C, Holds(m, C)
  PROVE  Holds(m2, Without(C, k))
<1>1. m2.used = m.used \ {v} /\ m.used \subseteq Ptr
  BY Addresses, MapFields DEF Shrinks, Tree
<1>2. \A z \in m2.used : m2.key[z] = m.key[z] /\ m2.value[z] = m.value[z] /\ z \in m.used /\ z # v
  <2>1. \A z \in Ptr : /\ m2.key[z] = (IF z = v THEN 0 ELSE m.key[z])
                       /\ m2.value[z] = (IF z = v THEN 0 ELSE m.value[z])
    BY DEF Shrinks
  <2>2. QED BY <1>1, <2>1
<1>3. PICK D : D = Without(C, k)
  OBVIOUS
<1>4. D = [j \in DOMAIN D |-> D[j]] /\ DOMAIN D = DOMAIN C \ {k}
  BY <1>3 DEF Without
<1>5. \A j \in DOMAIN D : D[j] = C[j]
  BY <1>3 DEF Without
<1>6. DOMAIN C = {m.key[z] : z \in m.used} /\ \A z \in m.used : C[m.key[z]] = m.value[z]
  BY DEF Holds
<1>7. \A z \in m2.used : m.key[z] # k
  BY <1>2 DEF Distinct
<1>8. DOMAIN D = {m2.key[z] : z \in m2.used}
  <2>1. \A z \in m2.used : m2.key[z] \in DOMAIN D
    BY <1>2, <1>4, <1>6, <1>7
  <2>2. ASSUME NEW j \in DOMAIN D PROVE \E z \in m2.used : m2.key[z] = j
    <3>1. PICK z \in m.used : m.key[z] = j
      BY <1>4, <1>6, <2>2
    <3>2. z # v
      BY <1>4, <2>2, <3>1
    <3>3. QED BY <1>1, <1>2, <3>1, <3>2
  <2>3. QED BY <2>1, <2>2
<1>9. ASSUME NEW z \in m2.used PROVE D[m2.key[z]] = m2.value[z]
  <2>1. m.key[z] \in DOMAIN D /\ m2.key[z] = m.key[z]
    BY <1>2, <1>8
  <2>2. D[m.key[z]] = C[m.key[z]]
    BY <1>5, <2>1
  <2>3. QED BY <1>2, <1>6, <2>1, <2>2
<1>10. Holds(m2, D)
  BY <1>4, <1>8, <1>9 DEF Holds
<1>11. QED BY <1>3, <1>10

\* the trade of two nodes changes nothing.
LEMMA TradeHolds ==
  ASSUME NEW m, Tree(m), NEW x \in m.used, NEW y \in m.used, NEW m2, Trades(m, m2, x, y),
         NEW C, Holds(m, C)
  PROVE  Holds(m2, C)
<1>1. m2.used = m.used /\ m.used \subseteq Ptr
  BY Addresses, MapFields DEF Trades, SameShape, Tree
<1>2. ASSUME NEW z \in m.used
      PROVE  \E w \in m.used : m2.key[z] = m.key[w] /\ m2.value[z] = m.value[w]
  BY <1>1 DEF Trades
<1>3. ASSUME NEW w \in m.used PROVE \E z \in m.used : m2.key[z] = m.key[w]
  <2>1. m2.key[x] = m.key[y] /\ m2.key[y] = m.key[x]
    BY <1>1 DEF Trades
  <2>2. w # x /\ w # y => m2.key[w] = m.key[w]
    BY <1>1 DEF Trades
  <2>3. QED BY <2>1, <2>2
<1>4. DOMAIN C = {m.key[z] : z \in m.used} /\ \A z \in m.used : C[m.key[z]] = m.value[z]
  BY DEF Holds
<1>5. DOMAIN C = {m2.key[z] : z \in m2.used}
  <2>1. ASSUME NEW j \in DOMAIN C PROVE \E z \in m2.used : m2.key[z] = j
    <3>1. PICK w \in m.used : m.key[w] = j
      BY <1>4, <2>1
    <3>2. QED BY <1>1, <1>3, <3>1
  <2>2. ASSUME NEW z \in m2.used PROVE m2.key[z] \in DOMAIN C
    <3>1. PICK w \in m.used : m2.key[z] = m.key[w]
      BY <1>1, <1>2
    <3>2. QED BY <1>4, <3>1
  <2>3. QED BY <2>1, <2>2
<1>6. ASSUME NEW z \in m.used PROVE C[m2.key[z]] = m2.value[z]
  BY <1>2, <1>4
<1>7. QED BY <1>1, <1>5, <1>6 DEF Holds

\* It leaves the keys different,
LEMMA TradeDistinct ==
  ASSUME NEW m, Tree(m), Distinct(m), NEW x \in m.used, NEW y \in m.used, NEW m2, Trades(m, m2, x, y)
  PROVE  Distinct(m2)
<1>1. m2.used = m.used /\ m.used \subseteq Ptr
  BY Addresses, MapFields DEF Trades, SameShape, Tree
<1>2. PICK w : w = [z \in m.used |-> IF z = x THEN y ELSE IF z = y THEN x ELSE z]
  OBVIOUS
<1>3. \A z \in m.used : w[z] \in m.used /\ m2.key[z] = m.key[w[z]]
  BY <1>1, <1>2 DEF Trades
<1>4. \A a, c \in m.used : w[a] = w[c] => a = c
  BY <1>2
<1>5. QED BY <1>1, <1>3, <1>4 DEF Distinct

\* as does every step that moves nodes only.
LEMMA MovesHold ==
  ASSUME NEW m, NEW m2, Moves(m, m2)
  PROVE  /\ ContentsOf(m2) = ContentsOf(m) /\ (Distinct(m) => Distinct(m2))
         /\ \A rank, v : Agrees(m, rank, v) => Agrees(m2, rank, v)
BY DEF Moves, ContentsOf, Distinct, Agrees

----------------------------------------------------------------------------
(* The walk in the order of the keys *)

\* The keys of the list rise.
KeysRise(m, s) == \A i, j \in 1 .. Len(s) : i < j => m.key[s[i]] < m.key[s[j]]

\* How a node lies between its left and its right part in a list (_map_foreach).
Three(s, a, x, b) ==
  /\ s \in Seq(Ptr) /\ Len(a) \in Nat /\ Len(b) \in Nat /\ Len(s) = Len(a) + 1 + Len(b)
  /\ \A i \in 1 .. Len(a) : s[i] = a[i]
  /\ s[Len(a) + 1] = x
  /\ \A i \in 1 .. Len(b) : s[Len(a) + 1 + i] = b[i]

\* The concatenation does.
LEMMA ThreeParts ==
  ASSUME NEW a \in Seq(Ptr), NEW x \in Ptr, NEW b \in Seq(Ptr), NEW s, s = a \o <<x>> \o b
  PROVE  Three(s, a, x, b)
BY DEF Three

\* Where in the list a part is: 1 the left one, 2 the node, 3 the right one.
Part(s, a, x, b, i, p, u) ==
  \/ p = 1 /\ i \in 1 .. Len(a) /\ u = a[i] /\ u \in Members(a)
  \/ p = 2 /\ i = Len(a) + 1 /\ u = x
  \/ p = 3 /\ i - (Len(a) + 1) \in 1 .. Len(b) /\ u = b[i - (Len(a) + 1)] /\ u \in Members(b)

\* Every place is in one of the parts.
LEMMA PartOf ==
  ASSUME NEW s, NEW a \in Seq(Ptr), NEW x, NEW b \in Seq(Ptr), Three(s, a, x, b), NEW i \in 1 .. Len(s)
  PROVE  \E p \in {1, 2, 3} : Part(s, a, x, b, i, p, s[i])
<1>1. /\ Len(a) \in Nat /\ Len(b) \in Nat /\ Len(s) = Len(a) + 1 + Len(b)
      /\ \A j \in 1 .. Len(a) : s[j] = a[j]
      /\ s[Len(a) + 1] = x
      /\ \A j \in 1 .. Len(b) : s[Len(a) + 1 + j] = b[j]
  BY DEF Three
<1>2. DOMAIN a = 1 .. Len(a) /\ DOMAIN b = 1 .. Len(b)
  OBVIOUS
<1>3. CASE i <= Len(a)
  <2>1. i \in 1 .. Len(a)
    BY <1>1, <1>3
  <2>2. s[i] = a[i] /\ a[i] \in Members(a)
    BY <1>1, <1>2, <2>1 DEF Members
  <2>3. QED BY <2>1, <2>2 DEF Part
<1>4. CASE i = Len(a) + 1
  BY <1>1, <1>4 DEF Part
<1>5. CASE i > Len(a) + 1
  <2>1. PICK j : j = i - (Len(a) + 1)
    OBVIOUS
  <2>2. j \in 1 .. Len(b) /\ i = Len(a) + 1 + j
    BY <1>1, <1>5, <2>1
  <2>3. s[i] = b[j] /\ b[j] \in Members(b)
    BY <1>1, <1>2, <2>2 DEF Members
  <2>4. QED BY <2>1, <2>2, <2>3 DEF Part
<1>6. QED BY <1>1, <1>3, <1>4, <1>5

\* Its keys rise if those of the parts do, and the key of the node is between them.
LEMMA RisingOfThree ==
  ASSUME NEW m \in Maps, NEW a \in Seq(Ptr), NEW x \in Ptr, NEW b \in Seq(Ptr), NEW s, Three(s, a, x, b),
         KeysRise(m, a), KeysRise(m, b), \A w \in Members(a) : m.key[w] < m.key[x],
         \A w \in Members(b) : m.key[x] < m.key[w]
  PROVE  KeysRise(m, s)
<1>1. ASSUME NEW i \in 1 .. Len(s), NEW j \in 1 .. Len(s), i < j
      PROVE  m.key[s[i]] < m.key[s[j]]
  <2>1. PICK u, w : u = s[i] /\ w = s[j]
    OBVIOUS
  <2>2. PICK p \in {1, 2, 3}, q \in {1, 2, 3} : Part(s, a, x, b, i, p, u) /\ Part(s, a, x, b, j, q, w)
    BY <2>1, PartOf
  <2>3. Len(a) \in Nat /\ Len(b) \in Nat /\ i \in Int /\ j \in Int
    BY DEF Three
  <2>4. u \in Ptr /\ w \in Ptr
    <3>1. s \in Seq(Ptr)
      BY DEF Three
    <3>2. QED BY <2>1, <3>1
  <2>5. m.key[u] \in Int /\ m.key[w] \in Int /\ m.key[x] \in Int
    BY <2>4, MapFields
  <2>6. CASE p = 1 /\ q = 1
    <3>1. i \in 1 .. Len(a) /\ j \in 1 .. Len(a) /\ u = a[i] /\ w = a[j]
      BY <2>2, <2>6 DEF Part
    <3>2. QED BY <1>1, <2>1, <3>1 DEF KeysRise
  <2>7. CASE p = 3 /\ q = 3
    <3>1. PICK k, l : k = i - (Len(a) + 1) /\ l = j - (Len(a) + 1)
      OBVIOUS
    <3>2. k \in 1 .. Len(b) /\ l \in 1 .. Len(b) /\ u = b[k] /\ w = b[l]
      BY <2>2, <2>7, <3>1 DEF Part
    <3>3. k < l
      BY <1>1, <2>3, <3>1
    <3>4. QED BY <2>1, <3>2, <3>3 DEF KeysRise
  <2>8. CASE p = 1 /\ q = 2
    BY <2>1, <2>2, <2>8 DEF Part
  <2>9. CASE p = 2 /\ q = 3
    BY <2>1, <2>2, <2>9 DEF Part
  <2>10. CASE p = 1 /\ q = 3
    <3>1. m.key[u] < m.key[x] /\ m.key[x] < m.key[w]
      BY <2>2, <2>10 DEF Part
    <3>2. QED BY <2>1, <2>5, <3>1, Together
  <2>11. p <= q
    <3>1. p = 1 => i <= Len(a)
      BY <2>2, <2>3 DEF Part
    <3>2. p = 2 => i = Len(a) + 1
      BY <2>2 DEF Part
    <3>3. p = 3 => i > Len(a) + 1
      BY <2>2, <2>3 DEF Part
    <3>4. q = 1 => j <= Len(a)
      BY <2>2, <2>3 DEF Part
    <3>5. q = 2 => j = Len(a) + 1
      BY <2>2 DEF Part
    <3>6. QED BY <1>1, <2>3, <3>1, <3>2, <3>3, <3>4, <3>5
  <2>12. ~(p = 2 /\ q = 2)
    <3>1. p = 2 => i = Len(a) + 1
      BY <2>2 DEF Part
    <3>2. q = 2 => j = Len(a) + 1
      BY <2>2 DEF Part
    <3>3. QED BY <1>1, <2>3, <3>1, <3>2
  <2>13. \/ p = 1 /\ q = 1
         \/ p = 1 /\ q = 2
         \/ p = 1 /\ q = 3
         \/ p = 2 /\ q = 3
         \/ p = 3 /\ q = 3
    BY <2>11, <2>12
  <2>14. QED BY <2>6, <2>7, <2>8, <2>9, <2>10, <2>13
<1>2. QED BY <1>1 DEF KeysRise

\* The key is between the bounds of z, and before that of z on its left side, behind
\* it on its right.
Under(m, bound, z, f, k) ==
  Between(m, bound, z, k) /\ (IF f = "left" THEN k < m.key[z] ELSE m.key[z] < k)

\* What is between the bounds of a child is between those of the node, on the side
\* of the child.
LEMMA BetweenUnder ==
  ASSUME NEW m, Tree(m), NEW bound, KeysSorted(m, bound), NEW z \in m.used, NEW f \in Sides,
         NEW u, u = m.child[z, f], u # 0, NEW k \in Int, Between(m, bound, u, k)
  PROVE  Under(m, bound, z, f, k)
<1>1. Within(m, m.key, bound, z, f, u)
  BY ChildBounds DEF KeysSorted
<1>2. u \in m.used /\ bound[u, f] = bound[z, f] /\ bound[u, Opp(f)] = z
  BY <1>1 DEF Within
<1>3. Hangs(m, u, z, f)
  <2>1. z \in Ptr
    BY UsedNode
  <2>2. PICK w : w = m.child[z, Opp(f)]
    OBVIOUS
  <2>3. Kids(m, z, u, w)
    BY <2>2, Children
  <2>4. QED BY <2>1, <2>3 DEF Hangs, Kids
<1>4. PICK g : g = Side(m, u)
  OBVIOUS
<1>5. Hangs(m, u, z, g) /\ z = m.parent[u] /\ z # 0
  <2>1. Hangs(m, u, z, g)
    BY <1>3, <1>4, SideFinds
  <2>2. QED BY <2>1, UsedNode DEF Hangs
<1>6. Upwards(m, bound, z, g, k)
  BY <1>2, <1>4, <1>5, BetweenAbove
<1>7. Between(m, bound, z, k)
  BY <1>6 DEF Upwards
<1>8. ASSUME f = "left" PROVE k < m.key[z]
  <2>1. bound[u, "right"] = z
    BY <1>2, <1>8 DEF Opp
  <2>2. bound[u, "right"] # 0 => k < m.key[bound[u, "right"]]
    BY DEF Between
  <2>3. QED BY <1>5, <2>1, <2>2
<1>9. ASSUME f # "left" PROVE m.key[z] < k
  <2>1. bound[u, "left"] = z
    BY <1>2, <1>9 DEF Opp
  <2>2. bound[u, "left"] # 0 => m.key[bound[u, "left"]] < k
    BY DEF Between
  <2>3. QED BY <1>5, <2>1, <2>2
<1>10. (f = "left" => k < m.key[z]) /\ (f # "left" => m.key[z] < k)
  BY <1>8, <1>9
<1>11. QED BY <1>7, <1>10 DEF Under

\* What a walk lists in order.
Lists(m, bound, s, z) ==
  /\ s \in Seq(Ptr) /\ Members(s) \subseteq m.used /\ KeysRise(m, s)
  /\ \A w \in Members(s) : Between(m, bound, z, m.key[w])

\* Every walk, of whatever depth, lists nodes below its own in the order of the keys.
LEMMA WalkRises ==
  ASSUME NEW m, Tree(m), NEW bound, KeysSorted(m, bound), NEW W, Walks(m, W)
  PROVE  \A d \in 0 .. MaxNodes, z \in m.used : Lists(m, bound, W[d][z], z)
<1>1. /\ m \in Maps /\ MaxNodes \in Nat /\ m.used \subseteq Ptr /\ 0 \notin m.used /\ 0 \in Ptr
      /\ "left" \in Sides /\ "right" \in Sides /\ Opp("left") = "right"
      /\ \A z \in m.used : m.key[z] \in Int
  BY Addresses, MapFields DEF Tree, Sides, Opp
<1>2. /\ W \in [0 .. MaxNodes -> [Ptr -> Seq(Ptr)]]
      /\ \A x \in Ptr : W[0][x] = <<>>
      /\ \A d \in 1 .. MaxNodes, x \in Ptr :
           W[d][x] = IF x = 0 THEN <<>>
                     ELSE W[d - 1][m.child[x, "left"]] \o <<x>> \o W[d - 1][m.child[x, "right"]]
  BY DEF Walks
<1>3. PICK none : none = <<>>
  OBVIOUS
<1>9. none \in Seq(Ptr) /\ Members(none) = {} /\ KeysRise(m, none)
  BY <1>3 DEF Members, KeysRise
<1>10. \A z : Lists(m, bound, none, z)
  BY <1>9 DEF Lists
<1>4. \A d \in 0 .. MaxNodes : W[d][0] = <<>>
  <2>1. ASSUME NEW d \in 0 .. MaxNodes PROVE W[d][0] = <<>>
    <3>1. d = 0 \/ d \in 1 .. MaxNodes
      BY <1>1
    <3>2. QED BY <1>1, <1>2, <3>1
  <2>2. QED BY <2>1
<1> DEFINE S == {d \in Nat : d <= MaxNodes => \A z \in m.used : Lists(m, bound, W[d][z], z)}
<1>5. 0 \in S
  BY <1>1, <1>2, <1>3, <1>10
<1>6. ASSUME NEW c \in Nat, c \in S PROVE c + 1 \in S
  <2>1. SUFFICES ASSUME c + 1 <= MaxNodes, NEW z \in m.used PROVE Lists(m, bound, W[c + 1][z], z)
    OBVIOUS
  <2>2. c + 1 \in 1 .. MaxNodes /\ (c + 1) - 1 = c /\ c <= MaxNodes /\ c \in 0 .. MaxNodes
    BY <1>1, <2>1
  <2>3. \A x \in m.used : Lists(m, bound, W[c][x], x)
    BY <1>6, <2>2
  <2>4. z \in Ptr /\ z # 0
    BY <1>1
  <2>5. PICK l, r : l = m.child[z, "left"] /\ r = m.child[z, "right"]
    OBVIOUS
  <2>6. Kids(m, z, l, r)
    BY <1>1, <2>5, Children
  <2>7. l \in Ptr /\ r \in Ptr /\ (l # 0 => l \in m.used) /\ (r # 0 => r \in m.used)
    BY <2>6 DEF Kids
  <2>8. PICK a, b, s : a = W[c][l] /\ b = W[c][r] /\ s = W[c + 1][z]
    OBVIOUS
  <2>9. s = a \o <<z>> \o b
    BY <1>2, <2>2, <2>4, <2>5, <2>8
  <2>10. a \in Seq(Ptr) /\ Members(a) \subseteq m.used /\ KeysRise(m, a)
    <3>1. CASE l = 0
      <4>1. a = none
        BY <1>3, <1>4, <2>2, <2>8, <3>1
      <4>2. QED BY <1>9, <4>1
    <3>2. CASE l # 0
      BY <2>3, <2>7, <2>8, <3>2 DEF Lists
    <3>3. QED BY <3>1, <3>2
  <2>11. b \in Seq(Ptr) /\ Members(b) \subseteq m.used /\ KeysRise(m, b)
    <3>1. CASE r = 0
      <4>1. b = none
        BY <1>3, <1>4, <2>2, <2>8, <3>1
      <4>2. QED BY <1>9, <4>1
    <3>2. CASE r # 0
      BY <2>3, <2>7, <2>8, <3>2 DEF Lists
    <3>3. QED BY <3>1, <3>2
  <2>12. ASSUME NEW w \in Members(a) PROVE Between(m, bound, z, m.key[w]) /\ m.key[w] < m.key[z]
    <3>1. l # 0
      <4>1. l = 0 => a = none
        BY <1>3, <1>4, <2>2, <2>8
      <4>2. QED BY <1>9, <4>1
    <3>2. w \in m.used /\ Between(m, bound, l, m.key[w])
      BY <2>3, <2>7, <2>8, <3>1 DEF Lists
    <3>3. PICK k \in Int : k = m.key[w]
      BY <1>1, <3>2
    <3>4. Between(m, bound, l, k)
      BY <3>2, <3>3
    <3>5. Under(m, bound, z, "left", k)
      BY <1>1, <2>5, <3>1, <3>4, BetweenUnder
    <3>6. QED BY <3>3, <3>5 DEF Under
  <2>13. ASSUME NEW w \in Members(b) PROVE Between(m, bound, z, m.key[w]) /\ m.key[z] < m.key[w]
    <3>1. r # 0
      <4>1. r = 0 => b = none
        BY <1>3, <1>4, <2>2, <2>8
      <4>2. QED BY <1>9, <4>1
    <3>2. w \in m.used /\ Between(m, bound, r, m.key[w])
      BY <2>3, <2>7, <2>8, <3>1 DEF Lists
    <3>3. PICK k \in Int : k = m.key[w]
      BY <1>1, <3>2
    <3>4. Between(m, bound, r, k)
      BY <3>2, <3>3
    <3>5. Under(m, bound, z, "right", k)
      BY <1>1, <2>5, <3>1, <3>4, BetweenUnder
    <3>6. QED BY <3>3, <3>5 DEF Under
  <2>14. Between(m, bound, z, m.key[z])
    BY OwnPlace
  <2>15. Three(s, a, z, b)
    BY <2>4, <2>9, <2>10, <2>11, ThreeParts
  <2>16. KeysRise(m, s)
    BY <1>1, <2>4, <2>10, <2>11, <2>12, <2>13, <2>15, RisingOfThree
  <2>17. Members(s) = Members(a) \union {z} \union Members(b)
    BY <2>4, <2>9, <2>10, <2>11, MembersOfThree
  <2>18. Members(s) \subseteq m.used /\ \A w \in Members(s) : Between(m, bound, z, m.key[w])
    BY <2>10, <2>11, <2>12, <2>13, <2>14, <2>17
  <2>19. s \in Seq(Ptr)
    BY <2>15 DEF Three
  <2>20. QED BY <2>8, <2>16, <2>18, <2>19 DEF Lists
<1>7. \A d \in Nat : d \in S
  <2> HIDE DEF S
  <2> QED BY <1>5, <1>6, SetInduction
<1>8. QED BY <1>1, <1>7

\* A list whose keys rise has no node twice.
LEMMA RisingCounts ==
  ASSUME NEW m \in Maps, NEW s \in Seq(Ptr), KeysRise(m, s)
  PROVE  Cardinality(Members(s)) = Len(s)
<1>1. Len(s) \in Nat /\ DOMAIN s = 1 .. Len(s) /\ s \in [1 .. Len(s) -> Members(s)]
  BY LenProperties DEF Members
<1>2. ASSUME NEW i \in 1 .. Len(s), NEW j \in 1 .. Len(s), s[i] = s[j] PROVE i = j
  <2>1. s[i] \in Ptr /\ i \in Int /\ j \in Int
    OBVIOUS
  <2>2. m.key[s[i]] \in Int
    BY <2>1, MapFields
  <2>3. ~(i < j) /\ ~(j < i)
    BY <1>2, <2>2, NotBoth DEF KeysRise
  <2>4. QED BY <2>1, <2>3
<1>3. \A y \in Members(s) : \E i \in 1 .. Len(s) : s[i] = y
  BY <1>1 DEF Members
<1>4. s \in Bijection(1 .. Len(s), Members(s))
  BY <1>1, <1>2, <1>3 DEF Bijection, Injection, Surjection, IsInjective
<1>5. ExistsBijection(1 .. Len(s), Members(s))
  BY <1>4 DEF ExistsBijection
<1>6. QED BY <1>1, <1>5, FS_CountingElements

\* map_foreach visits every node once.
LEMMA VisitOnce ==
  ASSUME NEW m, Tree(m), NEW bound, KeysSorted(m, bound), NEW s, s = Visit(m)
  PROVE  s \in Seq(Ptr) /\ Members(s) = m.used /\ Cardinality(m.used) = Len(s)
<1>1. s \in Seq(Ptr) /\ Members(s) = m.used
  BY VisitReaches
<1>2. m \in Maps /\ MaxNodes \in 0 .. MaxNodes
  <2>1. MaxNodes \in Nat
    BY Addresses
  <2>2. QED BY <2>1 DEF Tree
<1>3. PICK W : W = Walking(m)
  OBVIOUS
<1>4. Walks(m, W)
  BY <1>2, <1>3, WalkingDef
<1>5. KeysRise(m, s)
  <2>1. CASE m.root = 0
    <3>1. Members(s) = {}
      BY <1>1, <2>1, EmptyTree
    <3>2. DOMAIN s = 1 .. Len(s) /\ Len(s) \in Nat
      BY <1>1
    <3>3. QED BY <3>1, <3>2 DEF KeysRise, Members
  <2>2. CASE m.root # 0
    <3>1. m.root \in m.used
      BY <2>2, TreeLinks DEF Ties
    <3>2. PICK z \in m.used : z = m.root
      BY <3>1
    <3>3. s = W[MaxNodes][z]
      BY <1>3, <3>2 DEF Visit
    <3>4. Lists(m, bound, s, z)
      BY <1>2, <1>4, <3>3, WalkRises
    <3>5. QED BY <3>4 DEF Lists
  <2>3. QED BY <2>1, <2>2
<1>6. Cardinality(Members(s)) = Len(s)
  BY <1>1, <1>2, <1>5, RisingCounts
<1>7. QED BY <1>1, <1>6

----------------------------------------------------------------------------
(* The map implements the abstract one *)

\* A rank orders the nodes, that of their keys but for the node v that leaves; the
\* size counts the nodes that stay.
Ordered(m, v) == \E rank, bound : Sorted(m, rank, bound) /\ Agrees(m, rank, v)
Counted(m, v) == m.size = Cardinality(m.used) - (IF v = 0 THEN 0 ELSE 1)
InOrder(m, v) == Ordered(m, v) /\ Distinct(m) /\ Counted(m, v)

\* The inductive invariant, beside LinkInv.
OrderInv == InOrder(t, victim) /\ (result.op = "panic" => pc = "panic")

\* There are finitely many nodes.
LEMMA UsedFinite ==
  ASSUME NEW m, Tree(m)
  PROVE  IsFiniteSet(m.used) /\ Cardinality(m.used) \in Nat
<1>1. IsFiniteSet(Nodes) /\ m.used \in SUBSET Nodes
  <2>1. 1 \in Int /\ MaxNodes \in Int
    BY Addresses
  <2>2. IsFiniteSet(Nodes)
    BY <2>1, FS_Interval DEF Nodes
  <2>3. QED BY <2>2, MapFields DEF Tree
<1>2. IsFiniteSet(m.used)
  BY <1>1, FS_Subset
<1>3. QED BY <1>2, FS_CardinalityType

\* The contents are what the nodes hold.
LEMMA ContentsAre ==
  ASSUME NEW m, Tree(m), Distinct(m), NEW C, Holds(m, C)
  PROVE  ContentsOf(m) = C
BY ContentsHold, HoldsOne

\* A map whose keys are sorted is in order.
LEMMA SortedInOrder ==
  ASSUME NEW m, Tree(m), NEW bound, KeysSorted(m, bound), m.size = Cardinality(m.used)
  PROVE  InOrder(m, 0)
<1>1. Distinct(m)
  BY SortedDistinct
<1>2. Sorted(m, m.key, bound) /\ Agrees(m, m.key, 0)
  BY OwnRanks
<1>3. Ordered(m, 0)
  BY <1>2 DEF Ordered
<1>4. Counted(m, 0)
  <2>1. Cardinality(m.used) \in Nat
    BY UsedFinite
  <2>2. QED BY <2>1 DEF Counted
<1>5. QED BY <1>1, <1>3, <1>4 DEF InOrder

\* Between calls the keys are sorted and the size is the number of nodes.
Settled(m, bound) == KeysSorted(m, bound) /\ m.size = Cardinality(m.used) /\ Distinct(m)

\* Between calls no node is leaving.
LEMMA IdleOrder ==
  ASSUME LinkInv, OrderInv, pc = "idle"
  PROVE  victim = 0 /\ (\E bound : Settled(t, bound)) /\ result.op # "panic"
<1>1. victim = 0 /\ Tree(t) /\ t \in Maps
  BY DEF LinkInv, Control, Tree
<1>2. InOrder(t, 0) /\ result.op # "panic"
  BY <1>1 DEF OrderInv
<1>3. PICK rank, bound : Sorted(t, rank, bound) /\ Agrees(t, rank, 0)
  BY <1>2 DEF InOrder, Ordered
<1>4. KeysSorted(t, bound)
  BY <1>1, <1>3, AgreeingRanks
<1>5. t.size = Cardinality(t.used)
  <2>1. Cardinality(t.used) \in Nat
    BY <1>1, UsedFinite
  <2>2. QED BY <1>2, <2>1 DEF InOrder, Counted
<1>6. QED BY <1>1, <1>2, <1>4, <1>5 DEF Settled, InOrder

\* What Contents is, before a step and after it.
LEMMA ContentsOfMap == Contents = ContentsOf(t) /\ Contents' = ContentsOf(t')
BY DEF Contents, ContentsOf

\* The rebalancing does not show.
LEMMA StepsStutter ==
  ASSUME LinkInv, OrderInv, Steps, pc # "unlink"
  PROVE  OrderInv' /\ UNCHANGED <<Contents, result>>
<1>1. Moves(t, t') /\ victim' = victim /\ result' = result
  BY StepsMove
<1>2. pc # "panic"
  BY DEF Steps, insert1, insert3, insert4, insert5, delete1, delete2, delete3, delete5, delete6, unlink
<1>3. ContentsOf(t') = ContentsOf(t) /\ Distinct(t')
  BY <1>1, MovesHold DEF OrderInv, InOrder
<1>4. Ordered(t', victim)
  <2>1. PICK rank, bound : Sorted(t, rank, bound) /\ Agrees(t, rank, victim)
    BY DEF OrderInv, InOrder, Ordered
  <2>2. PICK bound2 : Sorted(t', rank, bound2)
    BY <1>1, <2>1 DEF Moves
  <2>3. Agrees(t', rank, victim)
    BY <1>1, <2>1, MovesHold
  <2>4. QED BY <2>2, <2>3 DEF Ordered
<1>5. Counted(t', victim)
  BY <1>1 DEF OrderInv, InOrder, Counted, Moves
<1>6. InOrder(t', victim')
  BY <1>1, <1>3, <1>4, <1>5 DEF InOrder
<1>7. OrderInv'
  BY <1>1, <1>2, <1>6 DEF OrderInv
<1>8. QED BY <1>1, <1>3, <1>7, ContentsOfMap

\* The end of rb_rbtree_delete erases the key of the node that goes.
LEMMA UnlinkErases ==
  ASSUME LinkInv, OrderInv, unlink
  PROVE  /\ OrderInv' /\ result' = Result("erase", <<>>)
         /\ \E k \in Keys : Contents' = Without(Contents, k)
<1>1. /\ Tree(t) /\ Goes(t, victim, child) /\ \A x \in t.used : t.key[x] \in Keys
      /\ Distinct(t) /\ Counted(t, victim)
  BY DEF LinkInv, unlink, Control, Owned, OrderInv, InOrder
<1>2. victim \in t.used /\ victim # 0
  BY <1>1, UsedNode DEF Goes
<1>3. PICK p, e, m1 : p = t.parent[victim] /\ e = Side(t, victim) /\ m1 = rb_replace_node(t, victim, child)
  OBVIOUS
<1>4. PICK m2 : m2 = IF m1.parent[victim] = 0 /\ child # 0 THEN Paint(m1, child, RB_BLACK) ELSE m1
  OBVIOUS
<1>5. t' = Freed(m2, victim) /\ pc' = "idle" /\ victim' = 0 /\ result' = Result("erase", <<>>)
  BY <1>3, <1>4 DEF unlink, Return, Goto
<1>6. Leaves(t, victim, child, p, e) /\ Shrinks(t, t', victim, child, p, e)
  BY <1>1, <1>3, <1>4, <1>5, UnlinkFields
<1>7. Tree(t')
  BY <1>1, <1>6, ShrinkingKeepsTree
<1>8. PICK k \in Keys : k = t.key[victim]
  BY <1>1, <1>2
<1>9. Holds(t, Contents)
  BY <1>1, ContentsHold, ContentsOfMap
<1>10. Holds(t', Without(Contents, k))
  BY <1>1, <1>2, <1>6, <1>8, <1>9, ShrinkingHolds
<1>11. t'.used = t.used \ {victim} /\ t'.size = t.size /\ t.used \subseteq Ptr /\ t' \in Maps
  BY <1>1, <1>6, Addresses, MapFields DEF Shrinks, Tree
<1>12. \A z \in t.used \ {victim} : t'.key[z] = t.key[z]
  BY <1>6, <1>11 DEF Shrinks
<1>13. \E bound2 : KeysSorted(t', bound2)
  <2>1. PICK rank, bound : Sorted(t, rank, bound) /\ Agrees(t, rank, victim)
    BY DEF OrderInv, InOrder, Ordered
  <2>2. PICK bound2 : bound2 = CutBound(bound, victim)
    OBVIOUS
  <2>3. Sorted(t', rank, bound2)
    BY <1>1, <1>6, <2>1, <2>2, ShrinkingKeepsOrder
  <2>4. Agrees(t', rank, 0)
    BY <1>11, <1>12, <2>1 DEF Agrees
  <2>5. QED BY <1>11, <2>3, <2>4, AgreeingRanks
<1>14. t'.size = Cardinality(t'.used)
  <2>1. IsFiniteSet(t.used)
    BY <1>1, UsedFinite
  <2>2. Cardinality(t'.used) = Cardinality(t.used) - 1
    BY <1>2, <1>11, <2>1, FS_RemoveElement
  <2>3. QED BY <1>1, <1>2, <1>11, <2>2 DEF Counted
<1>15. InOrder(t', 0)
  BY <1>7, <1>13, <1>14, SortedInOrder
<1>16. Contents' = Without(Contents, k)
  BY <1>7, <1>10, <1>15, ContentsAre, ContentsOfMap DEF InOrder
<1>17. result'.op # "panic"
  BY <1>5 DEF Result
<1>18. OrderInv'
  BY <1>5, <1>15, <1>17 DEF OrderInv
<1>19. QED BY <1>5, <1>8, <1>16, <1>18

\* map_set of a key that is there gives it the new value.
LEMMA OverwriteSets ==
  ASSUME LinkInv, OrderInv, pc = "idle", t.used # Nodes, UNCHANGED <<victim, child>>,
         NEW kv \in Settings, NEW k, k = kv[1], NEW v, v = kv[2], Overwrite(k, v)
  PROVE  InOrder(t', victim') /\ Contents' = With(Contents, k, v)
<1>1. Tree(t)
  BY DEF LinkInv
<1>2. k \in Int /\ v \in Int
  BY SettingsTyped
<1>3. PICK bound : Settled(t, bound)
  BY IdleOrder
<1>4. victim' = 0 /\ KeysSorted(t, bound) /\ t.size = Cardinality(t.used) /\ Distinct(t)
  BY <1>3, IdleOrder DEF Settled
<1>5. PICK x, y : x = rb_lookup_node(t, k) /\ y = Fresh(t, k)
  OBVIOUS
<1>6. x # 0 /\ t' = Freed([rb_new_node(t, k, v) EXCEPT !.value[x] = v], y)
  BY <1>5 DEF Overwrite
<1>7. x \in t.used /\ t.key[x] = k
  <2>1. Finds(t, k, x)
    BY <1>1, <1>2, <1>5, LookupFinds
  <2>2. QED BY <1>6, <2>1 DEF Finds
<1>8. y \in Nodes /\ y \notin t.used
  BY <1>1, <1>5, FreshNode
<1>9. Revalues(t, t', x, v)
  BY <1>1, <1>2, <1>5, <1>6, <1>7, <1>8, OverwriteFields
<1>10. Tree(t')
  BY <1>1, <1>7, <1>9, RevalueKeepsTree
<1>11. /\ t' \in Maps /\ SameShape(t, t') /\ t'.size = t.size /\ t'.used = t.used
       /\ \A z \in Ptr : t'.key[z] = t.key[z]
  BY <1>9 DEF Revalues, SameShape
<1>12. KeysSorted(t', bound)
  BY <1>4, <1>11, SameKeysKeepOrder
<1>13. InOrder(t', 0)
  BY <1>4, <1>10, <1>11, <1>12, SortedInOrder
<1>14. Holds(t, Contents)
  BY <1>1, <1>4, ContentsHold, ContentsOfMap
<1>15. Holds(t', With(Contents, k, v))
  BY <1>1, <1>4, <1>7, <1>9, <1>14, OverwriteHolds
<1>16. Contents' = With(Contents, k, v)
  BY <1>10, <1>13, <1>15, ContentsAre, ContentsOfMap DEF InOrder
<1>17. QED BY <1>4, <1>13, <1>16

\* map_set of another key adds it.
LEMMA InsertSets ==
  ASSUME LinkInv, OrderInv, pc = "idle", t.used # Nodes, UNCHANGED <<victim, child>>,
         NEW kv \in Settings, NEW k, k = kv[1], NEW v, v = kv[2], Insert(k, v)
  PROVE  InOrder(t', victim') /\ Contents' = With(Contents, k, v)
<1>1. Tree(t)
  BY DEF LinkInv
<1>2. k \in Int /\ v \in Int
  BY SettingsTyped
<1>3. PICK bound : Settled(t, bound)
  BY IdleOrder
<1>4. victim' = 0 /\ KeysSorted(t, bound) /\ t.size = Cardinality(t.used) /\ Distinct(t)
  BY <1>3, IdleOrder DEF Settled
<1>5. \A w \in t.used : t.key[w] # k
  BY <1>1, <1>4, LookupMisses DEF Insert
<1>6. PICK x, p, f, m : /\ x = Fresh(t, k) /\ p = (IF t.root = 0 THEN 0 ELSE LastOnPath(t, k))
                        /\ f = Toward(t, p, k) /\ m = rb_new_node(t, k, v)
  OBVIOUS
<1>7. t' = IF t.root = 0
           THEN [m EXCEPT !.root = x, !.size = @ + 1]
           ELSE [m EXCEPT !.child[<<p, f>>] = x, !.parent[x] = p, !.size = @ + 1]
  BY <1>6 DEF Insert
<1>8. Room(t, x, p, f) /\ Grows(t, t', x, k, v, p, f)
  <2>1. Place(t, k, p, f) /\ Hooks(t, m, t', x, p, f)
    BY <1>6, <1>7 DEF Place, Hooks
  <2>2. QED BY <1>1, <1>2, <1>6, <2>1, InsertFields
<1>9. Tree(t')
  BY <1>1, <1>8, GrowthKeepsTree
<1>10. x \in Ptr /\ x \notin t.used /\ t'.used = t.used \union {x} /\ t'.size = t.size + 1
  BY <1>8, Addresses DEF Room, Grows
<1>11. Belongs(t, bound, p, f, k)
  <2>1. ASSUME p # 0 PROVE Between(t, bound, p, k) /\ t.key[p] # k /\ f = Toward(t, p, k)
    <3>1. t.root # 0 /\ p = LastOnPath(t, k)
      BY <1>6, <2>1
    <3>2. p \in t.used /\ Between(t, bound, p, k)
      BY <1>1, <1>2, <1>4, <1>5, <3>1, LastBetween
    <3>3. QED BY <1>5, <1>6, <3>2
  <2>2. QED BY <2>1 DEF Belongs
<1>12. PICK bound2 : bound2 = LeafBound(bound, x, p, f)
  OBVIOUS
<1>13. KeysSorted(t', bound2)
  BY <1>1, <1>2, <1>4, <1>8, <1>11, <1>12, GrowthKeepsOrder
<1>14. t'.size = Cardinality(t'.used)
  <2>1. IsFiniteSet(t.used)
    BY <1>1, UsedFinite
  <2>2. Cardinality(t'.used) = Cardinality(t.used) + 1
    BY <1>10, <2>1, FS_AddElement
  <2>3. QED BY <1>4, <1>10, <2>2
<1>15. InOrder(t', 0)
  BY <1>9, <1>13, <1>14, SortedInOrder
<1>16. Holds(t, Contents)
  BY <1>1, <1>4, ContentsHold, ContentsOfMap
<1>17. Holds(t', With(Contents, k, v))
  BY <1>1, <1>5, <1>8, <1>10, <1>16, GrowthHolds
<1>18. Contents' = With(Contents, k, v)
  BY <1>9, <1>15, <1>17, ContentsAre, ContentsOfMap DEF InOrder
<1>19. QED BY <1>4, <1>15, <1>18

\* map_erase of a key that is not there changes nothing,
LEMMA EraseMisses ==
  ASSUME LinkInv, OrderInv, NEW k \in Keys, map_erase(k), rb_lookup_node(t, k) = 0
  PROVE  OrderInv' /\ result' = Result("erase", <<>>) /\ Contents' = Without(Contents, k)
<1>1. Tree(t) /\ pc = "idle" /\ t' = t /\ pc' = pc /\ victim' = victim /\ result' = Result("erase", <<>>)
  BY DEF LinkInv, map_erase, Idle
<1>2. PICK bound : Settled(t, bound)
  BY <1>1, IdleOrder
<1>3. KeysSorted(t, bound) /\ Distinct(t)
  BY <1>2 DEF Settled
<1>4. \A w \in t.used : t.key[w] # k
  BY <1>1, <1>3, LookupMisses
<1>5. PICK C : C = Contents
  OBVIOUS
<1>6. Holds(t, C)
  BY <1>1, <1>3, <1>5, ContentsHold, ContentsOfMap
<1>7. C = [j \in DOMAIN C |-> C[j]] /\ k \notin DOMAIN C
  BY <1>4, <1>6 DEF Holds
<1>8. DOMAIN C \ {k} = DOMAIN C
  BY <1>7
<1>9. Without(C, k) = C
  BY <1>7, <1>8 DEF Without
<1>10. Contents' = Contents
  BY <1>1, ContentsOfMap
<1>11. OrderInv'
  BY <1>1 DEF OrderInv, Result
<1>12. QED BY <1>1, <1>5, <1>9, <1>10, <1>11

\* and of another it begins the deletion: nothing shows of the trade.
LEMMA EraseBegins ==
  ASSUME LinkInv, OrderInv, NEW k \in Keys, map_erase(k), rb_lookup_node(t, k) # 0
  PROVE  OrderInv' /\ UNCHANGED <<Contents, result>>
<1>1. Tree(t) /\ pc = "idle"
  BY DEF LinkInv, map_erase, Idle
<1>2. k \in Int
  BY RbConstants DEF Keys
<1>3. PICK bound : Settled(t, bound)
  BY <1>1, IdleOrder
<1>4. /\ victim = 0 /\ KeysSorted(t, bound) /\ t.size = Cardinality(t.used) /\ Distinct(t)
      /\ result.op # "panic"
  BY <1>1, <1>3, IdleOrder DEF Settled
<1>5. PICK x, y : /\ x = rb_lookup_node(t, k)
                  /\ y = (IF \A d \in Sides : t.child[x, d] # 0 THEN rb_maximum_node(t, t.child[x, "left"]) ELSE x)
  OBVIOUS
<1>6. PICK m : m = [IF \A d \in Sides : t.child[x, d] # 0 THEN Swapped(t, x, y) ELSE t EXCEPT !.size = @ - 1]
  OBVIOUS
<1>7. PICK c : c = (IF m.child[y, "right"] = 0 THEN m.child[y, "left"] ELSE m.child[y, "right"])
  OBVIOUS
<1>8. x # 0 /\ IF \A d \in Sides : m.child[y, d] # 0 THEN Panic /\ UNCHANGED <<victim, child, result>>
      ELSE /\ victim' = y /\ child' = c /\ UNCHANGED result
           /\ IF Red(m, y) THEN t' = m /\ Goto("unlink", y)
              ELSE t' = Paint(m, y, rb_node_color(m, c)) /\ Goto("delete1", y)
  BY <1>5, <1>6, <1>7 DEF map_erase
<1>9. Erases(t, k, x, y, m, c)
  BY <1>5, <1>6, <1>7, <1>8 DEF Erases
<1>10. x \in t.used /\ y \in t.used /\ Trades(t, m, x, y) /\ Tree(m) /\ Goes(m, y, c)
  BY <1>1, <1>2, <1>9, EraseFinds
<1>11. ~ \A d \in Sides : m.child[y, d] # 0
  BY <1>10, TwoSides DEF Goes
<1>12. /\ victim' = y /\ result' = result
       /\ t' = m \/ t' = Paint(m, y, rb_node_color(m, c))
  BY <1>8, <1>11
<1>13. y \in Ptr /\ y # 0 /\ y \in m.used /\ c \in Ptr
  <2>1. y \in m.used /\ y \in Ptr /\ y # 0
    BY <1>10, UsedNode DEF Goes
  <2>2. QED BY <1>10, <2>1, MapFields DEF Goes, Tree
<1>14. rb_node_color(m, c) \in {RB_RED, RB_BLACK}
  BY <1>10, <1>13, MapFields DEF Tree, rb_node_color, RB_RED, RB_BLACK
<1>15. SameLinks(m, t')
  <2>1. CASE t' = m
    BY <1>10, <2>1 DEF SameLinks, Others, Tree
  <2>2. CASE t' = Paint(m, y, rb_node_color(m, c))
    <3>1. Painted(m, t', y, rb_node_color(m, c))
      BY <1>10, <1>13, <1>14, <2>2, PaintKeepsTree
    <3>2. QED BY <3>1 DEF Painted
  <2>3. QED BY <1>12, <2>1, <2>2
<1>16. Moves(m, t')
  BY <1>15, PaintMoves
<1>17. y = x \/ Before(t, bound, y, x)
  <2>1. CASE \A d \in Sides : t.child[x, d] # 0
    <3>1. PICK u : u = t.child[x, "left"]
      OBVIOUS
    <3>2. u # 0
      BY <2>1, <3>1 DEF Sides
    <3>3. y = rb_maximum_node(t, u)
      BY <1>5, <2>1, <3>1
    <3>4. QED BY <1>1, <1>4, <1>10, <3>1, <3>2, <3>3, Predecessor
  <2>2. CASE ~ \A d \in Sides : t.child[x, d] # 0
    BY <1>5, <2>2
  <2>3. QED BY <2>1, <2>2
<1>18. Sorted(m, t.key, bound) /\ Agrees(m, t.key, y)
  BY <1>1, <1>4, <1>10, <1>17, TradeKeepsOrder
<1>19. Ordered(t', y)
  <2>1. PICK bound2 : Sorted(t', t.key, bound2)
    BY <1>16, <1>18 DEF Moves
  <2>2. Agrees(t', t.key, y)
    BY <1>16, <1>18, MovesHold
  <2>3. QED BY <2>1, <2>2 DEF Ordered
<1>20. Distinct(m) /\ Distinct(t')
  <2>1. Distinct(m)
    BY <1>1, <1>4, <1>10, TradeDistinct
  <2>2. QED BY <1>16, <2>1, MovesHold
<1>21. Counted(t', y)
  <2>1. m.size = t.size - 1 /\ m.used = t.used
    BY <1>10 DEF Trades, SameShape
  <2>2. t'.size = m.size /\ t'.used = m.used
    BY <1>16 DEF Moves
  <2>3. QED BY <1>4, <1>13, <2>1, <2>2 DEF Counted
<1>22. OrderInv'
  BY <1>4, <1>12, <1>19, <1>20, <1>21 DEF OrderInv, InOrder
<1>23. Holds(t, Contents)
  BY <1>1, <1>4, ContentsHold, ContentsOfMap
<1>24. Holds(m, Contents)
  BY <1>1, <1>10, <1>23, TradeHolds
<1>25. ContentsOf(m) = Contents
  BY <1>10, <1>20, <1>24, ContentsAre
<1>26. ContentsOf(t') = ContentsOf(m)
  BY <1>16, MovesHold
<1>27. QED BY <1>12, <1>22, <1>25, <1>26, ContentsOfMap

\* What the calls that only answer say of the contents: Reads is what lookup finds.
Reads(C, k, x) == (x # 0 <=> k \in DOMAIN C) /\ (x # 0 => C[k] = t.value[x])

\* The lookup finds every key that is there, and its value.
LEMMA LookupReads ==
  ASSUME LinkInv, OrderInv, pc = "idle", NEW k \in Keys, NEW x, x = rb_lookup_node(t, k)
  PROVE  Reads(Contents, k, x)
<1>1. Tree(t) /\ k \in Int
  BY RbConstants DEF LinkInv, Keys
<1>2. PICK bound : KeysSorted(t, bound) /\ Distinct(t)
  BY IdleOrder DEF Settled
<1>3. PICK C : C = Contents
  OBVIOUS
<1>4. Holds(t, C)
  BY <1>1, <1>2, <1>3, ContentsHold, ContentsOfMap
<1>5. DOMAIN C = {t.key[z] : z \in t.used} /\ \A z \in t.used : C[t.key[z]] = t.value[z]
  BY <1>4 DEF Holds
<1>6. x # 0 => x \in t.used /\ t.key[x] = k
  BY <1>1, LookupFinds DEF Finds
<1>7. x = 0 => \A w \in t.used : t.key[w] # k
  BY <1>1, <1>2, LookupMisses
<1>8. Reads(C, k, x)
  BY <1>5, <1>6, <1>7 DEF Reads
<1>9. QED BY <1>3, <1>8

\* The size is the number of keys.
LEMMA SizeReads ==
  ASSUME LinkInv, OrderInv, pc = "idle"
  PROVE  t.size = Cardinality(DOMAIN Contents)
<1>1. Tree(t)
  BY DEF LinkInv
<1>2. t.size = Cardinality(t.used) /\ Distinct(t)
  BY IdleOrder DEF Settled
<1>3. PICK C : C = Contents
  OBVIOUS
<1>4. Holds(t, C)
  BY <1>1, <1>2, <1>3, ContentsHold, ContentsOfMap
<1>5. PICK f : f = [z \in t.used |-> t.key[z]]
  OBVIOUS
<1>6. f \in [t.used -> DOMAIN C] /\ \A a, c \in t.used : f[a] = f[c] => a = c
  BY <1>2, <1>4, <1>5 DEF Holds, Distinct
<1>7. \A k \in DOMAIN C : \E z \in t.used : f[z] = k
  BY <1>4, <1>5 DEF Holds
<1>8. f \in Bijection(t.used, DOMAIN C)
  BY <1>6, <1>7 DEF Bijection, Injection, Surjection, IsInjective
<1>9. ExistsBijection(t.used, DOMAIN C)
  BY <1>8 DEF ExistsBijection
<1>10. Cardinality(DOMAIN C) = Cardinality(t.used)
  BY <1>1, <1>9, UsedFinite, FS_Bijection
<1>11. QED BY <1>2, <1>3, <1>10

\* What map_foreach passes to its callback: every pair, and as many as there are keys.
Passes(C, s, out) ==
  /\ out = [i \in DOMAIN s |-> <<t.key[s[i]], t.value[s[i]]>>]
  /\ Len(out) = Cardinality(DOMAIN C)
  /\ {out[i] : i \in DOMAIN out} = {<<k, C[k]>> : k \in DOMAIN C}

\* It is what the walk over the nodes gives.
LEMMA ForeachPasses ==
  ASSUME LinkInv, OrderInv, pc = "idle", NEW s, s = Visit(t),
         NEW out, out = [i \in DOMAIN s |-> <<t.key[s[i]], t.value[s[i]]>>]
  PROVE  Passes(Contents, s, out)
<1>1. Tree(t)
  BY DEF LinkInv
<1>2. PICK bound : KeysSorted(t, bound) /\ t.size = Cardinality(t.used) /\ Distinct(t)
  BY IdleOrder DEF Settled
<1>3. PICK C : C = Contents
  OBVIOUS
<1>4. Holds(t, C)
  BY <1>1, <1>2, <1>3, ContentsHold, ContentsOfMap
<1>5. s \in Seq(Ptr) /\ Members(s) = t.used /\ Cardinality(t.used) = Len(s)
  BY <1>1, <1>2, VisitOnce
<1>6. Len(s) \in Nat /\ DOMAIN s = 1 .. Len(s)
  BY <1>5
<1>7. Len(out) = Len(s) /\ DOMAIN out = DOMAIN s
  BY <1>6
<1>8. Len(out) = Cardinality(DOMAIN C)
  BY <1>2, <1>3, <1>5, <1>7, SizeReads
<1>9. \A i \in DOMAIN s : s[i] \in t.used
  BY <1>5 DEF Members
<1>10. \A z \in t.used : \E i \in DOMAIN s : s[i] = z
  BY <1>5 DEF Members
<1>11. \A i \in DOMAIN s : out[i] = <<t.key[s[i]], t.value[s[i]]>>
  OBVIOUS
<1>12. DOMAIN C = {t.key[z] : z \in t.used} /\ \A z \in t.used : C[t.key[z]] = t.value[z]
  BY <1>4 DEF Holds
<1>13. ASSUME NEW i \in DOMAIN out PROVE \E k \in DOMAIN C : out[i] = <<k, C[k]>>
  <2>1. PICK z \in t.used : z = s[i]
    BY <1>7, <1>9, <1>13
  <2>2. t.key[z] \in DOMAIN C /\ C[t.key[z]] = t.value[z]
    BY <1>12
  <2>3. out[i] = <<t.key[z], t.value[z]>>
    BY <1>7, <1>11, <1>13, <2>1
  <2>4. QED BY <2>2, <2>3
<1>14. ASSUME NEW k \in DOMAIN C PROVE \E i \in DOMAIN out : out[i] = <<k, C[k]>>
  <2>1. PICK z \in t.used : t.key[z] = k
    BY <1>12
  <2>2. PICK i \in DOMAIN s : s[i] = z
    BY <1>10
  <2>3. C[k] = t.value[z] /\ out[i] = <<t.key[z], t.value[z]>>
    BY <1>11, <1>12, <2>1, <2>2
  <2>4. QED BY <1>7, <2>1, <2>2, <2>3
<1>15. {out[i] : i \in DOMAIN out} = {<<k, C[k]>> : k \in DOMAIN C}
  <2> DEFINE L == {out[i] : i \in DOMAIN out}
  <2> DEFINE R == {<<k, C[k]>> : k \in DOMAIN C}
  <2>1. ASSUME NEW e \in L PROVE e \in R
    <3>1. PICK i \in DOMAIN out : e = out[i]
      OBVIOUS
    <3>2. QED BY <1>13, <3>1
  <2>2. ASSUME NEW e \in R PROVE e \in L
    <3>1. PICK k \in DOMAIN C : e = <<k, C[k]>>
      OBVIOUS
    <3>2. QED BY <1>14, <3>1
  <2>3. QED BY <2>1, <2>2
<1>16. Passes(C, s, out)
  BY <1>8, <1>15 DEF Passes
<1>17. QED BY <1>3, <1>16

\* The interface counts as the map does.
LEMMA SameCardinality ==
  ASSUME NEW S
  PROVE  Abstract!Cardinality(S) = Cardinality(S)
BY DEF Abstract!Cardinality, Cardinality

\* map_foreach as the interface promises it.
LEMMA ForeachPromised ==
  ASSUME LinkInv, OrderInv, map_foreach
  PROVE  Abstract!map_foreach /\ t' = t /\ pc' = "idle" /\ victim' = victim
<1>1. pc = "idle" /\ pc' = "idle" /\ t' = t /\ victim' = victim
  BY DEF map_foreach, Idle, Answers, Return, Goto
<1>2. PICK s, out : s = Visit(t) /\ out = [i \in DOMAIN s |-> <<t.key[s[i]], t.value[s[i]]>>]
  OBVIOUS
<1>3. result' = Result("foreach", out)
  BY <1>2 DEF map_foreach, Answers
<1>4. Passes(Contents, s, out)
  BY <1>1, <1>2, ForeachPasses
<1>5. result'.op = "foreach" /\ result'.out = out
  BY <1>3 DEF Result
<1>6. Contents' = Contents
  BY <1>1, ContentsOfMap
<1>7. /\ Len(out) = Cardinality(DOMAIN Contents)
      /\ {out[i] : i \in DOMAIN out} = {<<k, Contents[k]>> : k \in DOMAIN Contents}
  BY <1>4 DEF Passes
<1>8. Abstract!map_foreach
  BY <1>5, <1>6, <1>7, SameCardinality DEF Abstract!map_foreach
<1>9. QED BY <1>1, <1>8

\* map_size, map_at and map_has, too.
LEMMA SizePromised ==
  ASSUME LinkInv, OrderInv, map_size
  PROVE  Abstract!map_size /\ t' = t /\ pc' = "idle" /\ victim' = victim
<1>1. /\ pc = "idle" /\ pc' = "idle" /\ t' = t /\ victim' = victim
      /\ result' = Result("size", << <<0, t.size>> >>)
  BY DEF map_size, Idle, Answers, Return, Goto
<1>2. t.size = Cardinality(DOMAIN Contents)
  BY <1>1, SizeReads
<1>3. Contents' = Contents
  BY <1>1, ContentsOfMap
<1>4. QED BY <1>1, <1>2, <1>3, SameCardinality DEF Abstract!map_size, Abstract!Result, Result

\* map_has tells whether the key is there,
LEMMA HasPromised ==
  ASSUME LinkInv, OrderInv, NEW k \in Keys, map_has(k)
  PROVE  Abstract!map_has(k) /\ t' = t /\ pc' = "idle" /\ victim' = victim
<1>1. PICK x : x = rb_lookup_node(t, k)
  OBVIOUS
<1>2. /\ pc = "idle" /\ pc' = "idle" /\ t' = t /\ victim' = victim
      /\ result' = Result("has", << <<k, Bool(x # 0)>> >>)
  BY <1>1 DEF map_has, Idle, Answers, Return, Goto
<1>3. x # 0 <=> k \in DOMAIN Contents
  BY <1>1, <1>2, LookupReads DEF Reads
<1>4. Bool(x # 0) = Abstract!Bool(k \in DOMAIN Contents)
  BY <1>3 DEF Bool, Abstract!Bool
<1>5. Contents' = Contents
  BY <1>2, ContentsOfMap
<1>6. QED BY <1>2, <1>4, <1>5 DEF Abstract!map_has, Abstract!Result, Result

\* and map_at gives its value, or panics.
LEMMA AtPromised ==
  ASSUME LinkInv, OrderInv, NEW k \in Keys, map_at(k)
  PROVE  /\ Abstract!map_at(k) /\ t' = t /\ victim' = victim
         /\ result'.op = "panic" => pc' = "panic"
<1>1. PICK x : x = rb_lookup_node(t, k)
  OBVIOUS
<1>2. /\ pc = "idle" /\ t' = t /\ victim' = victim
      /\ x = 0 => result' = Result("panic", <<>>) /\ pc' = "panic"
      /\ x # 0 => result' = Result("at", << <<k, t.value[x]>> >>)
  BY <1>1 DEF map_at, Idle, Answers, Return, Goto
<1>3. Reads(Contents, k, x)
  BY <1>1, <1>2, LookupReads
<1>4. Contents' = Contents
  BY <1>2, ContentsOfMap
<1>5. result' = IF k \in DOMAIN Contents THEN Result("at", << <<k, Contents[k]>> >>)
                                         ELSE Result("panic", <<>>)
  BY <1>2, <1>3 DEF Reads
<1>6. Abstract!map_at(k)
  BY <1>4, <1>5 DEF Abstract!map_at, Abstract!Result, Result
<1>7. result'.op = "panic" => pc' = "panic"
  BY <1>2 DEF Result
<1>8. QED BY <1>2, <1>6, <1>7

\* An empty map holds nothing.
LEMMA EmptyContents ==
  ASSUME NEW m, m = Blank
  PROVE  InOrder(m, 0) /\ ContentsOf(m) = [k \in {} |-> 0]
<1>1. Tree(m) /\ m.used = {} /\ m.root = 0 /\ m.size = 0 /\ m \in Maps
  BY BlankIsTree DEF Blank, Tree
<1>2. PICK bound : bound = [xd \in Ptr \X Sides |-> 0]
  OBVIOUS
<1>3. KeysSorted(m, bound)
  <2>1. bound \in [Ptr \X Sides -> Ptr] /\ m.key \in [Ptr -> Int]
    BY <1>1, <1>2, Addresses DEF Maps
  <2>2. QED BY <1>1, <2>1 DEF KeysSorted, Sorted, Bounded, Inherited
<1>4. Cardinality(m.used) = 0
  BY <1>1, FS_EmptySet
<1>5. InOrder(m, 0)
  BY <1>1, <1>3, <1>4, SortedInOrder
<1>6. PICK C : C = [k \in {} |-> 0]
  OBVIOUS
<1>7. Holds(m, C)
  BY <1>1, <1>6 DEF Holds
<1>8. ContentsOf(m) = C
  BY <1>1, <1>5, <1>7, ContentsAre DEF InOrder
<1>9. QED BY <1>5, <1>6, <1>8

\* map_destroy leaves nothing.
LEMMA DestroyPromised ==
  ASSUME LinkInv, OrderInv, map_destroy
  PROVE  Abstract!map_destroy /\ OrderInv'
<1>1. /\ Tree(t) /\ pc = "idle" /\ pc' = "idle" /\ victim' = victim
      /\ result' = Result("destroy", <<>>)
  BY DEF LinkInv, map_destroy, Idle, Return, Goto
<1>2. victim = 0
  BY <1>1, IdleOrder
<1>3. PICK order, gone : order = Visit(t) /\ gone = Members(order)
  OBVIOUS
<1>4. t' = [Blank EXCEPT !.used = t.used \ gone]
  BY <1>3 DEF map_destroy, Members
<1>5. gone = t.used
  BY <1>1, <1>3, VisitReaches
<1>6. t' = Blank
  <2>1. t.used \ gone = {}
    BY <1>5
  <2>2. t' = [Blank EXCEPT !.used = {}]
    BY <1>4, <2>1
  <2>3. QED BY <2>2 DEF Blank
<1>7. InOrder(t', 0) /\ Contents' = [k \in {} |-> 0]
  BY <1>6, EmptyContents, ContentsOfMap
<1>8. result'.op # "panic"
  BY <1>1 DEF Result
<1>9. OrderInv'
  BY <1>1, <1>2, <1>7, <1>8 DEF OrderInv
<1>10. QED BY <1>1, <1>7, <1>9 DEF Abstract!map_destroy, Abstract!Result, Result

\* A call that only answers leaves the map in order.
LEMMA AnswerKeepsOrder ==
  ASSUME OrderInv, t' = t, victim' = victim, result'.op = "panic" => pc' = "panic"
  PROVE  OrderInv'
BY DEF OrderInv

\* map_set as the interface promises it.
LEMMA SetPromised ==
  ASSUME LinkInv, OrderInv, NEW kv \in Settings, map_set(kv[1], kv[2])
  PROVE  Abstract!map_set(kv[1], kv[2]) /\ OrderInv'
<1>1. /\ pc = "idle" /\ t.used # Nodes /\ UNCHANGED <<victim, child>> /\ result' = Result("set", <<>>)
      /\ Overwrite(kv[1], kv[2]) \/ Insert(kv[1], kv[2])
  BY DEF map_set, Idle
<1>2. PICK k, v : k = kv[1] /\ v = kv[2]
  OBVIOUS
<1>3. InOrder(t', victim') /\ Contents' = With(Contents, k, v)
  <2>1. CASE Overwrite(kv[1], kv[2])
    BY <1>1, <1>2, <2>1, OverwriteSets
  <2>2. CASE Insert(kv[1], kv[2])
    BY <1>1, <1>2, <2>2, InsertSets
  <2>3. QED BY <1>1, <2>1, <2>2
<1>4. result'.op # "panic"
  BY <1>1 DEF Result
<1>5. OrderInv'
  BY <1>3, <1>4 DEF OrderInv
<1>6. Abstract!map_set(k, v)
  BY <1>1, <1>3 DEF Abstract!map_set, Abstract!Result, Result, With
<1>7. QED BY <1>2, <1>5, <1>6

\* Every step of a call is a step of the interface or does not show.
Promised == Abstract!Next \/ UNCHANGED <<Contents, result>>

\* Calls are steps of the interface.
LEMMA CallsPromised ==
  ASSUME LinkInv, OrderInv, Calls
  PROVE  OrderInv' /\ Promised
<1>1. pc = "idle"
  BY DEF Calls, map_set, map_erase, map_at, map_has, map_size, map_foreach, map_destroy, Idle
<1>2. result.op # "panic"
  BY <1>1, IdleOrder
<1>3. ASSUME NEW kv \in Settings, map_set(kv[1], kv[2]) PROVE OrderInv' /\ Promised
  <2>1. Abstract!map_set(kv[1], kv[2]) /\ OrderInv'
    BY <1>3, SetPromised
  <2>2. kv[1] \in Keys /\ kv[2] \in Values
    BY DEF Keys, Values
  <2>3. QED BY <1>2, <2>1, <2>2 DEF Abstract!Next, Promised
<1>4. ASSUME NEW k \in Keys, map_erase(k) PROVE OrderInv' /\ Promised
  <2>1. CASE rb_lookup_node(t, k) = 0
    <3>1. OrderInv' /\ result' = Result("erase", <<>>) /\ Contents' = Without(Contents, k)
      BY <1>4, <2>1, EraseMisses
    <3>2. Abstract!map_erase(k)
      BY <3>1 DEF Abstract!map_erase, Abstract!Result, Result, Without
    <3>3. QED BY <1>2, <3>1, <3>2 DEF Abstract!Next, Promised
  <2>2. CASE rb_lookup_node(t, k) # 0
    BY <1>4, <2>2, EraseBegins DEF Promised
  <2>3. QED BY <2>1, <2>2
<1>5. ASSUME NEW k \in Keys, map_at(k) PROVE OrderInv' /\ Promised
  BY <1>2, <1>5, AtPromised, AnswerKeepsOrder DEF Abstract!Next, Promised
<1>6. ASSUME t' = t, victim' = victim, pc' = "idle", result'.op # "panic" PROVE OrderInv'
  BY <1>6, AnswerKeepsOrder
<1>7. ASSUME NEW k \in Keys, map_has(k) PROVE OrderInv' /\ Promised
  <2>1. result'.op # "panic"
    BY <1>7 DEF map_has, Answers, Result
  <2>2. QED BY <1>2, <1>6, <1>7, <2>1, HasPromised DEF Abstract!Next, Promised
<1>8. ASSUME map_size PROVE OrderInv' /\ Promised
  <2>1. result'.op # "panic"
    BY <1>8 DEF map_size, Answers, Result
  <2>2. QED BY <1>2, <1>6, <1>8, <2>1, SizePromised DEF Abstract!Next, Promised
<1>9. ASSUME map_foreach PROVE OrderInv' /\ Promised
  <2>1. Abstract!map_foreach /\ t' = t /\ pc' = "idle" /\ victim' = victim
    BY <1>9, ForeachPromised
  <2>2. result'.op # "panic"
    BY <2>1 DEF Abstract!map_foreach
  <2>3. QED BY <1>2, <1>6, <2>1, <2>2 DEF Abstract!Next, Promised
<1>10. ASSUME map_destroy PROVE OrderInv' /\ Promised
  BY <1>2, <1>10, DestroyPromised DEF Abstract!Next, Promised
<1>11. QED BY <1>3, <1>4, <1>5, <1>7, <1>8, <1>9, <1>10 DEF Calls

\* So is every step of the rebalancing.
LEMMA StepsPromised ==
  ASSUME LinkInv, OrderInv, Steps
  PROVE  OrderInv' /\ Promised
<1>1. CASE pc # "unlink"
  BY <1>1, StepsStutter DEF Promised
<1>2. CASE pc = "unlink"
  <2>1. unlink
    BY <1>2 DEF Steps, insert1, insert3, insert4, insert5, delete1, delete2, delete3, delete5, delete6
  <2>2. OrderInv' /\ result' = Result("erase", <<>>)
    BY <2>1, UnlinkErases
  <2>3. PICK k \in Keys : Contents' = Without(Contents, k)
    BY <2>1, UnlinkErases
  <2>4. Abstract!map_erase(k)
    BY <2>2, <2>3 DEF Abstract!map_erase, Abstract!Result, Result, Without
  <2>5. result.op # "panic"
    BY <1>2 DEF OrderInv
  <2>6. QED BY <2>2, <2>4, <2>5 DEF Abstract!Next, Promised
<1>3. QED BY <1>1, <1>2

\* The red-black tree implements the map of the interface: every call takes effect
\* at one step, an erasure when its node is unlinked, with the result that the
\* contents call for; the rebalancing around it does not show.
THEOREM MapIsImplemented == Spec => ImplementsMap
<1>1. Init => LinkInv /\ OrderInv /\ Abstract!Init
  <2>1. SUFFICES ASSUME Init PROVE LinkInv /\ OrderInv /\ Abstract!Init
    OBVIOUS
  <2>2. t = Blank /\ pc = "idle" /\ victim = 0 /\ result = Result("init", <<>>)
    BY <2>1 DEF Init
  <2>3. InOrder(t, 0) /\ Contents = [k \in {} |-> 0]
    BY <2>2, EmptyContents, ContentsOfMap
  <2>4. OrderInv
    BY <2>2, <2>3 DEF OrderInv, Result
  <2>5. Abstract!Init
    BY <2>2, <2>3 DEF Abstract!Init, Abstract!Result, Result
  <2>6. QED BY <2>1, <2>4, <2>5, InitLinks
<1>2. LinkInv /\ OrderInv /\ [Next]_vars => OrderInv' /\ [Abstract!Next]_<<Contents, result>>
  <2>1. SUFFICES ASSUME LinkInv, OrderInv, [Next]_vars
                 PROVE  OrderInv' /\ [Abstract!Next]_<<Contents, result>>
    OBVIOUS
  <2>2. CASE UNCHANGED vars
    <3>1. t' = t /\ pc' = pc /\ victim' = victim /\ result' = result
      BY <2>2 DEF vars
    <3>2. Contents' = Contents
      BY <3>1, ContentsOfMap
    <3>3. OrderInv'
      BY <2>1, <3>1 DEF OrderInv
    <3>4. QED BY <3>1, <3>2, <3>3
  <2>3. CASE Next
    <3>1. OrderInv' /\ Promised
      BY <2>1, <2>3, CallsPromised, StepsPromised DEF Next
    <3>2. QED BY <3>1 DEF Promised
  <2>4. QED BY <2>1, <2>2, <2>3
<1>3. QED BY <1>1, <1>2, LinksHold, PTL DEF Spec, ImplementsMap, Abstract!Spec
=============================================================================
