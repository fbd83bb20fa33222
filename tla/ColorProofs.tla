----------------------------- MODULE ColorProofs ----------------------------
(***************************************************************************)
(* Proofs about RbMap: between calls the tree is a red-black tree, and the *)
(* assertions of the rebalancing hold.  The ways down from a node have the *)
(* same number of black nodes at every step of a call, except below one    *)
(* node, which the routine that runs is told.                              *)
(***************************************************************************)
EXTENDS RbMapProofs

----------------------------------------------------------------------------
(* The colors *)

\* h[x] is the number of black nodes on the ways from x down.  Below a node
\* the ways to the left and to the right have the same number, except that one
\* is missing at l; and a red node has no red child, except for e.
Due(h, l, u) == h[u] + (IF u = l /\ u # 0 THEN 1 ELSE 0)
Fits(m, h, l, e, z, u) ==
  /\ h[z] = m.color[z] + Due(h, l, u)
  /\ u # e => ~(Red(m, z) /\ Red(m, u))

\* The heights of black nodes are h, but for the node v that goes, which counts
\* as much as the child c that takes its place.
Balanced(m, h, l, e, v, c) ==
  /\ h \in [Ptr -> Nat \ {0}] /\ h[0] = 1
  /\ \A z \in m.used, f \in Sides : z # v => Fits(m, h, l, e, z, m.child[z, f])
  /\ v # 0 => h[v] = h[c] /\ (Red(m, c) => Red(m, v))
  /\ Red(m, m.root) => m.root = v \/ (l = 0 /\ m.root = e)

\* A black node is missing at n while a node is deleted, and n may be red with
\* a red parent.
Lacking == IF pc \in Deleting THEN n ELSE 0
Excused == IF pc \in Deleting \union Inserting THEN n ELSE 0
HasHeights == \E h \in [Ptr -> Nat \ {0}] : Balanced(t, h, Lacking, Excused, victim, child)

\* What the routines have found out before they call the next one.
Found(m) ==
  /\ pc \in Inserting => Red(m, n)
  /\ pc \in Inserting \ {"insert1"} => m.parent[n] # 0 /\ Red(m, m.parent[n])
  /\ pc \in {"insert4", "insert5"} => Black(m, rb_uncle(m, n))
  /\ pc = "insert5" => \E d \in Sides : Chain(m, n, d, d)
  /\ pc \in {"delete3", "delete5", "delete6"} => Black(m, rb_sibling(m, n))
  /\ pc = "delete5" => ~AllBlack
  /\ pc = "delete6" => Red(m, m.child[rb_sibling(m, n), Opp(Side(m, n))])

ColorInv ==
  /\ pc # "panic" => HasHeights /\ Found(t)
  /\ pc = "panic" => result.op = "panic"

----------------------------------------------------------------------------
(* Heights after a change *)

\* Outside S neither heights nor colors change.
Untouched(m, m2, h, h2, S) == \A z \in Ptr : z \notin S => h2[z] = h[z] /\ m2.color[z] = m.color[z]

\* Outside U the node at which something is missing, and the one that may be
\* red, are the same or there is none any more.
SameTrouble(l, e, l2, e2, U) == \A u \in Ptr : u \notin U => (u = l <=> u = l2) /\ (u # e2 => u # e)

\* Heights are heights.
Heights(h) == h \in [Ptr -> Nat \ {0}] /\ h[0] = 1

\* The root is black, unless it goes.
RootBlack(m, v) == Red(m, m.root) => m.root = v

\* A node and its child of which nothing changes fit as before.
LEMMA FitKept ==
  ASSUME NEW m, NEW m2, NEW h, NEW h2, NEW l, NEW e, NEW l2, NEW e2, NEW S, NEW U,
         Untouched(m, m2, h, h2, S), SameTrouble(l, e, l2, e2, U),
         NEW z \in Ptr, z \notin S, NEW u \in Ptr, u = 0 \/ (u \notin S /\ u \notin U), 0 \notin S,
         Fits(m, h, l, e, z, u)
  PROVE  Fits(m2, h2, l2, e2, z, u)
<1>1. h2[z] = h[z] /\ m2.color[z] = m.color[z]
  BY DEF Untouched
<1>2. h2[u] = h[u] /\ m2.color[u] = m.color[u]
  BY DEF Untouched
<1>3. h[z] = m.color[z] + Due(h, l, u) /\ (u # e => ~(Red(m, z) /\ Red(m, u)))
  BY DEF Fits
<1>4. Due(h2, l2, u) = Due(h, l, u)
  BY <1>2 DEF Due, SameTrouble
<1>5. h2[z] = m2.color[z] + Due(h2, l2, u)
  BY <1>1, <1>3, <1>4
<1>6. (Red(m2, z) <=> Red(m, z)) /\ (Red(m2, u) <=> Red(m, u))
  BY <1>1, <1>2, ColorOf
<1>7. u # e2 => ~(Red(m2, z) /\ Red(m2, u))
  <2>1. CASE u = 0
    BY <1>6, <2>1, ColorOf
  <2>2. CASE u # 0
    BY <1>3, <1>6, <2>2 DEF SameTrouble
  <2>3. QED BY <2>1, <2>2
<1>8. QED BY <1>5, <1>7 DEF Fits

\* What a balanced tree says of a node and its child.
LEMMA FitsAt ==
  ASSUME NEW m, NEW h, NEW l, NEW e, NEW v, NEW c, Balanced(m, h, l, e, v, c),
         NEW z \in m.used, z # v, NEW f \in Sides, NEW u, u = m.child[z, f]
  PROVE  Fits(m, h, l, e, z, u)
BY DEF Balanced

\* The children of the node that goes.
LEMMA GoneChild ==
  ASSUME NEW m, Tree(m), NEW v, NEW c, Goes(m, v, c)
  PROVE  v \in m.used /\ v \in Ptr /\ v # 0 /\ c \in Ptr /\ (c # 0 => c \in m.used /\ m.parent[c] = v)
<1>1. PICK p, e : p = m.parent[v] /\ e = Side(m, v)
  OBVIOUS
<1>2. Leaves(m, v, c, p, e)
  BY <1>1, LeavesFrom
<1>3. QED BY <1>2 DEF Leaves

\* The nodes that a rotation moves fit: x above b and y, r above x and w, and p
\* above r.
Fitting(m2, h2, l2, e2, x, p, r, y, b, w) ==
  /\ Fits(m2, h2, l2, e2, x, b) /\ Fits(m2, h2, l2, e2, x, y)
  /\ Fits(m2, h2, l2, e2, r, x) /\ Fits(m2, h2, l2, e2, r, w)
  /\ p # 0 => Fits(m2, h2, l2, e2, p, r)

\* So do the children of w.
Beneath(m, m2, h2, l2, e2, w) == \A f \in Sides : Fits(m2, h2, l2, e2, w, m.child[w, f])

\* Nothing changes at the node that goes and its child.
Apart(v, c, T) == v # 0 => v \in Ptr /\ v \notin T /\ c \in Ptr /\ c \notin T

\* The painted nodes of a rotation: x, r, and w where it is painted.
Stained(T, x, r, w) == x \in T /\ r \in T /\ T \subseteq {x, r, w} /\ 0 \notin T

\* The other child of x, and the other child of r.
Outer(m, x, d, r, b, w) == b = m.child[x, d] /\ w = m.child[r, Opp(d)]

\* A rotation leaves a balanced tree balanced if the nodes around it fit.
LEMMA TurnBalances ==
  ASSUME NEW m, Tree(m), NEW h, NEW l, NEW e, NEW v, NEW c, Balanced(m, h, l, e, v, c),
         NEW m1, NEW m2, NEW x, NEW d, NEW p, NEW g, NEW r, NEW y,
         Around(m, x, d, p, g, r, y), Turned(m, m1, m2, x, d, p, g, r, y),
         NEW b, NEW w, Outer(m, x, d, r, b, w),
         NEW h2, Heights(h2), NEW l2, NEW e2, NEW T, Stained(T, x, r, w), Untouched(m, m2, h, h2, T),
         NEW U, U = {0, x, r, y, b, w}, SameTrouble(l, e, l2, e2, U),
         Fitting(m2, h2, l2, e2, x, p, r, y, b, w), w \in T => Beneath(m, m2, h2, l2, e2, w),
         Apart(v, c, T), RootBlack(m, v), p = 0 => Black(m2, r)
  PROVE  Balanced(m2, h2, l2, e2, v, c)
<1>1. /\ x \in m.used /\ x \in Ptr /\ d \in Sides /\ Opp(d) \in Sides /\ p \in Ptr /\ p = m.parent[x]
      /\ g = Side(m, x) /\ g \in Sides
      /\ r \in m.used /\ r \in Ptr /\ r = m.child[x, Opp(d)] /\ m.parent[r] = x
      /\ y \in Ptr /\ y = m.child[r, d] /\ (y # 0 => m.parent[y] = r)
      /\ x # r /\ x # p /\ p # r /\ x # 0 /\ r # 0
  BY DEF Around
<1>2. /\ m2.used = m.used /\ m2.root = (IF p = 0 THEN r ELSE m.root)
      /\ \A z \in Ptr, f \in Sides :
           m2.child[z, f] = IF z = r /\ f = d THEN x
                            ELSE IF z = x /\ f = Opp(d) THEN y
                            ELSE IF z = p /\ p # 0 /\ f = g THEN r ELSE m.child[z, f]
  BY DEF Turned, Others
<1>3. m.used \subseteq Ptr /\ 0 \notin m.used /\ 0 \in Ptr /\ m.root \in Ptr
  BY Addresses, MapFields DEF Tree
<1>4. Opp(d) # d /\ Opp(Opp(d)) = d /\ \A f \in Sides : f = d \/ f = Opp(d)
  BY <1>1, TwoSides
<1>5. b # 0 => m.parent[b] = x
  <2>1. Kids(m, x, b, r)
    BY <1>1, Children DEF Outer
  <2>2. QED BY <2>1 DEF Kids
<1>6. w # 0 => m.parent[w] = r
  <2>1. Kids(m, r, y, w)
    BY <1>1, Children DEF Outer
  <2>2. QED BY <2>1 DEF Kids
<1>7. p # 0 => m.child[p, g] = x
  <2>1. SUFFICES ASSUME p # 0 PROVE m.child[p, g] = x
    OBVIOUS
  <2>2. Hangs(m, x, p, g)
    BY <1>1, <2>1, ParentOf
  <2>3. QED BY <2>2 DEF Hangs
<1>8. ASSUME NEW z \in m2.used, NEW f \in Sides, z # v PROVE Fits(m2, h2, l2, e2, z, m2.child[z, f])
  <2>1. z \in m.used /\ z \in Ptr /\ z # 0
    BY <1>2, <1>3
  <2>2. PICK u : u = m2.child[z, f]
    OBVIOUS
  <2>3. u = IF z = r /\ f = d THEN x
            ELSE IF z = x /\ f = Opp(d) THEN y
            ELSE IF z = p /\ p # 0 /\ f = g THEN r ELSE m.child[z, f]
    BY <1>2, <2>1, <2>2
  <2>4. CASE z = r
    <3>1. u = x \/ u = w
      BY <1>1, <1>4, <2>3, <2>4 DEF Outer
    <3>2. Fits(m2, h2, l2, e2, z, u)
      BY <2>4, <3>1 DEF Fitting
    <3>3. QED BY <2>2, <3>2
  <2>5. CASE z = x
    <3>1. u = b \/ u = y
      BY <1>1, <1>4, <2>3, <2>5 DEF Outer
    <3>2. Fits(m2, h2, l2, e2, z, u)
      BY <2>5, <3>1 DEF Fitting
    <3>3. QED BY <2>2, <3>2
  <2>6. CASE z = p /\ f = g
    <3>1. u = r
      BY <1>1, <2>1, <2>3, <2>6
    <3>2. Fits(m2, h2, l2, e2, z, u)
      BY <2>1, <2>6, <3>1 DEF Fitting
    <3>3. QED BY <2>2, <3>2
  <2>7. CASE z # r /\ z # x /\ ~(z = p /\ f = g)
    <3>1. u = m.child[z, f]
      BY <2>3, <2>7
    <3>2. PICK o : o = m.child[z, Opp(f)]
      OBVIOUS
    <3>3. Kids(m, z, u, o)
      BY <2>1, <3>1, <3>2, Children
    <3>4. u \in Ptr /\ (u # 0 => m.parent[u] = z /\ u # o)
      BY <3>3 DEF Kids
    <3>5. u # 0 => u # x
      <4>1. SUFFICES ASSUME u # 0, u = x PROVE FALSE
        OBVIOUS
      <4>2. z = p
        BY <1>1, <3>4, <4>1
      <4>3. f # g /\ m.child[z, g] = x
        BY <1>7, <2>1, <2>7, <4>2
      <4>4. g = Opp(f)
        BY <1>1, <4>3, TwoSides
      <4>5. QED BY <3>2, <3>4, <4>1, <4>3, <4>4
    <3>6. u = 0 \/ u \notin {0, x, r, y, b, w}
      BY <1>1, <1>5, <1>6, <2>7, <3>4, <3>5
    <3>7. Fits(m2, h2, l2, e2, z, u)
      <4>1. CASE z = w /\ w \in T
        <5>1. Beneath(m, m2, h2, l2, e2, w)
          BY <4>1
        <5>2. QED BY <3>1, <4>1, <5>1 DEF Beneath
      <4>2. CASE ~(z = w /\ w \in T)
        <5>1. z \notin T /\ 0 \notin T /\ T \subseteq {x, r, w}
          BY <2>7, <4>2 DEF Stained
        <5>2. Fits(m, h, l, e, z, u)
          BY <1>8, <2>1, <3>1, FitsAt
        <5>3. u = 0 \/ (u \notin T /\ u \notin U)
          BY <3>6, <5>1
        <5>4. QED BY <2>1, <3>4, <5>1, <5>2, <5>3, FitKept
      <4>3. QED BY <4>1, <4>2
    <3>8. QED BY <2>2, <3>7
  <2>8. QED BY <2>4, <2>5, <2>6, <2>7
<1>9. v # 0 => h2[v] = h2[c] /\ (Red(m2, c) => Red(m2, v))
  <2>1. SUFFICES ASSUME v # 0 PROVE h2[v] = h2[c] /\ (Red(m2, c) => Red(m2, v))
    OBVIOUS
  <2>2. v \in Ptr /\ v \notin T /\ c \in Ptr /\ c \notin T
    BY <2>1 DEF Apart
  <2>3. h2[v] = h[v] /\ h2[c] = h[c] /\ m2.color[v] = m.color[v] /\ m2.color[c] = m.color[c]
    BY <2>2 DEF Untouched
  <2>4. h[v] = h[c] /\ (Red(m, c) => Red(m, v))
    BY <2>1 DEF Balanced
  <2>5. QED BY <2>3, <2>4, ColorOf
<1>10. Red(m2, m2.root) => m2.root = v
  <2>1. CASE p = 0
    <3>1. Black(m2, r) /\ m2.root = r
      BY <1>2, <2>1
    <3>2. ~Red(m2, r)
      BY <3>1, OneColor
    <3>3. QED BY <3>1, <3>2
  <2>2. CASE p # 0
    <3>1. m2.root = m.root
      BY <1>2, <2>2
    <3>2. CASE m.root = 0
      BY <3>1, <3>2, ColorOf
    <3>3. CASE m.root # 0
      <4>1. m.parent[m.root] = 0
        BY <3>3, TreeLinks DEF Ties
      <4>2. m.root \notin {x, r, w}
        BY <1>1, <1>3, <1>6, <2>2, <3>3, <4>1
      <4>3. m.root \notin T
        BY <4>2 DEF Stained
      <4>4. m2.color[m.root] = m.color[m.root]
        BY <1>3, <4>3 DEF Untouched
      <4>5. QED BY <3>1, <4>4, ColorOf DEF RootBlack
    <3>4. QED BY <3>2, <3>3
  <2>3. QED BY <2>1, <2>2
<1>11. h2 \in [Ptr -> Nat \ {0}] /\ h2[0] = 1
  BY DEF Heights
<1>12. QED BY <1>8, <1>9, <1>10, <1>11 DEF Balanced

\* The trees of the runs of LinkInv that the lemmas below start from.
Ready(h) == Tree(t) /\ Control(t) /\ Balanced(t, h, Lacking, Excused, victim, child) /\ Found(t)

\* The invariant at a step that does not stop the system.
LEMMA ColorsAfter ==
  ASSUME pc' # "panic", NEW h2, NEW l2, NEW e2, Balanced(t', h2, l2, e2, victim', child'),
         l2 = Lacking', e2 = Excused', Found(t)'
  PROVE  ColorInv'
<1>1. h2 \in [Ptr -> Nat \ {0}]
  BY DEF Balanced
<1>2. HasHeights'
  BY <1>1 DEF HasHeights
<1>3. QED BY <1>2 DEF ColorInv

\* What the invariant says before such a step.
LEMMA ColorsBefore ==
  ASSUME ColorInv, LinkInv, pc # "panic"
  PROVE  \E h : Ready(h)
BY DEF ColorInv, HasHeights, LinkInv, Ready

\* Two nodes of which one is the child of the other are not both red.
LEMMA FitNumbers ==
  ASSUME NEW m, NEW h, NEW l, NEW e, NEW z, NEW u, Fits(m, h, l, e, z, u), z # 0, h[u] \in Int
  PROVE  /\ u # l \/ u = 0 => h[z] = m.color[z] + h[u]
         /\ u = l /\ u # 0 => h[z] = m.color[z] + (h[u] + 1)
         /\ u # e /\ m.color[z] = 0 => u = 0 \/ m.color[u] # 0
<1>1. Due(h, l, u) = IF u = l /\ u # 0 THEN h[u] + 1 ELSE h[u]
  BY DEF Due
<1>2. h[z] = m.color[z] + Due(h, l, u) /\ (u # e => ~(Red(m, z) /\ Red(m, u)))
  BY DEF Fits
<1>3. (u # l \/ u = 0 => h[z] = m.color[z] + h[u]) /\ (u = l /\ u # 0 => h[z] = m.color[z] + (h[u] + 1))
  BY <1>1, <1>2
<1>4. u # e /\ m.color[z] = 0 => u = 0 \/ m.color[u] # 0
  BY <1>2, ColorOf
<1>5. QED BY <1>3, <1>4

\* The heights of a balanced tree are numbers.
Numbers(h) == h[0] = 1 /\ \A z \in Ptr : h[z] \in Nat /\ h[z] \in Int /\ h[z] >= 1

\* Heights are numbers of black nodes, and the null pointer counts as one.
LEMMA HeightNumbers ==
  ASSUME NEW h, Heights(h)
  PROVE  Numbers(h)
<1>1. \A z \in Ptr : h[z] \in Nat \ {0}
  BY DEF Heights
<1>2. \A a \in Nat \ {0} : a \in Nat /\ a \in Int /\ a >= 1
  OBVIOUS
<1>3. QED BY <1>1, <1>2 DEF Heights, Numbers

\* So are those of a balanced tree.
LEMMA BalanceNumbers ==
  ASSUME NEW m, NEW h, NEW l, NEW e, NEW v, NEW c, Balanced(m, h, l, e, v, c)
  PROVE  Numbers(h)
<1>1. Heights(h)
  BY DEF Balanced, Heights
<1>2. QED BY <1>1, HeightNumbers

\* A node above a child where nothing is missing.
LEMMA FitMade ==
  ASSUME NEW m, NEW h, NEW l, NEW e, NEW z, NEW u, h[u] \in Int, u # l \/ u = 0,
         h[z] = m.color[z] + h[u], u = e \/ u = 0 \/ m.color[z] = 1 \/ m.color[u] = 1
  PROVE  Fits(m, h, l, e, z, u)
<1>1. Due(h, l, u) = h[u]
  BY DEF Due
<1>2. u # e => ~(Red(m, z) /\ Red(m, u))
  BY ColorOf
<1>3. QED BY <1>1, <1>2 DEF Fits

\* A node above the child where a black node is missing.
LEMMA FitLacking ==
  ASSUME NEW m, NEW h, NEW l, NEW z, l # 0, h[l] \in Int, h[z] = m.color[z] + (h[l] + 1)
  PROVE  Fits(m, h, l, l, z, l)
BY DEF Fits, Due

\* u is a child of z, or 0.
Below(m, z, u) == z \in Ptr /\ z # 0 /\ u \in Ptr /\ (u # 0 => u \in m.used /\ m.parent[u] = z /\ u # z)

\* What the child of a node is.
LEMMA BelowNode ==
  ASSUME NEW m, Tree(m), NEW z \in m.used, NEW f \in Sides, NEW u, u = m.child[z, f]
  PROVE  Below(m, z, u)
<1>1. PICK o : o = m.child[z, Opp(f)]
  OBVIOUS
<1>2. Kids(m, z, u, o)
  BY <1>1, Children
<1>3. z \in Ptr /\ z # 0
  BY Addresses, MapFields DEF Tree
<1>4. QED BY <1>2, <1>3 DEF Kids, Below

\* A tree with other colors is balanced if every node fits.
LEMMA PaintBalances ==
  ASSUME NEW m, Tree(m), NEW m2, SameLinks(m, m2), NEW h2, Heights(h2), NEW l2, NEW e2, NEW v, NEW c,
         \A z \in m.used, f \in Sides : z # v => Fits(m2, h2, l2, e2, z, m.child[z, f]),
         v # 0 => h2[v] = h2[c] /\ (Red(m2, c) => Red(m2, v)),
         Red(m2, m2.root) => m2.root = v \/ (l2 = 0 /\ m2.root = e2)
  PROVE  Balanced(m2, h2, l2, e2, v, c)
<1>1. m2.used = m.used /\ m2.child = m.child
  BY DEF SameLinks, Others
<1>2. \A z \in m2.used, f \in Sides : z # v => Fits(m2, h2, l2, e2, z, m2.child[z, f])
  BY <1>1
<1>3. QED BY <1>2 DEF Heights, Balanced

\* rb_insert_case1 and rb_insert_case2: the root becomes black, and below a black
\* node a red one may stay.
LEMMA Insert1Colors ==
  ASSUME LinkInv, ColorInv, insert1
  PROVE  ColorInv'
<1>1. PICK h : Ready(h)
  BY ColorsBefore DEF insert1
<1>2. /\ Tree(t) /\ Control(t) /\ pc = "insert1" /\ Lacking = 0 /\ Excused = n
      /\ UNCHANGED <<victim, child, copies, result>>
  BY <1>1 DEF Ready, insert1, Rebalances, Lacking, Excused, Inserting, Deleting
<1>3. /\ n \in t.used /\ victim = 0 /\ child = 0
      /\ Balanced(t, h, 0, n, 0, 0) /\ Red(t, n)
  BY <1>1, <1>2 DEF Ready, Control, Inserting, Found
<1>4. n \in Ptr /\ n # 0 /\ t.used \subseteq Ptr /\ 0 \in Ptr /\ 0 \notin t.used
  BY <1>2, <1>3, Addresses, MapFields DEF Tree
<1>5. CASE Parent(n) = 0
  <2>1. t' = Paint(t, n, RB_BLACK) /\ pc' = "idle" /\ n' = 0
    BY <1>5 DEF insert1, Return, Goto
  <2>2. Painted(t, t', n, RB_BLACK)
    BY <1>2, <1>3, <1>4, <2>1, PaintKeepsTree
  <2>3. PICK h2 : h2 = [z \in Ptr |-> IF z = n THEN h[n] + 1 ELSE h[z]]
    OBVIOUS
  <2>4. h[n] \in Nat \ {0} /\ h[n] + 1 \in Nat \ {0} /\ \A z \in Ptr : h[z] \in Nat \ {0}
    <3>1. Numbers(h)
      BY <1>3, BalanceNumbers
    <3>2. QED BY <1>4, <3>1 DEF Numbers
  <2>5. Heights(h2) /\ h2[n] = h[n] + 1 /\ \A z \in Ptr : z # n => h2[z] = h[z]
    <3>1. h2 \in [Ptr -> Nat \ {0}]
      BY <2>3, <2>4
    <3>2. h[0] = 1
      BY <1>3 DEF Balanced
    <3>3. QED BY <1>4, <2>3, <3>1, <3>2 DEF Heights
  <2>6. SameLinks(t, t') /\ t'.color[n] = 1 /\ \A z \in Ptr : z # n => t'.color[z] = t.color[z]
    BY <1>4, <2>2 DEF Painted, WritesColor, RB_BLACK
  <2>7. Untouched(t, t', h, h2, {n}) /\ SameTrouble(0, n, 0, 0, {n})
    BY <2>5, <2>6 DEF Untouched, SameTrouble
  <2>8. ASSUME NEW z \in t.used, NEW f \in Sides PROVE Fits(t', h2, 0, 0, z, t.child[z, f])
    <3>1. PICK u : u = t.child[z, f]
      OBVIOUS
    <3>2. Below(t, z, u) /\ Fits(t, h, 0, n, z, u)
      BY <1>2, <1>3, <1>4, <3>1, BelowNode, FitsAt
    <3>3. z \in Ptr /\ u \in Ptr /\ u # n /\ z # 0
      BY <1>4, <1>5, <3>2 DEF Below, Parent
    <3>4. CASE z = n
      <4>1. h[u] \in Int /\ h2[u] = h[u] /\ h2[u] \in Int
        BY <2>4, <2>5, <3>3
      <4>2. h[n] = t.color[n] + h[u] /\ t.color[n] = 0
        BY <1>3, <3>2, <3>3, <3>4, <4>1, FitNumbers, ColorOf
      <4>3. h2[n] = t'.color[n] + h2[u]
        BY <2>5, <2>6, <4>1, <4>2
      <4>4. Fits(t', h2, 0, 0, n, u)
        BY <2>6, <4>1, <4>3, FitMade
      <4>5. QED BY <3>1, <3>4, <4>4
    <3>5. CASE z # n
      <4>1. Fits(t', h2, 0, 0, z, u)
        BY <1>4, <2>7, <3>2, <3>3, <3>5, FitKept
      <4>2. QED BY <3>1, <4>1
    <3>6. QED BY <3>4, <3>5
  <2>9. ~Red(t', t'.root)
    <3>1. n = t.root /\ t'.root = t.root
      BY <1>2, <1>3, <1>5, <2>6, TreeLinks DEF Ties, Parent, SameLinks
    <3>2. QED BY <2>6, <3>1, ColorOf
  <2>10. Balanced(t', h2, 0, 0, 0, 0)
    BY <1>2, <2>5, <2>6, <2>8, <2>9, PaintBalances
  <2>11. Lacking' = 0 /\ Excused' = 0 /\ Found(t)' /\ victim' = 0 /\ child' = 0
    BY <1>2, <1>3, <2>1 DEF Lacking, Excused, Found, Inserting, Deleting
  <2>12. QED BY <2>1, <2>10, <2>11, ColorsAfter
<1>6. CASE Parent(n) # 0
  <2>1. t' = t /\ \/ Black(t, Parent(n)) /\ pc' = "idle" /\ n' = 0
                  \/ ~Black(t, Parent(n)) /\ pc' = "insert3" /\ n' = n
    BY <1>6 DEF insert1, Return, Goto
  <2>2. ~Red(t, t.root)
    <3>1. t.root = 0 \/ t.parent[t.root] = 0
      BY <1>2, TreeLinks DEF Ties
    <3>2. t.root # n \/ t.root = 0
      BY <1>6, <3>1 DEF Parent
    <3>3. ~Red(t, 0)
      BY ColorOf
    <3>4. QED BY <1>3, <1>4, <3>2, <3>3 DEF Balanced
  <2>3. CASE Black(t, Parent(n)) /\ pc' = "idle" /\ n' = 0
    <3>1. ASSUME NEW z \in t.used, NEW f \in Sides PROVE Fits(t, h, 0, 0, z, t.child[z, f])
      <4>1. PICK u : u = t.child[z, f]
        OBVIOUS
      <4>2. Below(t, z, u) /\ Fits(t, h, 0, n, z, u)
        BY <1>2, <1>3, <1>4, <4>1, BelowNode, FitsAt
      <4>3. u = n => z = Parent(n)
        BY <1>4, <4>2 DEF Below, Parent
      <4>4. u = n => ~Red(t, z)
        BY <2>3, <4>3, OneColor
      <4>5. Fits(t, h, 0, 0, z, u)
        BY <4>2, <4>4 DEF Fits
      <4>6. QED BY <4>1, <4>5
    <3>2. Balanced(t, h, 0, 0, 0, 0)
      BY <1>3, <2>2, <3>1 DEF Balanced
    <3>3. /\ Lacking' = 0 /\ Excused' = 0 /\ Found(t)' /\ victim' = 0 /\ child' = 0
          /\ Balanced(t', h, 0, 0, 0, 0)
      BY <1>2, <1>3, <2>1, <2>3, <3>2 DEF Lacking, Excused, Found, Inserting, Deleting
    <3>4. QED BY <2>3, <3>3, ColorsAfter
  <2>4. CASE ~Black(t, Parent(n)) /\ pc' = "insert3" /\ n' = n
    <3>1. Red(t, Parent(n))
      <4>1. Parent(n) \in Ptr
        BY <1>2, <1>4, MapFields DEF Tree, Parent
      <4>2. t.color[Parent(n)] \in {0, 1}
        BY <1>2, <4>1, MapFields DEF Tree
      <4>3. QED BY <1>6, <2>4, <4>2, ColorOf
    <3>2. Red(t', n') /\ t'.parent[n'] # 0 /\ Red(t', t'.parent[n'])
      BY <1>3, <1>6, <2>1, <2>4, <3>1 DEF Parent
    <3>3. Found(t)'
      BY <2>4, <3>2 DEF Found, Inserting
    <3>4. Lacking' = 0 /\ Excused' = n /\ victim' = 0 /\ child' = 0 /\ Balanced(t', h, 0, n, 0, 0)
      BY <1>2, <1>3, <2>1, <2>4 DEF Lacking, Excused, Inserting, Deleting
    <3>5. QED BY <2>4, <3>3, <3>4, ColorsAfter
  <2>5. QED BY <2>1, <2>3, <2>4
<1>7. QED BY <1>5, <1>6

\* Other heights for up to three nodes.
Raised(h, h2, a, i, b, j, c, k) ==
  /\ Heights(h2) /\ h2[a] = i /\ (b # a => h2[b] = j) /\ (c # a /\ c # b => h2[c] = k)
  /\ \A z \in Ptr : z # a /\ z # b /\ z # c => h2[z] = h[z]

\* The height of up to three nodes may be chosen.
LEMMA HeightsExist ==
  ASSUME NEW h, Heights(h), NEW a \in Ptr, NEW b \in Ptr, NEW c \in Ptr, a # 0, b # 0, c # 0,
         NEW i \in Nat \ {0}, NEW j \in Nat \ {0}, NEW k \in Nat \ {0}
  PROVE  \E h2 : Raised(h, h2, a, i, b, j, c, k)
<1>1. PICK h2 : h2 = [z \in Ptr |-> IF z = a THEN i ELSE IF z = b THEN j ELSE IF z = c THEN k ELSE h[z]]
  OBVIOUS
<1>2. h \in [Ptr -> Nat \ {0}] /\ h[0] = 1 /\ 0 \in Ptr
  BY Addresses DEF Heights
<1>3. h2 \in [Ptr -> Nat \ {0}]
  BY <1>1, <1>2
<1>4. h2[0] = 1
  BY <1>1, <1>2
<1>5. h2[a] = i /\ (b # a => h2[b] = j) /\ (c # a /\ c # b => h2[c] = k)
  BY <1>1
<1>6. \A z \in Ptr : z # a /\ z # b /\ z # c => h2[z] = h[z]
  BY <1>1
<1>7. Raised(h, h2, a, i, b, j, c, k)
  BY <1>3, <1>4, <1>5, <1>6 DEF Raised, Heights
<1>8. QED BY <1>7

\* A balanced tree has heights.
LEMMA BalanceHeights ==
  ASSUME NEW m, NEW h, NEW l, NEW e, NEW v, NEW c, Balanced(m, h, l, e, v, c)
  PROVE  Heights(h)
BY DEF Balanced, Heights

\* Where the insertion stands: the node n is red and all else is balanced.
Rising(h) ==
  /\ Tree(t) /\ Control(t) /\ n \in t.used /\ n \in Ptr /\ n # 0 /\ victim = 0 /\ child = 0
  /\ Balanced(t, h, 0, n, 0, 0) /\ Red(t, n) /\ Lacking = 0 /\ Excused = n
  /\ \A z \in Ptr : t.color[z] \in {0, 1}
  /\ Found(t)

\* Every case of the insertion begins there.
LEMMA RisingAt ==
  ASSUME LinkInv, ColorInv, pc \in Inserting
  PROVE  \E h : Rising(h)
<1>1. PICK h : Ready(h)
  BY ColorsBefore DEF Inserting
<1>2. /\ Tree(t) /\ Control(t) /\ Lacking = 0 /\ Excused = n
  BY <1>1 DEF Ready, Lacking, Excused, Inserting, Deleting
<1>3. /\ n \in t.used /\ victim = 0 /\ child = 0
      /\ Balanced(t, h, 0, n, 0, 0) /\ Red(t, n) /\ Found(t)
  BY <1>1, <1>2 DEF Ready, Control, Inserting, Found
<1>4. n \in Ptr /\ n # 0
  BY <1>2, <1>3, Addresses, MapFields DEF Tree
<1>5. \A z \in Ptr : t.color[z] \in {0, 1}
  BY <1>2, MapFields DEF Tree
<1>6. Rising(h)
  BY <1>2, <1>3, <1>4, <1>5 DEF Rising
<1>7. QED BY <1>6

\* A red node with a red parent has a grandparent: the root is black.
LEMMA RisingHigh ==
  ASSUME NEW h, Rising(h), pc \in Inserting \ {"insert1"},
         NEW q, q = Parent(n), NEW g, g = rb_grandparent(t, n)
  PROVE  /\ HasGrandparent(t, n) /\ Generations(t, n, q, g) /\ Red(t, q)
         /\ t.color[q] = 0 /\ t.color[n] = 0 /\ t.color[g] = 1 /\ RootBlack(t, 0)
<1>1. Tree(t) /\ n \in t.used /\ n # 0 /\ n \in Ptr /\ Balanced(t, h, 0, n, 0, 0) /\ Red(t, n)
  BY DEF Rising
<1>2. q # 0 /\ Red(t, q) /\ q = t.parent[n] /\ g = t.parent[q]
  BY DEF Rising, Found, Parent, rb_grandparent
<1>3. q \in t.used /\ q \in Ptr
  BY <1>1, <1>2, UsedNode
<1>4. q # n
  BY <1>1, <1>2, NoCircles
<1>5. t.root # 0 => t.parent[t.root] = 0
  BY <1>1, TreeLinks DEF Ties
<1>6. ~Red(t, 0)
  BY ColorOf
<1>7. ~Red(t, t.root)
  BY <1>1, <1>2, <1>5, <1>6 DEF Balanced
<1>8. g # 0
  <2>1. SUFFICES ASSUME g = 0 PROVE FALSE
    OBVIOUS
  <2>2. q = t.root
    BY <1>1, <1>2, <1>3, <2>1, TreeLinks DEF Ties
  <2>3. QED BY <1>2, <1>7, <2>2
<1>9. HasGrandparent(t, n)
  BY <1>2, <1>8 DEF HasGrandparent, rb_grandparent
<1>10. Generations(t, n, q, g)
  BY <1>1, <1>2, <1>9, GenerationsOf
<1>11. g \in t.used /\ g \in Ptr
  BY <1>10 DEF Generations
<1>12. PICK s : s = Side(t, q)
  OBVIOUS
<1>13. Hangs(t, q, g, s)
  BY <1>1, <1>2, <1>3, <1>8, <1>12, ParentOf
<1>14. s \in Sides /\ q = t.child[g, s]
  BY <1>13 DEF Hangs
<1>15. Fits(t, h, 0, n, g, q) /\ g # 0
  BY <1>1, <1>8, <1>11, <1>14, FitsAt
<1>16. ~Red(t, g)
  BY <1>2, <1>4, <1>15 DEF Fits
<1>17. t.color[g] = 1 /\ t.color[q] = 0 /\ t.color[n] = 0
  <2>1. t.color[g] \in {0, 1}
    BY <1>11 DEF Rising
  <2>2. QED BY <1>1, <1>2, <1>8, <1>16, <2>1, ColorOf
<1>18. RootBlack(t, 0)
  BY <1>7 DEF RootBlack
<1>19. QED BY <1>2, <1>9, <1>10, <1>17, <1>18

\* rb_insert_case3: a red uncle and the parent become black, and the grandparent
\* rises in their place; with a black uncle nothing changes.
LEMMA Insert3Colors ==
  ASSUME LinkInv, ColorInv, insert3
  PROVE  ColorInv'
<1>1. pc = "insert3" /\ pc \in Inserting /\ pc \in Inserting \ {"insert1"}
      /\ UNCHANGED <<victim, child, copies, result>>
  BY DEF insert3, Rebalances, Inserting
<1>2. PICK h : Rising(h)
  BY <1>1, RisingAt
<1>3. PICK q, g, u : q = Parent(n) /\ g = rb_grandparent(t, n) /\ u = rb_uncle(t, n)
  OBVIOUS
<1>4. /\ HasGrandparent(t, n) /\ Generations(t, n, q, g) /\ Red(t, q)
      /\ t.color[q] = 0 /\ t.color[n] = 0 /\ t.color[g] = 1 /\ RootBlack(t, 0)
  BY <1>1, <1>2, <1>3, RisingHigh
<1>5. /\ Tree(t) /\ n \in t.used /\ n \in Ptr /\ n # 0 /\ victim = 0 /\ child = 0
      /\ Balanced(t, h, 0, n, 0, 0) /\ Red(t, n)
  BY <1>2 DEF Rising
<1>6. /\ q = t.parent[n] /\ q \in t.used /\ q \in Ptr /\ q # 0
      /\ g = t.parent[q] /\ g \in t.used /\ g \in Ptr /\ g # 0 /\ n # q /\ q # g /\ n # g
  BY <1>4 DEF Generations
<1>7. CASE Red(t, u)
  <2>1. u # 0 /\ t.color[u] = 0
    BY <1>7, ColorOf
  <2>2. PICK s \in Sides : s = Side(t, q) /\ t.child[g, s] = q /\ Opp(s) \in Sides /\ \A f \in Sides : f = s \/ f = Opp(s)
    <3>1. PICK s : s = Side(t, q)
      OBVIOUS
    <3>2. Hangs(t, q, g, s)
      BY <1>5, <1>6, <3>1, ParentOf
    <3>3. QED BY <3>1, <3>2, TwoSides DEF Hangs
  <2>3. u = t.child[g, Opp(s)]
    BY <1>3, <1>6, <2>2 DEF rb_uncle, rb_sibling, Parent
  <2>4. Kids(t, g, q, u)
    BY <1>5, <1>6, <2>2, <2>3, Children
  <2>5. u \in t.used /\ u \in Ptr /\ t.parent[u] = g /\ u # q /\ u # g /\ u # n /\ t.parent[g] # u
    BY <1>6, <2>1, <2>4 DEF Kids
  <2>6. /\ t' = Paint(Paint(Paint(t, q, RB_BLACK), u, RB_BLACK), g, RB_RED)
        /\ pc' = "insert1" /\ n' = g
    BY <1>3, <1>4, <1>7 DEF insert3, Goto
  <2>7. PaintedThree(t, t', q, RB_BLACK, u, RB_BLACK, g, RB_RED)
    BY <1>5, <1>6, <2>5, <2>6, PaintThree
  <2>8. /\ SameLinks(t, t') /\ t'.color[q] = 1 /\ t'.color[u] = 1 /\ t'.color[g] = 0
        /\ \A z \in Ptr : z # q /\ z # u /\ z # g => t'.color[z] = t.color[z]
    BY <1>6, <2>5, <2>7 DEF PaintedThree, RB_BLACK, RB_RED
  <2>9. Heights(h) /\ Numbers(h)
    BY <1>5, BalanceHeights, BalanceNumbers
  <2>10. PICK i \in Nat \ {0}, j \in Nat \ {0}, k \in Nat \ {0} : i = h[q] + 1 /\ j = h[u] + 1 /\ k = h[g]
    <3>1. h[q] + 1 \in Nat \ {0} /\ h[u] + 1 \in Nat \ {0} /\ h[g] \in Nat \ {0}
      BY <1>6, <2>5, <2>9 DEF Numbers
    <3>2. QED BY <3>1
  <2>11. PICK h2 : Raised(h, h2, q, i, u, j, g, k)
    BY <1>6, <2>1, <2>5, <2>9, HeightsExist
  <2>12. /\ Heights(h2) /\ h2[q] = h[q] + 1 /\ h2[u] = h[u] + 1 /\ h2[g] = h[g]
         /\ \A z \in Ptr : z # q /\ z # u /\ z # g => h2[z] = h[z]
    BY <1>6, <2>5, <2>10, <2>11 DEF Raised
  <2>13. PICK S : S = {q, u, g}
    OBVIOUS
  <2>14. PICK U : U = {q, u, g, n}
    OBVIOUS
  <2>15. Untouched(t, t', h, h2, S) /\ SameTrouble(0, n, 0, g, U) /\ 0 \notin S
    BY <1>6, <2>1, <2>8, <2>12, <2>13, <2>14 DEF Untouched, SameTrouble
  <2>16. ASSUME NEW z \in t.used, NEW f \in Sides PROVE Fits(t', h2, 0, g, z, t.child[z, f])
    <3>1. PICK w : w = t.child[z, f]
      OBVIOUS
    <3>2. Below(t, z, w) /\ Fits(t, h, 0, n, z, w)
      <4>1. z # 0
        BY <1>5, UsedNode
      <4>2. QED BY <1>5, <3>1, <4>1, BelowNode, FitsAt
    <3>3. z \in Ptr /\ w \in Ptr /\ z # 0 /\ (w # 0 => t.parent[w] = z /\ w # z)
      BY <3>2 DEF Below
    <3>4. h[w] \in Int /\ h2[w] \in Int /\ h[z] \in Int /\ h2[z] \in Int
      BY <2>9, <2>12, <3>3, HeightNumbers DEF Numbers
    <3>5. h[z] = t.color[z] + h[w]
      BY <3>2, <3>3, <3>4, FitNumbers
    <3>6. CASE z = q \/ z = u
      <4>1. w # q /\ w # u /\ w # g
        <5>1. t.parent[g] # q
          BY <1>5, <1>6, NoCircles
        <5>2. QED BY <1>6, <2>1, <2>5, <3>3, <3>6, <5>1
      <4>2. h2[w] = h[w]
        BY <2>12, <3>3, <4>1
      <4>3. h[z] = h[w]
        BY <1>4, <2>1, <3>4, <3>5, <3>6
      <4>4. h2[z] = t'.color[z] + h2[w] /\ t'.color[z] = 1
        BY <2>8, <2>12, <3>4, <3>6, <4>2, <4>3
      <4>5. Fits(t', h2, 0, g, z, w)
        BY <3>4, <4>4, FitMade
      <4>6. QED BY <3>1, <4>5
    <3>7. CASE z = g
      <4>1. w = q \/ w = u
        BY <2>2, <2>3, <3>1, <3>7
      <4>2. h2[w] = h[w] + 1 /\ t'.color[w] = 1 /\ w # 0
        BY <1>6, <2>1, <2>8, <2>12, <4>1
      <4>3. h2[z] = t'.color[z] + h2[w]
        BY <1>4, <2>8, <2>12, <3>4, <3>5, <3>7, <4>2
      <4>4. Fits(t', h2, 0, g, z, w)
        BY <3>4, <4>2, <4>3, FitMade
      <4>5. QED BY <3>1, <4>4
    <3>8. CASE z # q /\ z # u /\ z # g
      <4>1. w # q /\ w # u /\ w # n
        BY <1>5, <1>6, <2>1, <2>5, <3>3, <3>8
      <4>2. CASE w = g
        <5>1. h2[z] = h[z] /\ t'.color[z] = t.color[z] /\ h2[w] = h[w]
          BY <2>8, <2>12, <3>3, <3>8, <4>2
        <5>2. h2[z] = t'.color[z] + h2[w] /\ w # 0
          BY <1>6, <3>5, <4>2, <5>1
        <5>3. Fits(t', h2, 0, g, z, w)
          BY <3>4, <4>2, <5>2, FitMade
        <5>4. QED BY <3>1, <5>3
      <4>3. CASE w # g
        <5>1. z \notin S /\ w \notin S /\ w \notin U
          BY <2>13, <2>14, <3>8, <4>1, <4>3
        <5>2. Fits(t', h2, 0, g, z, w)
          BY <2>15, <3>2, <3>3, <5>1, FitKept
        <5>3. QED BY <3>1, <5>2
      <4>4. QED BY <4>2, <4>3
    <3>9. QED BY <3>6, <3>7, <3>8
  <2>17. Red(t', t'.root) => t'.root = 0 \/ (0 = 0 /\ t'.root = g)
    <3>1. t'.root = t.root /\ t.root \in Ptr
      BY <1>5, <2>8, MapFields DEF SameLinks, Tree
    <3>2. t.color[t.root] # 0 \/ t.root = 0
      BY <1>4, ColorOf DEF RootBlack
    <3>3. t.root = 0 \/ t.root = g \/ t'.color[t.root] # 0
      BY <2>8, <3>1, <3>2
    <3>4. QED BY <3>1, <3>3, ColorOf
  <2>18. Balanced(t', h2, 0, g, 0, 0)
    BY <1>5, <2>8, <2>12, <2>16, <2>17, PaintBalances
  <2>19. Lacking' = 0 /\ Excused' = g /\ victim' = 0 /\ child' = 0
    BY <1>1, <1>5, <2>6 DEF Lacking, Excused, Inserting, Deleting
  <2>20. Found(t)'
    BY <1>6, <2>6, <2>8, ColorOf DEF Found, Inserting
  <2>21. QED BY <2>6, <2>18, <2>19, <2>20, ColorsAfter
<1>8. CASE ~Red(t, u)
  <2>1. t' = t /\ pc' = "insert4" /\ n' = n
    BY <1>3, <1>4, <1>8 DEF insert3, Goto
  <2>2. Lacking' = 0 /\ Excused' = n /\ victim' = 0 /\ child' = 0 /\ Balanced(t', h, 0, n, 0, 0)
    BY <1>1, <1>5, <2>1 DEF Lacking, Excused, Inserting, Deleting
  <2>3. Black(t, u)
    <3>1. u \in Ptr
      BY <1>3, <1>5, <1>6, TwoSides, MapFields DEF Tree, rb_uncle, rb_sibling, Parent
    <3>2. t.color[u] \in {0, 1}
      BY <1>2, <3>1 DEF Rising
    <3>3. QED BY <1>8, <3>2, ColorOf
  <2>4. Found(t)'
    BY <1>3, <1>4, <1>5, <1>6, <2>1, <2>3 DEF Found, Inserting
  <2>5. QED BY <2>1, <2>2, <2>4, ColorsAfter
<1>9. QED BY <1>7, <1>8

\* A node is on one side of its parent only.
LEMMA SideIs ==
  ASSUME NEW m, Tree(m), NEW z \in m.used, NEW q, q # 0, NEW f, Hangs(m, z, q, f)
  PROVE  Side(m, z) = f
<1>1. PICK g : g = Side(m, z)
  OBVIOUS
<1>2. q = m.parent[z] /\ f \in Sides /\ m.child[q, f] = z
  BY DEF Hangs
<1>3. q \in m.used /\ g \in Sides /\ m.child[q, g] = z /\ z # 0
  <2>1. Hangs(m, z, q, g)
    BY <1>1, <1>2, ParentOf
  <2>2. QED BY <2>1, UsedNode DEF Hangs
<1>4. CASE g = f
  BY <1>1, <1>4
<1>5. CASE g # f
  <2>1. f = Opp(g)
    BY <1>2, <1>3, <1>5, TwoSides
  <2>2. PICK o : o = m.child[q, Opp(g)]
    OBVIOUS
  <2>3. Kids(m, q, z, o)
    BY <1>3, <2>2, Children
  <2>4. QED BY <1>2, <1>3, <2>1, <2>2, <2>3 DEF Kids
<1>6. QED BY <1>4, <1>5

----------------------------------------------------------------------------
(* The cases of the insertion and the deletion on a balanced tree *)

\* A node z and its child u in numbers: the heights, and which of the two are
\* black.
Measured(m, h, l, e, z, u) ==
  /\ z \in Ptr /\ z # 0 /\ u \in Ptr /\ h[z] \in Int /\ h[u] \in Int /\ h[u] >= 1
  /\ m.color[z] \in {0, 1} /\ m.color[u] \in {0, 1}
  /\ h[z] = m.color[z] + h[u] + (IF u = l /\ u # 0 THEN 1 ELSE 0)
  /\ u # e /\ u # 0 => m.color[z] = 1 \/ m.color[u] = 1
  /\ u = 0 => h[u] = 1

\* What fits is measured right.
LEMMA FitsMeasured ==
  ASSUME NEW m, NEW h, NEW l, NEW e, NEW z, NEW u, Fits(m, h, l, e, z, u), Numbers(h),
         z \in Ptr, u \in Ptr, z # 0, m.color[z] \in {0, 1}, m.color[u] \in {0, 1}
  PROVE  Measured(m, h, l, e, z, u)
<1>1. h[z] \in Int /\ h[u] \in Int /\ h[u] >= 1 /\ h[0] = 1
  BY DEF Numbers
<1>2. h[z] = m.color[z] + h[u] + (IF u = l /\ u # 0 THEN 1 ELSE 0)
  <2>1. CASE u = l /\ u # 0
    BY <1>1, <2>1 DEF Fits, Due
  <2>2. CASE u # l \/ u = 0
    <3>1. Due(h, l, u) = h[u]
      BY <1>1, <2>2 DEF Due
    <3>2. QED BY <1>1, <2>2, <3>1 DEF Fits
  <2>3. QED BY <2>1, <2>2
<1>3. u # e /\ u # 0 => m.color[z] = 1 \/ m.color[u] = 1
  BY ColorOf DEF Fits
<1>4. QED BY <1>1, <1>2, <1>3 DEF Measured

\* Every node but the one that goes, and each of its children, are measured.
LEMMA MeasuredBelow ==
  ASSUME NEW m, Tree(m), NEW h, NEW l, NEW e, NEW v, NEW c, Balanced(m, h, l, e, v, c),
         NEW z \in m.used, z # v, NEW f \in Sides, NEW u, u = m.child[z, f]
  PROVE  Measured(m, h, l, e, z, u)
<1>1. Below(m, z, u) /\ Numbers(h)
  BY BelowNode, BalanceNumbers
<1>2. z \in Ptr /\ u \in Ptr /\ z # 0
  BY <1>1 DEF Below
<1>3. Fits(m, h, l, e, z, u)
  BY FitsAt
<1>4. m.color[z] \in {0, 1} /\ m.color[u] \in {0, 1}
  BY <1>2, MapFields DEF Tree
<1>5. QED BY <1>1, <1>2, <1>3, <1>4, FitsMeasured

\* The five links around a rotation, measured; the nodes at their lower ends
\* are none of those above them, and differ.
Surrounded(m, h, l, e, x, p, r, y, b, w) ==
  /\ Measured(m, h, l, e, x, b) /\ Measured(m, h, l, e, x, r)
  /\ Measured(m, h, l, e, r, y) /\ Measured(m, h, l, e, r, w)
  /\ p # 0 => Measured(m, h, l, e, p, x)
  /\ x # r /\ x # p /\ p # r
  /\ b # x /\ b # r /\ y # x /\ y # r /\ w # x /\ w # r
  /\ b # 0 => m.parent[b] = x /\ b # y /\ b # w
  /\ y # 0 => m.parent[y] = r /\ y # w
  /\ w # 0 => m.parent[w] = r
  /\ p # 0 => b # p /\ y # p /\ w # p

\* A rotation has these five links around it.
LEMMA SurroundedTurn ==
  ASSUME NEW m, Tree(m), NEW h, NEW l, NEW e, NEW v, NEW c, Balanced(m, h, l, e, v, c),
         NEW x, NEW d, NEW p, NEW g, NEW r, NEW y, Around(m, x, d, p, g, r, y),
         NEW b, NEW w, Outer(m, x, d, r, b, w),
         x # v, r # v, p = 0 \/ p # v
  PROVE  Surrounded(m, h, l, e, x, p, r, y, b, w)
<1>1. /\ x \in m.used /\ d \in Sides /\ Opp(d) \in Sides /\ p = m.parent[x]
      /\ g = Side(m, x) /\ r \in m.used /\ r = m.child[x, Opp(d)] /\ m.parent[r] = x
      /\ y = m.child[r, d] /\ (y # 0 => m.parent[y] = r /\ y # p) /\ y # x /\ y # r
      /\ x # r /\ x # p /\ p # r /\ x # 0 /\ r # 0
  BY DEF Around
<1>2. Kids(m, x, b, r) /\ Kids(m, r, y, w)
  BY <1>1, Children DEF Outer
<1>3. b # x /\ b # r /\ w # r /\ (b # 0 => m.parent[b] = x /\ b # p) /\ (w # 0 => m.parent[w] = r /\ w # x /\ y # w)
  BY <1>1, <1>2 DEF Kids
<1>4. Measured(m, h, l, e, x, b) /\ Measured(m, h, l, e, x, r)
  BY <1>1, MeasuredBelow DEF Outer
<1>5. Measured(m, h, l, e, r, y) /\ Measured(m, h, l, e, r, w)
  BY <1>1, MeasuredBelow DEF Outer
<1>6. p # 0 => Measured(m, h, l, e, p, x)
  <2>1. SUFFICES ASSUME p # 0 PROVE Measured(m, h, l, e, p, x)
    OBVIOUS
  <2>2. Hangs(m, x, p, g)
    BY <1>1, <2>1, ParentOf
  <2>3. p \in m.used /\ g \in Sides /\ x = m.child[p, g]
    BY <2>2 DEF Hangs
  <2>4. QED BY <2>1, <2>3, MeasuredBelow
<1>7. p # 0 => w # p
  <2>1. SUFFICES ASSUME p # 0, w = p PROVE FALSE
    OBVIOUS
  <2>2. m.parent[p] = r /\ m.parent[r] = x /\ m.parent[x] = p
    BY <1>1, <1>3, <2>1
  <2>3. p \in m.used
    BY <1>2, <2>1 DEF Kids
  <2>4. QED
    <3>1. PICK S : S = {x, r, p}
      OBVIOUS
    <3>2. S \in SUBSET m.used /\ S # {} /\ \A z \in S : m.parent[z] \in S
      BY <1>1, <2>2, <2>3, <3>1
    <3>3. Rooted(m)
      BY DEF Tree
    <3>4. QED BY <3>2, <3>3 DEF Rooted
<1>8. w # x
  BY <1>1, <1>3
<1>9. QED BY <1>1, <1>3, <1>4, <1>5, <1>6, <1>7, <1>8 DEF Surrounded

\* insert4: a red node x and its red parent q trade places.
LEMMA Insert4Balances ==
  ASSUME NEW m, Tree(m), NEW h, NEW q, NEW d, NEW g, NEW k, NEW x, NEW y, NEW m2,
         Balanced(m, h, 0, x, 0, 0), Around(m, q, d, g, k, x, y), Turned(m, m, m2, q, d, g, k, x, y),
         m.color[q] = 0, m.color[x] = 0, m.color[g] = 1, g # 0, RootBlack(m, 0)
  PROVE  Balanced(m2, h, 0, q, 0, 0)
<1>1. PICK b, w : Outer(m, q, d, x, b, w)
  BY DEF Outer
<1>2. q # 0 /\ x # 0 /\ q # x /\ q \in Ptr /\ x \in Ptr
  BY DEF Around
<1>3. Surrounded(m, h, 0, x, q, g, x, y, b, w)
  BY <1>1, <1>2, SurroundedTurn
<1>4. m2.color = m.color
  BY DEF Turned
<1>5. /\ h[b] \in Int /\ h[q] = h[b] /\ (b = 0 \/ m.color[b] = 1)
      /\ h[q] = h[x] /\ h[x] \in Int /\ h[q] \in Int
  BY <1>2, <1>3 DEF Surrounded, Measured
<1>6. /\ h[y] \in Int /\ h[x] = h[y] /\ (y = 0 \/ m.color[y] = 1)
      /\ h[w] \in Int /\ h[x] = h[w] /\ (w = 0 \/ m.color[w] = 1)
  BY <1>2, <1>3 DEF Surrounded, Measured
<1>7. h[g] \in Int /\ h[g] = 1 + h[q]
  BY <1>2, <1>3 DEF Surrounded, Measured
<1>8. Fits(m2, h, 0, q, q, b) /\ Fits(m2, h, 0, q, q, y)
  <2>1. h[q] = m2.color[q] + h[b] /\ h[q] = m2.color[q] + h[y]
    BY <1>4, <1>5, <1>6
  <2>2. (b = 0 \/ m2.color[b] = 1) /\ (y = 0 \/ m2.color[y] = 1)
    BY <1>4, <1>5, <1>6
  <2>3. QED BY <1>5, <1>6, <2>1, <2>2, FitMade
<1>9. Fits(m2, h, 0, q, x, q) /\ Fits(m2, h, 0, q, x, w)
  <2>1. h[x] = m2.color[x] + h[q] /\ h[x] = m2.color[x] + h[w]
    BY <1>4, <1>5, <1>6
  <2>2. w = 0 \/ m2.color[w] = 1
    BY <1>4, <1>6
  <2>3. QED BY <1>5, <1>6, <2>1, <2>2, FitMade
<1>10. Fits(m2, h, 0, q, g, x)
  <2>1. h[g] = m2.color[g] + h[x] /\ m2.color[g] = 1
    BY <1>4, <1>5, <1>7
  <2>2. QED BY <1>5, <2>1, FitMade
<1>11. Fitting(m2, h, 0, q, q, g, x, y, b, w)
  BY <1>8, <1>9, <1>10 DEF Fitting
<1>12. PICK T : T = {q, x}
  OBVIOUS
<1>13. Stained(T, q, x, w) /\ Untouched(m, m2, h, h, T) /\ w \notin T /\ Apart(0, 0, T)
  BY <1>2, <1>3, <1>4, <1>12 DEF Stained, Untouched, Apart, Surrounded
<1>14. PICK U : U = {0, q, x, y, b, w} /\ SameTrouble(0, x, 0, q, U)
  BY DEF SameTrouble
<1>15. Heights(h)
  BY BalanceHeights
<1>16. (w \in T => Beneath(m, m2, h, 0, q, w)) /\ (g = 0 => Black(m2, x))
  BY <1>13
<1>17. QED BY <1>1, <1>11, <1>13, <1>14, <1>15, <1>16, TurnBalances

\* insert5: a red node x with a red parent q and a black uncle b; the parent
\* takes the place of the grandparent g.
LEMMA Insert5Balances ==
  ASSUME NEW m, Tree(m), NEW h, NEW g, NEW d, NEW p, NEW k, NEW q, NEW y, NEW m1, NEW m2, NEW b, NEW x,
         Balanced(m, h, 0, x, 0, 0), Around(m, g, d, p, k, q, y), Turned(m, m1, m2, g, d, p, k, q, y),
         PaintedTwo(m, m1, q, RB_BLACK, g, RB_RED), Outer(m, g, d, q, b, x), x # 0,
         m.color[q] = 0, m.color[x] = 0, m.color[g] = 1, Black(m, b), RootBlack(m, 0)
  PROVE  \E h2 : Balanced(m2, h2, 0, 0, 0, 0)
<1>1. g # 0 /\ q # 0 /\ g # q /\ g \in Ptr /\ q \in Ptr
  BY DEF Around
<1>2. Surrounded(m, h, 0, x, g, p, q, y, b, x)
  BY <1>1, SurroundedTurn
<1>3. m2.color[q] = 1 /\ m2.color[g] = 0 /\ \A z \in Ptr : z # q /\ z # g => m2.color[z] = m.color[z]
  BY <1>1 DEF Turned, PaintedTwo, RB_RED, RB_BLACK
<1>4. Heights(h)
  BY BalanceHeights
<1>5. /\ h[g] \in Int /\ h[b] \in Int /\ h[q] \in Int /\ h[y] \in Int /\ h[x] \in Int /\ h[b] >= 1
      /\ h[g] = 1 + h[b] /\ h[g] = 1 + h[q] /\ h[q] = h[y] /\ h[q] = h[x]
      /\ y = 0 \/ m.color[y] = 1
  <2>1. /\ h[g] \in Int /\ h[b] \in Int /\ h[q] \in Int /\ h[b] >= 1
        /\ h[g] = 1 + h[b] /\ h[g] = 1 + h[q]
    BY <1>1, <1>2 DEF Surrounded, Measured
  <2>2. /\ h[y] \in Int /\ h[x] \in Int /\ h[q] = h[y] /\ h[q] = h[x] /\ y # x
    BY <1>1, <1>2, <2>1 DEF Surrounded, Measured
  <2>3. y = 0 \/ m.color[y] = 1
    BY <1>2, <2>2 DEF Surrounded, Measured
  <2>4. QED BY <2>1, <2>2, <2>3
<1>6. PICK i \in Nat \ {0}, j \in Nat \ {0} : i = h[g] /\ j = h[g] - 1
  <2>1. h[g] \in Nat \ {0} /\ h[g] - 1 \in Nat \ {0}
    BY <1>5
  <2>2. QED BY <2>1
<1>7. PICK h2 : Raised(h, h2, q, i, g, j, g, j)
  BY <1>1, <1>4, HeightsExist
<1>8. /\ Heights(h2) /\ h2[q] = h[g] /\ h2[g] = h[g] - 1
      /\ \A z \in Ptr : z # q /\ z # g => h2[z] = h[z]
  BY <1>1, <1>6, <1>7 DEF Raised
<1>9. b \in Ptr /\ y \in Ptr /\ x \in Ptr /\ b # q /\ b # g /\ y # q /\ y # g /\ x # q /\ x # g
  BY <1>2 DEF Surrounded, Measured
<1>10. /\ h2[b] = h[b] /\ h2[y] = h[y] /\ h2[x] = h[x]
       /\ b = 0 \/ m2.color[b] = 1
       /\ y = 0 \/ m2.color[y] = 1
  <2>1. h2[b] = h[b] /\ h2[y] = h[y] /\ h2[x] = h[x]
    BY <1>8, <1>9
  <2>2. m2.color[b] = m.color[b] /\ m2.color[y] = m.color[y]
    BY <1>3, <1>9
  <2>3. b = 0 \/ m.color[b] = 1
    BY ColorOf
  <2>4. QED BY <1>5, <2>1, <2>2, <2>3
<1>11. Fits(m2, h2, 0, 0, g, b) /\ Fits(m2, h2, 0, 0, g, y)
  <2>1. h2[g] = h[b] /\ h2[g] = h[y] /\ h[b] = 0 + h[b] /\ h[y] = 0 + h[y]
    BY <1>5, <1>8
  <2>2. h2[g] = m2.color[g] + h2[b] /\ h2[g] = m2.color[g] + h2[y]
    BY <1>3, <1>10, <2>1
  <2>3. QED BY <1>5, <1>10, <2>2, FitMade
<1>12. Fits(m2, h2, 0, 0, q, g) /\ Fits(m2, h2, 0, 0, q, x)
  <2>1. h2[q] = m2.color[q] + h2[g] /\ h2[q] = m2.color[q] + h2[x] /\ h2[g] \in Int
    BY <1>3, <1>5, <1>8, <1>10
  <2>2. QED BY <1>1, <1>3, <1>5, <1>10, <2>1, FitMade
<1>13. p # 0 => Fits(m2, h2, 0, 0, p, q)
  <2>1. SUFFICES ASSUME p # 0 PROVE Fits(m2, h2, 0, 0, p, q)
    OBVIOUS
  <2>2. h[p] = m.color[p] + h[g] /\ p \in Ptr /\ p # q /\ p # g
    BY <1>1, <1>2, <2>1 DEF Surrounded, Measured
  <2>3. h2[p] = m2.color[p] + h2[q] /\ h2[q] \in Int
    BY <1>3, <1>5, <1>8, <2>2
  <2>4. QED BY <1>3, <2>3, FitMade
<1>14. Fitting(m2, h2, 0, 0, g, p, q, y, b, x)
  BY <1>11, <1>12, <1>13 DEF Fitting
<1>15. PICK T : T = {g, q}
  OBVIOUS
<1>16. /\ Stained(T, g, q, x) /\ Untouched(m, m2, h, h2, T) /\ x \notin T /\ Apart(0, 0, T)
  BY <1>1, <1>3, <1>8, <1>9, <1>15 DEF Stained, Untouched, Apart
<1>17. PICK U : U = {0, g, q, y, b, x} /\ SameTrouble(0, x, 0, 0, U)
  BY DEF SameTrouble
<1>18. (x \in T => Beneath(m, m2, h2, 0, 0, x)) /\ (p = 0 => Black(m2, q))
  BY <1>3, <1>16, ColorOf
<1>19. Balanced(m2, h2, 0, 0, 0, 0)
  BY <1>8, <1>14, <1>16, <1>17, <1>18, TurnBalances
<1>20. QED BY <1>19

\* insert4 keeps the heights.
LEMMA Insert4Colors ==
  ASSUME LinkInv, ColorInv, insert4
  PROVE  ColorInv'
<1>1. pc = "insert4" /\ pc \in Inserting /\ pc \in Inserting \ {"insert1"}
      /\ UNCHANGED <<victim, child, copies, result>>
  BY DEF insert4, Rebalances, Inserting
<1>2. PICK h : Rising(h)
  BY <1>1, RisingAt
<1>3. PICK q, g, k : q = Parent(n) /\ g = rb_grandparent(t, n) /\ k = rb_uncle(t, n)
  OBVIOUS
<1>4. /\ HasGrandparent(t, n) /\ Generations(t, n, q, g) /\ Red(t, q)
      /\ t.color[q] = 0 /\ t.color[n] = 0 /\ t.color[g] = 1 /\ RootBlack(t, 0)
  BY <1>1, <1>2, <1>3, RisingHigh
<1>5. /\ Tree(t) /\ n \in t.used /\ n \in Ptr /\ n # 0 /\ victim = 0 /\ child = 0
      /\ Balanced(t, h, 0, n, 0, 0) /\ Red(t, n) /\ Black(t, k)
  BY <1>1, <1>2, <1>3 DEF Rising, Found
<1>6. /\ q = t.parent[n] /\ q \in t.used /\ q \in Ptr /\ q # 0
      /\ g = t.parent[q] /\ g \in t.used /\ g \in Ptr /\ g # 0 /\ n # q /\ q # g /\ n # g
  BY <1>4 DEF Generations
<1>7. PICK e \in Sides : Hangs(t, q, g, e) /\ e = Side(t, q)
  <2>1. PICK e : e = Side(t, q)
    OBVIOUS
  <2>2. Hangs(t, q, g, e)
    BY <1>5, <1>6, <2>1, ParentOf
  <2>3. QED BY <2>1, <2>2 DEF Hangs
<1>8. k = t.child[g, Opp(e)] /\ Opp(e) \in Sides /\ Opp(e) # e
  BY <1>3, <1>6, <1>7, TwoSides DEF rb_uncle, rb_sibling, Parent
<1>9. ASSUME NEW d \in Sides, Chain(t, n, Opp(d), d), t' = rb_rotate(t, q, d),
             pc' = "insert5", n' = t'.child[n, d]
      PROVE  ColorInv'
  <2>1. PICK y, m2 : y = t.child[n, d] /\ m2 = t'
    OBVIOUS
  <2>2. Around(t, q, d, g, e, n, y) /\ Turned(t, t, m2, q, d, g, e, n, y)
    BY <1>4, <1>5, <1>7, <1>9, <2>1, Insert4Turn
  <2>3. Balanced(m2, h, 0, q, 0, 0)
    BY <1>4, <1>5, <1>6, <2>2, Insert4Balances
  <2>4. m2.child[n, d] = q /\ m2.child[g, e] = n /\ m2.child[g, Opp(e)] = k
    <3>1. \A z \in Ptr, f \in Sides :
            m2.child[z, f] = IF z = n /\ f = d THEN q
                             ELSE IF z = q /\ f = Opp(d) THEN y
                             ELSE IF z = g /\ g # 0 /\ f = e THEN n ELSE t.child[z, f]
      BY <2>2 DEF Turned
    <3>2. QED BY <1>5, <1>6, <1>7, <1>8, <1>9, <3>1
  <2>5. m2.color = t.color /\ m2.used = t.used /\ Tree(m2) /\ m2.parent[q] = n /\ m2.parent[n] = g
    BY <1>5, <1>6, <2>2 DEF Turned, Others
  <2>6. n' = q
    BY <1>9, <2>1, <2>4
  <2>7. Lacking' = 0 /\ Excused' = q /\ victim' = 0 /\ child' = 0
    BY <1>1, <1>5, <1>9, <2>6 DEF Lacking, Excused, Inserting, Deleting
  <2>8. Side(m2, n) = e
    <3>1. Hangs(m2, n, g, e)
      BY <1>6, <1>7, <2>4, <2>5 DEF Hangs
    <3>2. QED BY <1>5, <1>6, <2>5, <3>1, SideIs
  <2>9. rb_uncle(m2, q) = k
    BY <2>4, <2>5, <2>8 DEF rb_uncle, rb_sibling
  <2>10. e = d
    <3>1. Hangs(t, q, g, d)
      BY <1>6, <1>9 DEF Chain, rb_grandparent, Hangs
    <3>2. QED BY <1>5, <1>6, <1>7, <3>1, SideIs
  <2>11. Chain(m2, q, d, d)
    BY <2>4, <2>5, <2>10 DEF Chain, rb_grandparent
  <2>12. Black(m2, k) /\ Red(m2, q) /\ Red(m2, n)
    BY <1>4, <1>5, <2>5, ColorOf
  <2>13. Found(t)'
    <3>1. /\ Red(m2, q) /\ m2.parent[q] # 0 /\ Red(m2, m2.parent[q]) /\ Black(m2, rb_uncle(m2, q))
          /\ \E d1 \in Sides : Chain(m2, q, d1, d1)
      BY <1>5, <1>9, <2>5, <2>9, <2>11, <2>12
    <3>2. /\ Red(t', n') /\ t'.parent[n'] # 0 /\ Red(t', t'.parent[n']) /\ Black(t', rb_uncle(t', n'))
          /\ \E d1 \in Sides : Chain(t', n', d1, d1)
      BY <2>1, <2>6, <3>1
    <3>3. QED BY <1>9, <3>2 DEF Found, Inserting
  <2>14. pc' # "panic" /\ Balanced(t', h, 0, q, victim', child')
    BY <1>9, <2>1, <2>3, <2>7
  <2>15. QED BY <2>7, <2>13, <2>14, ColorsAfter
<1>10. ASSUME \A d \in Sides : ~Chain(t, n, Opp(d), d), t' = t, pc' = "insert5", n' = n
       PROVE  ColorInv'
  <2>1. Lacking' = 0 /\ Excused' = n /\ victim' = 0 /\ child' = 0 /\ Balanced(t', h, 0, n, 0, 0)
    BY <1>1, <1>5, <1>10 DEF Lacking, Excused, Inserting, Deleting
  <2>2. PICK a \in Sides : Hangs(t, n, q, a)
    <3>1. PICK a : a = Side(t, n)
      OBVIOUS
    <3>2. Hangs(t, n, q, a)
      BY <1>5, <1>6, <3>1, ParentOf
    <3>3. QED BY <3>2 DEF Hangs
  <2>3. t.child[q, a] = n /\ t.child[g, e] = q
    BY <1>7, <2>2 DEF Hangs
  <2>4. Chain(t, n, a, e)
    BY <1>6, <2>3 DEF Chain, rb_grandparent
  <2>5. a = e
    <3>1. a = e \/ a = Opp(e)
      BY TwoSides
    <3>2. QED BY <1>10, <2>4, <3>1
  <2>6. Chain(t', n', e, e)
    BY <1>10, <2>4, <2>5
  <2>7. Found(t)'
    <3>1. Red(t', n') /\ t'.parent[n'] # 0 /\ Red(t', t'.parent[n']) /\ Black(t', rb_uncle(t', n'))
      BY <1>3, <1>4, <1>5, <1>6, <1>10
    <3>2. \E d1 \in Sides : Chain(t', n', d1, d1)
      BY <2>6
    <3>3. QED BY <1>10, <3>1, <3>2 DEF Found, Inserting
  <2>8. pc' # "panic" /\ Balanced(t', h, 0, n, victim', child')
    BY <1>10, <2>1
  <2>9. QED BY <2>1, <2>7, <2>8, ColorsAfter
<1>11. QED
  BY <1>3, <1>4, <1>9, <1>10 DEF insert4, Goto

\* insert5 ends the insertion: the tree is a red-black tree again.
LEMMA Insert5Colors ==
  ASSUME LinkInv, ColorInv, insert5
  PROVE  ColorInv'
<1>1. pc = "insert5" /\ pc \in Inserting /\ pc \in Inserting \ {"insert1"}
      /\ UNCHANGED <<victim, child, copies, result>>
  BY DEF insert5, Rebalances, Inserting
<1>2. PICK h : Rising(h)
  BY <1>1, RisingAt
<1>3. PICK q, g : q = Parent(n) /\ g = rb_grandparent(t, n)
  OBVIOUS
<1>4. /\ HasGrandparent(t, n) /\ Generations(t, n, q, g) /\ Red(t, q)
      /\ t.color[q] = 0 /\ t.color[n] = 0 /\ t.color[g] = 1 /\ RootBlack(t, 0)
  BY <1>1, <1>2, <1>3, RisingHigh
<1>5. /\ Tree(t) /\ n \in t.used /\ n \in Ptr /\ n # 0 /\ victim = 0 /\ child = 0
      /\ Balanced(t, h, 0, n, 0, 0) /\ Black(t, rb_uncle(t, n)) /\ \E d \in Sides : Chain(t, n, d, d)
  BY <1>1, <1>2 DEF Rising, Found
<1>6. /\ q = t.parent[n] /\ q \in t.used /\ q \in Ptr /\ q # 0
      /\ g = t.parent[q] /\ g \in t.used /\ g \in Ptr /\ g # 0 /\ n # q /\ q # g /\ n # g
  BY <1>4 DEF Generations
<1>7. PICK d \in Sides : /\ Chain(t, n, d, d) /\ pc' = "idle" /\ n' = 0
                         /\ t' = rb_rotate(Paint(Paint(t, q, RB_BLACK), g, RB_RED), g, Opp(d))
  BY <1>3, <1>4, <1>5 DEF insert5, Return, Goto
<1>8. PICK p, k, y, m1, m2, b :
         /\ p = t.parent[g] /\ k = Side(t, g) /\ y = t.child[q, Opp(d)] /\ b = t.child[g, Opp(d)]
         /\ m1 = Paint(Paint(t, q, RB_BLACK), g, RB_RED) /\ m2 = t'
  OBVIOUS
<1>9. /\ PaintedTwo(t, m1, q, RB_BLACK, g, RB_RED)
      /\ Around(t, g, Opp(d), p, k, q, y) /\ Turned(t, m1, m2, g, Opp(d), p, k, q, y)
  BY <1>4, <1>5, <1>7, <1>8, Insert5Turn
<1>10. t.child[q, d] = n /\ t.child[g, d] = q
  BY <1>6, <1>7 DEF Chain, rb_grandparent
<1>11. Side(t, q) = d
  <2>1. Hangs(t, q, g, d)
    BY <1>6, <1>10 DEF Hangs
  <2>2. QED BY <1>5, <1>6, <2>1, SideIs
<1>12. Black(t, b)
  BY <1>5, <1>6, <1>8, <1>11 DEF rb_uncle, rb_sibling
<1>13. Outer(t, g, Opp(d), q, b, n)
  BY <1>8, <1>10, TwoSides DEF Outer
<1>14. PICK h2 : Balanced(m2, h2, 0, 0, 0, 0)
  BY <1>4, <1>5, <1>9, <1>12, <1>13, Insert5Balances
<1>15. Lacking' = 0 /\ Excused' = 0 /\ victim' = 0 /\ child' = 0 /\ Found(t)'
  BY <1>1, <1>5, <1>7 DEF Lacking, Excused, Found, Inserting, Deleting
<1>16. pc' # "panic" /\ Balanced(t', h2, 0, 0, victim', child')
  BY <1>7, <1>8, <1>14, <1>15
<1>17. QED BY <1>15, <1>16, ColorsAfter

\* delete2: the sibling s of x is red and takes the place of the parent q; the
\* new sibling y is black.
LEMMA Delete2Balances ==
  ASSUME NEW m, Tree(m), NEW h, NEW v, NEW c, NEW q, NEW d, NEW p, NEW k, NEW s, NEW y,
         NEW m1, NEW m2, NEW x, NEW w, NEW T, T = {q, s},
         Balanced(m, h, x, x, v, c), Around(m, q, d, p, k, s, y), Turned(m, m1, m2, q, d, p, k, s, y),
         PaintedTwo(m, m1, q, RB_RED, s, RB_BLACK), Outer(m, q, d, s, x, w), x # 0,
         m.color[s] = 0, RootBlack(m, v), Apart(v, c, T), q # v, s # v, p = 0 \/ p # v
  PROVE  (\E h2 : Balanced(m2, h2, x, x, v, c)) /\ y # 0 /\ m2.color[y] = 1
<1>1. q # 0 /\ s # 0 /\ q # s /\ q \in Ptr /\ s \in Ptr
  BY DEF Around
<1>2. Surrounded(m, h, x, x, q, p, s, y, x, w)
  BY <1>1, SurroundedTurn
<1>3. m2.color[s] = 1 /\ m2.color[q] = 0 /\ \A z \in Ptr : z # q /\ z # s => m2.color[z] = m.color[z]
  BY <1>1 DEF Turned, PaintedTwo, RB_RED, RB_BLACK
<1>4. Heights(h)
  BY BalanceHeights
<1>5. /\ x \in Ptr /\ y \in Ptr /\ w \in Ptr /\ x # q /\ x # s /\ y # q /\ y # s /\ w # q /\ w # s
      /\ y # x /\ w # x
  BY <1>2 DEF Surrounded, Measured
<1>6. /\ h[q] \in Int /\ h[x] \in Int /\ h[s] \in Int /\ h[x] >= 1 /\ m.color[q] = 1
      /\ h[q] = (1 + h[x]) + 1 /\ h[q] = 1 + h[s]
  BY <1>1, <1>2, <1>5 DEF Surrounded, Measured
<1>7. /\ h[y] \in Int /\ h[s] = h[y] /\ (y = 0 \/ m.color[y] = 1) /\ (y = 0 => h[y] = 1)
      /\ h[w] \in Int /\ h[s] = h[w] /\ (w = 0 \/ m.color[w] = 1)
  BY <1>1, <1>2, <1>5 DEF Surrounded, Measured
<1>8. y # 0 /\ m.color[y] = 1
  BY <1>6, <1>7
<1>9. PICK i \in Nat \ {0}, j \in Nat \ {0} : i = h[x] + 1 /\ j = (h[x] + 1) + 1
  <2>1. h[x] + 1 \in Nat \ {0} /\ (h[x] + 1) + 1 \in Nat \ {0}
    BY <1>6
  <2>2. QED BY <2>1
<1>10. PICK h2 : Raised(h, h2, q, i, s, j, s, j)
  BY <1>1, <1>4, HeightsExist
<1>11. /\ Heights(h2) /\ h2[q] = h[x] + 1 /\ h2[s] = (h[x] + 1) + 1
       /\ \A z \in Ptr : z # q /\ z # s => h2[z] = h[z]
  BY <1>1, <1>9, <1>10 DEF Raised
<1>12. /\ h2[x] = h[x] /\ h2[y] = h[y] /\ h2[w] = h[w]
       /\ m2.color[y] = m.color[y] /\ m2.color[w] = m.color[w]
  BY <1>3, <1>5, <1>11
<1>13. h[y] = h[x] + 1 /\ h[w] = h[x] + 1
  BY <1>6, <1>7
<1>14. Fits(m2, h2, x, x, q, x)
  <2>1. h2[q] = m2.color[q] + (h2[x] + 1) /\ h2[x] \in Int
    BY <1>3, <1>6, <1>11, <1>12
  <2>2. QED BY <2>1, FitLacking
<1>15. Fits(m2, h2, x, x, q, y)
  <2>1. h2[q] = m2.color[q] + h2[y] /\ h2[y] \in Int
    BY <1>3, <1>6, <1>11, <1>12, <1>13
  <2>2. QED BY <1>5, <1>8, <1>12, <2>1, FitMade
<1>16. Fits(m2, h2, x, x, s, q) /\ Fits(m2, h2, x, x, s, w)
  <2>1. h2[s] = m2.color[s] + h2[q] /\ h2[s] = m2.color[s] + h2[w] /\ h2[q] \in Int /\ h2[w] \in Int
    BY <1>3, <1>6, <1>11, <1>12, <1>13
  <2>2. QED BY <1>3, <1>5, <2>1, FitMade
<1>17. p # 0 => Fits(m2, h2, x, x, p, s)
  <2>1. SUFFICES ASSUME p # 0 PROVE Fits(m2, h2, x, x, p, s)
    OBVIOUS
  <2>2. /\ h[p] = m.color[p] + h[q] + (IF q = x /\ q # 0 THEN 1 ELSE 0) /\ m.color[p] \in {0, 1}
        /\ p \in Ptr /\ p # s /\ p # q
    BY <1>1, <1>2, <2>1 DEF Surrounded, Measured
  <2>3. h2[p] = h[p] /\ m2.color[p] = m.color[p] /\ h2[s] = h[q] /\ h[p] = m.color[p] + h[q]
    BY <1>3, <1>5, <1>6, <1>11, <2>2
  <2>4. h2[p] = m2.color[p] + h2[s] /\ h2[s] \in Int
    BY <1>6, <2>3
  <2>5. QED BY <1>3, <1>5, <2>4, FitMade
<1>18. Fitting(m2, h2, x, x, q, p, s, y, x, w)
  BY <1>14, <1>15, <1>16, <1>17 DEF Fitting
<1>19. Stained(T, q, s, w) /\ Untouched(m, m2, h, h2, T) /\ w \notin T
  BY <1>1, <1>3, <1>5, <1>11 DEF Stained, Untouched
<1>20. PICK U : U = {0, q, s, y, x, w} /\ SameTrouble(x, x, x, x, U)
  BY DEF SameTrouble
<1>21. (w \in T => Beneath(m, m2, h2, x, x, w)) /\ (p = 0 => Black(m2, s))
  BY <1>3, <1>19, ColorOf
<1>22. Balanced(m2, h2, x, x, v, c)
  BY <1>11, <1>18, <1>19, <1>20, <1>21, TurnBalances
<1>23. QED BY <1>8, <1>12, <1>22

\* delete5: the child a of the sibling s on the side of x is red and takes the
\* place of s.
LEMMA Delete5Balances ==
  ASSUME NEW m, Tree(m), NEW h, NEW v, NEW c, NEW q, NEW d, NEW k, NEW s, NEW a, NEW y,
         NEW m1, NEW m2, NEW x, NEW b, NEW w, NEW T, T = {s, a},
         Balanced(m, h, x, x, v, c), Around(m, s, d, q, k, a, y), Turned(m, m1, m2, s, d, q, k, a, y),
         PaintedTwo(m, m1, s, RB_RED, a, RB_BLACK), Outer(m, s, d, a, b, w), x # 0, q # 0, x # s,
         m.parent[x] = q, m.color[s] = 1, m.color[a] = 0, Black(m, b),
         RootBlack(m, v), Apart(v, c, T), s # v, a # v, q # v
  PROVE  \E h2 : Balanced(m2, h2, x, x, v, c)
<1>1. s # 0 /\ a # 0 /\ s # a /\ s \in Ptr /\ a \in Ptr /\ m.parent[a] = s
  BY DEF Around
<1>2. Surrounded(m, h, x, x, s, q, a, y, b, w)
  BY <1>1, SurroundedTurn
<1>3. m2.color[a] = 1 /\ m2.color[s] = 0 /\ \A z \in Ptr : z # s /\ z # a => m2.color[z] = m.color[z]
  BY <1>1, ZenonT(30) DEF Turned, PaintedTwo, RB_RED, RB_BLACK
<1>4. Heights(h)
  BY BalanceHeights
<1>5. b \in Ptr /\ y \in Ptr /\ w \in Ptr /\ b # s /\ b # a /\ y # s /\ y # a /\ w # s /\ w # a
  BY <1>2 DEF Surrounded, Measured
<1>6. s # q /\ a # q /\ x # a /\ x # b /\ x # y /\ x # w
  BY <1>1, <1>2 DEF Surrounded
<1>7. /\ h[s] \in Int /\ h[a] \in Int /\ h[b] \in Int /\ h[b] >= 1
      /\ h[s] = 1 + h[b] /\ h[s] = 1 + h[a]
  BY <1>1, <1>2, <1>6 DEF Surrounded, Measured
<1>8. /\ h[y] \in Int /\ h[a] = h[y] /\ (y = 0 \/ m.color[y] = 1)
      /\ h[w] \in Int /\ h[a] = h[w] /\ (w = 0 \/ m.color[w] = 1)
  BY <1>1, <1>2, <1>6, <1>7 DEF Surrounded, Measured
<1>9. PICK i \in Nat \ {0}, j \in Nat \ {0} : i = h[b] /\ j = h[b] + 1
  <2>1. h[b] \in Nat \ {0} /\ h[b] + 1 \in Nat \ {0}
    BY <1>7
  <2>2. QED BY <2>1
<1>10. PICK h2 : Raised(h, h2, s, i, a, j, a, j)
  BY <1>1, <1>4, HeightsExist
<1>11. /\ Heights(h2) /\ h2[s] = h[b] /\ h2[a] = h[b] + 1
       /\ \A z \in Ptr : z # s /\ z # a => h2[z] = h[z]
  BY <1>1, <1>9, <1>10 DEF Raised
<1>12. /\ h2[b] = h[b] /\ h2[y] = h[y] /\ h2[w] = h[w]
       /\ m2.color[b] = m.color[b] /\ m2.color[y] = m.color[y] /\ m2.color[w] = m.color[w]
  BY <1>3, <1>5, <1>11
<1>13. h[y] = h[b] /\ h[w] = h[b] /\ (b = 0 \/ m.color[b] = 1)
  BY <1>7, <1>8, ColorOf
<1>14. Fits(m2, h2, x, x, s, b) /\ Fits(m2, h2, x, x, s, y)
  <2>1. h2[s] = m2.color[s] + h2[b] /\ h2[s] = m2.color[s] + h2[y] /\ h2[b] \in Int /\ h2[y] \in Int
    BY <1>3, <1>7, <1>11, <1>12, <1>13
  <2>2. (b = 0 \/ m2.color[b] = 1) /\ (y = 0 \/ m2.color[y] = 1)
    BY <1>8, <1>12, <1>13
  <2>3. QED BY <1>6, <2>1, <2>2, FitMade
<1>15. Fits(m2, h2, x, x, a, s) /\ Fits(m2, h2, x, x, a, w)
  <2>1. h2[a] = m2.color[a] + h2[s] /\ h2[a] = m2.color[a] + h2[w] /\ h2[s] \in Int /\ h2[w] \in Int
    BY <1>3, <1>7, <1>11, <1>12, <1>13
  <2>2. QED BY <1>3, <1>6, <2>1, FitMade
<1>16. q # 0 => Fits(m2, h2, x, x, q, a)
  <2>1. /\ h[q] = m.color[q] + h[s] + (IF s = x /\ s # 0 THEN 1 ELSE 0) /\ m.color[q] \in {0, 1}
        /\ q \in Ptr
    BY <1>1, <1>2 DEF Surrounded, Measured
  <2>2. h2[q] = h[q] /\ m2.color[q] = m.color[q] /\ h2[a] = h[s] /\ h[q] = m.color[q] + h[s]
    BY <1>3, <1>6, <1>7, <1>11, <2>1
  <2>3. h2[q] = m2.color[q] + h2[a] /\ h2[a] \in Int
    BY <1>7, <2>2
  <2>4. QED BY <1>3, <1>6, <2>3, FitMade
<1>17. Fitting(m2, h2, x, x, s, q, a, y, b, w)
  BY <1>14, <1>15, <1>16 DEF Fitting
<1>18. Stained(T, s, a, w) /\ Untouched(m, m2, h, h2, T) /\ w \notin T
  BY <1>1, <1>3, <1>5, <1>11 DEF Stained, Untouched
<1>19. PICK U : U = {0, s, a, y, b, w} /\ SameTrouble(x, x, x, x, U)
  BY DEF SameTrouble
<1>20. (w \in T => Beneath(m, m2, h2, x, x, w)) /\ (q = 0 => Black(m2, a))
  BY <1>18
<1>21. Balanced(m2, h2, x, x, v, c)
  BY <1>11, <1>17, <1>18, <1>19, <1>20, TurnBalances, SMTT(30)
<1>22. QED BY <1>21

\* delete6: the sibling s of x takes the place of the parent q, whose color it
\* gets, and its red child w becomes black: nothing is missing any more.
LEMMA Delete6Balances ==
  ASSUME NEW m, Tree(m), NEW h, NEW v, NEW c, NEW q, NEW d, NEW p, NEW k, NEW s, NEW y,
         NEW m1, NEW m2, NEW x, NEW w, NEW o, o = m.color[q], NEW T, T = {q, s, w},
         Balanced(m, h, x, x, v, c), Around(m, q, d, p, k, s, y), Turned(m, m1, m2, q, d, p, k, s, y),
         PaintedThree(m, m1, s, o, q, RB_BLACK, w, RB_BLACK), Outer(m, q, d, s, x, w), x # 0, w # 0,
         w \in m.used, m.color[s] = 1, m.color[w] = 0,
         RootBlack(m, v), Apart(v, c, T), q # v, s # v, w # v, p = 0 \/ p # v
  PROVE  \E h2 : Balanced(m2, h2, 0, 0, v, c)
<1>1. q # 0 /\ s # 0 /\ q # s /\ q \in Ptr /\ s \in Ptr /\ q \in m.used
  BY DEF Around
<1>2. Surrounded(m, h, x, x, q, p, s, y, x, w)
  BY <1>1, SurroundedTurn
<1>3. /\ x \in Ptr /\ y \in Ptr /\ w \in Ptr /\ x # q /\ x # s /\ y # q /\ y # s /\ w # q /\ w # s
      /\ y # x /\ w # x /\ y # w /\ m.parent[w] = s
  BY <1>2 DEF Surrounded, Measured
<1>4. /\ m2.color[s] = o /\ m2.color[q] = 1 /\ m2.color[w] = 1
      /\ \A z \in Ptr : z # q /\ z # s /\ z # w => m2.color[z] = m.color[z]
  BY <1>1, <1>3, ZenonT(30) DEF Turned, PaintedThree, RB_BLACK
<1>5. Heights(h) /\ Numbers(h)
  BY BalanceHeights, BalanceNumbers
<1>6. /\ h[q] \in Int /\ h[x] \in Int /\ h[s] \in Int /\ h[x] >= 1 /\ o \in {0, 1}
      /\ h[q] = (o + h[x]) + 1 /\ h[q] = o + h[s]
  BY <1>1, <1>2, <1>3 DEF Surrounded, Measured
<1>7. h[y] \in Int /\ h[s] = 1 + h[y] /\ h[w] \in Int /\ h[s] = 1 + h[w]
  BY <1>1, <1>2, <1>3 DEF Surrounded, Measured
<1>8. h[s] = h[x] + 1 /\ h[y] = h[x] /\ h[w] = h[x]
  BY <1>6, <1>7
<1>9. PICK i \in Nat \ {0}, j \in Nat \ {0} : i = h[x] + 1 /\ j = h[q]
  <2>1. h[x] + 1 \in Nat \ {0} /\ h[q] \in Nat \ {0}
    BY <1>6
  <2>2. QED BY <2>1
<1>10. PICK h2 : Raised(h, h2, q, i, w, i, s, j)
  BY <1>1, <1>3, <1>5, HeightsExist
<1>11. /\ Heights(h2) /\ h2[q] = h[x] + 1 /\ h2[w] = h[x] + 1 /\ h2[s] = h[q]
       /\ \A z \in Ptr : z # q /\ z # s /\ z # w => h2[z] = h[z]
  BY <1>1, <1>3, <1>9, <1>10 DEF Raised
<1>12. h2[x] = h[x] /\ h2[y] = h[y]
  BY <1>3, <1>11
<1>13. Fits(m2, h2, 0, 0, q, x) /\ Fits(m2, h2, 0, 0, q, y)
  <2>1. h2[q] = m2.color[q] + h2[x] /\ h2[q] = m2.color[q] + h2[y] /\ h2[x] \in Int /\ h2[y] \in Int
    BY <1>4, <1>6, <1>7, <1>8, <1>11, <1>12
  <2>2. QED BY <1>4, <2>1, FitMade
<1>14. Fits(m2, h2, 0, 0, s, q) /\ Fits(m2, h2, 0, 0, s, w)
  <2>1. h2[s] = m2.color[s] + h2[q] /\ h2[s] = m2.color[s] + h2[w] /\ h2[q] \in Int /\ h2[w] \in Int
    BY <1>4, <1>6, <1>11
  <2>2. QED BY <1>4, <2>1, FitMade
<1>15. p # 0 => Fits(m2, h2, 0, 0, p, s)
  <2>1. SUFFICES ASSUME p # 0 PROVE Fits(m2, h2, 0, 0, p, s)
    OBVIOUS
  <2>2. /\ h[p] = m.color[p] + h[q] + (IF q = x /\ q # 0 THEN 1 ELSE 0) /\ m.color[p] \in {0, 1}
        /\ p \in Ptr /\ p # s /\ p # q /\ p # w /\ (m.color[p] = 1 \/ o = 1)
    BY <1>1, <1>2, <1>3, <2>1 DEF Surrounded, Measured
  <2>3. h2[p] = h[p] /\ m2.color[p] = m.color[p] /\ h2[s] = h[q] /\ h[p] = m.color[p] + h[q]
    BY <1>3, <1>4, <1>6, <1>11, <2>2
  <2>4. h2[p] = m2.color[p] + h2[s] /\ h2[s] \in Int /\ (m2.color[p] = 1 \/ m2.color[s] = 1)
    BY <1>4, <1>6, <2>2, <2>3
  <2>5. QED BY <2>4, FitMade
<1>16. Fitting(m2, h2, 0, 0, q, p, s, y, x, w)
  BY <1>13, <1>14, <1>15 DEF Fitting
<1>17. Stained(T, q, s, w) /\ Untouched(m, m2, h, h2, T)
  BY <1>1, <1>4, <1>11 DEF Stained, Untouched
<1>18. PICK U : U = {0, q, s, y, x, w} /\ SameTrouble(x, x, 0, 0, U)
  <2>1. PICK U : U = {0, q, s, y, x, w}
    OBVIOUS
  <2>2. SameTrouble(x, x, 0, 0, U)
    BY <2>1 DEF SameTrouble
  <2>3. QED BY <2>1, <2>2
<1>19. Beneath(m, m2, h2, 0, 0, w)
  <2>1. SUFFICES ASSUME NEW f \in Sides PROVE Fits(m2, h2, 0, 0, w, m.child[w, f])
    BY DEF Beneath
  <2>2. PICK u : u = m.child[w, f]
    OBVIOUS
  <2>3. Measured(m, h, x, x, w, u) /\ Below(m, w, u)
    BY <2>2, MeasuredBelow, BelowNode
  <2>4. u \in Ptr /\ u # q /\ u # s /\ u # w /\ u # x
    <3>1. u # s
      <4>1. SUFFICES ASSUME u = s PROVE FALSE
        OBVIOUS
      <4>2. m.parent[s] = w /\ m.parent[s] = q
        BY <1>1, <2>3, <4>1 DEF Below, Around
      <4>3. QED BY <1>3, <4>2
    <3>2. u # q
      <4>1. SUFFICES ASSUME u = q PROVE FALSE
        OBVIOUS
      <4>2. m.parent[q] = w /\ p = w
        BY <1>1, <2>3, <4>1 DEF Below, Around
      <4>3. QED BY <1>2, <4>2 DEF Surrounded
    <3>3. u # x
      <4>1. SUFFICES ASSUME u = x PROVE FALSE
        OBVIOUS
      <4>2. m.parent[x] = w /\ m.parent[x] = q
        BY <1>2, <2>3, <4>1 DEF Below, Surrounded
      <4>3. QED BY <1>3, <4>2
    <3>4. QED BY <2>3, <3>1, <3>2, <3>3 DEF Below
  <2>5. h[w] = h[u] /\ h[u] \in Int
    BY <2>3, <2>4 DEF Measured
  <2>6. h2[w] = m2.color[w] + h2[u] /\ h2[u] \in Int
    BY <1>4, <1>8, <1>11, <2>4, <2>5
  <2>7. Fits(m2, h2, 0, 0, w, u)
    BY <1>4, <2>6, FitMade
  <2>8. QED BY <2>2, <2>7
<1>20. p = 0 => Black(m2, s)
  <2>1. SUFFICES ASSUME p = 0 PROVE Black(m2, s)
    OBVIOUS
  <2>2. q = m.root
    BY <1>1, <2>1, TreeLinks, ZenonT(30) DEF Ties, Around
  <2>3. ~Red(m, q)
    BY <2>2 DEF RootBlack
  <2>4. o = 1
    BY <1>1, <1>6, <2>3, ColorOf
  <2>5. QED BY <1>4, <2>4, ColorOf
<1>21. Balanced(m2, h2, 0, 0, v, c)
  BY <1>11, <1>16, <1>17, <1>18, <1>19, <1>20, TurnBalances
<1>22. QED BY <1>21

----------------------------------------------------------------------------
(* The deletion *)

\* Where the deletion stands below a parent q: a black node is missing at n.
Sinking(h, A, q, d, s) ==
  /\ Tree(t) /\ Goes(t, victim, child) /\ Way(t, victim, n, A)
  /\ Aside(t, victim, n, A, q, d, s) /\ s # 0 /\ s \in t.used
  /\ q = Parent(n) /\ d = Side(t, n) /\ s = rb_sibling(t, n)
  /\ Balanced(t, h, n, n, victim, child) /\ RootBlack(t, victim) /\ Found(t)
  /\ h[n] \in Int /\ h[n] >= 1 /\ h[s] \in Int /\ h[s] = h[n] + 1
  /\ \A z \in Ptr : t.color[z] \in {0, 1}

\* The sibling of n is there: below it there is one black node more than below
\* n, which the null pointer has not.
LEMMA SinkingAt ==
  ASSUME LinkInv, ColorInv, pc \in Deleting \ {"delete1"}
  PROVE  \E h, A, q, d, s : Sinking(h, A, q, d, s)
<1>1. PICK h : Ready(h)
  BY ColorsBefore DEF Deleting
<1>2. Tree(t) /\ Control(t) /\ Found(t) /\ Balanced(t, h, n, n, victim, child)
  BY <1>1 DEF Ready, Lacking, Excused
<1>3. Goes(t, victim, child) /\ Parent(n) # 0 /\ \E A \in SUBSET t.used : Way(t, victim, n, A)
  BY <1>2, DeletingLinks
<1>4. PICK A \in SUBSET t.used : Way(t, victim, n, A)
  BY <1>3
<1>5. PICK q, d, s : q = Parent(n) /\ d = Side(t, n) /\ s = rb_sibling(t, n)
  OBVIOUS
<1>6. Aside(t, victim, n, A, q, d, s)
  BY <1>2, <1>3, <1>4, <1>5, BesideTheWay DEF Parent
<1>7. PICK o \in Sides : o = Opp(d) /\ s = t.child[q, o] /\ n = t.child[q, d] /\ d \in Sides
  BY <1>6 DEF Aside
<1>8. /\ n # 0 /\ q \in t.used /\ q # victim /\ (s # 0 => s \in t.used /\ s # n)
  BY <1>6 DEF Aside
<1>9. Measured(t, h, n, n, q, n) /\ Measured(t, h, n, n, q, s)
  BY <1>2, <1>7, <1>8, MeasuredBelow
<1>10. /\ h[n] \in Int /\ h[n] >= 1 /\ h[s] \in Int /\ t.color[q] \in {0, 1} /\ h[q] \in Int
       /\ h[q] = (t.color[q] + h[n]) + 1
  BY <1>8, <1>9 DEF Measured
<1>11. h[q] = t.color[q] + h[s] /\ (s = 0 => h[s] = 1)
  BY <1>8, <1>9 DEF Measured
<1>12. h[s] = h[n] + 1 /\ s # 0
  BY <1>10, <1>11
<1>13. RootBlack(t, victim)
  BY <1>2, <1>8 DEF RootBlack, Balanced
<1>14. \A z \in Ptr : t.color[z] \in {0, 1}
  BY <1>2, MapFields DEF Tree
<1>15. Sinking(h, A, q, d, s)
  BY <1>2, <1>3, <1>4, <1>5, <1>6, <1>8, <1>10, <1>12, <1>13, <1>14 DEF Sinking
<1>16. QED BY <1>15

\* Neither the node that goes nor its child are painted: T holds the parent q,
\* the sibling s and children of s.
LEMMA ApartBeside ==
  ASSUME NEW m, Tree(m), NEW v, NEW c, Goes(m, v, c), NEW x, NEW A, Way(m, v, x, A),
         NEW q, NEW d, NEW s, Aside(m, v, x, A, q, d, s), s # 0,
         NEW T, 0 \notin T, \A z \in T : z = q \/ z = s \/ m.parent[z] = s
  PROVE  Apart(v, c, T) /\ v \notin T
<1>1. v \in m.used /\ v \in Ptr /\ v # 0 /\ c \in Ptr /\ (c # 0 => c \in m.used /\ m.parent[c] = v)
  BY GoneChild
<1>2. /\ q # v /\ m.parent[q] # v /\ q \notin A /\ s # v /\ s \notin A /\ m.parent[s] = q
      /\ q = m.parent[x]
  BY DEF Aside
<1>3. v \in A /\ \A a \in A : a # x => m.parent[a] \in A
  BY DEF Way
<1>4. q # s
  BY <1>1, <1>2, NoCircles DEF Aside
<1>5. m.parent[v] # s
  BY <1>2, <1>3, <1>4
<1>6. v \notin T
  BY <1>2, <1>5
<1>7. c \notin T
  BY <1>1, <1>2
<1>8. QED BY <1>1, <1>6, <1>7 DEF Apart

\* The deletion reaches the root, or goes on below it.
LEMMA Delete1Colors ==
  ASSUME LinkInv, ColorInv, delete1
  PROVE  ColorInv'
<1>1. pc = "delete1" /\ t' = t /\ n' = n /\ UNCHANGED <<victim, child, copies, result>>
      /\ pc' = (IF Parent(n) = 0 THEN "unlink" ELSE "delete2")
  BY DEF delete1, Rebalances, Goto
<1>2. PICK h : Ready(h)
  BY <1>1, ColorsBefore
<1>3. Tree(t) /\ Control(t) /\ Balanced(t, h, n, n, victim, child)
  BY <1>1, <1>2 DEF Ready, Lacking, Excused, Deleting
<1>4. \E A \in SUBSET t.used : Way(t, victim, n, A)
  BY <1>1, <1>3 DEF Control, Deleting
<1>5. n \in t.used /\ n \in Ptr /\ n # 0
  BY <1>3, <1>4, Addresses, MapFields DEF Way, Tree
<1>6. Found(t)'
  BY <1>1 DEF Found, Inserting
<1>7. CASE Parent(n) = 0
  <2>1. ASSUME NEW z \in t.used, NEW f \in Sides, z # victim PROVE Fits(t, h, 0, 0, z, t.child[z, f])
    <3>1. PICK u : u = t.child[z, f]
      OBVIOUS
    <3>2. Below(t, z, u) /\ Fits(t, h, n, n, z, u)
      BY <1>3, <2>1, <3>1, BelowNode, FitsAt
    <3>3. u # n
      BY <1>5, <1>7, <3>2 DEF Below, Parent
    <3>4. Fits(t, h, 0, 0, z, u)
      BY <3>2, <3>3 DEF Fits, Due
    <3>5. QED BY <3>1, <3>4
  <2>2. Red(t, t.root) => t.root = victim
    BY <1>3, <1>5 DEF Balanced
  <2>3. Balanced(t, h, 0, 0, victim, child)
    BY <1>3, <2>1, <2>2 DEF Balanced
  <2>4. Lacking' = 0 /\ Excused' = 0 /\ pc' # "panic" /\ Balanced(t', h, 0, 0, victim', child')
    BY <1>1, <1>7, <2>3 DEF Lacking, Excused, Inserting, Deleting
  <2>5. QED BY <1>6, <2>4, ColorsAfter
<1>8. CASE Parent(n) # 0
  <2>1. Lacking' = n /\ Excused' = n /\ pc' # "panic" /\ Balanced(t', h, n, n, victim', child')
    BY <1>1, <1>3, <1>8 DEF Lacking, Excused, Inserting, Deleting
  <2>2. QED BY <1>6, <2>1, ColorsAfter
<1>9. QED BY <1>7, <1>8

\* A red sibling is rotated up: afterwards the sibling of n is black.
LEMMA Delete2Colors ==
  ASSUME LinkInv, ColorInv, delete2
  PROVE  ColorInv'
<1>1. /\ pc = "delete2" /\ n' = n /\ pc' = "delete3" /\ pc \in Deleting \ {"delete1"}
      /\ UNCHANGED <<victim, child, copies, result>>
  BY DEF delete2, Rebalances, Goto, Deleting
<1>2. PICK h, A, q, d, s : Sinking(h, A, q, d, s)
  BY <1>1, SinkingAt
<1>3. /\ Tree(t) /\ Goes(t, victim, child) /\ Way(t, victim, n, A)
      /\ Aside(t, victim, n, A, q, d, s) /\ s # 0 /\ s \in t.used
      /\ q = Parent(n) /\ d = Side(t, n) /\ s = rb_sibling(t, n)
      /\ Balanced(t, h, n, n, victim, child) /\ RootBlack(t, victim)
      /\ \A z \in Ptr : t.color[z] \in {0, 1}
  BY <1>2 DEF Sinking
<1>4. /\ n \in t.used /\ n # 0 /\ n \in Ptr /\ q # 0 /\ q = t.parent[n] /\ d \in Sides /\ Opp(d) \in Sides
      /\ t.child[q, d] = n /\ s = t.child[q, Opp(d)] /\ q # victim /\ s # victim /\ t.parent[q] # victim
      /\ s \in Ptr /\ q \in Ptr /\ s # n /\ q \in t.used
  BY <1>3 DEF Aside
<1>5. Lacking' = n /\ Excused' = n /\ pc' # "panic"
  BY <1>1 DEF Lacking, Excused, Deleting
<1>6. CASE Red(t, s)
  <2>1. PICK p, e, y, m1, m2, w : /\ p = t.parent[q] /\ e = Side(t, q) /\ y = t.child[s, d]
                                  /\ m1 = Paint(Paint(t, q, RB_RED), s, RB_BLACK)
                                  /\ m2 = t' /\ w = t.child[s, Opp(d)]
    OBVIOUS
  <2>2. m2 = rb_rotate(m1, q, d)
    BY <1>3, <1>6, <2>1 DEF delete2
  <2>3. /\ PaintedTwo(t, m1, q, RB_RED, s, RB_BLACK)
        /\ Around(t, q, d, p, e, s, y) /\ Turned(t, m1, m2, q, d, p, e, s, y)
    BY <1>3, <2>1, <2>2, Delete2Turn
  <2>4. Outer(t, q, d, s, n, w)
    BY <1>4, <2>1 DEF Outer
  <2>5. PICK T : T = {q, s}
    OBVIOUS
  <2>6. 0 \notin T /\ \A z \in T : z = q \/ z = s \/ t.parent[z] = s
    BY <1>3, <1>4, <2>5
  <2>7. Apart(victim, child, T)
    BY <1>3, <2>6, ApartBeside
  <2>8. t.color[s] = 0 /\ n # 0 /\ q # victim /\ s # victim /\ (p = 0 \/ p # victim)
    BY <1>4, <1>6, <2>1, ColorOf
  <2>9. (\E h2 : Balanced(m2, h2, n, n, victim, child)) /\ y # 0 /\ m2.color[y] = 1
    BY <1>3, <2>3, <2>4, <2>5, <2>7, <2>8, Delete2Balances
  <2>10. PICK h2 : Balanced(m2, h2, n, n, victim, child)
    BY <2>9
  <2>11. rb_sibling(m2, n) = y
    <3>1. \A z \in Ptr, f \in Sides :
            m2.child[z, f] = IF z = s /\ f = d THEN q
                             ELSE IF z = q /\ f = Opp(d) THEN y
                             ELSE IF z = p /\ p # 0 /\ f = e THEN s ELSE t.child[z, f]
      BY <2>3 DEF Turned
    <3>2. d # Opp(d)
      BY <1>4, TwoSides
    <3>3. q # s /\ q # p /\ y # n
      <4>1. q # s /\ q # p /\ t.parent[y] = s
        BY <2>3, <2>9 DEF Around
      <4>2. QED BY <1>4, <4>1
    <3>4. m2.child[q, d] = n /\ m2.child[q, Opp(d)] = y
      BY <1>4, <3>1, <3>2, <3>3
    <3>5. m2.parent[n] = q /\ Tree(m2) /\ m2.used = t.used
      BY <1>4, <2>3, <3>3 DEF Turned, Others, Around
    <3>6. Hangs(m2, n, q, d)
      BY <1>4, <3>4, <3>5 DEF Hangs
    <3>7. Side(m2, n) = d
      BY <1>4, <3>5, <3>6, SideIs
    <3>8. QED BY <3>4, <3>5, <3>7 DEF rb_sibling
  <2>12. Black(t', rb_sibling(t', n'))
    BY <1>1, <2>1, <2>9, <2>11, ColorOf
  <2>13. Found(t)'
    BY <1>1, <2>12 DEF Found, Inserting
  <2>14. Balanced(t', h2, n, n, victim', child')
    BY <1>1, <2>1, <2>10
  <2>15. QED BY <1>5, <2>13, <2>14, ColorsAfter
<1>7. CASE ~Red(t, s)
  <2>1. t' = t
    BY <1>3, <1>7 DEF delete2
  <2>2. Black(t, s)
    BY <1>3, <1>4, <1>7, ColorOf
  <2>3. Found(t)'
    BY <1>1, <1>3, <2>1, <2>2 DEF Found, Inserting
  <2>4. Balanced(t', h, n, n, victim', child')
    BY <1>1, <1>3, <2>1
  <2>5. QED BY <1>5, <2>3, <2>4, ColorsAfter
<1>8. QED BY <1>6, <1>7

\* delete6: the red child of the sibling pays for the black node that is
\* missing.  There is always one.
LEMMA Delete6Colors ==
  ASSUME LinkInv, ColorInv, delete6
  PROVE  ColorInv'
<1>1. /\ pc = "delete6" /\ pc \in Deleting \ {"delete1"} /\ UNCHANGED <<victim, child, copies, result>>
  BY DEF delete6, Rebalances, Deleting
<1>2. PICK h, A, q, d, s : Sinking(h, A, q, d, s)
  BY <1>1, SinkingAt
<1>3. /\ Tree(t) /\ Goes(t, victim, child) /\ Way(t, victim, n, A)
      /\ Aside(t, victim, n, A, q, d, s) /\ s # 0 /\ s \in t.used
      /\ q = Parent(n) /\ d = Side(t, n) /\ s = rb_sibling(t, n)
      /\ Balanced(t, h, n, n, victim, child) /\ RootBlack(t, victim) /\ Found(t)
      /\ \A z \in Ptr : t.color[z] \in {0, 1}
  BY <1>2 DEF Sinking
<1>4. /\ n \in t.used /\ n # 0 /\ n \in Ptr /\ q # 0 /\ q = t.parent[n] /\ d \in Sides /\ Opp(d) \in Sides
      /\ t.child[q, d] = n /\ s = t.child[q, Opp(d)] /\ q # victim /\ s # victim /\ t.parent[q] # victim
      /\ s \in Ptr /\ q \in Ptr /\ s # n /\ q \in t.used
  BY <1>3 DEF Aside
<1>5. PICK p, e, y, m1, m2, w, o :
         /\ p = t.parent[q] /\ e = Side(t, q) /\ y = t.child[s, d] /\ o = t.color[q]
         /\ w = t.child[s, Opp(d)] /\ m1 = Paint(Paint(Paint(t, s, o), q, RB_BLACK), w, RB_BLACK)
         /\ m2 = t'
  OBVIOUS
<1>6. Black(t, s) /\ Red(t, w)
  BY <1>1, <1>3, <1>5 DEF Found
<1>7. w # 0 /\ t.color[w] = 0 /\ t.color[s] = 1 /\ ~Black(t, w)
  BY <1>3, <1>6, ColorOf
<1>8. m2 = rb_rotate(m1, q, d) /\ pc' = "unlink" /\ n' = n
  BY <1>3, <1>5, <1>7 DEF delete6, Goto
<1>9. /\ PaintedThree(t, m1, s, o, q, RB_BLACK, w, RB_BLACK)
      /\ Around(t, q, d, p, e, s, y) /\ Turned(t, m1, m2, q, d, p, e, s, y)
  BY <1>3, <1>5, <1>7, <1>8, Delete6Turn, ZenonT(30)
<1>10. Outer(t, q, d, s, n, w)
  BY <1>4, <1>5 DEF Outer
<1>11. Below(t, s, w)
  BY <1>3, <1>4, <1>5, BelowNode
<1>12. w \in t.used /\ t.parent[w] = s
  BY <1>7, <1>11 DEF Below
<1>13. PICK T : T = {q, s, w}
  OBVIOUS
<1>14. 0 \notin T /\ \A z \in T : z = q \/ z = s \/ t.parent[z] = s
  BY <1>3, <1>4, <1>7, <1>12, <1>13
<1>15. Apart(victim, child, T) /\ w # victim
  BY <1>3, <1>13, <1>14, ApartBeside
<1>16. PICK h2 : Balanced(m2, h2, 0, 0, victim, child)
  <2>1. n # 0 /\ q # victim /\ s # victim /\ (p = 0 \/ p # victim) /\ o = t.color[q]
    BY <1>4, <1>5
  <2>2. QED BY <1>3, <1>7, <1>9, <1>10, <1>12, <1>13, <1>15, <2>1, Delete6Balances
<1>17. Lacking' = 0 /\ Excused' = 0 /\ pc' # "panic"
  BY <1>8 DEF Lacking, Excused, Deleting, Inserting
<1>18. Found(t)'
  BY <1>8 DEF Found, Inserting
<1>19. Balanced(t', h2, 0, 0, victim', child')
  BY <1>1, <1>5, <1>16
<1>20. QED BY <1>17, <1>18, <1>19, ColorsAfter

\* Both children of s are black.
BlackKids(m, s) == \A f \in Sides : Black(m, m.child[s, f])

\* delete3 and delete4: the sibling s becomes red and the parent q black.  If q
\* was black before, a black node is missing at q now.
LEMMA Delete3Balances ==
  ASSUME NEW m, Tree(m), NEW h, NEW v, NEW c, NEW x, NEW A, NEW q, NEW d, NEW s, NEW m2,
         Goes(m, v, c), Way(m, v, x, A), Aside(m, v, x, A, q, d, s), s # 0,
         Balanced(m, h, x, x, v, c), RootBlack(m, v), SameLinks(m, m2),
         m.color[s] = 1, m.color[q] \in {0, 1}, BlackKids(m, s),
         m2.color[s] = 0, m2.color[q] = 1, \A z \in Ptr : z # s /\ z # q => m2.color[z] = m.color[z],
         NEW l, l = IF m.color[q] = 1 THEN q ELSE 0
  PROVE  \E h2 : Balanced(m2, h2, l, l, v, c)
<1>1. PICK o \in Sides : o = Opp(d) /\ s = m.child[q, o] /\ x = m.child[q, d] /\ d \in Sides
  BY DEF Aside
<1>2. /\ x # 0 /\ q \in m.used /\ q \in Ptr /\ q # v /\ q # 0 /\ s \in m.used /\ s \in Ptr /\ s # x
      /\ s # v /\ m.parent[s] = q /\ m.parent[x] = q /\ x \in m.used
  BY DEF Aside
<1>3. q # s /\ q # x /\ m.parent[q] # s /\ m.parent[q] # q
  <2>1. q # s /\ q # x /\ m.parent[q] # q
    BY <1>2, NoCircles
  <2>2. Below(m, q, s)
    BY <1>1, <1>2, BelowNode
  <2>3. Kids(m, q, s, x)
    <3>1. x = m.child[q, Opp(o)]
      BY <1>1, TwoSides
    <3>2. QED BY <1>1, <1>2, <3>1, Children
  <2>4. QED BY <1>2, <2>1, <2>3 DEF Kids
<1>4. Heights(h) /\ Numbers(h)
  BY BalanceHeights, BalanceNumbers
<1>5. Measured(m, h, x, x, q, x) /\ Measured(m, h, x, x, q, s)
  BY <1>1, <1>2, MeasuredBelow
<1>6. /\ h[x] \in Int /\ h[x] >= 1 /\ h[s] \in Int /\ h[q] \in Int /\ x \in Ptr
      /\ h[q] = (m.color[q] + h[x]) + 1 /\ h[q] = m.color[q] + h[s]
  BY <1>2, <1>5 DEF Measured
<1>7. h[s] = h[x] + 1
  BY <1>6
<1>8. PICK i \in Nat \ {0}, j \in Nat \ {0} : i = h[x] /\ j = h[x] + 1
  <2>1. h[x] \in Nat \ {0} /\ h[x] + 1 \in Nat \ {0}
    BY <1>6
  <2>2. QED BY <2>1
<1>9. PICK h2 : Raised(h, h2, s, i, q, j, q, j)
  BY <1>2, <1>4, HeightsExist
<1>10. /\ Heights(h2) /\ h2[s] = h[x] /\ h2[q] = h[x] + 1
       /\ \A z \in Ptr : z # s /\ z # q => h2[z] = h[z]
  BY <1>3, <1>8, <1>9 DEF Raised
<1>11. PICK T : T = {q, s}
  OBVIOUS
<1>12. 0 \notin T /\ \A z \in T : z = q \/ z = s \/ m.parent[z] = s
  BY <1>2, <1>11
<1>13. Apart(v, c, T)
  BY <1>12, ApartBeside
<1>14. Untouched(m, m2, h, h2, T)
  BY <1>10, <1>11 DEF Untouched
<1>15. ASSUME NEW z \in m.used, NEW f \in Sides, z # v PROVE Fits(m2, h2, l, l, z, m.child[z, f])
  <2>1. PICK u : u = m.child[z, f]
    OBVIOUS
  <2>2. Below(m, z, u) /\ Measured(m, h, x, x, z, u) /\ Fits(m, h, x, x, z, u)
    BY <1>15, <2>1, BelowNode, MeasuredBelow, FitsAt
  <2>3. z \in Ptr /\ z # 0 /\ u \in Ptr /\ (u # 0 => m.parent[u] = z) /\ h[u] \in Int /\ h[z] \in Int
    BY <2>2 DEF Below, Measured
  <2>4. CASE z = q
    <3>1. u = x \/ u = s
      <4>1. f = d \/ f = o
        BY <1>1, TwoSides
      <4>2. QED BY <1>1, <2>1, <2>4, <4>1
    <3>2. h2[u] = h[x] /\ u # q
      BY <1>2, <1>3, <1>6, <1>10, <3>1
    <3>3. h2[z] = m2.color[z] + h2[u] /\ m2.color[z] = 1 /\ h2[u] \in Int
      BY <1>6, <1>10, <2>4, <3>2
    <3>4. Fits(m2, h2, l, l, z, u)
      BY <1>2, <3>2, <3>3, FitMade
    <3>5. QED BY <2>1, <3>4
  <2>5. CASE z = s
    <3>1. u # q /\ u # s /\ u # x
      BY <1>2, <1>3, <2>3, <2>5
    <3>2. h[z] = 1 + h[u]
      BY <2>2, <2>5, <3>1 DEF Measured
    <3>3. h2[u] = h[u] /\ m2.color[u] = m.color[u]
      BY <1>10, <2>3, <3>1
    <3>4. u = 0 \/ m.color[u] = 1
      <4>1. Black(m, u)
        BY <2>1, <2>5 DEF BlackKids
      <4>2. QED BY <4>1, ColorOf
    <3>5. h2[z] = m2.color[z] + h2[u] /\ h2[u] \in Int
      BY <1>6, <1>7, <1>10, <2>3, <2>5, <3>2, <3>3
    <3>6. Fits(m2, h2, l, l, z, u)
      BY <3>1, <3>3, <3>4, <3>5, FitMade
    <3>7. QED BY <2>1, <3>6
  <2>6. CASE z # q /\ z # s /\ u = q
    <3>1. h[z] = m.color[z] + h[q] /\ m.color[z] \in {0, 1}
      BY <1>2, <1>3, <1>6, <2>2, <2>6 DEF Measured
    <3>2. h2[z] = h[z] /\ m2.color[z] = m.color[z]
      BY <1>10, <2>3, <2>6
    <3>3. CASE m.color[q] = 1
      <4>1. l = q /\ h2[z] = m2.color[z] + (h2[q] + 1) /\ h2[q] \in Int
        BY <1>6, <1>10, <3>1, <3>2, <3>3
      <4>2. Fits(m2, h2, l, l, z, l)
        BY <1>2, <4>1, FitLacking
      <4>3. QED BY <2>1, <2>6, <4>1, <4>2
    <3>4. CASE m.color[q] = 0
      <4>1. l = 0 /\ h2[z] = m2.color[z] + h2[q] /\ h2[q] \in Int
        BY <1>6, <1>10, <3>1, <3>2, <3>4
      <4>2. Fits(m2, h2, 0, 0, z, q)
        BY <1>2, <4>1, FitMade
      <4>3. QED BY <2>1, <2>6, <4>1, <4>2
    <3>5. QED BY <3>3, <3>4
  <2>7. CASE z # q /\ z # s /\ u # q
    <3>1. u # s /\ u # x
      BY <1>2, <2>3, <2>7
    <3>2. PICK U : U = {0, q, s, x}
      OBVIOUS
    <3>3. SameTrouble(x, x, l, l, U)
      <4>1. l \in {0, q}
        OBVIOUS
      <4>2. ASSUME NEW w \in Ptr, w \notin U PROVE (w = x <=> w = l) /\ (w # l => w # x)
        BY <3>2, <4>1, <4>2
      <4>3. QED BY <4>2 DEF SameTrouble
    <3>4. z \notin T /\ (u = 0 \/ (u \notin T /\ u \notin U)) /\ 0 \notin T
      BY <1>11, <1>12, <2>7, <3>1, <3>2
    <3>5. Fits(m2, h2, l, l, z, u)
      BY <1>14, <2>2, <2>3, <3>3, <3>4, FitKept
    <3>6. QED BY <2>1, <3>5
  <2>8. QED BY <2>4, <2>5, <2>6, <2>7
<1>16. v # 0 => h2[v] = h2[c] /\ (Red(m2, c) => Red(m2, v))
  <2>1. SUFFICES ASSUME v # 0 PROVE h2[v] = h2[c] /\ (Red(m2, c) => Red(m2, v))
    OBVIOUS
  <2>2. v \in Ptr /\ v \notin T /\ c \in Ptr /\ c \notin T
    BY <1>13, <2>1 DEF Apart
  <2>3. h2[v] = h[v] /\ h2[c] = h[c] /\ m2.color[v] = m.color[v] /\ m2.color[c] = m.color[c]
    BY <1>14, <2>2 DEF Untouched
  <2>4. h[v] = h[c] /\ (Red(m, c) => Red(m, v))
    BY <2>1 DEF Balanced
  <2>5. QED BY <2>3, <2>4, ColorOf
<1>17. Red(m2, m2.root) => m2.root = v
  <2>1. SUFFICES ASSUME Red(m2, m2.root) PROVE m2.root = v
    OBVIOUS
  <2>2. m2.root = m.root /\ m.root \in Ptr
    BY MapFields DEF SameLinks, Tree
  <2>3. m.root # 0 /\ m2.color[m.root] = 0
    BY <2>1, <2>2, ColorOf
  <2>4. m.parent[m.root] = 0
    BY <2>3, TreeLinks DEF Ties
  <2>5. m.root # q /\ m.root # s
    BY <1>2, <2>3, <2>4
  <2>6. Red(m, m.root)
    BY <2>2, <2>3, <2>5, ColorOf
  <2>7. QED BY <2>2, <2>6 DEF RootBlack
<1>18. Balanced(m2, h2, l, l, v, c)
  BY <1>10, <1>15, <1>16, <1>17, PaintBalances
<1>19. QED BY <1>18

\* A black sibling with black children becomes red.
LEMMA Delete3Colors ==
  ASSUME LinkInv, ColorInv, delete3
  PROVE  ColorInv'
<1>1. pc = "delete3" /\ pc \in Deleting \ {"delete1"} /\ UNCHANGED <<victim, child, copies, result>>
  BY DEF delete3, Rebalances, Deleting
<1>2. PICK h, A, q, d, s : Sinking(h, A, q, d, s)
  BY <1>1, SinkingAt
<1>3. /\ Tree(t) /\ Goes(t, victim, child) /\ Way(t, victim, n, A)
      /\ Aside(t, victim, n, A, q, d, s) /\ s # 0 /\ s \in t.used
      /\ q = Parent(n) /\ d = Side(t, n) /\ s = rb_sibling(t, n)
      /\ Balanced(t, h, n, n, victim, child) /\ RootBlack(t, victim) /\ Found(t)
      /\ \A z \in Ptr : t.color[z] \in {0, 1}
  BY <1>2 DEF Sinking
<1>4. n # 0 /\ q # 0 /\ q \in Ptr /\ s \in Ptr /\ q \in t.used /\ t.parent[s] = q
  BY <1>3 DEF Aside
<1>5. t.color[q] \in {0, 1} /\ t.color[s] = 1 /\ q # s
  <2>1. Black(t, s)
    BY <1>1, <1>3 DEF Found
  <2>2. QED BY <1>3, <1>4, <2>1, ColorOf, NoCircles
<1>6. PICK m1, m2 : m1 = Paint(t, s, RB_RED) /\ m2 = t'
  OBVIOUS
<1>7. CASE AllBlack
  <2>1. BlackKids(t, s)
    BY <1>3, <1>7 DEF AllBlack, BlackKids
  <2>2. CASE Black(t, q)
    <3>1. t' = m1 /\ pc' = "delete1" /\ n' = q
      BY <1>3, <1>6, <1>7, <2>2, OneColor DEF delete3, Goto
    <3>2. Painted(t, m2, s, RB_RED)
      BY <1>3, <1>4, <1>6, <3>1, PaintKeepsTree
    <3>3. t.color[q] = 1
      BY <1>4, <2>2, ColorOf
    <3>4. /\ SameLinks(t, m2) /\ m2.color[s] = 0 /\ m2.color[q] = 1
          /\ \A z \in Ptr : z # s /\ z # q => m2.color[z] = t.color[z]
      BY <1>4, <1>5, <3>2, <3>3 DEF Painted, WritesColor, RB_RED
    <3>5. PICK h2 : Balanced(m2, h2, q, q, victim, child)
      BY <1>3, <1>5, <2>1, <3>3, <3>4, Delete3Balances
    <3>6. /\ Lacking' = q /\ Excused' = q /\ pc' # "panic" /\ Found(t)'
          /\ Balanced(t', h2, q, q, victim', child')
      BY <1>1, <1>6, <3>1, <3>5 DEF Lacking, Excused, Found, Deleting, Inserting
    <3>7. QED BY <3>6, ColorsAfter
  <2>3. CASE ~Black(t, q)
    <3>1. t' = Paint(m1, q, RB_BLACK) /\ pc' = "unlink" /\ n' = n
      BY <1>3, <1>6, <1>7, <2>3 DEF delete3, Goto
    <3>2. PaintedTwo(t, m2, s, RB_RED, q, RB_BLACK)
      BY <1>3, <1>4, <1>6, <3>1, PaintTwo
    <3>3. t.color[q] = 0
      BY <1>4, <1>5, <2>3, ColorOf
    <3>4. /\ SameLinks(t, m2) /\ m2.color[s] = 0 /\ m2.color[q] = 1
          /\ \A z \in Ptr : z # s /\ z # q => m2.color[z] = t.color[z]
      BY <1>4, <1>5, <3>2, <3>3 DEF PaintedTwo, RB_RED, RB_BLACK
    <3>5. PICK h2 : Balanced(m2, h2, 0, 0, victim, child)
      BY <1>3, <1>5, <2>1, <3>3, <3>4, Delete3Balances
    <3>6. /\ Lacking' = 0 /\ Excused' = 0 /\ pc' # "panic" /\ Found(t)'
          /\ Balanced(t', h2, 0, 0, victim', child')
      BY <1>1, <1>6, <3>1, <3>5 DEF Lacking, Excused, Found, Deleting, Inserting
    <3>7. QED BY <3>6, ColorsAfter
  <2>4. QED BY <2>2, <2>3
<1>8. CASE ~AllBlack
  <2>1. t' = t /\ pc' = "delete5" /\ n' = n
    BY <1>8 DEF delete3, Goto
  <2>2. ~AllBlack'
    BY <1>8, <2>1 DEF AllBlack
  <2>3. Black(t', rb_sibling(t', n'))
    BY <1>1, <1>3, <2>1 DEF Found
  <2>4. Found(t)'
    BY <2>1, <2>2, <2>3 DEF Found, Inserting
  <2>5. Lacking' = n /\ Excused' = n /\ pc' # "panic" /\ Balanced(t', h, n, n, victim', child')
    BY <1>1, <1>3, <2>1 DEF Lacking, Excused, Deleting, Inserting
  <2>6. QED BY <2>4, <2>5, ColorsAfter
<1>9. QED BY <1>7, <1>8

\* delete5: afterwards the child of the sibling on the side away from n is red.
LEMMA Delete5Colors ==
  ASSUME LinkInv, ColorInv, delete5
  PROVE  ColorInv'
<1>1. /\ pc = "delete5" /\ n' = n /\ pc' = "delete6" /\ pc \in Deleting \ {"delete1"}
      /\ UNCHANGED <<victim, child, copies, result>>
  BY DEF delete5, Rebalances, Goto, Deleting
<1>2. PICK h, A, q, d, s : Sinking(h, A, q, d, s)
  BY <1>1, SinkingAt
<1>3. /\ Tree(t) /\ Goes(t, victim, child) /\ Way(t, victim, n, A)
      /\ Aside(t, victim, n, A, q, d, s) /\ s # 0 /\ s \in t.used
      /\ q = Parent(n) /\ d = Side(t, n) /\ s = rb_sibling(t, n)
      /\ Balanced(t, h, n, n, victim, child) /\ RootBlack(t, victim) /\ Found(t)
      /\ \A z \in Ptr : t.color[z] \in {0, 1}
  BY <1>2 DEF Sinking
<1>4. /\ n \in t.used /\ n # 0 /\ n \in Ptr /\ q # 0 /\ q = t.parent[n] /\ d \in Sides /\ Opp(d) \in Sides
      /\ t.child[q, d] = n /\ s = t.child[q, Opp(d)] /\ q # victim /\ s # victim /\ t.parent[q] # victim
      /\ s \in Ptr /\ q \in Ptr /\ s # n /\ q \in t.used /\ t.parent[s] = q
  BY <1>3 DEF Aside
<1>5. Lacking' = n /\ Excused' = n /\ pc' # "panic"
  BY <1>1 DEF Lacking, Excused, Deleting
<1>6. PICK a, b : a = t.child[s, d] /\ b = t.child[s, Opp(d)]
  OBVIOUS
<1>7. Black(t, s) /\ ~AllBlack
  BY <1>1, <1>3 DEF Found
<1>8. Below(t, s, a) /\ Below(t, s, b)
  BY <1>3, <1>4, <1>6, BelowNode
<1>9. CASE Red(t, a) /\ Black(t, b)
  <2>1. PICK e, y, w, m1, m2 : /\ e = Side(t, s) /\ y = t.child[a, Opp(d)] /\ w = t.child[a, d]
                               /\ m1 = Paint(Paint(t, s, RB_RED), a, RB_BLACK) /\ m2 = t'
    OBVIOUS
  <2>2. m2 = rb_rotate(m1, s, Opp(d))
    BY <1>3, <1>6, <1>7, <1>9, <2>1 DEF delete5
  <2>3. a # 0 /\ t.color[a] = 0 /\ t.color[s] = 1
    BY <1>3, <1>7, <1>9, ColorOf
  <2>4. /\ PaintedTwo(t, m1, s, RB_RED, a, RB_BLACK)
        /\ Around(t, s, Opp(d), q, e, a, y) /\ Turned(t, m1, m2, s, Opp(d), q, e, a, y)
    BY <1>3, <1>6, <2>1, <2>2, <2>3, Delete5Turn
  <2>5. Outer(t, s, Opp(d), a, b, w)
    BY <1>4, <1>6, <2>1, TwoSides DEF Outer
  <2>6. PICK T : T = {s, a}
    OBVIOUS
  <2>7. a \in t.used /\ t.parent[a] = s
    BY <1>8, <2>3 DEF Below
  <2>8. 0 \notin T /\ \A z \in T : z = q \/ z = s \/ t.parent[z] = s
    BY <1>3, <2>3, <2>6, <2>7
  <2>9. Apart(victim, child, T) /\ a # victim
    BY <1>3, <2>6, <2>8, ApartBeside
  <2>10. n # 0 /\ q # 0 /\ n # s /\ t.parent[n] = q /\ s # victim /\ q # victim
    BY <1>4
  <2>11. PICK h2 : Balanced(m2, h2, n, n, victim, child)
    BY <1>3, <1>9, <2>3, <2>4, <2>5, <2>6, <2>9, <2>10, Delete5Balances
  <2>12. /\ q # s /\ q # a /\ a # s /\ a # n /\ y # n
    <3>1. /\ q # s /\ q # a /\ a # s /\ t.parent[a] = s /\ (y # 0 => t.parent[y] = a)
      BY <2>4 DEF Around
    <3>2. QED BY <1>4, <3>1
  <2>13. e = Opp(d) /\ Opp(d) # d /\ Opp(Opp(d)) = d
    <3>1. Hangs(t, s, q, Opp(d))
      BY <1>4 DEF Hangs
    <3>2. QED BY <1>3, <1>4, <2>1, <3>1, SideIs, TwoSides
  <2>14. m2.child[q, d] = n /\ m2.child[q, Opp(d)] = a /\ m2.child[a, Opp(d)] = s
    <3>1. \A z \in Ptr, f \in Sides :
            m2.child[z, f] = IF z = a /\ f = Opp(d) THEN s
                             ELSE IF z = s /\ f = Opp(Opp(d)) THEN y
                             ELSE IF z = q /\ q # 0 /\ f = e THEN a ELSE t.child[z, f]
      BY <2>4 DEF Turned
    <3>2. a \in Ptr
      BY <1>8 DEF Below
    <3>3. QED BY <1>4, <2>12, <2>13, <3>1, <3>2
  <2>15. m2.parent[n] = q /\ Tree(m2) /\ m2.used = t.used
    BY <1>4, <2>4, <2>12 DEF Turned, Others
  <2>16. Side(m2, n) = d
    <3>1. Hangs(m2, n, q, d)
      BY <1>4, <2>14, <2>15 DEF Hangs
    <3>2. QED BY <1>4, <2>15, <3>1, SideIs
  <2>17. rb_sibling(m2, n) = a
    BY <2>14, <2>15, <2>16 DEF rb_sibling
  <2>18. m2.color[a] = 1 /\ m2.color[s] = 0
    <3>1. a \in Ptr
      BY <1>8 DEF Below
    <3>2. QED BY <1>4, <2>4, <2>12, <3>1 DEF Turned, PaintedTwo, RB_RED, RB_BLACK
  <2>19. Black(m2, a) /\ Red(m2, m2.child[a, Opp(d)])
    BY <1>3, <2>14, <2>18, ColorOf
  <2>20. Black(t', rb_sibling(t', n')) /\ Red(t', t'.child[rb_sibling(t', n'), Opp(Side(t', n'))])
    BY <1>1, <2>1, <2>16, <2>17, <2>19
  <2>21. Found(t)'
    BY <1>1, <2>20 DEF Found, Inserting
  <2>22. Balanced(t', h2, n, n, victim', child')
    BY <1>1, <2>1, <2>11
  <2>23. QED BY <1>5, <2>21, <2>22, ColorsAfter
<1>10. CASE ~(Red(t, a) /\ Black(t, b))
  <2>1. t' = t
    BY <1>3, <1>6, <1>10 DEF delete5
  <2>2. Red(t, b)
    <3>1. ~(Black(t, a) /\ Black(t, b))
      <4>1. SUFFICES ASSUME Black(t, a), Black(t, b) PROVE FALSE
        OBVIOUS
      <4>2. \A f \in Sides : f = d \/ f = Opp(d)
        BY <1>4, TwoSides
      <4>3. \A f \in Sides : Black(t, t.child[s, f])
        BY <1>6, <4>1, <4>2
      <4>4. QED BY <1>3, <1>7, <4>3 DEF AllBlack
    <3>2. t.color[a] \in {0, 1} /\ t.color[b] \in {0, 1}
      BY <1>3, <1>8 DEF Below
    <3>3. (Black(t, a) \/ Red(t, a)) /\ (Black(t, b) \/ Red(t, b))
      BY <3>2, ColorOf
    <3>4. QED BY <1>10, <3>1, <3>3
  <2>3. Black(t', rb_sibling(t', n')) /\ Red(t', t'.child[rb_sibling(t', n'), Opp(Side(t', n'))])
    BY <1>1, <1>3, <1>6, <1>7, <2>1, <2>2
  <2>4. Found(t)'
    BY <1>1, <2>3 DEF Found, Inserting
  <2>5. Balanced(t', h, n, n, victim', child')
    BY <1>1, <1>3, <2>1
  <2>6. QED BY <1>5, <2>4, <2>5, ColorsAfter
<1>11. QED BY <1>9, <1>10

----------------------------------------------------------------------------
(* The nodes that come and go, and the other calls *)

\* The node that goes has become as high as the child that takes its place.
LEMMA UnlinkBalances ==
  ASSUME NEW m, Tree(m), NEW h, NEW v, NEW c, NEW p, NEW e, Leaves(m, v, c, p, e),
         NEW m2, Shrinks(m, m2, v, c, p, e), Balanced(m, h, 0, 0, v, c)
  PROVE  \E h2 : Balanced(m2, h2, 0, 0, 0, 0)
<1>1. /\ v \in m.used /\ v \in Ptr /\ v # 0 /\ c \in Ptr /\ p \in Ptr /\ e \in Sides
      /\ p = m.parent[v] /\ e = Side(m, v)
      /\ (c # 0 => c \in m.used /\ m.parent[c] = v /\ c # v /\ c # p)
      /\ (p # 0 => Hangs(m, v, p, e) /\ p # v)
      /\ (p = 0 => m.root = v)
  BY DEF Leaves
<1>2. /\ m2.used = m.used \ {v}
      /\ m2.root = (IF p = 0 THEN c ELSE m.root)
      /\ \A z \in Ptr : m2.color[z] = (IF z = v THEN RB_RED
                                       ELSE IF z = c /\ c # 0 /\ p = 0 THEN RB_BLACK ELSE m.color[z])
  BY DEF Shrinks
<1>3. \A z \in Ptr, f \in Sides :
        m2.child[z, f] = IF z = v THEN 0
                         ELSE IF z = p /\ p # 0 /\ f = e THEN c ELSE m.child[z, f]
  BY DEF Shrinks
<1>4. Heights(h) /\ Numbers(h) /\ h[v] = h[c] /\ (Red(m, c) => Red(m, v))
      /\ (Red(m, m.root) => m.root = v \/ m.root = 0)
  BY <1>1, BalanceHeights, BalanceNumbers DEF Balanced
<1>5. m.color[c] \in {0, 1} /\ m.color[v] \in {0, 1} /\ m.used \subseteq Ptr /\ 0 \notin m.used /\ 0 \in Ptr
  BY <1>1, MapFields, Addresses DEF Tree
<1>6. PICK k : k = IF p = 0 /\ c # 0 THEN (h[c] + 1) - m.color[c] ELSE h[v]
  OBVIOUS
<1>7. k \in Nat \ {0}
  <2>1. h[c] \in Int /\ h[c] >= 1 /\ h[v] \in Int /\ h[v] >= 1
    BY <1>1, <1>4 DEF Numbers
  <2>2. QED BY <1>5, <1>6, <2>1
<1>8. PICK a : a = IF p = 0 /\ c # 0 THEN c ELSE v
  OBVIOUS
<1>9. PICK h2 : Raised(h, h2, a, k, a, k, a, k)
  <2>1. a \in Ptr /\ a # 0
    BY <1>1, <1>8
  <2>2. QED BY <1>4, <1>7, <2>1, HeightsExist
<1>10. Heights(h2) /\ h2[a] = k /\ \A z \in Ptr : z # a => h2[z] = h[z]
  BY <1>9 DEF Raised
<1>11. PICK S, U : S = {v, a} /\ U = {}
  OBVIOUS
<1>12. Untouched(m, m2, h, h2, S) /\ SameTrouble(0, 0, 0, 0, U) /\ 0 \notin S
  <2>1. \A z \in Ptr : z \notin S => h2[z] = h[z] /\ m2.color[z] = m.color[z]
    BY <1>2, <1>8, <1>10, <1>11
  <2>2. 0 \notin S
    BY <1>1, <1>8, <1>11
  <2>3. QED BY <2>1, <2>2 DEF Untouched, SameTrouble
<1>13. ASSUME NEW z \in m2.used, NEW f \in Sides PROVE Fits(m2, h2, 0, 0, z, m2.child[z, f])
  <2>1. z \in m.used /\ z # v /\ z \in Ptr /\ z # 0
    BY <1>2, <1>5
  <2>2. CASE z = p /\ f = e
    <3>1. m2.child[z, f] = c /\ p # 0
      BY <1>3, <2>1, <2>2
    <3>2. v = m.child[p, e] /\ a = v
      BY <1>1, <1>8, <3>1 DEF Hangs
    <3>3. Fits(m, h, 0, 0, p, v) /\ p # 0 /\ v # 0
      BY <1>1, <2>1, <2>2, <3>1, <3>2, FitsAt
    <3>4. h[v] \in Int /\ h[c] \in Int /\ h[p] \in Int
      BY <1>1, <1>4 DEF Numbers
    <3>5. h[p] = m.color[p] + h[v] /\ (m.color[p] = 0 => m.color[v] # 0)
      BY <3>3, <3>4, FitNumbers
    <3>6. m2.color[p] = m.color[p] /\ m2.color[c] = m.color[c] /\ h2[p] = h[p] /\ h2[c] = h[c]
      <4>1. c # v /\ p # v
        BY <1>1, <3>1
      <4>2. QED BY <1>1, <1>2, <1>10, <3>1, <3>2, <4>1
    <3>7. c = 0 \/ m2.color[p] = 1 \/ m2.color[c] = 1
      <4>1. m.color[p] \in {0, 1}
        BY <1>1, MapFields DEF Tree
      <4>2. c # 0 /\ m.color[c] = 0 => m.color[v] = 0
        BY <1>4, ColorOf
      <4>3. QED BY <1>5, <3>5, <3>6, <4>1, <4>2
    <3>8. h2[p] = m2.color[p] + h2[c] /\ h2[c] \in Int
      BY <1>4, <3>4, <3>5, <3>6
    <3>9. Fits(m2, h2, 0, 0, p, c)
      BY <3>7, <3>8, FitMade
    <3>10. QED BY <2>2, <3>1, <3>9
  <2>3. CASE ~(z = p /\ f = e)
    <3>1. PICK u : u = m.child[z, f]
      OBVIOUS
    <3>2. m2.child[z, f] = u
      BY <1>3, <2>1, <2>3, <3>1
    <3>3. Below(m, z, u) /\ Fits(m, h, 0, 0, z, u)
      BY <2>1, <3>1, BelowNode, FitsAt
    <3>4. u \in Ptr /\ (u # 0 => u \in m.used /\ m.parent[u] = z /\ u # z)
      BY <3>3 DEF Below
    <3>5. u # v
      <4>1. SUFFICES ASSUME u = v PROVE FALSE
        OBVIOUS
      <4>2. z = p
        BY <1>1, <3>4, <4>1
      <4>3. Hangs(m, v, z, f)
        BY <1>1, <2>1, <3>1, <4>1, <4>2 DEF Hangs
      <4>4. Side(m, v) = f
        BY <1>1, <2>1, <4>3, SideIs
      <4>5. QED BY <1>1, <2>3, <4>2, <4>4
    <3>6. u # a \/ u = 0
      BY <1>1, <1>8, <2>1, <3>4, <3>5
    <3>7. CASE z = a
      <4>1. z = c /\ p = 0 /\ c # 0 /\ k = (h[c] + 1) - m.color[c] /\ c # v
        BY <1>1, <1>6, <1>8, <2>1, <3>7
      <4>2. h[u] \in Int /\ h[c] \in Int /\ h2[u] = h[u] /\ h2[u] \in Int
        <5>1. u # a
          BY <3>4, <3>6, <3>7, <4>1
        <5>2. QED BY <1>1, <1>4, <1>10, <3>4, <5>1 DEF Numbers
      <4>3. h[z] = m.color[z] + h[u]
        BY <2>1, <3>3, <4>2, FitNumbers
      <4>4. m2.color[z] = 1
        BY <1>2, <2>1, <4>1 DEF RB_BLACK
      <4>5. h2[z] = m2.color[z] + h2[u]
        BY <1>5, <1>10, <3>7, <4>1, <4>2, <4>3, <4>4
      <4>6. Fits(m2, h2, 0, 0, z, u)
        BY <4>2, <4>4, <4>5, FitMade
      <4>7. QED BY <3>2, <4>6
    <3>8. CASE z # a
      <4>1. z \notin S /\ (u = 0 \/ (u \notin S /\ u \notin U))
        BY <1>11, <2>1, <3>5, <3>6, <3>8
      <4>2. Fits(m2, h2, 0, 0, z, u)
        BY <1>12, <2>1, <3>3, <3>4, <4>1, FitKept
      <4>3. QED BY <3>2, <4>2
    <3>9. QED BY <3>7, <3>8
  <2>4. QED BY <2>2, <2>3
<1>14. ~Red(m2, m2.root)
  <2>1. CASE p = 0
    <3>1. m2.root = c /\ (c # 0 => m2.color[c] = 1)
      BY <1>1, <1>2, <2>1 DEF RB_BLACK
    <3>2. QED BY <3>1, ColorOf
  <2>2. CASE p # 0
    <3>1. m2.root = m.root
      BY <1>2, <2>2
    <3>2. m.root \in Ptr /\ m.root # v
      BY <1>1, <2>2, TreeLinks, MapFields DEF Ties, Tree
    <3>3. m2.color[m.root] = m.color[m.root]
      BY <1>2, <2>2, <3>2
    <3>4. QED BY <1>4, <3>1, <3>2, <3>3, ColorOf
  <2>3. QED BY <2>1, <2>2
<1>15. Balanced(m2, h2, 0, 0, 0, 0)
  <2>1. h2 \in [Ptr -> Nat \ {0}] /\ h2[0] = 1
    BY <1>10 DEF Heights
  <2>2. QED BY <1>13, <1>14, <2>1 DEF Balanced
<1>16. QED BY <1>15

\* The end of rb_rbtree_delete: the tree is balanced again.
LEMMA UnlinkColors ==
  ASSUME LinkInv, ColorInv, unlink
  PROVE  ColorInv'
<1>1. Tree(t) /\ Control(t) /\ pc = "unlink" /\ pc # "panic"
  BY DEF LinkInv, unlink
<1>2. Goes(t, victim, child)
  BY <1>1 DEF Control
<1>3. PICK p, e, m1 : p = t.parent[victim] /\ e = Side(t, victim) /\ m1 = rb_replace_node(t, victim, child)
  OBVIOUS
<1>4. PICK m2 : m2 = IF m1.parent[victim] = 0 /\ child # 0 THEN Paint(m1, child, RB_BLACK) ELSE m1
  OBVIOUS
<1>5. /\ t' = Freed(m2, victim)
      /\ pc' = "idle" /\ n' = 0 /\ victim' = 0 /\ child' = 0
  BY <1>3, <1>4 DEF unlink, Return, Goto
<1>6. Leaves(t, victim, child, p, e) /\ Shrinks(t, t', victim, child, p, e)
  BY <1>1, <1>2, <1>3, <1>4, <1>5, UnlinkFields
<1>7. PICK h : Ready(h)
  BY <1>1, ColorsBefore
<1>8. Balanced(t, h, 0, 0, victim, child)
  BY <1>1, <1>7 DEF Ready, Lacking, Excused, Inserting, Deleting
<1>9. PICK m3 : m3 = t'
  OBVIOUS
<1>10. \E h2 : Balanced(m3, h2, 0, 0, 0, 0)
  BY <1>1, <1>6, <1>8, <1>9, UnlinkBalances
<1>11. PICK h2 : Balanced(m3, h2, 0, 0, 0, 0)
  BY <1>10
<1>12. Balanced(t', h2, 0, 0, victim', child') /\ Lacking' = 0 /\ Excused' = 0 /\ pc' # "panic"
  BY <1>5, <1>9, <1>11 DEF Lacking, Excused, Inserting, Deleting
<1>13. Found(t)'
  BY <1>5 DEF Found, Inserting
<1>14. QED BY <1>12, <1>13, ColorsAfter

\* Keys and values do not count.
LEMMA ShapeBalances ==
  ASSUME NEW m, Tree(m), NEW m2, SameShape(m, m2), \A z \in Ptr : m2.color[z] = m.color[z],
         NEW h, Balanced(m, h, 0, 0, 0, 0)
  PROVE  Balanced(m2, h, 0, 0, 0, 0)
<1>1. m2.used = m.used /\ m2.root = m.root /\ m2.child = m.child
  BY DEF SameShape
<1>2. m.used \subseteq Ptr /\ m.root \in Ptr /\ 0 \notin m.used /\ 0 \in Ptr
  BY Addresses, MapFields DEF Tree
<1>3. PICK S, U : S = {} /\ U = {}
  OBVIOUS
<1>4. Untouched(m, m2, h, h, S) /\ SameTrouble(0, 0, 0, 0, U)
  BY <1>3 DEF Untouched, SameTrouble
<1>5. ASSUME NEW z \in m2.used, NEW f \in Sides PROVE Fits(m2, h, 0, 0, z, m2.child[z, f])
  <2>1. PICK u : u = m.child[z, f]
    OBVIOUS
  <2>2. m2.child[z, f] = u /\ z \in m.used
    BY <1>1, <2>1
  <2>3. Below(m, z, u) /\ Fits(m, h, 0, 0, z, u)
    BY <1>2, <2>1, <2>2, BelowNode, FitsAt
  <2>4. u \in Ptr /\ z \in Ptr
    BY <2>3 DEF Below
  <2>5. Fits(m2, h, 0, 0, z, u)
    BY <1>3, <1>4, <2>3, <2>4, FitKept
  <2>6. QED BY <2>2, <2>5
<1>6. ~Red(m2, m2.root)
  <2>1. Red(m, m.root) => m.root = 0
    BY DEF Balanced
  <2>2. m2.color[m.root] = m.color[m.root]
    BY <1>2
  <2>3. QED BY <1>1, <2>1, <2>2, ColorOf
<1>7. h \in [Ptr -> Nat \ {0}] /\ h[0] = 1
  BY DEF Balanced
<1>8. QED BY <1>5, <1>6, <1>7 DEF Balanced

\* A red node that goes is as high as its child: nothing is missing.
LEMMA RedGoes ==
  ASSUME NEW m, Tree(m), NEW h, Balanced(m, h, 0, 0, 0, 0), NEW v, NEW c, Goes(m, v, c), Red(m, v)
  PROVE  Balanced(m, h, 0, 0, v, c)
<1>1. v \in m.used /\ v # 0 /\ v \in Ptr /\ c \in Ptr
  BY GoneChild
<1>2. PICK f \in Sides : m.child[v, f] = c
  BY DEF Goes
<1>3. Fits(m, h, 0, 0, v, c)
  BY <1>1, <1>2, FitsAt
<1>4. h[c] \in Int /\ m.color[v] = 0
  BY <1>1, BalanceNumbers, ColorOf DEF Numbers
<1>5. h[v] = m.color[v] + h[c]
  BY <1>1, <1>3, <1>4, FitNumbers
<1>6. h[v] = h[c]
  BY <1>4, <1>5
<1>7. Red(m, m.root) => m.root = 0
  BY DEF Balanced
<1>8. ~Red(m, m.root)
  BY <1>7, ColorOf
<1>9. h \in [Ptr -> Nat \ {0}] /\ h[0] = 1 /\ \A z \in m.used, g \in Sides : Fits(m, h, 0, 0, z, m.child[z, g])
  <2>1. 0 \notin m.used
    BY Addresses, MapFields DEF Tree
  <2>2. QED BY <2>1 DEF Balanced
<1>10. QED BY <1>6, <1>8, <1>9 DEF Balanced

\* A black node that goes is painted like its child, and a black node is missing
\* there.
LEMMA BlackGoes ==
  ASSUME NEW m, Tree(m), NEW h, Balanced(m, h, 0, 0, 0, 0), NEW v, NEW c, Goes(m, v, c), ~Red(m, v),
         NEW m2, Painted(m, m2, v, rb_node_color(m, c))
  PROVE  \E h2 : Balanced(m2, h2, v, v, v, c)
<1>1. v \in m.used /\ v # 0 /\ v \in Ptr /\ c \in Ptr /\ (c # 0 => c \in m.used /\ m.parent[c] = v)
  BY GoneChild
<1>2. c # v
  BY <1>1, NoCircles
<1>3. PICK f \in Sides : m.child[v, f] = c
  BY DEF Goes
<1>4. Fits(m, h, 0, 0, v, c)
  BY <1>1, <1>3, FitsAt
<1>5. Heights(h) /\ Numbers(h) /\ h[c] \in Nat \ {0} /\ h[c] \in Int /\ h[v] \in Int
  BY <1>1, BalanceHeights, BalanceNumbers DEF Heights, Numbers
<1>6. m.color[v] = 1 /\ m.color[c] \in {0, 1}
  <2>1. m.color[v] \in {0, 1} /\ m.color[c] \in {0, 1}
    BY <1>1, MapFields DEF Tree
  <2>2. QED BY <1>1, <2>1, ColorOf
<1>7. h[v] = 1 + h[c]
  BY <1>1, <1>4, <1>5, <1>6, FitNumbers
<1>8. PICK k : k = h[c]
  OBVIOUS
<1>9. PICK h2 : Raised(h, h2, v, k, v, k, v, k)
  BY <1>1, <1>5, <1>8, HeightsExist
<1>10. Heights(h2) /\ h2[v] = h[c] /\ \A z \in Ptr : z # v => h2[z] = h[z]
  BY <1>8, <1>9 DEF Raised
<1>11. /\ SameLinks(m, m2) /\ m2.root = m.root
       /\ \A z \in Ptr : m2.color[z] = IF z = v THEN rb_node_color(m, c) ELSE m.color[z]
  BY DEF Painted, WritesColor
<1>12. PICK S, U : S = {v} /\ U = {0, v}
  OBVIOUS
<1>13. Untouched(m, m2, h, h2, S) /\ SameTrouble(0, 0, v, v, U) /\ 0 \notin S
  BY <1>1, <1>10, <1>11, <1>12 DEF Untouched, SameTrouble
<1>14. ASSUME NEW z \in m.used, NEW g \in Sides, z # v PROVE Fits(m2, h2, v, v, z, m.child[z, g])
  <2>1. PICK u : u = m.child[z, g]
    OBVIOUS
  <2>2. Below(m, z, u) /\ Fits(m, h, 0, 0, z, u)
    <3>1. z # 0
      BY Addresses, MapFields DEF Tree
    <3>2. QED BY <2>1, <3>1, BelowNode, FitsAt
  <2>3. u \in Ptr /\ z \in Ptr /\ z # 0
    BY <2>2 DEF Below
  <2>4. CASE u = v
    <3>1. h[z] = m.color[z] + h[v]
      BY <1>1, <1>5, <2>2, <2>3, <2>4, FitNumbers
    <3>2. h2[z] = h[z] /\ m2.color[z] = m.color[z]
      BY <1>10, <1>11, <1>14, <2>3
    <3>3. m.color[z] \in {0, 1}
      BY <2>3, MapFields DEF Tree
    <3>4. h2[z] = m2.color[z] + (h2[v] + 1) /\ h2[v] \in Int
      BY <1>5, <1>7, <1>10, <3>1, <3>2, <3>3
    <3>5. Fits(m2, h2, v, v, z, v)
      BY <1>1, <3>4, FitLacking
    <3>6. QED BY <2>1, <2>4, <3>5
  <2>5. CASE u # v
    <3>1. z \notin S /\ (u = 0 \/ (u \notin S /\ u \notin U))
      BY <1>12, <1>14, <2>5
    <3>2. Fits(m2, h2, v, v, z, u)
      BY <1>13, <2>2, <2>3, <3>1, FitKept
    <3>3. QED BY <2>1, <3>2
  <2>6. QED BY <2>4, <2>5
<1>15. h2[v] = h2[c] /\ (Red(m2, c) => Red(m2, v))
  <2>1. h2[c] = h[c] /\ m2.color[c] = m.color[c]
    BY <1>1, <1>2, <1>10, <1>11
  <2>2. Red(m2, c) => c # 0 /\ m.color[c] = 0
    BY <2>1, ColorOf
  <2>3. m2.color[v] = rb_node_color(m, c)
    BY <1>1, <1>11
  <2>4. Red(m2, c) => m2.color[v] = 0
    BY <2>2, <2>3 DEF rb_node_color
  <2>5. QED BY <1>1, <1>10, <2>1, <2>4, ColorOf
<1>16. Red(m2, m2.root) => m2.root = v
  <2>1. Red(m, m.root) => m.root = 0
    BY DEF Balanced
  <2>2. m.root \in Ptr
    BY MapFields DEF Tree
  <2>3. m.root # v => m2.color[m.root] = m.color[m.root]
    BY <1>11, <2>2
  <2>4. QED BY <1>11, <2>1, <2>3, ColorOf
<1>17. Balanced(m2, h2, v, v, v, c)
  BY <1>10, <1>11, <1>14, <1>15, <1>16, PaintBalances
<1>18. QED BY <1>17

\* A new node is a red leaf.
LEMMA InsertBalances ==
  ASSUME NEW m, Tree(m), NEW h, Balanced(m, h, 0, 0, 0, 0), NEW x, NEW k, NEW v, NEW p, NEW f,
         Room(m, x, p, f), NEW m2, Grows(m, m2, x, k, v, p, f)
  PROVE  Red(m2, x) /\ \E h2 : Balanced(m2, h2, 0, x, 0, 0)
<1>1. /\ x \in Nodes /\ x \in Ptr /\ x # 0 /\ x \notin m.used /\ p \in Ptr /\ f \in Sides
      /\ (p # 0 => p \in m.used /\ m.child[p, f] = 0)
  BY Addresses DEF Room
<1>2. /\ m2.used = m.used \union {x} /\ m2.color = m.color
      /\ m2.root = (IF p = 0 THEN x ELSE m.root)
  BY DEF Grows
<1>3. \A z \in Ptr, g \in Sides : m2.child[z, g] = IF z = p /\ p # 0 /\ g = f THEN x ELSE m.child[z, g]
  BY DEF Grows
<1>4. m.color[x] = 0
  BY <1>1 DEF Tree, Clean, RB_RED
<1>5. Heights(h) /\ Numbers(h) /\ h[0] = 1 /\ m.used \subseteq Ptr /\ 0 \notin m.used
  BY BalanceHeights, BalanceNumbers, Addresses, MapFields DEF Numbers, Tree
<1>6. PICK h2 : Raised(h, h2, x, 1, x, 1, x, 1)
  <2>1. 1 \in Nat \ {0}
    OBVIOUS
  <2>2. QED BY <1>1, <1>5, <2>1, HeightsExist
<1>7. Heights(h2) /\ h2[x] = 1 /\ \A z \in Ptr : z # x => h2[z] = h[z]
  BY <1>6 DEF Raised
<1>8. PICK S, U : S = {x} /\ U = {0, x}
  OBVIOUS
<1>9. Untouched(m, m2, h, h2, S) /\ SameTrouble(0, 0, 0, x, U) /\ 0 \notin S
  BY <1>1, <1>2, <1>7, <1>8 DEF Untouched, SameTrouble
<1>10. ASSUME NEW z \in m2.used, NEW g \in Sides PROVE Fits(m2, h2, 0, x, z, m2.child[z, g])
  <2>1. CASE z = x
    <3>1. m2.child[z, g] = 0
      <4>1. m.child[x, g] = 0
        BY <1>1 DEF Tree, Clean
      <4>2. QED BY <1>1, <1>3, <2>1, <4>1
    <3>2. h2[0] = 1 /\ h2[x] = m2.color[x] + h2[0]
      BY <1>2, <1>4, <1>7 DEF Heights
    <3>3. Fits(m2, h2, 0, x, x, 0)
      BY <3>2, FitMade
    <3>4. QED BY <2>1, <3>1, <3>3
  <2>2. CASE z # x
    <3>1. z \in m.used /\ z \in Ptr /\ z # 0
      BY <1>2, <1>5, <2>2
    <3>2. PICK u : u = m.child[z, g]
      OBVIOUS
    <3>3. Below(m, z, u) /\ Fits(m, h, 0, 0, z, u)
      BY <3>1, <3>2, BelowNode, FitsAt
    <3>4. u \in Ptr /\ (u # 0 => u \in m.used)
      BY <3>3 DEF Below
    <3>5. CASE z = p /\ g = f
      <4>1. m2.child[z, g] = x /\ u = 0
        BY <1>1, <1>3, <3>1, <3>2, <3>5
      <4>2. h[u] \in Int /\ h[u] = 1 /\ u = 0
        <5>1. u = 0
          BY <4>1
        <5>2. QED BY <1>5, <5>1
      <4>3. h[z] = m.color[z] + h[u]
        BY <3>1, <3>3, <4>2, FitNumbers
      <4>4. h2[z] = m2.color[z] + h2[x] /\ h2[x] \in Int
        BY <1>2, <1>5, <1>7, <2>2, <3>1, <4>2, <4>3
      <4>5. Fits(m2, h2, 0, x, z, x)
        BY <4>4, FitMade
      <4>6. QED BY <4>1, <4>5
    <3>6. CASE ~(z = p /\ g = f)
      <4>1. m2.child[z, g] = u
        BY <1>3, <3>1, <3>2, <3>6
      <4>2. z \notin S /\ (u = 0 \/ (u \notin S /\ u \notin U))
        BY <1>1, <1>8, <2>2, <3>4
      <4>3. Fits(m2, h2, 0, x, z, u)
        BY <1>9, <3>1, <3>3, <3>4, <4>2, FitKept
      <4>4. QED BY <4>1, <4>3
    <3>7. QED BY <3>5, <3>6
  <2>3. QED BY <2>1, <2>2
<1>11. Red(m2, m2.root) => m2.root = x
  <2>1. CASE p = 0
    BY <1>2, <2>1
  <2>2. CASE p # 0
    <3>1. Red(m, m.root) => m.root = 0
      BY DEF Balanced
    <3>2. QED BY <1>2, <2>2, <3>1, ColorOf
  <2>3. QED BY <2>1, <2>2
<1>12. Balanced(m2, h2, 0, x, 0, 0)
  <2>1. h2 \in [Ptr -> Nat \ {0}] /\ h2[0] = 1
    BY <1>7 DEF Heights
  <2>2. QED BY <1>10, <1>11, <2>1 DEF Balanced
<1>13. Red(m2, x)
  BY <1>1, <1>2, <1>4, ColorOf
<1>14. QED BY <1>12, <1>13
\* Between calls the whole tree is balanced.
LEMMA RestColors ==
  ASSUME LinkInv, ColorInv, pc = "idle"
  PROVE  Tree(t) /\ Control(t) /\ n = 0 /\ victim = 0 /\ child = 0 /\ \E h : Balanced(t, h, 0, 0, 0, 0)
<1>1. PICK h : Ready(h)
  BY ColorsBefore
<1>2. Tree(t) /\ Control(t) /\ n = 0 /\ victim = 0 /\ child = 0
  BY <1>1 DEF Ready, Control
<1>3. Balanced(t, h, 0, 0, 0, 0)
  BY <1>1, <1>2 DEF Ready, Lacking, Excused
<1>4. QED BY <1>2, <1>3

\* A call that has completed leaves the tree balanced.
LEMMA RestAfter ==
  ASSUME NEW m, m = t', \E h : Balanced(m, h, 0, 0, 0, 0), pc' = "idle", n' = 0, victim' = 0, child' = 0
  PROVE  ColorInv'
<1>1. PICK h : Balanced(m, h, 0, 0, 0, 0)
  OBVIOUS
<1>2. Balanced(t', h, 0, 0, victim', child') /\ Lacking' = 0 /\ Excused' = 0 /\ pc' # "panic"
  BY <1>1 DEF Lacking, Excused, Inserting, Deleting
<1>3. Found(t)'
  BY DEF Found, Inserting
<1>4. QED BY <1>2, <1>3, ColorsAfter

\* A set of a key that is there (map_set) changes no color.
LEMMA OverwriteColors ==
  ASSUME LinkInv, ColorInv, pc = "idle", t.used # Nodes, UNCHANGED <<victim, child>>,
         NEW kv \in Settings, NEW k, k = kv[1], NEW v, v = kv[2], Overwrite(k, v)
  PROVE  ColorInv'
<1>1. Tree(t) /\ n = 0 /\ victim = 0 /\ child = 0 /\ \E h : Balanced(t, h, 0, 0, 0, 0)
  BY RestColors
<1>2. k \in Int /\ v \in Int
  BY SettingsTyped
<1>3. PICK x, y : x = rb_lookup_node(t, k) /\ y = Fresh(t, k)
  OBVIOUS
<1>4. /\ x # 0
      /\ t' = Freed([rb_new_node(t, k, v) EXCEPT !.value[x] = v], y)
      /\ pc' = "idle" /\ n' = 0
  BY <1>3 DEF Overwrite, Return, Goto
<1>5. x \in t.used
  <2>1. Finds(t, k, x)
    BY <1>1, <1>2, <1>3, LookupFinds
  <2>2. QED BY <1>4, <2>1 DEF Finds
<1>6. y \in Nodes /\ y \notin t.used
  BY <1>1, <1>3, FreshNode
<1>7. PICK m : m = t'
  OBVIOUS
<1>8. Revalues(t, m, x, v)
  BY <1>1, <1>2, <1>3, <1>4, <1>5, <1>6, <1>7, OverwriteFields
<1>9. PICK h : Balanced(t, h, 0, 0, 0, 0)
  BY <1>1
<1>10. SameShape(t, m) /\ \A z \in Ptr : m.color[z] = t.color[z]
  BY <1>8 DEF Revalues
<1>11. Balanced(m, h, 0, 0, 0, 0)
  BY <1>1, <1>9, <1>10, ShapeBalances
<1>12. QED BY <1>1, <1>4, <1>7, <1>11, RestAfter

\* A set of a new key (map_set) leaves a red leaf to rb_insert_case1.
LEMMA InsertColors ==
  ASSUME LinkInv, ColorInv, pc = "idle", t.used # Nodes, UNCHANGED <<victim, child>>,
         NEW kv \in Settings, NEW k, k = kv[1], NEW v, v = kv[2], Insert(k, v)
  PROVE  ColorInv'
<1>1. Tree(t) /\ n = 0 /\ victim = 0 /\ child = 0 /\ \E h : Balanced(t, h, 0, 0, 0, 0)
  BY RestColors
<1>2. k \in Int /\ v \in Int
  BY SettingsTyped
<1>3. PICK x, p, f, m : /\ x = Fresh(t, k) /\ p = IF t.root = 0 THEN 0 ELSE LastOnPath(t, k)
                        /\ f = Toward(t, p, k) /\ m = rb_new_node(t, k, v)
  OBVIOUS
<1>4. /\ t' = IF t.root = 0
              THEN [m EXCEPT !.root = x, !.size = @ + 1]
              ELSE [m EXCEPT !.child[<<p, f>>] = x, !.parent[x] = p, !.size = @ + 1]
      /\ pc' = "insert1" /\ n' = x
  BY <1>3 DEF Insert, Goto
<1>5. PICK m2 : m2 = t'
  OBVIOUS
<1>6. Room(t, x, p, f) /\ Grows(t, m2, x, k, v, p, f)
  <2>1. Place(t, k, p, f) /\ Hooks(t, m, m2, x, p, f)
    BY <1>3, <1>4, <1>5 DEF Place, Hooks
  <2>2. QED BY <1>1, <1>2, <1>3, <2>1, InsertFields
<1>7. PICK h : Balanced(t, h, 0, 0, 0, 0)
  BY <1>1
<1>8. Red(m2, x) /\ \E h2 : Balanced(m2, h2, 0, x, 0, 0)
  BY <1>1, <1>6, <1>7, InsertBalances
<1>9. PICK h2 : Balanced(m2, h2, 0, x, 0, 0)
  BY <1>8
<1>10. /\ Balanced(t', h2, 0, x, victim', child') /\ Lacking' = 0 /\ Excused' = x /\ pc' # "panic"
  BY <1>1, <1>4, <1>5, <1>9 DEF Lacking, Excused, Inserting, Deleting
<1>11. Found(t)'
  BY <1>4, <1>5, <1>8 DEF Found, Inserting
<1>12. QED BY <1>10, <1>11, ColorsAfter

\* The begin of map_erase: the tree stays balanced but for the node that goes.
LEMMA EraseColors ==
  ASSUME LinkInv, ColorInv, NEW k \in Keys, map_erase(k)
  PROVE  ColorInv'
<1>1. pc = "idle"
  BY DEF map_erase, Idle
<1>2. Tree(t) /\ n = 0 /\ victim = 0 /\ child = 0 /\ (\E h : Balanced(t, h, 0, 0, 0, 0)) /\ k \in Int
  BY <1>1, RestColors, RbConstants DEF Keys
<1>3. PICK x, y : /\ x = rb_lookup_node(t, k)
                  /\ y = (IF \A d \in Sides : t.child[x, d] # 0 THEN rb_maximum_node(t, t.child[x, "left"]) ELSE x)
  OBVIOUS
<1>4. PICK m : m = [IF \A d \in Sides : t.child[x, d] # 0 THEN Swapped(t, x, y) ELSE t EXCEPT !.size = @ - 1]
  OBVIOUS
<1>5. PICK c : c = (IF m.child[y, "right"] = 0 THEN m.child[y, "left"] ELSE m.child[y, "right"])
  OBVIOUS
<1>6. IF x = 0 THEN UNCHANGED <<t, pc, n, victim, child>>
      ELSE IF \A d \in Sides : m.child[y, d] # 0 THEN Panic /\ UNCHANGED <<victim, child, result>>
      ELSE /\ victim' = y /\ child' = c
           /\ IF Red(m, y) THEN t' = m /\ Goto("unlink", y)
              ELSE t' = Paint(m, y, rb_node_color(m, c)) /\ Goto("delete1", y)
  BY <1>3, <1>4, <1>5 DEF map_erase
<1>7. CASE x = 0
  <2>1. t' = t /\ pc' = "idle" /\ n' = 0 /\ victim' = 0 /\ child' = 0
    BY <1>1, <1>2, <1>6, <1>7
  <2>2. PICK m2 : m2 = t'
    OBVIOUS
  <2>3. \E h : Balanced(m2, h, 0, 0, 0, 0)
    BY <1>2, <2>1, <2>2
  <2>4. QED BY <2>1, <2>2, <2>3, RestAfter
<1>8. CASE x # 0
  <2>1. Erases(t, k, x, y, m, c)
    BY <1>3, <1>4, <1>5, <1>8 DEF Erases
  <2>2. x \in t.used /\ y \in t.used /\ Trades(t, m, x, y) /\ Tree(m) /\ Goes(m, y, c)
    BY <1>2, <2>1, EraseFinds
  <2>3. ~ \A d \in Sides : m.child[y, d] # 0
    BY <2>2, TwoSides DEF Goes
  <2>4. /\ victim' = y /\ child' = c /\ n' = y
        /\ IF Red(m, y) THEN t' = m /\ pc' = "unlink"
           ELSE t' = Paint(m, y, rb_node_color(m, c)) /\ pc' = "delete1"
    BY <1>6, <1>8, <2>3 DEF Goto
  <2>5. PICK h : Balanced(t, h, 0, 0, 0, 0)
    BY <1>2
  <2>6. SameShape(t, m) /\ \A z \in Ptr : m.color[z] = t.color[z]
    BY <2>2 DEF Trades
  <2>7. Balanced(m, h, 0, 0, 0, 0)
    BY <1>2, <2>5, <2>6, ShapeBalances
  <2>8. Found(t)' /\ pc' # "panic"
    BY <2>4 DEF Found, Inserting
  <2>9. CASE Red(m, y)
    <3>1. Balanced(m, h, 0, 0, y, c)
      BY <2>2, <2>7, <2>9, RedGoes
    <3>2. Balanced(t', h, 0, 0, victim', child') /\ Lacking' = 0 /\ Excused' = 0
      BY <2>4, <2>9, <3>1 DEF Lacking, Excused, Inserting, Deleting
    <3>3. QED BY <2>8, <3>2, ColorsAfter
  <2>10. CASE ~Red(m, y)
    <3>1. PICK m2 : m2 = Paint(m, y, rb_node_color(m, c))
      OBVIOUS
    <3>2. y \in m.used /\ y \in Ptr /\ c \in Ptr
      BY <2>2, GoneChild
    <3>3. rb_node_color(m, c) \in {RB_RED, RB_BLACK}
      BY <2>2, <3>2, MapFields DEF Tree, rb_node_color, RB_RED, RB_BLACK
    <3>4. Painted(m, m2, y, rb_node_color(m, c))
      BY <2>2, <3>1, <3>2, <3>3, PaintKeepsTree
    <3>5. \E h2 : Balanced(m2, h2, y, y, y, c)
      BY <2>2, <2>7, <2>10, <3>4, BlackGoes
    <3>6. PICK h2 : Balanced(m2, h2, y, y, y, c)
      BY <3>5
    <3>7. Balanced(t', h2, y, y, victim', child') /\ Lacking' = y /\ Excused' = y
      BY <2>4, <2>10, <3>1, <3>6 DEF Lacking, Excused, Inserting, Deleting
    <3>8. QED BY <2>8, <3>7, ColorsAfter
  <2>11. QED BY <2>9, <2>10
<1>9. QED BY <1>7, <1>8

\* An empty map is balanced.
LEMMA BlankBalances == \E h : Balanced(Blank, h, 0, 0, 0, 0)
<1>1. PICK h : h = [z \in Ptr |-> 1]
  OBVIOUS
<1>2. h \in [Ptr -> Nat \ {0}] /\ h[0] = 1
  BY <1>1, Addresses
<1>3. Blank.used = {} /\ ~Red(Blank, Blank.root)
  BY ColorOf DEF Blank
<1>4. Balanced(Blank, h, 0, 0, 0, 0)
  BY <1>2, <1>3 DEF Balanced
<1>5. QED BY <1>4

\* A new map is balanced.
LEMMA InitColors ==
  ASSUME Init
  PROVE  ColorInv
<1>1. t = Blank /\ pc = "idle" /\ n = 0 /\ victim = 0 /\ child = 0
  BY DEF Init
<1>2. PICK h : Balanced(Blank, h, 0, 0, 0, 0)
  BY BlankBalances
<1>3. Balanced(t, h, Lacking, Excused, victim, child) /\ h \in [Ptr -> Nat \ {0}]
  BY <1>1, <1>2 DEF Lacking, Excused, Inserting, Deleting, Balanced
<1>4. HasHeights
  BY <1>3 DEF HasHeights
<1>5. Found(t)
  BY <1>1 DEF Found, Inserting
<1>6. QED BY <1>1, <1>4, <1>5 DEF ColorInv

\* map_destroy leaves an empty map.
LEMMA DestroyColors ==
  ASSUME LinkInv, ColorInv, map_destroy
  PROVE  ColorInv'
<1>1. pc = "idle"
  BY DEF map_destroy, Idle
<1>2. Tree(t) /\ victim = 0 /\ child = 0
  BY <1>1, RestColors
<1>3. PICK order, gone : order = Visit(t) /\ gone = Members(order)
  OBVIOUS
<1>4. gone = t.used
  BY <1>2, <1>3, VisitReaches
<1>5. /\ t' = [Blank EXCEPT !.used = t.used \ gone]
      /\ pc' = "idle" /\ n' = 0 /\ victim' = 0 /\ child' = 0
  BY <1>2, <1>3 DEF map_destroy, Return, Goto, Members
<1>6. t' = Blank
  <2>1. t' = [Blank EXCEPT !.used = {}]
    BY <1>4, <1>5
  <2>2. QED BY <2>1 DEF Blank
<1>7. PICK m : m = t'
  OBVIOUS
<1>8. \E h : Balanced(m, h, 0, 0, 0, 0)
  BY <1>6, <1>7, BlankBalances
<1>9. QED BY <1>5, <1>7, <1>8, RestAfter

\* The calls that only answer leave the colors as they are; map_at stops the
\* system when there is no such key.
LEMMA AnswerColors ==
  ASSUME LinkInv, ColorInv, NEW r, Answers(r), n' = 0, pc = "idle",
         pc' = "idle" \/ (pc' = "panic" /\ r.op = "panic")
  PROVE  ColorInv'
<1>1. (\E h : Balanced(t, h, 0, 0, 0, 0)) /\ victim = 0 /\ child = 0
  BY RestColors
<1>2. t' = t /\ victim' = 0 /\ child' = 0 /\ result' = r
  BY <1>1 DEF Answers
<1>3. CASE pc' = "idle"
  <2>1. PICK m : m = t'
    OBVIOUS
  <2>2. \E h : Balanced(m, h, 0, 0, 0, 0)
    BY <1>1, <1>2, <2>1
  <2>3. QED BY <1>2, <1>3, <2>1, <2>2, RestAfter
<1>4. CASE pc' = "panic" /\ r.op = "panic"
  BY <1>2, <1>4 DEF ColorInv
<1>5. QED BY <1>3, <1>4

----------------------------------------------------------------------------
(* Every step *)

\* Every call that a program makes between calls keeps the colors.
LEMMA CallsColors ==
  ASSUME LinkInv, ColorInv, Calls
  PROVE  ColorInv'
<1>1. ASSUME NEW kv \in Settings, map_set(kv[1], kv[2]) PROVE ColorInv'
  <2>1. /\ pc = "idle" /\ t.used # Nodes /\ UNCHANGED <<victim, child>>
        /\ Overwrite(kv[1], kv[2]) \/ Insert(kv[1], kv[2])
    BY <1>1 DEF map_set, Idle
  <2>2. PICK k, v : k = kv[1] /\ v = kv[2]
    OBVIOUS
  <2>3. CASE Overwrite(kv[1], kv[2])
    BY <2>1, <2>2, <2>3, OverwriteColors
  <2>4. CASE Insert(kv[1], kv[2])
    BY <2>1, <2>2, <2>4, InsertColors
  <2>5. QED BY <2>1, <2>3, <2>4
<1>2. ASSUME NEW k \in Keys, map_erase(k) PROVE ColorInv'
  BY <1>2, EraseColors
<1>3. ASSUME NEW r, Answers(r), n' = 0, pc = "idle", pc' = "idle" \/ (pc' = "panic" /\ r.op = "panic")
      PROVE  ColorInv'
  BY <1>3, AnswerColors
<1>4. ASSUME NEW k \in Keys, map_at(k) PROVE ColorInv'
  <2>1. PICK x, r : x = rb_lookup_node(t, k) /\ r = Result("panic", <<>>)
    OBVIOUS
  <2>2. /\ pc = "idle"
        /\ IF x = 0 THEN Answers(r) /\ Goto("panic", 0)
           ELSE Answers(Result("at", << <<k, t.value[x]>> >>)) /\ Return
    BY <1>4, <2>1 DEF map_at, Idle
  <2>3. r.op = "panic"
    BY <2>1 DEF Result
  <2>4. CASE x = 0
    <3>1. Answers(r) /\ pc' = "panic" /\ n' = 0
      BY <2>2, <2>4 DEF Goto
    <3>2. QED BY <1>3, <2>2, <2>3, <3>1
  <2>5. CASE x # 0
    <3>1. pc' = "idle" /\ n' = 0 /\ \E a : Answers(a)
      BY <2>2, <2>5 DEF Goto, Return
    <3>2. QED BY <1>3, <2>2, <3>1
  <2>6. QED BY <2>4, <2>5
<1>5. ASSUME NEW k \in Keys, map_has(k) PROVE ColorInv'
  <2>1. pc = "idle" /\ pc' = "idle" /\ n' = 0 /\ \E r : Answers(r)
    BY <1>5 DEF map_has, Idle, Return, Goto
  <2>2. QED BY <1>3, <2>1
<1>6. ASSUME map_size PROVE ColorInv'
  <2>1. pc = "idle" /\ pc' = "idle" /\ n' = 0 /\ \E r : Answers(r)
    BY <1>6 DEF map_size, Idle, Return, Goto
  <2>2. QED BY <1>3, <2>1
<1>7. ASSUME map_foreach PROVE ColorInv'
  <2>1. pc = "idle" /\ pc' = "idle" /\ n' = 0
    BY <1>7 DEF map_foreach, Idle, Return, Goto
  <2>2. \E r : Answers(r)
    BY <1>7 DEF map_foreach
  <2>3. QED BY <1>3, <2>1, <2>2
<1>8. ASSUME map_destroy PROVE ColorInv'
  BY <1>8, DestroyColors
<1>9. QED BY <1>1, <1>2, <1>4, <1>5, <1>6, <1>7, <1>8 DEF Calls

\* Every routine of the rebalancing keeps the colors.
LEMMA StepsColors ==
  ASSUME LinkInv, ColorInv, Steps
  PROVE  ColorInv'
BY Insert1Colors, Insert3Colors, Insert4Colors, Insert5Colors, Delete1Colors, Delete2Colors,
   Delete3Colors, Delete5Colors, Delete6Colors, UnlinkColors DEF Steps

\* So does every step.
LEMMA NextColors ==
  ASSUME LinkInv, ColorInv, [Next]_vars
  PROVE  ColorInv'
<1>1. CASE UNCHANGED vars
  <2>1. /\ t' = t /\ pc' = pc /\ n' = n /\ victim' = victim /\ child' = child /\ result' = result
    BY <1>1 DEF vars
  <2>2. Lacking' = Lacking /\ Excused' = Excused
    BY <2>1 DEF Lacking, Excused
  <2>3. HasHeights' <=> HasHeights
    BY <2>1, <2>2 DEF HasHeights
  <2>4. AllBlack' <=> AllBlack
    BY <2>1 DEF AllBlack
  <2>5. Found(t)' <=> Found(t)
    BY <2>1, <2>4 DEF Found
  <2>6. QED BY <2>1, <2>3, <2>5 DEF ColorInv
<1>2. QED BY <1>1, CallsColors, StepsColors DEF Next

\* At every step of every call all nodes but one have below them as many black
\* nodes on all ways, and no red node but one has a red parent.
THEOREM ColorsHold == Spec => [](LinkInv /\ ColorInv)
<1>1. Init => LinkInv /\ ColorInv
  BY InitLinks, InitColors
<1>2. (LinkInv /\ ColorInv) /\ [Next]_vars => (LinkInv /\ ColorInv)'
  BY NextLinks, NextColors
<1>3. QED BY <1>1, <1>2, PTL DEF Spec

\* The assertions of the rebalancing hold, the sibling that the deletion looks
\* at is there, and nothing is written through a null pointer.
THEOREM NoAssertionFails == Spec => []AssertionsHold
<1>1. ASSUME LinkInv, ColorInv PROVE AssertionsHold
  <2>1. pc = "panic" => result.op = "panic"
    BY <1>1 DEF ColorInv
  <2>2. ASSUME pc \in {"delete2", "delete3", "delete5", "delete6"} PROVE Parent(n) # 0 /\ rb_sibling(t, n) # 0
    <3>1. pc \in Deleting \ {"delete1"}
      BY <2>2 DEF Deleting
    <3>2. PICK h, A, q, d, s : Sinking(h, A, q, d, s)
      BY <1>1, <3>1, SinkingAt
    <3>3. s = rb_sibling(t, n) /\ s # 0
      BY <3>2 DEF Sinking
    <3>4. Parent(n) # 0
      BY <1>1, <3>1 DEF LinkInv, Control, Parent
    <3>5. QED BY <3>3, <3>4
  <2>3. Tree(t) /\ 0 \in Ptr /\ 0 \notin t.used
    <3>1. Tree(t)
      BY <1>1 DEF LinkInv
    <3>2. QED BY <3>1, Addresses, MapFields DEF Tree
  <2>4. t.key[0] = 0 /\ t.color[0] = RB_RED /\ t.parent[0] = 0 /\ \A d \in Sides : t.child[0, d] = 0
    BY <2>3 DEF Tree, Clean
  <2>5. QED BY <2>1, <2>2, <2>4 DEF AssertionsHold
<1>2. QED BY <1>1, ColorsHold, PTL

----------------------------------------------------------------------------
(* The heights that the verification counts *)

\* The numbers of black nodes on the ways down, one level after another.
Counts(m, H) ==
  /\ H \in [0 .. MaxNodes -> [Ptr -> SUBSET Int]]
  /\ \A d \in 0 .. MaxNodes : H[d][0] = {1}
  /\ \A d \in 1 .. MaxNodes, y \in Ptr :
       y # 0 => H[d][y] = {k + m.color[y] : k \in UNION {H[d - 1][m.child[y, e]] : e \in Sides}}

\* They are defined at every depth.
LEMMA BlackHeightsDef ==
  ASSUME NEW m \in Maps
  PROVE  Counts(m, BlackHeights(m))
<1> DEFINE top == MaxNodes
           S == [Ptr -> SUBSET Int]
           a == [y \in Ptr |-> {1}]
           Level(w) == [y \in Ptr |-> IF y = 0 THEN {1}
                                      ELSE {k + m.color[y] : k \in UNION {w[m.child[y, e]] : e \in Sides}}]
           step == [d \in 1 .. top |-> [w \in S |-> Level(w)]]
           Body(f) == [d \in 0 .. top |->
                         [y \in Ptr |->
                           IF y = 0 \/ d = 0 THEN {1}
                           ELSE {h + m.color[y] : h \in UNION {f[d - 1][m.child[y, e]] : e \in Sides}}]]
           g == BlackHeights(m)
<1>1. \A x \in Ptr, f \in Sides : m.child[x, f] \in Ptr
  BY MapFields
<1>2. \A x \in Ptr : m.color[x] \in {0, 1}
  BY MapFields
<1>3. \A w \in S : Level(w) \in S
  <2>1. ASSUME NEW w \in S, NEW y \in Ptr PROVE Level(w)[y] \in SUBSET Int
    <3>1. PICK U, c : U = UNION {w[m.child[y, e]] : e \in Sides} /\ c = m.color[y]
      OBVIOUS
    <3>2. U \subseteq Int
      BY <1>1, <3>1
    <3>3. {k + c : k \in U} \subseteq Int /\ {1} \subseteq Int
      <4>1. c \in {0, 1}
        BY <1>2, <3>1
      <4>2. \A k \in U : k + c \in Int
        BY <3>2, <4>1
      <4>3. QED BY <4>2
    <3>4. Level(w)[y] = IF y = 0 THEN {1} ELSE {k + c : k \in U}
      BY <3>1
    <3>5. QED BY <3>3, <3>4
  <2>2. QED BY <2>1
<1>4. top \in Nat /\ IsStep(top, S, a, step)
  <2>1. a \in S
    OBVIOUS
  <2>2. step \in [1 .. top -> [S -> S]]
    <3> HIDE DEF S, Level
    <3> QED BY <1>3
  <2>3. QED BY <2>1, <2>2, Addresses DEF IsStep
<1>5. \A k \in 1 .. top, w \in S : step[k][w] = Level(w)
  <2> HIDE DEF S, Level
  <2> QED OBVIOUS
<1> HIDE DEF step, S
<1>6. PICK f : Computes(f, top, S, a, step)
  BY <1>4, RecursiveFunction
<1>7. f = [k \in 0 .. top |-> f[k]] /\ f[0] = a /\ \A k \in 1 .. top : f[k] = Level(f[k - 1])
  <2>1. \A k \in 1 .. top : k - 1 \in 0 .. top
    BY <1>4
  <2> HIDE DEF Level
  <2>2. QED BY <1>5, <1>6, <2>1 DEF Computes
<1>8. f = Body(f)
  <2>1. ASSUME NEW k \in 0 .. top PROVE f[k] = Body(f)[k]
    <3>1. CASE k = 0
      BY <1>7, <3>1
    <3>2. CASE k # 0
      <4>1. k \in 1 .. top
        BY <1>4, <3>2
      <4>2. f[k] = Level(f[k - 1])
        BY <1>7, <4>1
      <4>3. QED BY <3>2, <4>2
    <3>3. QED BY <3>1, <3>2
  <2>2. QED BY <1>7, <2>1
<1>9. g = Body(g)
  BY <1>8, Zenon DEF BlackHeights
<1> HIDE DEF g
<1>10. g = [k \in 0 .. top |-> g[k]] /\ g[0] = a /\ \A k \in 1 .. top : g[k] = Level(g[k - 1])
  <2>1. 0 \in 0 .. top
    BY <1>4
  <2>2. g = [k \in 0 .. top |-> g[k]] /\ \A k \in 0 .. top : g[k] = Body(g)[k]
    BY <1>9
  <2>3. g[0] = a
    BY <2>1, <2>2
  <2>4. ASSUME NEW k \in 1 .. top PROVE g[k] = Level(g[k - 1])
    <3>1. k \in 0 .. top /\ k # 0
      OBVIOUS
    <3>2. g[k] = Body(g)[k]
      BY <2>2, <3>1
    <3>3. QED BY <3>1, <3>2
  <2>5. QED BY <2>2, <2>3, <2>4
<1>11. Computes(g, top, S, a, step)
  <2>1. Follows(g, top, S, a, step)
    <3> HIDE DEF Level
    <3> QED BY <1>5, <1>10 DEF Follows
  <2>2. QED BY <1>4, <2>1, RecursiveFunctionType
<1>12. g \in [0 .. top -> [Ptr -> SUBSET Int]]
  BY <1>11 DEF Computes, S
<1>13. \A d \in 0 .. top : g[d][0] = {1}
  <2>1. ASSUME NEW d \in 0 .. top PROVE g[d][0] = {1}
    <3>1. CASE d = 0
      BY <1>10, <3>1, Addresses
    <3>2. CASE d # 0
      <4>1. d \in 1 .. top
        BY <1>4, <3>2
      <4>2. QED BY <1>10, <4>1, Addresses
    <3>3. QED BY <3>1, <3>2
  <2>2. QED BY <2>1
<1>14. \A d \in 1 .. top, y \in Ptr :
         y # 0 => g[d][y] = {k + m.color[y] : k \in UNION {g[d - 1][m.child[y, e]] : e \in Sides}}
  BY <1>10
<1>15. QED BY <1>12, <1>13, <1>14 DEF Counts, g

\* A count that goes as deep as the tree is the height.
LEMMA CountIsHeight ==
  ASSUME NEW m, Tree(m), NEW h, Balanced(m, h, 0, 0, 0, 0), NEW H, Counts(m, H), NEW D, Depths(m, D)
  PROVE  \A d \in 0 .. MaxNodes, y \in m.used : D[y] + d > MaxNodes => H[d][y] = {h[y]}
<1>1. /\ MaxNodes \in Nat /\ m \in Maps /\ m.used \subseteq Ptr /\ 0 \notin m.used
      /\ "left" \in Sides /\ "right" \in Sides /\ Opp("left") = "right"
      /\ \A f \in Sides : f = "left" \/ f = "right"
  BY Addresses, MapFields DEF Tree, Sides, Opp
<1>2. /\ \A x \in m.used : D[x] \in 1 .. MaxNodes
      /\ \A x \in m.used, f \in Sides : m.child[x, f] # 0 => D[m.child[x, f]] = D[x] + 1
  BY DEF Depths
<1>3. Numbers(h) /\ h[0] = 1
  BY BalanceNumbers DEF Numbers
<1> DEFINE Good(d) == \A y \in m.used : D[y] + d > MaxNodes => H[d][y] = {h[y]}
           T == {d \in Nat : d <= MaxNodes => Good(d)}
<1>4. 0 \in T
  <2>1. ASSUME NEW x \in m.used PROVE ~(D[x] + 0 > MaxNodes)
    <3>1. PICK a : a = D[x]
      OBVIOUS
    <3>2. a \in 1 .. MaxNodes
      BY <1>2, <3>1
    <3>3. QED BY <1>1, <3>1, <3>2
  <2>2. QED BY <2>1
<1>5. ASSUME NEW k \in Nat, k \in T PROVE k + 1 \in T
  <2>1. SUFFICES ASSUME k + 1 <= MaxNodes, NEW y \in m.used, D[y] + (k + 1) > MaxNodes
                 PROVE  H[k + 1][y] = {h[y]}
    OBVIOUS
  <2>2. PICK d : d = k + 1
    OBVIOUS
  <2>3. d \in 1 .. MaxNodes /\ d - 1 = k /\ k \in 0 .. MaxNodes /\ k <= MaxNodes
    BY <1>1, <2>1, <2>2
  <2>4. y \in Ptr /\ y # 0 /\ m.color[y] \in {0, 1}
    BY <1>1, MapFields
  <2>5. ASSUME NEW f \in Sides, NEW u, u = m.child[y, f]
        PROVE  H[k][u] = {h[u]} /\ h[u] \in Int /\ h[y] = m.color[y] + h[u]
    <3>1. Below(m, y, u) /\ Fits(m, h, 0, 0, y, u)
      BY <2>4, <2>5, BelowNode, FitsAt
    <3>2. u \in Ptr /\ (u # 0 => u \in m.used)
      BY <3>1 DEF Below
    <3>3. h[u] \in Int
      BY <1>3, <3>2 DEF Numbers
    <3>4. h[y] = m.color[y] + h[u]
      BY <2>4, <3>1, <3>3, FitNumbers
    <3>5. H[k][u] = {h[u]}
      <4>1. CASE u = 0
        BY <1>3, <2>3, <4>1 DEF Counts
      <4>2. CASE u # 0
        <5>1. PICK i, j : i = D[y] /\ j = D[u]
          OBVIOUS
        <5>2. i \in 1 .. MaxNodes /\ j = i + 1 /\ i + (k + 1) > MaxNodes
          BY <1>2, <2>1, <2>5, <4>2, <5>1
        <5>3. j + k > MaxNodes
          BY <1>1, <5>2
        <5>4. QED BY <1>5, <2>3, <3>2, <4>2, <5>1, <5>3
      <4>3. QED BY <4>1, <4>2
    <3>6. QED BY <3>3, <3>4, <3>5
  <2>6. PICK l, r : l = m.child[y, "left"] /\ r = m.child[y, "right"]
    OBVIOUS
  <2>7. /\ H[k][l] = {h[l]} /\ h[l] \in Int /\ h[y] = m.color[y] + h[l]
        /\ H[k][r] = {h[r]} /\ h[r] \in Int /\ h[y] = m.color[y] + h[r]
    BY <1>1, <2>5, <2>6
  <2>8. PICK U : U = UNION {H[k][m.child[y, e]] : e \in Sides}
    OBVIOUS
  <2>9. U = H[k][l] \union H[k][r]
    BY <2>6, <2>8 DEF Sides
  <2>10. h[l] = h[r] /\ h[l] + m.color[y] = h[y]
    BY <2>4, <2>7
  <2>11. U = {h[l]}
    BY <2>7, <2>9, <2>10
  <2>12. H[d][y] = {c + m.color[y] : c \in U}
    <3>1. H[d][y] = {c + m.color[y] : c \in UNION {H[d - 1][m.child[y, e]] : e \in Sides}}
      BY <2>3, <2>4 DEF Counts
    <3>2. UNION {H[d - 1][m.child[y, e]] : e \in Sides} = U
      BY <2>3, <2>8
    <3>3. QED BY <3>1, <3>2
  <2>13. H[d][y] = {h[y]}
    BY <2>10, <2>11, <2>12
  <2>14. QED BY <2>2, <2>13
<1>6. \A k \in Nat : k \in T
  <2> HIDE DEF T
  <2> QED BY <1>4, <1>5, SetInduction
<1>7. ASSUME NEW d \in 0 .. MaxNodes PROVE Good(d)
  <2>1. d \in Nat /\ d <= MaxNodes
    BY <1>1
  <2>2. QED BY <1>6, <2>1
<1>8. QED BY <1>7

\* Between calls all paths from the root have as many black nodes.
LEMMA OneHeight ==
  ASSUME NEW m, Tree(m), NEW h, Balanced(m, h, 0, 0, 0, 0)
  PROVE  Cardinality(BlackHeights(m)[MaxNodes][m.root]) = 1
<1>1. MaxNodes \in Nat /\ m \in Maps
  BY Addresses DEF Tree
<1>2. MaxNodes \in 0 .. MaxNodes
  BY <1>1
<1>3. PICK H : H = BlackHeights(m)
  OBVIOUS
<1>4. Counts(m, H)
  BY <1>1, <1>3, BlackHeightsDef
<1>5. \E i : H[MaxNodes][m.root] = {i}
  <2>1. CASE m.root = 0
    BY <1>2, <1>4, <2>1 DEF Counts
  <2>2. CASE m.root # 0
    <3>1. PICK D : Depths(m, D)
      BY DepthsExist
    <3>2. m.root \in m.used
      BY <2>2, TreeLinks DEF Ties
    <3>3. PICK a : a = D[m.root]
      OBVIOUS
    <3>4. a \in 1 .. MaxNodes
      BY <3>1, <3>2, <3>3 DEF Depths
    <3>5. a + MaxNodes > MaxNodes
      BY <1>1, <3>4
    <3>6. H[MaxNodes][m.root] = {h[m.root]}
      BY <1>2, <1>4, <3>1, <3>2, <3>3, <3>5, CountIsHeight
    <3>7. QED BY <3>6
  <2>3. QED BY <2>1, <2>2
<1>6. \A i : Cardinality({i}) = 1
  BY FS_Singleton
<1>7. QED BY <1>3, <1>5, <1>6

\* Between calls the tree is a red-black tree; at every step it is linked.
THEOREM TreeIsRedBlack == Spec => []RedBlack
<1>1. ASSUME LinkInv, ColorInv PROVE RedBlack
  <2>1. Tree(t)
    BY <1>1 DEF LinkInv
  <2>2. LinksMatch
    BY <2>1 DEF Tree, Linked, LinksMatch
  <2>3. ASSUME Idle
        PROVE  /\ Black(t, t.root)
               /\ \A x \in t.used, d \in Sides : Red(t, x) => Black(t, t.child[x, d])
               /\ Cardinality(BlackHeights(t)[MaxNodes][t.root]) = 1
    <3>1. PICK h : Balanced(t, h, 0, 0, 0, 0)
      BY <1>1, <2>3, RestColors DEF Idle
    <3>2. ASSUME NEW x \in Ptr, ~Red(t, x) PROVE Black(t, x)
      <4>1. t.color[x] \in {0, 1}
        BY <2>1, MapFields DEF Tree
      <4>2. QED BY <3>2, <4>1, ColorOf
    <3>3. Black(t, t.root)
      <4>1. Red(t, t.root) => t.root = 0
        BY <3>1 DEF Balanced
      <4>2. ~Red(t, t.root)
        BY <4>1, ColorOf
      <4>3. t.root \in Ptr
        BY <2>1, MapFields DEF Tree
      <4>4. QED BY <3>2, <4>2, <4>3
    <3>4. ASSUME NEW x \in t.used, NEW d \in Sides, Red(t, x) PROVE Black(t, t.child[x, d])
      <4>1. PICK u : u = t.child[x, d]
        OBVIOUS
      <4>2. x # 0
        BY <3>4, ColorOf
      <4>3. Below(t, x, u) /\ Fits(t, h, 0, 0, x, u)
        BY <2>1, <3>1, <4>1, <4>2, BelowNode, FitsAt
      <4>4. u \in Ptr /\ (u = 0 \/ ~Red(t, u))
        BY <3>4, <4>3 DEF Below, Fits
      <4>5. Black(t, u)
        BY <3>2, <4>4, ColorOf
      <4>6. QED BY <4>1, <4>5
    <3>5. Cardinality(BlackHeights(t)[MaxNodes][t.root]) = 1
      BY <2>1, <3>1, OneHeight
    <3>6. QED BY <3>3, <3>4, <3>5
  <2>4. QED BY <2>2, <2>3 DEF RedBlack
<1>2. QED BY <1>1, ColorsHold, PTL
=============================================================================
