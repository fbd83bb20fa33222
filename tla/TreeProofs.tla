----------------------------- MODULE TreeProofs -----------------------------
(***************************************************************************)
(* Proofs about the trees of RbMap, apart from what the calls do to them:  *)
(* what a rotation changes, which nodes a walk reaches, and where a key is *)
(* found.                                                                  *)
(***************************************************************************)
EXTENDS RbMap, ProofLibrary, FiniteSetTheorems

----------------------------------------------------------------------------
(* Trees *)

\* A map and its nodes in memory.
Maps ==
  [root : Ptr, size : Int, used : SUBSET Nodes, key : [Ptr -> Int], value : [Ptr -> Int],
   color : [Ptr -> {RB_RED, RB_BLACK}], parent : [Ptr -> Ptr], child : [Ptr \X Sides -> Ptr]]

\* What is not in use is zero.
Clean(m) ==
  \A x \in Ptr : x \notin m.used =>
    /\ m.key[x] = 0 /\ m.value[x] = 0 /\ m.color[x] = RB_RED /\ m.parent[x] = 0
    /\ \A d \in Sides : m.child[x, d] = 0

\* A node is the parent of its children, the two of which differ, and a child
\* of its parent; only the root has none.
Linked(m) ==
  /\ \A x \in m.used, d \in Sides :
       m.child[x, d] # 0 => /\ m.child[x, d] \in m.used
                            /\ m.parent[m.child[x, d]] = x
                            /\ m.child[x, d] # m.child[x, Opp(d)]
  /\ \A x \in m.used :
       m.parent[x] # 0 => m.parent[x] \in m.used /\ m.child[m.parent[x], Side(m, x)] = x
  /\ \A x \in m.used : m.parent[x] = 0 => x = m.root
  /\ m.root # 0 => m.root \in m.used /\ m.parent[m.root] = 0

\* No nodes are above each other in a circle.
Rooted(m) == \A S \in SUBSET m.used : S # {} => \E x \in S : m.parent[x] \notin S

Tree(m) == m \in Maps /\ Clean(m) /\ Linked(m) /\ Rooted(m)

\* Everything has two sides (Opp).
LEMMA TwoSides ==
  /\ \A d \in Sides : Opp(d) \in Sides /\ Opp(d) # d /\ Opp(Opp(d)) = d
  /\ \A d, e \in Sides : e = d \/ e = Opp(d)
BY DEF Sides, Opp

\* The addresses: a node is a pointer other than 0.
LEMMA Addresses ==
  /\ MaxNodes \in Nat /\ 0 \in Ptr /\ 0 \notin Nodes /\ Nodes \subseteq Ptr
  /\ \A x \in Ptr : x # 0 => x \in Nodes
  /\ \A x \in Ptr : x \in Nat
BY RbConstants DEF Nodes, Ptr

\* The fields of a map.
LEMMA MapFields ==
  ASSUME NEW m \in Maps
  PROVE  /\ m.root \in Ptr /\ m.size \in Int /\ m.used \subseteq Nodes
         /\ \A x \in Ptr : m.key[x] \in Int /\ m.value[x] \in Int /\ m.parent[x] \in Ptr
         /\ \A x \in Ptr : m.color[x] \in {0, 1}
         /\ \A x \in Ptr, d \in Sides : m.child[x, d] \in Ptr
         /\ \A x \in Ptr : Side(m, x) \in Sides
BY DEF Maps, RB_RED, RB_BLACK, Side, Sides

\* A node is not its own parent, nor its grandparent's, nor the one of that.
LEMMA NoCircles ==
  ASSUME NEW m, Tree(m), NEW x \in m.used
  PROVE  /\ m.parent[x] # x /\ m.parent[m.parent[x]] # x
         /\ m.parent[m.parent[m.parent[x]]] # x
<1> USE DEF Tree
<1>1. m.used \subseteq Ptr /\ 0 \notin m.used
  BY Addresses, MapFields
<1>2. m.parent[0] = 0
  BY <1>1, Addresses DEF Clean
<1>3. PICK p : p = m.parent[x]
  OBVIOUS
<1>4. PICK q : q = m.parent[p]
  OBVIOUS
<1>5. p = 0 \/ p \in m.used
  BY <1>3 DEF Linked
<1>6. q = 0 \/ q \in m.used
  BY <1>2, <1>4, <1>5 DEF Linked
<1>7. p # x
  <2>1. {x} \in SUBSET m.used /\ {x} # {}
    OBVIOUS
  <2>2. QED BY <2>1, <1>3 DEF Rooted
<1>8. q # x
  <2>1. SUFFICES ASSUME q = x PROVE FALSE
    OBVIOUS
  <2>2. {x, p} \in SUBSET m.used /\ {x, p} # {}
    BY <2>1, <1>1, <1>2, <1>4, <1>5
  <2>3. QED BY <2>1, <2>2, <1>3, <1>4 DEF Rooted
<1>9. m.parent[q] # x
  <2>1. SUFFICES ASSUME m.parent[q] = x PROVE FALSE
    OBVIOUS
  <2>2. {x, p, q} \in SUBSET m.used /\ {x, p, q} # {}
    BY <2>1, <1>1, <1>2, <1>4, <1>5, <1>6
  <2>3. QED BY <2>1, <2>2, <1>3, <1>4 DEF Rooted
<1>10. QED BY <1>3, <1>4, <1>7, <1>8, <1>9

\* What the links of a tree say, apart from the sides.
Ties(m) ==
  /\ \A x \in m.used : m.parent[x] # 0 => m.parent[x] \in m.used /\ m.child[m.parent[x], Side(m, x)] = x
  /\ \A x \in m.used : m.parent[x] # x
  /\ \A x \in m.used : m.parent[x] = 0 => x = m.root
  /\ m.root # 0 => m.root \in m.used /\ m.parent[m.root] = 0

\* What the code relies on when it follows a pointer of a tree (rb_map.g).
LEMMA TreeLinks ==
  ASSUME NEW m, Tree(m)
  PROVE  Ties(m)
<1>1. \A x \in m.used : m.parent[x] # x
  BY NoCircles
<1>2. QED BY <1>1 DEF Ties, Tree, Linked

\* The children of a node: u on one side, w on the other.
Kids(m, x, u, w) ==
  /\ u \in Ptr /\ w \in Ptr
  /\ u # 0 => u \in m.used /\ m.parent[u] = x /\ u # x /\ u # w /\ u # m.parent[x]
  /\ w # 0 => w \in m.used /\ m.parent[w] = x /\ w # x /\ u # w /\ w # m.parent[x]

\* The two children of a node differ from each other, from the node and from its
\* parent: a rotation writes four different nodes.
LEMMA Children ==
  ASSUME NEW m, Tree(m), NEW x \in m.used, NEW d \in Sides,
         NEW u, u = m.child[x, d], NEW w, w = m.child[x, Opp(d)]
  PROVE  Kids(m, x, u, w)
<1>1. x \in Ptr /\ Opp(d) \in Sides /\ Opp(Opp(d)) = d /\ \A y \in m.used : m.parent[y] # y
  BY TreeLinks, TwoSides, Addresses, MapFields DEF Tree, Ties
<1>2. u \in Ptr /\ w \in Ptr
  BY <1>1, MapFields DEF Tree
<1>3. \A z \in m.used, f \in Sides :
        m.child[z, f] # 0 => /\ m.child[z, f] \in m.used
                             /\ m.parent[m.child[z, f]] = z
                             /\ m.child[z, f] # m.child[z, Opp(f)]
  BY DEF Tree, Linked
<1>4. /\ u # 0 => u \in m.used /\ m.parent[u] = x /\ u # x /\ u # w
      /\ w # 0 => w \in m.used /\ m.parent[w] = x /\ w # x /\ u # w
  BY <1>1, <1>3
<1>5. \A y \in m.used : m.parent[y] = x => y # m.parent[x]
  BY NoCircles
<1>6. QED BY <1>2, <1>4, <1>5 DEF Kids

\* No node is its own child.
LEMMA NotOwnChild ==
  ASSUME NEW m, Tree(m), NEW x \in m.used, NEW d \in Sides
  PROVE  m.child[x, d] # x
<1>1. PICK u, w : u = m.child[x, d] /\ w = m.child[x, Opp(d)]
  OBVIOUS
<1>2. Kids(m, x, u, w)
  BY <1>1, Children
<1>3. x # 0
  BY Addresses, MapFields DEF Tree
<1>4. QED BY <1>1, <1>2, <1>3 DEF Kids

\* z is the child of q on side g.
Hangs(m, z, q, g) ==
  q \in m.used /\ q \in Ptr /\ g \in Sides /\ q = m.parent[z] /\ m.child[q, g] = z

\* A node that has a parent is the child of its parent, on its side
\* (rb_replace_node writes there).
LEMMA ParentOf ==
  ASSUME NEW m, Tree(m), NEW z \in m.used, NEW q, q = m.parent[z], q # 0,
         NEW g, g = Side(m, z)
  PROVE  Hangs(m, z, q, g)
<1>1. z \in Ptr /\ q \in Ptr /\ g \in Sides
  BY Addresses, MapFields DEF Tree
<1>2. Ties(m)
  BY TreeLinks
<1>3. q \in m.used /\ m.child[q, g] = z
  BY <1>1, <1>2 DEF Ties
<1>4. QED BY <1>1, <1>3 DEF Hangs

\* Side finds the side on which a node is a child of its parent.
LEMMA SideFinds ==
  ASSUME NEW m, NEW z, NEW q, NEW f, Hangs(m, z, q, f), NEW g, g = Side(m, z)
  PROVE  Hangs(m, z, q, g)
<1>1. f = "left" \/ f = "right"
  BY DEF Sides, Hangs
<1>2. CASE m.child[q, "left"] = z
  BY <1>2 DEF Side, Hangs, Sides
<1>3. CASE m.child[q, "left"] # z
  <2>1. f = "right" /\ g = "right"
    BY <1>1, <1>3 DEF Side, Hangs
  <2>2. QED BY <2>1
<1>4. QED BY <1>2, <1>3

----------------------------------------------------------------------------
(* What the operations change *)

\* One word is written: the parent of x, its child on side d, its color.
Others(m, m2) ==
  /\ m2 \in Maps /\ m2.size = m.size /\ m2.used = m.used /\ m2.key = m.key /\ m2.value = m.value
WritesParent(m, m2, x, y) ==
  /\ Others(m, m2) /\ m2.root = m.root /\ m2.color = m.color /\ m2.child = m.child
  /\ \A z \in Ptr : m2.parent[z] = IF z = x THEN y ELSE m.parent[z]
WritesChild(m, m2, x, d, y) ==
  /\ Others(m, m2) /\ m2.root = m.root /\ m2.color = m.color /\ m2.parent = m.parent
  /\ \A z \in Ptr, f \in Sides : m2.child[z, f] = IF z = x /\ f = d THEN y ELSE m.child[z, f]
WritesColor(m, m2, x, c) ==
  /\ Others(m, m2) /\ m2.root = m.root /\ m2.parent = m.parent /\ m2.child = m.child
  /\ \A z \in Ptr : m2.color[z] = IF z = x THEN c ELSE m.color[z]

\* An assignment to a field of a node (rb_node's offsets) leaves the others.
LEMMA WriteFields ==
  ASSUME NEW m \in Maps, NEW x \in Ptr
  PROVE  /\ \A y \in Ptr : WritesParent(m, [m EXCEPT !.parent[x] = y], x, y)
         /\ \A y \in Ptr, d \in Sides : WritesChild(m, [m EXCEPT !.child[<<x, d>>] = y], x, d, y)
         /\ \A c \in {0, 1} : WritesColor(m, Paint(m, x, c), x, c)
<1>1. ASSUME NEW y \in Ptr PROVE WritesParent(m, [m EXCEPT !.parent[x] = y], x, y)
  BY DEF WritesParent, Others, Maps
<1>2. ASSUME NEW y \in Ptr, NEW d \in Sides
      PROVE  WritesChild(m, [m EXCEPT !.child[<<x, d>>] = y], x, d, y)
  BY DEF WritesChild, Others, Maps
<1>3. ASSUME NEW c \in {0, 1} PROVE WritesColor(m, Paint(m, x, c), x, c)
  BY DEF WritesColor, Others, Maps, Paint, RB_RED, RB_BLACK
<1>4. QED BY <1>1, <1>2, <1>3

\* Another node, or none, in the place of o.
Replaces(m, m2, o, w, p, e) ==
  /\ Others(m, m2) /\ m2.color = m.color
  /\ m2.root = IF p = 0 THEN w ELSE m.root
  /\ \A z \in Ptr : m2.parent[z] = IF z = w /\ w # 0 THEN p ELSE m.parent[z]
  /\ \A z \in Ptr, f \in Sides :
       m2.child[z, f] = IF z = p /\ p # 0 /\ f = e THEN w ELSE m.child[z, f]

\* rb_replace_node, field by field.
LEMMA ReplaceFields ==
  ASSUME NEW m \in Maps, NEW o \in Nodes, NEW w \in Ptr,
         NEW p, p = m.parent[o], NEW e, e = Side(m, o),
         NEW m2, m2 = rb_replace_node(m, o, w)
  PROVE  Replaces(m, m2, o, w, p, e)
<1>1. p \in Ptr /\ e \in Sides /\ o \in Ptr
  BY Addresses, MapFields
<1>2. PICK m1 : m1 = IF p = 0 THEN [m EXCEPT !.root = w] ELSE [m EXCEPT !.child[<<p, e>>] = w]
  OBVIOUS
<1>3. m2 = IF w = 0 THEN m1 ELSE [m1 EXCEPT !.parent[w] = p]
  BY <1>2 DEF rb_replace_node
<1>4. /\ Others(m, m1) /\ m1.color = m.color /\ m1.parent = m.parent
      /\ m1.root = IF p = 0 THEN w ELSE m.root
      /\ \A z \in Ptr, f \in Sides :
           m1.child[z, f] = IF z = p /\ p # 0 /\ f = e THEN w ELSE m.child[z, f]
  <2>1. CASE p = 0
    BY <1>2, <2>1 DEF Maps, Others
  <2>2. CASE p # 0
    <3>1. WritesChild(m, m1, p, e, w)
      BY <1>1, <1>2, <2>2, WriteFields
    <3>2. QED BY <2>2, <3>1 DEF WritesChild
  <2>3. QED BY <2>1, <2>2
<1>5. CASE w = 0
  BY <1>3, <1>4, <1>5 DEF Replaces
<1>6. CASE w # 0
  <2>1. m2 = [m1 EXCEPT !.parent[w] = p] /\ m1 \in Maps
    BY <1>3, <1>4, <1>6 DEF Others
  <2>2. WritesParent(m1, m2, w, p)
    BY <1>1, <2>1, WriteFields
  <2>3. Others(m, m2)
    BY <1>4, <2>2 DEF Others, WritesParent
  <2>4. QED BY <1>4, <1>6, <2>2, <2>3, ZenonT(30) DEF Replaces, WritesParent
<1>7. QED BY <1>5, <1>6

\* A rotation: r comes into the place of x, x becomes its child, and y, the
\* child of r on that side, becomes the child of x.
Rotates(m, m2, x, d, p, e, r, y) ==
  /\ Others(m, m2) /\ m2.color = m.color
  /\ m2.root = IF p = 0 THEN r ELSE m.root
  /\ \A z \in Ptr : m2.parent[z] = IF z = x THEN r
                                   ELSE IF z = r THEN p
                                   ELSE IF z = y /\ y # 0 THEN x ELSE m.parent[z]
  /\ \A z \in Ptr, f \in Sides :
       m2.child[z, f] = IF z = r /\ f = d THEN x
                        ELSE IF z = x /\ f = Opp(d) THEN y
                        ELSE IF z = p /\ p # 0 /\ f = e THEN r ELSE m.child[z, f]

\* The nodes around the rotated one are apart.
Around(m, x, d, p, e, r, y) ==
  /\ x \in m.used /\ x \in Nodes /\ x \in Ptr /\ d \in Sides /\ Opp(d) \in Sides
  /\ p \in Ptr /\ p = m.parent[x] /\ e \in Sides /\ e = Side(m, x)
  /\ r \in m.used /\ r \in Nodes /\ r \in Ptr /\ r = m.child[x, Opp(d)] /\ m.parent[r] = x
  /\ y \in Ptr /\ y = m.child[r, d] /\ (y # 0 => m.parent[y] = r)
  /\ x # r /\ x # p /\ p # r /\ y # x /\ y # r /\ x # 0 /\ r # 0 /\ (y # 0 => y # p)

\* They are.
LEMMA AroundRotation ==
  ASSUME NEW m, Tree(m), NEW x \in m.used, NEW d \in Sides,
         NEW p, p = m.parent[x], NEW e, e = Side(m, x),
         NEW r, r = m.child[x, Opp(d)], r # 0, NEW y, y = m.child[r, d]
  PROVE  Around(m, x, d, p, e, r, y)
<1>1. m \in Maps /\ x \in Nodes /\ x \in Ptr /\ Opp(d) \in Sides /\ p \in Ptr /\ e \in Sides
  BY Addresses, MapFields, TwoSides DEF Tree
<1>2. r \in Ptr
  BY <1>1, MapFields
<1>3. r \in m.used /\ m.parent[r] = x
  BY <1>1 DEF Tree, Linked
<1>4. r \in Nodes /\ y \in Ptr
  BY <1>1, <1>2, <1>3, MapFields DEF Tree
<1>5. y # 0 => y \in m.used /\ m.parent[y] = r
  <2>1. \A z \in m.used, f \in Sides :
          m.child[z, f] # 0 => m.child[z, f] \in m.used /\ m.parent[m.child[z, f]] = z
    BY DEF Tree, Linked
  <2>2. QED BY <1>3, <2>1
<1>6. p # x /\ r # x /\ p # r
  BY <1>3, NoCircles
<1>7. y # 0 => y # x /\ y # r /\ y # p
  BY <1>3, <1>5, <1>6, NoCircles
<1>8. x # 0 /\ r # 0
  BY <1>1, <1>4, Addresses
<1>9. QED BY <1>1, <1>2, <1>3, <1>4, <1>5, <1>6, <1>7, <1>8 DEF Around

\* rb_rotate, field by field.
LEMMA RotateFields ==
  ASSUME NEW m \in Maps, NEW x, NEW d, NEW p, NEW e, NEW r, NEW y, Around(m, x, d, p, e, r, y),
         NEW m2, m2 = rb_rotate(m, x, d)
  PROVE  Rotates(m, m2, x, d, p, e, r, y)
<1>1. /\ x \in Nodes /\ x \in Ptr /\ d \in Sides /\ Opp(d) \in Sides
      /\ p \in Ptr /\ p = m.parent[x] /\ e \in Sides /\ e = Side(m, x)
      /\ r \in Ptr /\ r = m.child[x, Opp(d)] /\ y \in Ptr /\ y = m.child[r, d]
      /\ x # r /\ x # p /\ p # r /\ y # x /\ y # r /\ r # 0
  BY DEF Around
<1>2. PICK m1 : m1 = rb_replace_node(m, x, r)
  OBVIOUS
<1>3. Replaces(m, m1, x, r, p, e)
  BY <1>1, <1>2, ReplaceFields
<1>4. m1.child[r, d] = y /\ m1 \in Maps
  BY <1>1, <1>3 DEF Replaces, Others
<1>5. PICK m3 : m3 = [m1 EXCEPT !.child[<<x, Opp(d)>>] = y]
  OBVIOUS
<1>6. WritesChild(m1, m3, x, Opp(d), y)
  BY <1>1, <1>4, <1>5, WriteFields
<1>7. PICK m4 : m4 = IF y = 0 THEN m3 ELSE [m3 EXCEPT !.parent[y] = x]
  OBVIOUS
<1>8. /\ Others(m1, m4) /\ m4.root = m3.root /\ m4.color = m3.color /\ m4.child = m3.child
      /\ \A z \in Ptr : m4.parent[z] = IF z = y /\ y # 0 THEN x ELSE m3.parent[z]
  <2>1. m3 \in Maps
    BY <1>6 DEF WritesChild, Others
  <2>2. CASE y = 0
    BY <1>6, <1>7, <2>2 DEF WritesChild
  <2>3. CASE y # 0
    <3>1. m4 = [m3 EXCEPT !.parent[y] = x]
      BY <1>7, <2>3
    <3>2. WritesParent(m3, m4, y, x)
      BY <1>1, <2>1, <3>1, WriteFields
    <3>3. Others(m1, m4)
      BY <1>6, <3>2 DEF WritesParent, WritesChild, Others
    <3>4. QED BY <2>3, <3>2, <3>3 DEF WritesParent
  <2>4. QED BY <2>2, <2>3
<1>9. PICK m5 : m5 = [m4 EXCEPT !.child[<<r, d>>] = x]
  OBVIOUS
<1>10. m4 \in Maps
  BY <1>8 DEF Others
<1>11. WritesChild(m4, m5, r, d, x)
  BY <1>1, <1>9, <1>10, WriteFields
<1>12. m5 \in Maps
  BY <1>11 DEF WritesChild, Others
<1>13. m2 = [m5 EXCEPT !.parent[x] = r]
  <2>1. m2 = [m4 EXCEPT !.child[<<r, d>>] = x, !.parent[x] = r]
    BY <1>1, <1>2, <1>4, <1>5, <1>7, Zenon DEF rb_rotate
  <2>2. QED BY <1>9, <2>1
<1>14. WritesParent(m5, m2, x, r)
  BY <1>1, <1>12, <1>13, WriteFields, ZenonT(30)
<1>15. Others(m, m2) /\ m2.color = m.color /\ m2.root = IF p = 0 THEN r ELSE m.root
  <2>1. Others(m, m2)
    BY <1>3, <1>8, <1>11, <1>14 DEF Replaces, WritesChild, WritesParent, Others
  <2>2. QED BY <2>1, <1>3, <1>6, <1>8, <1>11, <1>14 DEF Replaces, WritesChild, WritesParent
<1>16. ASSUME NEW z \in Ptr
       PROVE  m2.parent[z] = IF z = x THEN r
                             ELSE IF z = r THEN p
                             ELSE IF z = y /\ y # 0 THEN x ELSE m.parent[z]
  <2>1. m2.parent[z] = IF z = x THEN r ELSE m5.parent[z]
    BY <1>14 DEF WritesParent
  <2>2. m5.parent[z] = IF z = y /\ y # 0 THEN x ELSE m3.parent[z]
    BY <1>8, <1>11 DEF WritesChild
  <2>3. m3.parent[z] = IF z = r THEN p ELSE m.parent[z]
    BY <1>1, <1>3, <1>6, ZenonT(30) DEF WritesChild, Replaces
  <2>4. QED BY <1>1, <2>1, <2>2, <2>3
<1>17. ASSUME NEW z \in Ptr, NEW f \in Sides
       PROVE  m2.child[z, f] = IF z = r /\ f = d THEN x
                               ELSE IF z = x /\ f = Opp(d) THEN y
                               ELSE IF z = p /\ p # 0 /\ f = e THEN r ELSE m.child[z, f]
  <2>1. m2.child[z, f] = IF z = r /\ f = d THEN x ELSE m4.child[z, f]
    BY <1>11, <1>14 DEF WritesParent, WritesChild
  <2>2. m4.child[z, f] = IF z = x /\ f = Opp(d) THEN y ELSE m1.child[z, f]
    BY <1>6, <1>8 DEF WritesChild
  <2>3. m1.child[z, f] = IF z = p /\ p # 0 /\ f = e THEN r ELSE m.child[z, f]
    BY <1>3 DEF Replaces
  <2>4. QED BY <2>1, <2>2, <2>3
<1>18. QED BY <1>15, <1>16, <1>17 DEF Rotates

\* A rotation keeps the tree a tree.
LEMMA RotationKeepsTree ==
  ASSUME NEW m, Tree(m), NEW x, NEW d, NEW p, NEW e, NEW r, NEW y, Around(m, x, d, p, e, r, y),
         NEW m2, Rotates(m, m2, x, d, p, e, r, y)
  PROVE  Tree(m2)
<1>1. /\ x \in m.used /\ x \in Ptr /\ d \in Sides /\ Opp(d) \in Sides
      /\ p \in Ptr /\ p = m.parent[x] /\ e \in Sides /\ e = Side(m, x)
      /\ r \in m.used /\ r \in Ptr /\ r = m.child[x, Opp(d)] /\ m.parent[r] = x
      /\ y \in Ptr /\ y = m.child[r, d] /\ (y # 0 => m.parent[y] = r)
      /\ x # r /\ x # p /\ p # r /\ y # x /\ y # r /\ x # 0 /\ r # 0 /\ (y # 0 => y # p)
  BY DEF Around
<1>2. /\ m2 \in Maps /\ m2.used = m.used /\ m2.key = m.key /\ m2.value = m.value /\ m2.color = m.color
      /\ m2.root = IF p = 0 THEN r ELSE m.root
      /\ \A z \in Ptr : m2.parent[z] = IF z = x THEN r
                                       ELSE IF z = r THEN p
                                       ELSE IF z = y /\ y # 0 THEN x ELSE m.parent[z]
      /\ \A z \in Ptr, f \in Sides :
           m2.child[z, f] = IF z = r /\ f = d THEN x
                            ELSE IF z = x /\ f = Opp(d) THEN y
                            ELSE IF z = p /\ p # 0 /\ f = e THEN r ELSE m.child[z, f]
  BY DEF Rotates, Others
<1>3. m \in Maps /\ m.used \subseteq Ptr /\ 0 \notin m.used /\ m.root \in Ptr
  BY Addresses, MapFields DEF Tree
<1>4. /\ \A z \in m.used, f \in Sides :
           m.child[z, f] # 0 => /\ m.child[z, f] \in m.used
                                /\ m.parent[m.child[z, f]] = z
                                /\ m.child[z, f] # m.child[z, Opp(f)]
      /\ \A z \in m.used :
           m.parent[z] # 0 => m.parent[z] \in m.used /\ m.child[m.parent[z], Side(m, z)] = z
      /\ \A z \in m.used : m.parent[z] = 0 => z = m.root
      /\ m.root # 0 => m.root \in m.used /\ m.parent[m.root] = 0
  BY DEF Tree, Linked
<1>5. (p # 0 => p \in m.used /\ m.child[p, e] = x) /\ (y # 0 => y \in m.used)
  BY <1>1, <1>4
<1>6. Clean(m2)
  <2>1. ASSUME NEW z \in Ptr, z \notin m2.used
        PROVE  /\ m2.key[z] = 0 /\ m2.value[z] = 0 /\ m2.color[z] = RB_RED /\ m2.parent[z] = 0
               /\ \A f \in Sides : m2.child[z, f] = 0
    <3>1. /\ m.key[z] = 0 /\ m.value[z] = 0 /\ m.color[z] = RB_RED /\ m.parent[z] = 0
          /\ \A f \in Sides : m.child[z, f] = 0
      BY <1>2, <2>1 DEF Tree, Clean
    <3>2. z # x /\ z # r /\ (z # y \/ y = 0) /\ (z # p \/ p = 0)
      BY <1>1, <1>2, <1>5, <2>1
    <3>3. QED BY <1>2, <3>1, <3>2
  <2>2. QED BY <2>1 DEF Clean
<1>7. Rooted(m2)
  <2>1. ASSUME NEW S \in SUBSET m.used, S # {}, \A z \in S : m2.parent[z] \in S
        PROVE  FALSE
    <3>1. x \in S => r \in S
      BY <1>1, <1>2, <2>1
    <3>2. r \in S => p \in S
      BY <1>1, <1>2, <2>1
    <3>3. y \in S => x \in S
      BY <1>1, <1>2, <1>3, <2>1
    <3>4. \A z \in S : z # x /\ z # r /\ z # y => m.parent[z] \in S
      BY <1>2, <1>3, <2>1
    <3>5. r \in S \/ r \notin S
      OBVIOUS
    <3>6. CASE r \notin S
      <4>1. \A z \in S : m.parent[z] \in S
        BY <3>1, <3>3, <3>4, <3>6
      <4>2. QED BY <2>1, <4>1 DEF Tree, Rooted
    <3>7. CASE r \in S
      <4>1. PICK U : U = S \union {x}
        OBVIOUS
      <4>2. U \in SUBSET m.used /\ U # {}
        BY <1>1, <4>1
      <4>3. ASSUME NEW z \in U PROVE m.parent[z] \in U
        <5>1. CASE z = x
          BY <1>1, <3>2, <3>7, <4>1, <5>1
        <5>2. CASE z = r
          BY <1>1, <4>1, <5>2
        <5>3. CASE z = y
          BY <1>1, <1>3, <3>7, <4>1, <4>2, <5>3
        <5>4. CASE z # x /\ z # r /\ z # y
          BY <3>4, <4>1, <5>4
        <5>5. QED BY <5>1, <5>2, <5>3, <5>4
      <4>4. QED BY <4>2, <4>3 DEF Tree, Rooted
    <3>8. QED BY <3>6, <3>7
  <2>2. QED BY <1>2, <2>1 DEF Rooted
<1>8. ASSUME NEW z \in m.used, NEW f \in Sides, m2.child[z, f] # 0
      PROVE  /\ m2.child[z, f] \in m.used
             /\ m2.parent[m2.child[z, f]] = z
             /\ m2.child[z, f] # m2.child[z, Opp(f)]
  <2>1. /\ z \in Ptr /\ z # 0 /\ Opp(f) \in Sides /\ f # Opp(f) /\ Opp(Opp(f)) = f
        /\ f = e \/ f = Opp(e)
        /\ f = d \/ f = Opp(d)
        /\ Opp(Opp(d)) = d /\ Opp(Opp(e)) = e /\ Opp(e) \in Sides /\ Opp(d) # d /\ Opp(e) # e
    BY <1>1, <1>3, TwoSides
  <2>2. \A u \in Ptr : u # 0 /\ m.parent[u] = z /\ u # x /\ u # r /\ u # y => m2.parent[u] = z
    BY <1>2
  <2>3. PICK u, w : u = m.child[z, f] /\ w = m.child[z, Opp(f)]
    OBVIOUS
  <2>4. /\ u \in Ptr /\ w \in Ptr
        /\ u # 0 => u \in m.used /\ m.parent[u] = z /\ u # w
        /\ w # 0 => w \in m.used /\ m.parent[w] = z
    BY <1>3, <1>4, <2>1, <2>3, MapFields
  <2>5. CASE z = r
    <3>1. CASE f = d
      <4>1. m2.child[z, f] = x /\ m2.child[z, Opp(f)] = w
        BY <1>1, <1>2, <2>1, <2>3, <2>5, <3>1
      <4>2. w # x
        BY <1>1, <2>4, <2>5
      <4>3. QED BY <1>1, <1>2, <2>5, <4>1, <4>2
    <3>2. CASE f = Opp(d)
      <4>1. m2.child[z, f] = u /\ m2.child[z, Opp(f)] = x /\ w = y
        BY <1>1, <1>2, <2>1, <2>3, <2>5, <3>2
      <4>2. u # 0
        BY <1>8, <4>1
      <4>3. u # x /\ u # r /\ u # y
        BY <1>1, <2>4, <2>5, <4>1, <4>2
      <4>4. QED BY <2>2, <2>4, <4>1, <4>2, <4>3
    <3>3. QED BY <2>1, <3>1, <3>2
  <2>6. CASE z = x
    <3>1. CASE f = d
      <4>1. m2.child[z, f] = u /\ m2.child[z, Opp(f)] = y /\ w = r
        BY <1>1, <1>2, <2>1, <2>3, <2>6, <3>1
      <4>2. u # 0
        BY <1>8, <4>1
      <4>3. u # x /\ u # r /\ u # y
        BY <1>1, <2>4, <2>6, <4>1, <4>2
      <4>4. QED BY <2>2, <2>4, <4>1, <4>2, <4>3
    <3>2. CASE f = Opp(d)
      <4>1. m2.child[z, f] = y /\ m2.child[z, Opp(f)] = w
        BY <1>1, <1>2, <2>1, <2>3, <2>6, <3>2
      <4>2. y # 0
        BY <1>8, <4>1
      <4>3. w # y
        BY <1>1, <2>4, <2>6, <4>2
      <4>4. QED BY <1>1, <1>2, <1>5, <2>6, <4>1, <4>2, <4>3
    <3>3. QED BY <2>1, <3>1, <3>2
  <2>7. CASE z = p /\ z # r /\ z # x
    <3>1. CASE f = e
      <4>1. m2.child[z, f] = r /\ m2.child[z, Opp(f)] = w
        BY <1>1, <1>2, <2>1, <2>3, <2>7, <3>1
      <4>2. w # r
        BY <1>1, <2>4, <2>7
      <4>3. QED BY <1>1, <1>2, <2>7, <4>1, <4>2
    <3>2. CASE f = Opp(e)
      <4>1. m2.child[z, f] = u /\ m2.child[z, Opp(f)] = r /\ w = x
        BY <1>1, <1>2, <1>5, <2>1, <2>3, <2>7, <3>2
      <4>2. u # 0
        BY <1>8, <4>1
      <4>3. u # x /\ u # r /\ u # y
        BY <1>1, <2>4, <2>7, <4>1, <4>2
      <4>4. QED BY <2>2, <2>4, <4>1, <4>2, <4>3
    <3>3. QED BY <2>1, <3>1, <3>2
  <2>8. CASE z # r /\ z # x /\ z # p
    <3>1. m2.child[z, f] = u /\ m2.child[z, Opp(f)] = w
      BY <1>2, <2>1, <2>3, <2>8
    <3>2. u # 0
      BY <1>8, <3>1
    <3>3. u # x /\ u # r /\ u # y
      BY <1>1, <2>4, <2>8, <3>2
    <3>4. QED BY <2>2, <2>4, <3>1, <3>2, <3>3
  <2>9. QED BY <2>5, <2>6, <2>7, <2>8
<1>9. ASSUME NEW z \in m.used, m2.parent[z] # 0
      PROVE  m2.parent[z] \in m.used /\ \E f \in Sides : m2.child[m2.parent[z], f] = z
  <2>1. CASE z = x
    <3>1. m2.parent[z] = r /\ m2.child[r, d] = z
      BY <1>1, <1>2, <2>1
    <3>2. QED BY <1>1, <3>1
  <2>2. CASE z = r
    <3>1. m2.parent[z] = p /\ m2.child[p, e] = z
      BY <1>1, <1>2, <1>9, <2>2
    <3>2. QED BY <1>1, <1>5, <1>9, <3>1
  <2>3. CASE z = y
    <3>1. m2.parent[z] = x /\ m2.child[x, Opp(d)] = z
      BY <1>1, <1>2, <1>3, <2>3
    <3>2. QED BY <1>1, <3>1
  <2>4. CASE z # x /\ z # r /\ z # y
    <3>1. m2.parent[z] = m.parent[z] /\ z \in Ptr
      BY <1>2, <1>3, <2>4
    <3>2. PICK q, g : q = m.parent[z] /\ g = Side(m, z)
      OBVIOUS
    <3>3. q \in m.used /\ q \in Ptr /\ g \in Sides /\ m.child[q, g] = z
      BY <1>3, <1>4, <1>9, <3>1, <3>2, MapFields
    <3>4. ~(q = r /\ g = d)
      BY <1>1, <2>4, <3>3
    <3>5. ~(q = x /\ g = Opp(d))
      BY <1>1, <2>4, <3>3
    <3>6. ~(q = p /\ p # 0 /\ g = e)
      BY <1>5, <2>4, <3>3
    <3>7. m2.child[q, g] = z
      BY <1>2, <3>3, <3>4, <3>5, <3>6
    <3>8. QED BY <3>1, <3>2, <3>3, <3>7
  <2>5. QED BY <2>1, <2>2, <2>3, <2>4
<1>10. ASSUME NEW z \in m.used, m2.parent[z] = 0 PROVE z = m2.root
  <2>1. z \in Ptr /\ z # x /\ ~(z = y /\ y # 0)
    BY <1>1, <1>2, <1>3, <1>10
  <2>2. CASE z = r
    BY <1>1, <1>2, <1>10, <2>2
  <2>3. CASE z # r
    <3>1. m.parent[z] = 0
      BY <1>2, <1>10, <2>1, <2>3
    <3>2. z = m.root /\ p # 0
      BY <1>1, <1>4, <2>1, <3>1
    <3>3. QED BY <1>2, <3>2
  <2>4. QED BY <2>2, <2>3
<1>11. m2.root # 0 => m2.root \in m.used /\ m2.parent[m2.root] = 0
  <2>1. CASE p = 0
    BY <1>1, <1>2, <2>1
  <2>2. CASE p # 0
    <3>1. m.root # x /\ m.root # r /\ (m.root = y => y = 0)
      BY <1>1, <1>4, <2>2
    <3>2. PICK z : z = m.root
      OBVIOUS
    <3>3. z \in Ptr /\ m2.root = z /\ (z # 0 => z \in m.used /\ m.parent[z] = 0)
      BY <1>2, <1>3, <1>4, <2>2, <3>2
    <3>4. z # 0 => m2.parent[z] = m.parent[z]
      BY <1>2, <3>1, <3>2, <3>3
    <3>5. QED BY <3>3, <3>4
  <2>3. QED BY <2>1, <2>2
<1>12. Linked(m2)
  <2>1. \A z \in m.used : m2.parent[z] # 0 =>
          m2.parent[z] \in m.used /\ m2.child[m2.parent[z], Side(m2, z)] = z
    <3>1. ASSUME NEW z, NEW f \in Sides, m2.child[m2.parent[z], f] = z
          PROVE  m2.child[m2.parent[z], Side(m2, z)] = z
      <4>1. f = "left" \/ f = "right"
        BY DEF Sides
      <4>2. CASE m2.child[m2.parent[z], "left"] = z
        BY <4>2 DEF Side
      <4>3. CASE m2.child[m2.parent[z], "left"] # z
        <5>1. f = "right" /\ Side(m2, z) = "right"
          BY <3>1, <4>1, <4>3 DEF Side
        <5>2. QED BY <3>1, <5>1
      <4>4. QED BY <4>2, <4>3
    <3>2. QED BY <1>9, <3>1
  <2>2. QED BY <1>2, <1>8, <1>10, <1>11, <2>1, ZenonT(30) DEF Linked
<1>13. QED BY <1>2, <1>6, <1>7, <1>12 DEF Tree

----------------------------------------------------------------------------
(* Ways through a tree *)

\* Following, one step after another.
Steps1(F, next, x) ==
  /\ F \in [0 .. MaxNodes -> Ptr] /\ F[0] = x
  /\ \A k \in 1 .. MaxNodes : F[k] = next[F[k - 1]]

\* The function Following is what its definition says.
LEMMA FollowingDef ==
  ASSUME NEW next \in [Ptr -> Ptr], NEW x \in Ptr
  PROVE  Steps1(Following(next, x), next, x)
<1> DEFINE top == MaxNodes
           step == [k \in 1 .. top |-> next]
           Body(f) == [k \in 0 .. top |-> IF k = 0 THEN x ELSE next[f[k - 1]]]
           g == Following(next, x)
<1>1. top \in Nat /\ IsStep(top, Ptr, x, step)
  BY Addresses DEF IsStep
<1>2. \A k \in 1 .. top, y \in Ptr : step[k][y] = next[y]
  OBVIOUS
<1> HIDE DEF step
<1>3. PICK f : Computes(f, top, Ptr, x, step)
  BY <1>1, RecursiveFunction
<1>4. f = Body(f)
  <2>1. f = [k \in 0 .. top |-> f[k]] /\ f[0] = x
    BY <1>3 DEF Computes
  <2>2. ASSUME NEW k \in 0 .. top, k # 0 PROVE f[k] = next[f[k - 1]]
    <3>1. k \in 1 .. top /\ k - 1 \in 0 .. top
      BY <1>1, <2>2
    <3>2. f[k - 1] \in Ptr /\ f[k] = step[k][f[k - 1]]
      BY <1>3, <3>1 DEF Computes
    <3>3. QED BY <1>2, <3>1, <3>2
  <2>3. QED BY <2>1, <2>2, Zenon
<1>5. g = Body(g)
  BY <1>4, Zenon DEF Following
<1> HIDE DEF g
<1>6. /\ g = [k \in 0 .. top |-> g[k]] /\ g[0] = x
      /\ \A k \in 1 .. top : g[k] = next[g[k - 1]]
  BY <1>1, <1>5
<1>7. Computes(g, top, Ptr, x, step)
  <2>1. Follows(g, top, Ptr, x, step)
    BY <1>2, <1>6 DEF Follows
  <2>2. QED BY <1>1, <2>1, RecursiveFunctionType
<1>8. QED BY <1>6, <1>7 DEF Computes, g, Steps1

\* How deep the nodes are: the root has depth 1, a child one more than its
\* parent, and no node more than there are nodes.
Depths(m, D) ==
  /\ \A x \in m.used : D[x] \in 1 .. MaxNodes
  /\ \A x \in m.used, f \in Sides : m.child[x, f] # 0 => D[m.child[x, f]] = D[x] + 1

\* The way up from a node ends at 0: otherwise it would pass more nodes than
\* there are, or one of them twice.
LEMMA WaysUpEnd ==
  ASSUME NEW m, Tree(m), NEW x \in m.used, NEW F, Steps1(F, m.parent, x)
  PROVE  F[MaxNodes] = 0
<1>1. /\ m \in Maps /\ m.parent[0] = 0 /\ MaxNodes \in Nat /\ m.used \subseteq Nodes
      /\ m.used \subseteq Ptr /\ 0 \notin m.used
  BY Addresses, MapFields DEF Tree, Clean
<1>2. \A y \in m.used : m.parent[y] = 0 \/ m.parent[y] \in m.used
  BY DEF Tree, Linked
<1>3. F \in [0 .. MaxNodes -> Ptr] /\ F[0] = x /\ \A k \in 1 .. MaxNodes : F[k] = m.parent[F[k - 1]]
  BY DEF Steps1
<1>4. SUFFICES ASSUME F[MaxNodes] # 0 PROVE FALSE
  OBVIOUS
<1> DEFINE T == {k \in Nat : k <= MaxNodes => F[k] = 0 \/ F[k] \in m.used}
           U == {k \in Nat : k <= MaxNodes => F[MaxNodes - k] # 0}
<1>5. \A k \in Nat : k \in T
  <2>1. 0 \in T
    BY <1>3
  <2>2. ASSUME NEW k \in Nat, k \in T PROVE k + 1 \in T
    <3>1. SUFFICES ASSUME k + 1 <= MaxNodes PROVE F[k + 1] = 0 \/ F[k + 1] \in m.used
      OBVIOUS
    <3>2. k + 1 \in 1 .. MaxNodes /\ (k + 1) - 1 = k /\ k <= MaxNodes
      BY <1>1, <3>1
    <3>3. F[k + 1] = m.parent[F[k]] /\ (F[k] = 0 \/ F[k] \in m.used)
      BY <1>3, <2>2, <3>2
    <3>4. QED BY <1>1, <1>2, <3>3
  <2> HIDE DEF T
  <2>3. QED BY <2>1, <2>2, SetInduction
<1>6. \A k \in Nat : k \in U
  <2>1. 0 \in U
    BY <1>1, <1>4
  <2>2. ASSUME NEW k \in Nat, k \in U PROVE k + 1 \in U
    <3>1. SUFFICES ASSUME k + 1 <= MaxNodes PROVE F[MaxNodes - (k + 1)] # 0
      OBVIOUS
    <3>2. PICK j : j = MaxNodes - k
      OBVIOUS
    <3>3. j \in 1 .. MaxNodes /\ j - 1 = MaxNodes - (k + 1) /\ k <= MaxNodes
      BY <1>1, <3>1, <3>2
    <3>4. F[j] = m.parent[F[j - 1]] /\ F[j] # 0
      BY <1>3, <2>2, <3>2, <3>3
    <3>5. QED BY <1>1, <3>3, <3>4
  <2> HIDE DEF U
  <2>3. QED BY <2>1, <2>2, SetInduction
<1>7. ASSUME NEW k \in 0 .. MaxNodes PROVE F[k] \in m.used
  <2>1. k \in Nat /\ k \in T /\ k <= MaxNodes
    BY <1>1, <1>5
  <2>2. MaxNodes - k \in U /\ MaxNodes - k \in Nat
    BY <1>1, <1>6
  <2>3. MaxNodes - (MaxNodes - k) = k /\ MaxNodes - k <= MaxNodes
    BY <1>1
  <2>4. F[k] # 0
    BY <2>2, <2>3
  <2>5. QED BY <2>1, <2>4
<1>8. PICK i \in 0 .. MaxNodes, j \in 0 .. MaxNodes : i < j /\ F[i] = F[j]
  <2>1. IsFiniteSet(1 .. MaxNodes) /\ Cardinality(1 .. MaxNodes) = MaxNodes
        /\ IsFiniteSet(0 .. MaxNodes) /\ Cardinality(0 .. MaxNodes) = MaxNodes + 1
    <3>1. 0 \in Int /\ 1 \in Int /\ MaxNodes \in Int
      BY <1>1
    <3>2. QED BY <3>1, <1>1, FS_Interval
  <2>2. F \in [0 .. MaxNodes -> 1 .. MaxNodes]
    BY <1>1, <1>3, <1>7 DEF Nodes
  <2>3. \E i, j \in 0 .. MaxNodes : i # j /\ F[i] = F[j]
    <3>1. PICK A, B : A = 0 .. MaxNodes /\ B = 1 .. MaxNodes
      OBVIOUS
    <3>2. IsFiniteSet(A) /\ IsFiniteSet(B) /\ Cardinality(B) < Cardinality(A) /\ F \in [A -> B]
      BY <1>1, <2>1, <2>2, <3>1
    <3>3. \E i, j \in A : i # j /\ F[i] = F[j]
      BY <3>2, FS_PigeonHole
    <3>4. QED BY <3>1, <3>3
  <2>4. \A i, j \in 0 .. MaxNodes : i # j => i < j \/ j < i
    BY <1>1
  <2>5. QED BY <2>3, <2>4
<1>9. PICK S : S = {F[k] : k \in i .. j}
  OBVIOUS
<1>10. \A k \in i .. j : k \in 0 .. MaxNodes
  BY <1>1
<1>11. S \in SUBSET m.used /\ S # {}
  <2>1. i \in i .. j
    BY <1>8
  <2>2. QED BY <1>7, <1>9, <1>10, <2>1
<1>12. ASSUME NEW y \in S PROVE m.parent[y] \in S
  <2>1. PICK k \in i .. j : y = F[k]
    BY <1>9
  <2>2. CASE k < j
    <3>1. k + 1 \in i .. j /\ k + 1 \in 1 .. MaxNodes /\ (k + 1) - 1 = k
      BY <1>1, <2>2
    <3>2. F[k + 1] = m.parent[F[k]]
      BY <1>3, <3>1
    <3>3. QED BY <1>9, <2>1, <3>1, <3>2
  <2>3. CASE k = j
    <3>1. i + 1 \in i .. j /\ i + 1 \in 1 .. MaxNodes /\ (i + 1) - 1 = i
      BY <1>1, <1>8
    <3>2. F[i + 1] = m.parent[F[i]] /\ y = F[i]
      BY <1>3, <1>8, <2>1, <2>3, <3>1
    <3>3. QED BY <1>9, <3>1, <3>2
  <2>4. QED BY <2>2, <2>3
<1>13. QED BY <1>11, <1>12 DEF Tree, Rooted

\* The nodes of a tree have depths: the length of the way up.
LEMMA DepthsExist ==
  ASSUME NEW m, Tree(m)
  PROVE  \E D : Depths(m, D)
<1>1. /\ m \in Maps /\ m.parent \in [Ptr -> Ptr] /\ m.parent[0] = 0 /\ MaxNodes \in Nat
      /\ m.used \subseteq Ptr /\ 0 \notin m.used
  BY Addresses, MapFields DEF Tree, Clean, Maps
<1> DEFINE Up == [x \in Ptr |-> Following(m.parent, x)]
           Zeros(x) == {k \in 0 .. MaxNodes : Up[x][k] = 0}
           D == [x \in Ptr |-> CHOOSE k \in Zeros(x) : \A j \in Zeros(x) : k <= j]
<1>2. \A x \in Ptr : Steps1(Up[x], m.parent, x)
  BY <1>1, FollowingDef
<1> HIDE DEF Up
<1>3. ASSUME NEW x \in m.used
      PROVE  /\ D[x] \in 0 .. MaxNodes /\ Up[x][D[x]] = 0
             /\ \A j \in 0 .. MaxNodes : Up[x][j] = 0 => D[x] <= j
  <2>1. Up[x][MaxNodes] = 0
    BY <1>1, <1>2, WaysUpEnd
  <2>2. Zeros(x) # {} /\ Zeros(x) \in SUBSET Nat
    BY <1>1, <2>1
  <2>3. \E k \in Zeros(x) : \A j \in Zeros(x) : k <= j
    <3>1. PICK Z : Z = Zeros(x)
      OBVIOUS
    <3>2. \E k \in Z : \A j \in Z : k <= j
      BY <2>2, <3>1, LeastNat
    <3>3. QED BY <3>1, <3>2
  <2>4. D[x] = CHOOSE k \in Zeros(x) : \A j \in Zeros(x) : k <= j
    BY <1>1
  <2> HIDE DEF D
  <2>5. D[x] \in Zeros(x) /\ \A j \in Zeros(x) : D[x] <= j
    BY <2>3, <2>4
  <2>6. QED BY <2>5
<1> HIDE DEF D
<1>4. ASSUME NEW x \in m.used PROVE D[x] \in 1 .. MaxNodes
  <2>1. Up[x][0] = x
    BY <1>1, <1>2 DEF Steps1
  <2>2. D[x] # 0
    BY <1>1, <1>3, <2>1
  <2>3. QED BY <1>1, <1>3, <2>2
<1>5. ASSUME NEW x \in m.used, NEW z \in m.used, m.parent[z] = x
      PROVE  D[z] = D[x] + 1
  <2> DEFINE T == {k \in Nat : k + 1 <= MaxNodes => Up[z][k + 1] = Up[x][k]}
  <2>1. /\ Up[x][0] = x /\ Up[z][0] = z
        /\ \A k \in 1 .. MaxNodes : Up[x][k] = m.parent[Up[x][k - 1]]
        /\ \A k \in 1 .. MaxNodes : Up[z][k] = m.parent[Up[z][k - 1]]
    BY <1>1, <1>2 DEF Steps1
  <2>2. 0 \in T
    <3>1. SUFFICES ASSUME 1 <= MaxNodes PROVE Up[z][1] = x
      BY <2>1
    <3>2. 1 \in 1 .. MaxNodes /\ 1 - 1 = 0
      BY <1>1, <3>1
    <3>3. QED BY <1>5, <2>1, <3>2
  <2>3. ASSUME NEW k \in Nat, k \in T PROVE k + 1 \in T
    <3>1. SUFFICES ASSUME (k + 1) + 1 <= MaxNodes PROVE Up[z][(k + 1) + 1] = Up[x][k + 1]
      OBVIOUS
    <3>2. PICK j : j = k + 1
      OBVIOUS
    <3>3. j \in 1 .. MaxNodes /\ j - 1 = k /\ j + 1 \in 1 .. MaxNodes /\ (j + 1) - 1 = j /\ j <= MaxNodes
      BY <1>1, <3>1, <3>2
    <3>4. Up[z][j] = Up[x][k]
      BY <2>3, <3>2, <3>3
    <3>5. Up[z][j + 1] = m.parent[Up[z][j]] /\ Up[x][j] = m.parent[Up[x][k]]
      BY <2>1, <3>3
    <3>6. QED BY <3>2, <3>4, <3>5
  <2>4. \A k \in Nat : k \in T
    <3> HIDE DEF T
    <3> QED BY <2>2, <2>3, SetInduction
  <2>5. PICK a, b : a = D[x] /\ b = D[z]
    OBVIOUS
  <2>6. a \in 1 .. MaxNodes /\ b \in 1 .. MaxNodes /\ Up[x][a] = 0 /\ Up[z][b] = 0
    BY <1>3, <1>4, <2>5
  <2>7. b - 1 \in Nat /\ b - 1 \in T /\ (b - 1) + 1 = b /\ b <= MaxNodes /\ b - 1 \in 0 .. MaxNodes
    BY <1>1, <2>4, <2>6
  <2>8. Up[x][b - 1] = 0
    BY <2>6, <2>7
  <2>9. a <= b - 1
    BY <1>3, <2>5, <2>7, <2>8
  <2>10. a \in T /\ a + 1 <= MaxNodes /\ a + 1 \in 0 .. MaxNodes
    BY <1>1, <2>4, <2>6, <2>9
  <2>11. Up[z][a + 1] = 0
    BY <2>6, <2>10
  <2>12. b <= a + 1
    BY <1>3, <2>5, <2>10, <2>11
  <2>13. QED BY <2>5, <2>6, <2>9, <2>12
<1>6. ASSUME NEW x \in m.used, NEW f \in Sides, m.child[x, f] # 0 PROVE D[m.child[x, f]] = D[x] + 1
  <2>1. m.child[x, f] \in m.used /\ m.parent[m.child[x, f]] = x
    BY <1>6 DEF Tree, Linked
  <2>2. QED BY <1>5, <2>1
<1>7. QED BY <1>4, <1>6 DEF Depths

\* What a way down is: from a node it stays or goes to a child.
Descends(m, next) ==
  /\ next \in [Ptr -> Ptr] /\ next[0] = 0
  /\ \A x \in m.used : next[x] = x \/ \E f \in Sides : next[x] = m.child[x, f]

\* A way down ends within MaxNodes steps, in a node or at 0 (the loops of
\* rb_lookup_node, rb_rbtree_insert and rb_maximum_node end).
Arrives(m, next, x, F, last) ==
  /\ Steps1(F, next, x) /\ last = F[MaxNodes]
  /\ \A k \in 0 .. MaxNodes : F[k] = 0 \/ F[k] \in m.used
  /\ last \in Ptr /\ (last = 0 \/ last \in m.used) /\ next[last] = last

\* A way down ends in the tree after at most MaxNodes nodes: the loops of
\* rb_lookup_node, rb_rbtree_insert and rb_maximum_node do.
LEMMA WaysDownEnd ==
  ASSUME NEW m, Tree(m), NEW next, Descends(m, next), NEW x, x = 0 \/ x \in m.used,
         NEW F, F = Following(next, x), NEW last, last = F[MaxNodes]
  PROVE  Arrives(m, next, x, F, last)
<1>1. m \in Maps /\ MaxNodes \in Nat /\ m.used \subseteq Ptr /\ 0 \notin m.used /\ x \in Ptr
  BY Addresses, MapFields DEF Tree
<1>2. next \in [Ptr -> Ptr] /\ next[0] = 0
  BY DEF Descends
<1>3. Steps1(F, next, x)
  BY <1>1, <1>2, FollowingDef
<1>4. F \in [0 .. MaxNodes -> Ptr] /\ F[0] = x /\ \A k \in 1 .. MaxNodes : F[k] = next[F[k - 1]]
  BY <1>3 DEF Steps1
<1>5. PICK D : Depths(m, D)
  BY DepthsExist
<1>6. /\ \A y \in m.used : D[y] \in 1 .. MaxNodes
      /\ \A y \in m.used, f \in Sides : m.child[y, f] # 0 =>
           m.child[y, f] \in m.used /\ D[m.child[y, f]] = D[y] + 1
  <2>1. \A y \in m.used, f \in Sides : m.child[y, f] # 0 => m.child[y, f] \in m.used
    BY DEF Tree, Linked
  <2>2. QED BY <1>5, <2>1 DEF Depths
<1> DEFINE Good(k) == \/ F[k] = 0
                      \/ /\ F[k] \in m.used
                         /\ next[F[k]] = F[k] \/ D[F[k]] >= k + 1
           T == {k \in Nat : k <= MaxNodes => Good(k)}
<1>7. 0 \in T
  <2>1. F[0] = x /\ 0 + 1 = 1
    BY <1>4
  <2>2. x \in m.used => D[x] >= 1
    <3>1. SUFFICES ASSUME x \in m.used PROVE D[x] >= 1
      OBVIOUS
    <3>2. PICK a : a = D[x]
      OBVIOUS
    <3>3. a \in 1 .. MaxNodes
      BY <1>6, <3>1, <3>2
    <3>4. QED BY <1>1, <3>2, <3>3
  <2>3. QED BY <2>1, <2>2
<1>8. ASSUME NEW k \in Nat, k \in T PROVE k + 1 \in T
  <2>1. SUFFICES ASSUME k + 1 <= MaxNodes PROVE Good(k + 1)
    OBVIOUS
  <2>2. k + 1 \in 1 .. MaxNodes /\ (k + 1) - 1 = k /\ k <= MaxNodes
    BY <1>1, <2>1
  <2>3. PICK y, z : y = F[k] /\ z = F[k + 1]
    OBVIOUS
  <2>4. z = next[y]
    BY <1>4, <2>2, <2>3
  <2>5. y = 0 \/ (y \in m.used /\ (next[y] = y \/ D[y] >= k + 1))
    BY <1>8, <2>2, <2>3
  <2>6. CASE y = 0 \/ next[y] = y
    BY <1>2, <2>3, <2>4, <2>5, <2>6
  <2>7. CASE y \in m.used /\ D[y] >= k + 1 /\ next[y] # y
    <3>1. PICK f \in Sides : z = m.child[y, f]
      BY <2>4, <2>7 DEF Descends
    <3>2. CASE z = 0
      BY <2>3, <3>2
    <3>3. CASE z # 0
      <4> PICK a, b : a = D[y] /\ b = D[z]
        OBVIOUS
      <4>1. z \in m.used /\ b = a + 1
        BY <1>6, <2>7, <3>1, <3>3
      <4>2. a \in 1 .. MaxNodes /\ a >= k + 1
        BY <1>6, <2>7
      <4>3. b >= (k + 1) + 1
        BY <1>1, <4>1, <4>2
      <4>4. QED BY <2>3, <4>1, <4>3
    <3>4. QED BY <3>2, <3>3
  <2>8. QED BY <2>5, <2>6, <2>7
<1>9. \A k \in Nat : k \in T
  <2> HIDE DEF T
  <2> QED BY <1>7, <1>8, SetInduction
<1>10. \A k \in 0 .. MaxNodes : Good(k)
  <2>1. \A k \in 0 .. MaxNodes : k \in Nat /\ k <= MaxNodes
    BY <1>1
  <2>2. QED BY <1>9, <2>1
<1>11. MaxNodes \in 0 .. MaxNodes /\ last \in Ptr
  BY <1>1, <1>4
<1>12. (last = 0 \/ last \in m.used) /\ next[last] = last
  <2>1. last = 0 \/ (last \in m.used /\ (next[last] = last \/ D[last] >= MaxNodes + 1))
    BY <1>10, <1>11
  <2>2. last \in m.used => ~(D[last] >= MaxNodes + 1)
    <3>1. SUFFICES ASSUME last \in m.used PROVE ~(D[last] >= MaxNodes + 1)
      OBVIOUS
    <3>2. PICK a : a = D[last]
      OBVIOUS
    <3>3. a \in 1 .. MaxNodes
      BY <1>6, <3>1, <3>2
    <3>4. QED BY <1>1, <3>2, <3>3
  <2>3. QED BY <1>2, <2>1, <2>2
<1>13. QED BY <1>3, <1>10, <1>11, <1>12 DEF Arrives

\* A way down that leads from nodes to nodes ends in one.
LEMMA WaysStay ==
  ASSUME NEW m, Tree(m), NEW next, Descends(m, next), NEW x \in m.used,
         \A y \in m.used : next[y] # 0,
         NEW F, F = Following(next, x), NEW last, last = F[MaxNodes]
  PROVE  last \in m.used /\ next[last] = last
<1>1. MaxNodes \in Nat /\ m.used \subseteq Ptr /\ 0 \notin m.used
  BY Addresses, MapFields DEF Tree
<1>2. Arrives(m, next, x, F, last)
  BY WaysDownEnd
<1>3. /\ F[0] = x /\ \A k \in 1 .. MaxNodes : F[k] = next[F[k - 1]]
      /\ \A k \in 0 .. MaxNodes : F[k] = 0 \/ F[k] \in m.used
      /\ next[last] = last
  BY <1>2 DEF Arrives, Steps1
<1> DEFINE T == {k \in Nat : k <= MaxNodes => F[k] # 0}
<1>4. 0 \in T
  BY <1>1, <1>3
<1>5. ASSUME NEW k \in Nat, k \in T PROVE k + 1 \in T
  <2>1. SUFFICES ASSUME k + 1 <= MaxNodes PROVE F[k + 1] # 0
    OBVIOUS
  <2>2. k + 1 \in 1 .. MaxNodes /\ (k + 1) - 1 = k /\ k <= MaxNodes /\ k \in 0 .. MaxNodes
    BY <1>1, <2>1
  <2>3. F[k + 1] = next[F[k]] /\ F[k] \in m.used
    BY <1>3, <1>5, <2>2
  <2>4. QED BY <2>3
<1>6. \A k \in Nat : k \in T
  <2> HIDE DEF T
  <2> QED BY <1>4, <1>5, SetInduction
<1>7. MaxNodes \in T /\ MaxNodes <= MaxNodes /\ MaxNodes \in 0 .. MaxNodes
  BY <1>1, <1>6
<1>8. QED BY <1>3, <1>7

\* The search finds a node with the key or none.
Finds(m, k, x) == x \in Ptr /\ (x # 0 => x \in m.used /\ m.key[x] = k)

\* What rb_lookup_node returns is 0 or a node in use with the key.
LEMMA LookupFinds ==
  ASSUME NEW m, Tree(m), NEW k \in Int, NEW x, x = rb_lookup_node(m, k)
  PROVE  Finds(m, k, x)
<1>1. /\ m \in Maps /\ m.root \in Ptr /\ m.used \subseteq Ptr /\ 0 \in Ptr
      /\ \A y \in Ptr, f \in Sides : m.child[y, f] \in Ptr
      /\ \A y \in Ptr : Toward(m, y, k) \in Sides
  BY Addresses, MapFields DEF Tree, Toward, Sides
<1>2. PICK next : next = Search(m, k)
  OBVIOUS
<1>3. \A y \in Ptr : next[y] = IF y = 0 \/ m.key[y] = k THEN y ELSE m.child[y, Toward(m, y, k)]
  BY <1>2 DEF Search
<1>4. Descends(m, next)
  <2>1. next \in [Ptr -> Ptr]
    BY <1>1, <1>2 DEF Search
  <2>2. QED BY <1>1, <1>3, <2>1 DEF Descends
<1>5. PICK F : F = Following(next, m.root)
  OBVIOUS
<1>6. x = F[MaxNodes]
  BY <1>2, <1>5 DEF rb_lookup_node
<1>7. m.root = 0 \/ m.root \in m.used
  BY DEF Tree, Linked
<1>8. Arrives(m, next, m.root, F, x)
  BY <1>4, <1>5, <1>6, <1>7, WaysDownEnd
<1>9. x \in Ptr /\ (x = 0 \/ x \in m.used) /\ next[x] = x
  BY <1>8 DEF Arrives
<1>10. ASSUME x # 0 PROVE m.key[x] = k
  <2>1. SUFFICES ASSUME m.key[x] # k PROVE FALSE
    OBVIOUS
  <2>2. PICK f \in Sides : m.child[x, f] = x
    BY <1>1, <1>3, <1>9, <1>10, <2>1
  <2>3. QED BY <1>9, <1>10, <2>2, NotOwnChild
<1>11. QED BY <1>9, <1>10 DEF Finds

\* The insertion stops at a node without the child that the key asks for.
LEMMA LastHasRoom ==
  ASSUME NEW m, Tree(m), m.root # 0, NEW k \in Int, NEW p, p = LastOnPath(m, k),
         NEW f, f = Toward(m, p, k)
  PROVE  p \in m.used /\ f \in Sides /\ m.child[p, f] = 0
<1>1. /\ m \in Maps /\ m.root \in Ptr /\ m.used \subseteq Ptr /\ 0 \in Ptr /\ 0 \notin m.used
      /\ \A y \in Ptr, g \in Sides : m.child[y, g] \in Ptr
      /\ \A y \in Ptr : Toward(m, y, k) \in Sides
  BY Addresses, MapFields DEF Tree, Toward, Sides
<1>2. PICK next : next = Descent(m, k)
  OBVIOUS
<1>3. \A y \in Ptr : next[y] = IF m.child[y, Toward(m, y, k)] = 0 THEN y
                               ELSE m.child[y, Toward(m, y, k)]
  BY <1>2 DEF Descent
<1>4. Descends(m, next)
  <2>1. next \in [Ptr -> Ptr]
    BY <1>1, <1>2 DEF Descent
  <2>2. \A g \in Sides : m.child[0, g] = 0
    BY <1>1 DEF Tree, Clean
  <2>3. next[0] = 0
    BY <1>1, <1>3, <2>2
  <2>4. QED BY <1>1, <1>3, <2>1, <2>3 DEF Descends
<1>5. PICK F : F = Following(next, m.root)
  OBVIOUS
<1>6. p = F[MaxNodes]
  BY <1>2, <1>5 DEF LastOnPath
<1>7. m.root \in m.used
  BY DEF Tree, Linked
<1>8. \A y \in m.used : next[y] # 0
  BY <1>1, <1>3
<1>9. p \in m.used /\ next[p] = p
  BY <1>4, <1>5, <1>6, <1>7, <1>8, WaysStay
<1>10. ASSUME m.child[p, f] # 0 PROVE FALSE
  <2>1. m.child[p, f] = p /\ f \in Sides
    BY <1>1, <1>3, <1>9, <1>10
  <2>2. QED BY <1>9, <2>1, NotOwnChild
<1>11. QED BY <1>1, <1>9, <1>10

\* rb_maximum_node ends at a node without a right child.
LEMMA MaximumHasRoom ==
  ASSUME NEW m, Tree(m), NEW x \in m.used, NEW y, y = rb_maximum_node(m, x)
  PROVE  y \in m.used /\ m.child[y, "right"] = 0
<1>1. /\ m \in Maps /\ m.used \subseteq Ptr /\ 0 \in Ptr /\ 0 \notin m.used
      /\ \A z \in Ptr, g \in Sides : m.child[z, g] \in Ptr
      /\ "right" \in Sides
  BY Addresses, MapFields DEF Tree, Sides
<1>2. PICK next : next = Rightmost(m)
  OBVIOUS
<1>3. \A z \in Ptr : next[z] = IF m.child[z, "right"] = 0 THEN z ELSE m.child[z, "right"]
  BY <1>2 DEF Rightmost
<1>4. Descends(m, next)
  <2>1. next \in [Ptr -> Ptr]
    BY <1>1, <1>2 DEF Rightmost
  <2>2. \A g \in Sides : m.child[0, g] = 0
    BY <1>1 DEF Tree, Clean
  <2>3. next[0] = 0
    BY <1>1, <1>3, <2>2
  <2>4. QED BY <1>1, <1>3, <2>1, <2>3 DEF Descends
<1>5. PICK F : F = Following(next, x)
  OBVIOUS
<1>6. y = F[MaxNodes]
  BY <1>2, <1>5 DEF rb_maximum_node
<1>7. \A z \in m.used : next[z] # 0
  BY <1>1, <1>3, ZenonT(30)
<1>8. y \in m.used /\ next[y] = y
  BY <1>4, <1>5, <1>6, <1>7, WaysStay
<1>9. ASSUME m.child[y, "right"] # 0 PROVE FALSE
  <2>1. m.child[y, "right"] = y
    BY <1>1, <1>3, <1>8, <1>9
  <2>2. QED BY <1>1, <1>8, <2>1, NotOwnChild
<1>10. QED BY <1>8, <1>9

----------------------------------------------------------------------------
(* A node more, a node less *)

\* A tree without a root is empty.
LEMMA EmptyTree ==
  ASSUME NEW m, Tree(m), m.root = 0
  PROVE  m.used = {}
<1>1. SUFFICES ASSUME m.used # {} PROVE FALSE
  OBVIOUS
<1>2. PICK x \in m.used : m.parent[x] \notin m.used
  BY <1>1 DEF Tree, Rooted
<1>3. x # 0 /\ x \in Ptr
  BY <1>2, Addresses, MapFields DEF Tree
<1>4. m.parent[x] = 0
  BY <1>2 DEF Tree, Linked
<1>5. QED BY <1>3, <1>4, TreeLinks DEF Ties

\* The new node x is the child of p on side f, or the root.
Grows(m, m2, x, k, v, p, f) ==
  /\ m2 \in Maps /\ m2.used = m.used \union {x} /\ m2.color = m.color /\ m2.size = m.size + 1
  /\ m2.root = IF p = 0 THEN x ELSE m.root
  /\ \A z \in Ptr : /\ m2.key[z] = (IF z = x THEN k ELSE m.key[z])
                    /\ m2.value[z] = (IF z = x THEN v ELSE m.value[z])
                    /\ m2.parent[z] = (IF z = x THEN p ELSE m.parent[z])
  /\ \A z \in Ptr, g \in Sides :
       m2.child[z, g] = IF z = p /\ p # 0 /\ g = f THEN x ELSE m.child[z, g]

\* There is room for x there.
Room(m, x, p, f) ==
  /\ x \in Nodes /\ x \notin m.used /\ p \in Ptr /\ f \in Sides
  /\ IF p = 0 THEN m.root = 0 ELSE p \in m.used /\ m.child[p, f] = 0

\* The insertion of a node keeps the tree a tree.
LEMMA GrowthKeepsTree ==
  ASSUME NEW m, Tree(m), NEW x, NEW k, NEW v, NEW p, NEW f, Room(m, x, p, f),
         NEW m2, Grows(m, m2, x, k, v, p, f)
  PROVE  Tree(m2)
<1>1. /\ x \in Nodes /\ x \in Ptr /\ x # 0 /\ x \notin m.used /\ p \in Ptr /\ f \in Sides
      /\ p # 0 => p \in m.used /\ m.child[p, f] = 0
      /\ p = 0 => m.root = 0
  BY Addresses DEF Room
<1>2. /\ m2 \in Maps /\ m2.used = m.used \union {x} /\ m2.color = m.color
      /\ m2.root = IF p = 0 THEN x ELSE m.root
      /\ \A z \in Ptr : /\ m2.key[z] = (IF z = x THEN k ELSE m.key[z])
                        /\ m2.value[z] = (IF z = x THEN v ELSE m.value[z])
                        /\ m2.parent[z] = (IF z = x THEN p ELSE m.parent[z])
      /\ \A z \in Ptr, g \in Sides :
           m2.child[z, g] = IF z = p /\ p # 0 /\ g = f THEN x ELSE m.child[z, g]
  BY DEF Grows
<1>3. /\ m \in Maps /\ m.used \subseteq Ptr /\ 0 \notin m.used /\ m.root \in Ptr
      /\ \A z \in Ptr, g \in Sides : m.child[z, g] \in Ptr
      /\ \A z \in Ptr : m.parent[z] \in Ptr /\ Side(m, z) \in Sides
  BY Addresses, MapFields DEF Tree
<1>4. Ties(m)
  BY TreeLinks
<1>5. p = 0 => m.used = {}
  BY <1>1, EmptyTree
<1>6. m.parent[x] = 0 /\ \A g \in Sides : m.child[x, g] = 0
  BY <1>1 DEF Tree, Clean
<1>7. Clean(m2)
  <2>1. ASSUME NEW z \in Ptr, z \notin m2.used
        PROVE  /\ m2.key[z] = 0 /\ m2.value[z] = 0 /\ m2.color[z] = RB_RED /\ m2.parent[z] = 0
               /\ \A g \in Sides : m2.child[z, g] = 0
    <3>1. /\ m.key[z] = 0 /\ m.value[z] = 0 /\ m.color[z] = RB_RED /\ m.parent[z] = 0
          /\ \A g \in Sides : m.child[z, g] = 0
      BY <1>2, <2>1 DEF Tree, Clean
    <3>2. z # x /\ (z # p \/ p = 0)
      BY <1>1, <1>2, <2>1
    <3>3. QED BY <1>2, <3>1, <3>2
  <2>2. QED BY <2>1 DEF Clean
<1>8. Rooted(m2)
  <2>1. ASSUME NEW S \in SUBSET (m.used \union {x}), S # {}, \A z \in S : m2.parent[z] \in S
        PROVE  FALSE
    <3>1. PICK U : U = S \ {x}
      OBVIOUS
    <3>2. x \in S => p \in S /\ p # x
      BY <1>1, <1>2, <2>1
    <3>3. U \in SUBSET m.used /\ U # {}
      BY <2>1, <3>1, <3>2
    <3>4. ASSUME NEW z \in U PROVE m.parent[z] \in U
      <4>1. z \in m.used /\ z \in Ptr /\ z \in S /\ z # x
        BY <1>3, <3>1, <3>3
      <4>2. m.parent[z] \in S
        BY <1>2, <2>1, <4>1
      <4>3. m.parent[z] # x
        <5>1. m.parent[z] = 0 \/ m.parent[z] \in m.used
          BY <1>4, <4>1 DEF Ties
        <5>2. QED BY <1>1, <5>1
      <4>4. QED BY <3>1, <4>2, <4>3
    <3>5. QED BY <3>3, <3>4 DEF Tree, Rooted
  <2>2. QED BY <1>2, <2>1 DEF Rooted
<1>9. ASSUME NEW z \in m2.used, NEW g \in Sides, m2.child[z, g] # 0
      PROVE  /\ m2.child[z, g] \in m2.used
             /\ m2.parent[m2.child[z, g]] = z
             /\ m2.child[z, g] # m2.child[z, Opp(g)]
  <2>1. /\ z \in Ptr /\ z # 0 /\ Opp(g) \in Sides /\ g # Opp(g)
        /\ g = f \/ (g = Opp(f) /\ f = Opp(g))
    BY <1>1, <1>2, <1>3, TwoSides
  <2>2. PICK u, w : u = m.child[z, g] /\ w = m.child[z, Opp(g)]
    OBVIOUS
  <2>3. u \in Ptr /\ w \in Ptr
    BY <1>3, <2>1, <2>2
  <2>4. u # x /\ w # x
    <3>1. ASSUME z \in m.used PROVE (u # 0 => u \in m.used) /\ (w # 0 => w \in m.used)
      <4>1. Kids(m, z, u, w)
        BY <2>2, <3>1, Children
      <4>2. QED BY <4>1 DEF Kids
    <3>2. z = x => u = 0 /\ w = 0
      BY <1>6, <2>1, <2>2
    <3>3. QED BY <1>1, <1>2, <3>1, <3>2
  <2>5. CASE z = p /\ g = f
    <3>1. m2.child[z, g] = x /\ m2.child[z, Opp(g)] = w
      BY <1>2, <2>1, <2>2, <2>5
    <3>2. QED BY <1>1, <1>2, <2>4, <2>5, <3>1
  <2>6. CASE ~(z = p /\ g = f)
    <3>1. m2.child[z, g] = u /\ u # 0
      BY <1>2, <1>9, <2>1, <2>2, <2>6
    <3>2. z # x
      BY <1>6, <2>2, <3>1
    <3>3. u \in m.used /\ m.parent[u] = z /\ u # w
      <4>1. z \in m.used
        BY <1>2, <3>2
      <4>2. Kids(m, z, u, w)
        BY <2>2, <4>1, Children
      <4>3. QED BY <3>1, <4>2 DEF Kids
    <3>4. m2.child[z, Opp(g)] \in {x, w}
      BY <1>2, <2>1, <2>2
    <3>5. QED BY <1>2, <2>3, <2>4, <3>1, <3>3, <3>4
  <2>7. QED BY <2>5, <2>6
<1>10. ASSUME NEW z \in m2.used, m2.parent[z] # 0
       PROVE  m2.parent[z] \in m2.used /\ m2.child[m2.parent[z], Side(m2, z)] = z
  <2>1. z \in Ptr
    BY <1>1, <1>2, <1>3
  <2>2. CASE z = x
    <3>1. Hangs(m2, z, p, f) /\ m2.parent[z] = p
      BY <1>1, <1>2, <1>10, <2>2 DEF Hangs
    <3>2. Hangs(m2, z, p, Side(m2, z))
      BY <3>1, SideFinds
    <3>3. QED BY <3>1, <3>2 DEF Hangs
  <2>3. CASE z # x
    <3>1. PICK q, g : q = m.parent[z] /\ g = Side(m, z)
      OBVIOUS
    <3>2. m2.parent[z] = q /\ q # 0 /\ z \in m.used
      BY <1>2, <1>10, <2>1, <2>3, <3>1
    <3>3. Hangs(m, z, q, g)
      BY <3>1, <3>2, ParentOf
    <3>4. z # 0
      BY <1>1, <1>2, <1>3
    <3>5. Hangs(m2, z, q, g)
      BY <1>1, <1>2, <3>2, <3>3, <3>4 DEF Hangs
    <3>6. Hangs(m2, z, q, Side(m2, z))
      BY <3>5, SideFinds
    <3>7. QED BY <3>2, <3>6 DEF Hangs
  <2>4. QED BY <2>2, <2>3
<1>11. ASSUME NEW z \in m2.used, m2.parent[z] = 0 PROVE z = m2.root
  <2>1. CASE z = x
    BY <1>1, <1>2, <1>11, <2>1
  <2>2. CASE z # x
    <3>1. z \in m.used /\ m.parent[z] = 0 /\ z \in Ptr
      BY <1>2, <1>3, <1>11, <2>2
    <3>2. QED BY <1>2, <1>4, <1>5, <3>1 DEF Ties
  <2>3. QED BY <2>1, <2>2
<1>12. m2.root # 0 => m2.root \in m2.used /\ m2.parent[m2.root] = 0
  <2>1. CASE p = 0
    BY <1>1, <1>2, <2>1
  <2>2. CASE p # 0
    <3>1. PICK z : z = m.root
      OBVIOUS
    <3>2. z \in Ptr /\ m2.root = z /\ (z # 0 => z \in m.used /\ m.parent[z] = 0)
      BY <1>2, <1>3, <1>4, <2>2, <3>1 DEF Ties
    <3>3. QED BY <1>1, <1>2, <3>2
  <2>3. QED BY <2>1, <2>2
<1>13. Linked(m2)
  BY <1>9, <1>10, <1>11, <1>12 DEF Linked
<1>14. QED BY <1>2, <1>7, <1>8, <1>13 DEF Tree

\* The node that goes has at most one child, and c takes its place.
Goes(m, v, c) ==
  v \in m.used /\ \E d \in Sides : m.child[v, d] = c /\ m.child[v, Opp(d)] = 0

\* The node v is gone, and c is in its place, black if that is the root.
Shrinks(m, m2, v, c, p, e) ==
  /\ m2 \in Maps /\ m2.used = m.used \ {v} /\ m2.size = m.size
  /\ m2.root = IF p = 0 THEN c ELSE m.root
  /\ \A z \in Ptr : /\ m2.key[z] = (IF z = v THEN 0 ELSE m.key[z])
                    /\ m2.value[z] = (IF z = v THEN 0 ELSE m.value[z])
                    /\ m2.color[z] = (IF z = v THEN RB_RED
                                      ELSE IF z = c /\ c # 0 /\ p = 0 THEN RB_BLACK ELSE m.color[z])
                    /\ m2.parent[z] = (IF z = v THEN 0
                                       ELSE IF z = c /\ c # 0 THEN p ELSE m.parent[z])
  /\ \A z \in Ptr, f \in Sides :
       m2.child[z, f] = IF z = v THEN 0
                        ELSE IF z = p /\ p # 0 /\ f = e THEN c ELSE m.child[z, f]

\* Where v is.
Leaves(m, v, c, p, e) ==
  /\ Goes(m, v, c) /\ p = m.parent[v] /\ e = Side(m, v)
  /\ v \in m.used /\ v \in Ptr /\ v # 0 /\ c \in Ptr /\ p \in Ptr /\ e \in Sides
  /\ c # 0 => c \in m.used /\ m.parent[c] = v /\ c # v /\ c # p
  /\ p # 0 => Hangs(m, v, p, e) /\ p # v
  /\ p = 0 => m.root = v
  /\ \A f \in Sides : m.child[v, f] \in {c, 0}

\* A node without two children can leave the tree: its child, if any, takes its
\* place (the end of rb_rbtree_delete).
LEMMA LeavesFrom ==
  ASSUME NEW m, Tree(m), NEW v, NEW c, Goes(m, v, c), NEW p, p = m.parent[v], NEW e, e = Side(m, v)
  PROVE  Leaves(m, v, c, p, e)
<1>1. v \in m.used /\ v \in Ptr /\ v # 0 /\ p \in Ptr /\ e \in Sides
  BY Addresses, MapFields DEF Tree, Goes
<1>2. PICK d \in Sides, o \in Ptr : m.child[v, d] = c /\ m.child[v, Opp(d)] = o /\ o = 0
  BY Addresses DEF Goes
<1>3. Kids(m, v, c, o)
  BY <1>1, <1>2, Children
<1>4. c \in Ptr /\ (c # 0 => c \in m.used /\ m.parent[c] = v /\ c # v /\ c # p)
  BY <1>3 DEF Kids
<1>5. p # 0 => Hangs(m, v, p, e) /\ p # v
  BY <1>1, ParentOf, TreeLinks DEF Ties
<1>6. p = 0 => m.root = v
  BY <1>1, TreeLinks DEF Ties
<1>7. \A f \in Sides : m.child[v, f] \in {c, 0}
  BY <1>2, TwoSides
<1>8. QED BY <1>1, <1>4, <1>5, <1>6, <1>7 DEF Leaves

\* The removal of a node keeps the tree a tree.
LEMMA ShrinkingKeepsTree ==
  ASSUME NEW m, Tree(m), NEW v, NEW c, NEW p, NEW e, Leaves(m, v, c, p, e),
         NEW m2, Shrinks(m, m2, v, c, p, e)
  PROVE  Tree(m2)
<1>1. /\ v \in m.used /\ v \in Ptr /\ v # 0 /\ c \in Ptr /\ p \in Ptr /\ e \in Sides
      /\ p = m.parent[v] /\ e = Side(m, v)
      /\ c # 0 => c \in m.used /\ m.parent[c] = v /\ c # v /\ c # p
      /\ p # 0 => Hangs(m, v, p, e) /\ p # v
      /\ p = 0 => m.root = v
      /\ \A f \in Sides : m.child[v, f] \in {c, 0}
  BY DEF Leaves
<1>2. /\ m2 \in Maps /\ m2.used = m.used \ {v}
      /\ m2.root = IF p = 0 THEN c ELSE m.root
      /\ \A z \in Ptr : /\ m2.key[z] = (IF z = v THEN 0 ELSE m.key[z])
                        /\ m2.value[z] = (IF z = v THEN 0 ELSE m.value[z])
                        /\ m2.color[z] = (IF z = v THEN RB_RED
                                          ELSE IF z = c /\ c # 0 /\ p = 0 THEN RB_BLACK ELSE m.color[z])
                        /\ m2.parent[z] = (IF z = v THEN 0
                                           ELSE IF z = c /\ c # 0 THEN p ELSE m.parent[z])
      /\ \A z \in Ptr, f \in Sides :
           m2.child[z, f] = IF z = v THEN 0
                            ELSE IF z = p /\ p # 0 /\ f = e THEN c ELSE m.child[z, f]
  BY DEF Shrinks
<1>3. /\ m \in Maps /\ m.used \subseteq Ptr /\ 0 \notin m.used /\ m.root \in Ptr
      /\ \A z \in Ptr, g \in Sides : m.child[z, g] \in Ptr
      /\ \A z \in Ptr : m.parent[z] \in Ptr /\ Side(m, z) \in Sides
  BY Addresses, MapFields DEF Tree
<1>4. Ties(m)
  BY TreeLinks
<1>5. p # 0 => p \in m.used /\ m.child[p, e] = v
  BY <1>1 DEF Hangs
<1>6. Clean(m2)
  <2>1. ASSUME NEW z \in Ptr, z \notin m2.used
        PROVE  /\ m2.key[z] = 0 /\ m2.value[z] = 0 /\ m2.color[z] = RB_RED /\ m2.parent[z] = 0
               /\ \A g \in Sides : m2.child[z, g] = 0
    <3>1. CASE z = v
      BY <1>1, <1>2, <3>1
    <3>2. CASE z # v
      <4>1. z \notin m.used
        BY <1>2, <2>1, <3>2
      <4>2. /\ m.key[z] = 0 /\ m.value[z] = 0 /\ m.color[z] = RB_RED /\ m.parent[z] = 0
            /\ \A g \in Sides : m.child[z, g] = 0
        BY <4>1 DEF Tree, Clean
      <4>3. (z # c \/ c = 0) /\ (z # p \/ p = 0)
        BY <1>1, <1>5, <4>1
      <4>4. QED BY <1>2, <3>2, <4>2, <4>3
    <3>3. QED BY <3>1, <3>2
  <2>2. QED BY <2>1 DEF Clean
<1>7. Rooted(m2)
  <2>1. ASSUME NEW S \in SUBSET (m.used \ {v}), S # {}, \A z \in S : m2.parent[z] \in S
        PROVE  FALSE
    <3>1. \A z \in S : z \in m.used /\ z # v /\ z \in Ptr /\ z # 0
      BY <1>3
    <3>2. \A z \in S : z # c => m.parent[z] \in S
      BY <1>2, <2>1, <3>1
    <3>3. c \in S => p \in S
      BY <1>1, <1>2, <2>1, <3>1
    <3>4. CASE c \notin S
      <4>1. S \in SUBSET m.used /\ \A z \in S : m.parent[z] \in S
        BY <3>1, <3>2, <3>4
      <4>2. QED BY <2>1, <4>1 DEF Tree, Rooted
    <3>5. CASE c \in S
      <4>1. PICK U : U = S \union {v}
        OBVIOUS
      <4>2. U \in SUBSET m.used /\ U # {}
        BY <1>1, <3>1, <4>1
      <4>3. \A z \in U : m.parent[z] \in U
        BY <1>1, <3>1, <3>2, <3>3, <3>5, <4>1
      <4>4. QED BY <4>2, <4>3 DEF Tree, Rooted
    <3>6. QED BY <3>4, <3>5
  <2>2. QED BY <1>2, <2>1 DEF Rooted
<1>8. ASSUME NEW z \in m2.used, NEW g \in Sides, m2.child[z, g] # 0
      PROVE  /\ m2.child[z, g] \in m2.used
             /\ m2.parent[m2.child[z, g]] = z
             /\ m2.child[z, g] # m2.child[z, Opp(g)]
  <2>1. /\ z \in m.used /\ z \in Ptr /\ z # 0 /\ z # v /\ Opp(g) \in Sides /\ g # Opp(g)
        /\ e = g \/ (g = Opp(e) /\ e = Opp(g))
    BY <1>1, <1>2, <1>3, TwoSides
  <2>2. PICK u, w : u = m.child[z, g] /\ w = m.child[z, Opp(g)]
    OBVIOUS
  <2>3. Kids(m, z, u, w)
    BY <2>1, <2>2, Children
  <2>4. /\ u \in Ptr /\ w \in Ptr
        /\ u # 0 => u \in m.used /\ m.parent[u] = z /\ u # w
        /\ w # 0 => w \in m.used /\ m.parent[w] = z /\ u # w
    BY <2>3 DEF Kids
  <2>5. (u # 0 => u # c) /\ (w # 0 => w # c)
    BY <1>1, <2>1, <2>4
  <2>6. (u = v => z = p) /\ (w = v => z = p)
    <3>1. v # 0 /\ p = m.parent[v]
      BY <1>1
    <3>2. QED BY <2>4, <3>1
  <2>7. CASE z = p /\ g = e
    <3>1. m2.child[z, g] = c /\ m2.child[z, Opp(g)] = w /\ p # 0
      BY <1>2, <2>1, <2>2, <2>7
    <3>2. c # 0
      BY <1>8, <3>1
    <3>3. QED BY <1>1, <1>2, <2>5, <2>7, <3>1, <3>2
  <2>8. CASE z = p /\ g # e
    <3>1. m2.child[z, g] = u /\ m2.child[z, Opp(g)] = c /\ w = v
      BY <1>2, <1>5, <2>1, <2>2, <2>8
    <3>2. u # 0 /\ u # v
      BY <1>1, <1>8, <2>4, <3>1
    <3>3. QED BY <1>2, <2>4, <2>5, <3>1, <3>2
  <2>9. CASE z # p
    <3>1. m2.child[z, g] = u /\ m2.child[z, Opp(g)] = w
      BY <1>2, <2>1, <2>2, <2>9
    <3>2. u # 0 /\ u # v
      BY <1>8, <2>6, <2>9, <3>1
    <3>3. QED BY <1>2, <2>4, <2>5, <3>1, <3>2
  <2>10. QED BY <2>7, <2>8, <2>9
<1>9. ASSUME NEW z \in m2.used, m2.parent[z] # 0
       PROVE  m2.parent[z] \in m2.used /\ m2.child[m2.parent[z], Side(m2, z)] = z
  <2>1. z \in Ptr /\ z \in m.used /\ z # v /\ z # 0
    BY <1>2, <1>3
  <2>2. CASE z = c
    <3>1. Hangs(m2, z, p, e) /\ m2.parent[z] = p
      BY <1>1, <1>2, <1>5, <1>9, <2>1, <2>2 DEF Hangs
    <3>2. Hangs(m2, z, p, Side(m2, z))
      BY <3>1, SideFinds
    <3>3. QED BY <3>1, <3>2 DEF Hangs
  <2>3. CASE z # c
    <3>1. PICK q, g : q = m.parent[z] /\ g = Side(m, z)
      OBVIOUS
    <3>2. m2.parent[z] = q /\ q # 0
      BY <1>2, <1>9, <2>1, <2>3, <3>1
    <3>3. Hangs(m, z, q, g)
      BY <2>1, <3>1, <3>2, ParentOf
    <3>4. q # v /\ ~(q = p /\ g = e)
      BY <1>1, <1>5, <2>1, <2>3, <3>2, <3>3 DEF Hangs
    <3>5. Hangs(m2, z, q, g)
      BY <1>2, <3>2, <3>3, <3>4 DEF Hangs
    <3>6. Hangs(m2, z, q, Side(m2, z))
      BY <3>5, SideFinds
    <3>7. QED BY <3>2, <3>6 DEF Hangs
  <2>4. QED BY <2>2, <2>3
<1>10. ASSUME NEW z \in m2.used, m2.parent[z] = 0 PROVE z = m2.root
  <2>1. z \in Ptr /\ z \in m.used /\ z # v /\ z # 0
    BY <1>2, <1>3
  <2>2. CASE z = c
    BY <1>2, <1>10, <2>1, <2>2
  <2>3. CASE z # c
    <3>1. m.parent[z] = 0
      BY <1>2, <1>10, <2>1, <2>3
    <3>2. QED BY <1>1, <1>2, <1>4, <2>1, <3>1 DEF Ties
  <2>4. QED BY <2>2, <2>3
<1>11. m2.root # 0 => m2.root \in m2.used /\ m2.parent[m2.root] = 0
  <2>1. CASE p = 0
    BY <1>1, <1>2, <2>1
  <2>2. CASE p # 0
    <3>1. PICK z : z = m.root
      OBVIOUS
    <3>2. z \in Ptr /\ m2.root = z /\ (z # 0 => z \in m.used /\ m.parent[z] = 0)
      BY <1>2, <1>3, <1>4, <2>2, <3>1 DEF Ties
    <3>3. z # 0 => z # v /\ z # c
      BY <1>1, <2>2, <3>2
    <3>4. QED BY <1>1, <1>2, <3>2, <3>3
  <2>3. QED BY <2>1, <2>2
<1>12. Linked(m2)
  BY <1>8, <1>9, <1>10, <1>11 DEF Linked
<1>13. QED BY <1>2, <1>6, <1>7, <1>12 DEF Tree

----------------------------------------------------------------------------
(* The walk through a tree *)

\* _map_foreach from x on, one level after another.
Walks(m, W) ==
  /\ W \in [0 .. MaxNodes -> [Ptr -> Seq(Ptr)]]
  /\ \A x \in Ptr : W[0][x] = <<>>
  /\ \A d \in 1 .. MaxNodes, x \in Ptr :
       W[d][x] = IF x = 0 THEN <<>>
                 ELSE W[d - 1][m.child[x, "left"]] \o <<x>> \o W[d - 1][m.child[x, "right"]]

\* The walk of _map_foreach is defined at every depth.
LEMMA WalkingDef ==
  ASSUME NEW m \in Maps
  PROVE  Walks(m, Walking(m))
<1> DEFINE top == MaxNodes
           S == [Ptr -> Seq(Ptr)]
           a == [x \in Ptr |-> <<>>]
           Level(w) == [x \in Ptr |-> IF x = 0 THEN <<>>
                                      ELSE w[m.child[x, "left"]] \o <<x>> \o w[m.child[x, "right"]]]
           step == [d \in 1 .. top |-> [w \in S |-> Level(w)]]
           Body(f) == [d \in 0 .. top |->
                         [x \in Ptr |->
                           IF x = 0 \/ d = 0 THEN <<>>
                           ELSE f[d - 1][m.child[x, "left"]] \o <<x>> \o f[d - 1][m.child[x, "right"]]]]
           g == Walking(m)
<1>1. \A x \in Ptr, f \in Sides : m.child[x, f] \in Ptr
  BY MapFields
<1>2. "left" \in Sides /\ "right" \in Sides
  BY DEF Sides
<1>3. \A w \in S : Level(w) \in S
  <2>1. ASSUME NEW w \in S, NEW x \in Ptr PROVE Level(w)[x] \in Seq(Ptr)
    <3>1. PICK l \in Ptr, r \in Ptr : l = m.child[x, "left"] /\ r = m.child[x, "right"]
      BY <1>1, <1>2
    <3>2. PICK b \in Seq(Ptr), c \in Seq(Ptr) : b = w[l] /\ c = w[r]
      OBVIOUS
    <3>3. b \o <<x>> \o c \in Seq(Ptr) /\ <<>> \in Seq(Ptr)
      OBVIOUS
    <3>4. Level(w)[x] = IF x = 0 THEN <<>> ELSE b \o <<x>> \o c
      BY <3>1, <3>2
    <3>5. QED BY <3>3, <3>4
  <2>2. QED BY <2>1
<1>4. top \in Nat /\ IsStep(top, S, a, step)
  <2>1. a \in S
    OBVIOUS
  <2>2. step \in [1 .. top -> [S -> S]]
    <3> HIDE DEF S, Level
    <3> QED BY <1>3
  <2>3. QED BY <2>1, <2>2, Addresses DEF IsStep
<1>5. \A k \in 1 .. top, w \in S : step[k][w] = Level(w)
  <2> HIDE DEF S, Level
  <2> QED OBVIOUS
<1> HIDE DEF step, S
<1>6. PICK f : Computes(f, top, S, a, step)
  BY <1>4, RecursiveFunction
<1>7. f = [k \in 0 .. top |-> f[k]] /\ f[0] = a /\ \A k \in 1 .. top : f[k] = Level(f[k - 1])
  <2>1. \A k \in 1 .. top : k - 1 \in 0 .. top
    BY <1>4
  <2> HIDE DEF Level
  <2>2. QED BY <1>5, <1>6, <2>1 DEF Computes
<1>8. f = Body(f)
  <2>1. ASSUME NEW k \in 0 .. top PROVE f[k] = Body(f)[k]
    <3>1. CASE k = 0
      BY <1>7, <3>1
    <3>2. CASE k # 0
      <4>1. k \in 1 .. top
        BY <1>4, <3>2
      <4>2. f[k] = Level(f[k - 1])
        BY <1>7, <4>1
      <4>3. QED BY <3>2, <4>2
    <3>3. QED BY <3>1, <3>2
  <2>2. QED BY <1>7, <2>1
<1>9. g = Body(g)
  BY <1>8, Zenon DEF Walking
<1> HIDE DEF g
<1>10. g = [k \in 0 .. top |-> g[k]] /\ g[0] = a /\ \A k \in 1 .. top : g[k] = Level(g[k - 1])
  <2>1. 0 \in 0 .. top
    BY <1>4
  <2>2. g = [k \in 0 .. top |-> g[k]] /\ \A k \in 0 .. top : g[k] = Body(g)[k]
    BY <1>9
  <2>3. g[0] = a
    BY <2>1, <2>2
  <2>4. ASSUME NEW k \in 1 .. top PROVE g[k] = Level(g[k - 1])
    <3>1. k \in 0 .. top /\ k # 0
      OBVIOUS
    <3>2. g[k] = Body(g)[k]
      BY <2>2, <3>1
    <3>3. QED BY <3>1, <3>2
  <2>5. QED BY <2>2, <2>3, <2>4
<1>11. Computes(g, top, S, a, step)
  <2>1. Follows(g, top, S, a, step)
    <3> HIDE DEF Level
    <3> QED BY <1>5, <1>10 DEF Follows
  <2>2. QED BY <1>4, <2>1, RecursiveFunctionType
<1>12. g \in [0 .. top -> [Ptr -> Seq(Ptr)]]
  BY <1>11 DEF Computes, S
<1>13. \A x \in Ptr : g[0][x] = <<>>
  BY <1>10
<1>14. \A d \in 1 .. top, x \in Ptr :
         g[d][x] = IF x = 0 THEN <<>>
                   ELSE g[d - 1][m.child[x, "left"]] \o <<x>> \o g[d - 1][m.child[x, "right"]]
  BY <1>10, ZenonT(30)
<1>15. QED BY <1>12, <1>13, <1>14 DEF Walks, g

\* What a list contains.
Members(s) == {s[i] : i \in DOMAIN s}

\* What a list has that _map_foreach makes of the left part, the node and the
\* right part.
LEMMA MembersOfThree ==
  ASSUME NEW a \in Seq(Ptr), NEW x \in Ptr, NEW b \in Seq(Ptr)
  PROVE  Members(a \o <<x>> \o b) = Members(a) \union {x} \union Members(b)
<1>1. PICK s : s = a \o <<x>> \o b
  OBVIOUS
<1>2. /\ s \in Seq(Ptr) /\ Len(s) = Len(a) + 1 + Len(b) /\ Len(a) \in Nat /\ Len(b) \in Nat
      /\ DOMAIN s = 1 .. Len(s) /\ DOMAIN a = 1 .. Len(a) /\ DOMAIN b = 1 .. Len(b)
      /\ \A i \in 1 .. Len(a) : s[i] = a[i]
      /\ s[Len(a) + 1] = x
      /\ \A i \in 1 .. Len(b) : s[Len(a) + 1 + i] = b[i]
  BY <1>1
<1>3. ASSUME NEW i \in 1 .. Len(s) PROVE s[i] \in Members(a) \union {x} \union Members(b)
  <2>1. CASE i <= Len(a)
    BY <1>2, <2>1, SMTT(30) DEF Members
  <2>2. CASE i = Len(a) + 1
    BY <1>2, <2>2
  <2>3. CASE i > Len(a) + 1
    <3>1. PICK j : j = i - (Len(a) + 1)
      OBVIOUS
    <3>2. j \in 1 .. Len(b) /\ i = Len(a) + 1 + j
      BY <1>2, <2>3, <3>1
    <3>3. s[i] = b[j]
      BY <1>2, <3>2
    <3>4. QED BY <1>2, <3>2, <3>3 DEF Members
  <2>4. QED BY <1>2, <2>1, <2>2, <2>3
<1>4. Members(s) \subseteq Members(a) \union {x} \union Members(b)
  BY <1>2, <1>3, SMTT(30) DEF Members
<1>5. Members(a) \subseteq Members(s)
  <2>1. ASSUME NEW i \in 1 .. Len(a) PROVE i \in 1 .. Len(s) /\ s[i] = a[i]
    BY <1>2
  <2>2. QED BY <1>2, <2>1 DEF Members
<1>6. x \in Members(s)
  <2>1. Len(a) + 1 \in 1 .. Len(s)
    BY <1>2
  <2>2. QED BY <1>2, <2>1 DEF Members
<1>7. Members(b) \subseteq Members(s)
  <2>1. ASSUME NEW i \in 1 .. Len(b) PROVE \E j \in 1 .. Len(s) : s[j] = b[i]
    <3>1. Len(a) + 1 + i \in 1 .. Len(s)
      BY <1>2
    <3>2. QED BY <1>2, <3>1
  <2>2. ASSUME NEW y \in Members(b) PROVE y \in Members(s)
    <3>1. PICK i \in 1 .. Len(b) : y = b[i]
      BY <1>2 DEF Members
    <3>2. QED BY <1>2, <2>1, <3>1 DEF Members
  <2>3. QED BY <2>2
<1>8. QED BY <1>1, <1>4, <1>5, <1>6, <1>7

\* The list s holds nodes only, x if it is one, and the children of all it holds.
Closed(m, s, x) ==
  /\ s \in Seq(Ptr) /\ Members(s) \subseteq m.used /\ (x # 0 => x \in Members(s))
  /\ \A z \in Members(s), f \in Sides : m.child[z, f] # 0 => m.child[z, f] \in Members(s)

\* A walk from a node that is as deep as the walk is long sees all below it.
LEMMA WalkIsClosed ==
  ASSUME NEW m, Tree(m), NEW W, Walks(m, W), NEW D, Depths(m, D)
  PROVE  \A d \in 0 .. MaxNodes, x \in m.used : D[x] + d > MaxNodes => Closed(m, W[d][x], x)
<1>1. /\ MaxNodes \in Nat /\ m \in Maps /\ m.used \subseteq Ptr /\ 0 \notin m.used
      /\ "left" \in Sides /\ "right" \in Sides /\ Opp("left") = "right"
      /\ \A f \in Sides : f = "left" \/ f = "right"
  BY Addresses, MapFields DEF Tree, Sides, Opp
<1>2. /\ \A x \in m.used : D[x] \in 1 .. MaxNodes
      /\ \A x \in m.used, f \in Sides : m.child[x, f] # 0 => D[m.child[x, f]] = D[x] + 1
  BY DEF Depths
<1> DEFINE Good(d) == \A x \in m.used : D[x] + d > MaxNodes => Closed(m, W[d][x], x)
           T == {d \in Nat : d <= MaxNodes => Good(d)}
<1>3. 0 \in T
  <2>1. ASSUME NEW x \in m.used PROVE ~(D[x] + 0 > MaxNodes)
    <3>1. PICK a : a = D[x]
      OBVIOUS
    <3>2. a \in 1 .. MaxNodes
      BY <1>2, <3>1
    <3>3. QED BY <1>1, <3>1, <3>2
  <2>2. QED BY <2>1
<1>4. ASSUME NEW k \in Nat, k \in T PROVE k + 1 \in T
  <2>1. SUFFICES ASSUME k + 1 <= MaxNodes, NEW x \in m.used, D[x] + (k + 1) > MaxNodes
                 PROVE  Closed(m, W[k + 1][x], x)
    OBVIOUS
  <2>2. PICK l, r : l = m.child[x, "left"] /\ r = m.child[x, "right"]
    OBVIOUS
  <2>3. Kids(m, x, l, r)
    BY <1>1, <2>2, Children
  <2>4. l \in Ptr /\ r \in Ptr /\ (l # 0 => l \in m.used) /\ (r # 0 => r \in m.used) /\ x \in Ptr /\ x # 0
    BY <1>1, <2>3 DEF Kids
  <2>5. PICK d : d = k + 1
    OBVIOUS
  <2>6. d \in 1 .. MaxNodes /\ d - 1 = k /\ k \in 0 .. MaxNodes /\ k <= MaxNodes
    BY <1>1, <2>1, <2>5
  <2>7. PICK a, b : a = W[k][l] /\ b = W[k][r]
    OBVIOUS
  <2>8. a \in Seq(Ptr) /\ b \in Seq(Ptr) /\ W[d][x] = a \o <<x>> \o b
    BY <2>2, <2>4, <2>6, <2>7 DEF Walks
  <2>9. ASSUME NEW y, NEW f \in Sides, y = m.child[x, f], y \in m.used, y # 0, NEW c, c = W[k][y]
        PROVE  Closed(m, c, y)
    <3>1. PICK i, j : i = D[x] /\ j = D[y]
      OBVIOUS
    <3>2. i \in 1 .. MaxNodes /\ j = i + 1 /\ i + (k + 1) > MaxNodes
      BY <1>2, <2>1, <2>9, <3>1
    <3>3. j + k > MaxNodes
      BY <1>1, <3>2
    <3>4. QED BY <1>4, <2>6, <2>9, <3>1, <3>3
  <2>10. ASSUME NEW y, NEW f \in Sides, y = m.child[x, f], y \in Ptr, y # 0 => y \in m.used,
                NEW c, c = W[k][y]
         PROVE  /\ Members(c) \subseteq m.used /\ (y # 0 => y \in Members(c))
                /\ \A z \in Members(c), g \in Sides : m.child[z, g] # 0 => m.child[z, g] \in Members(c)
    <3>1. CASE y # 0
      <4>1. Closed(m, c, y)
        BY <2>9, <2>10, <3>1
      <4>2. QED BY <4>1 DEF Closed
    <3>2. CASE y = 0
      <4>1. c = <<>>
        <5>1. CASE k = 0
          BY <2>10, <5>1 DEF Walks
        <5>2. CASE k # 0
          <6>1. k \in 1 .. MaxNodes
            BY <2>6, <5>2
          <6>2. QED BY <2>10, <3>2, <6>1 DEF Walks
        <5>3. QED BY <5>1, <5>2
      <4>2. Members(c) = {}
        BY <4>1 DEF Members
      <4>3. QED BY <3>2, <4>2
    <3>3. QED BY <3>1, <3>2
  <2>11. /\ Members(a) \subseteq m.used /\ (l # 0 => l \in Members(a))
         /\ \A z \in Members(a), g \in Sides : m.child[z, g] # 0 => m.child[z, g] \in Members(a)
    BY <1>1, <2>2, <2>4, <2>7, <2>10
  <2>12. /\ Members(b) \subseteq m.used /\ (r # 0 => r \in Members(b))
         /\ \A z \in Members(b), g \in Sides : m.child[z, g] # 0 => m.child[z, g] \in Members(b)
    BY <1>1, <2>2, <2>4, <2>7, <2>10
  <2>13. PICK s : s = W[d][x]
    OBVIOUS
  <2>14. s \in Seq(Ptr) /\ Members(s) = Members(a) \union {x} \union Members(b)
    <3>1. <<x>> \in Seq(Ptr)
      BY <2>4
    <3>2. s = a \o <<x>> \o b /\ s \in Seq(Ptr)
      BY <2>8, <2>13, <3>1
    <3>3. QED BY <2>4, <2>8, <3>2, MembersOfThree
  <2>15. Members(s) \subseteq m.used /\ x \in Members(s)
    BY <2>11, <2>12, <2>14
  <2>16. ASSUME NEW z \in Members(s), NEW g \in Sides, m.child[z, g] # 0
         PROVE  m.child[z, g] \in Members(s)
    <3>1. CASE z = x
      <4>1. PICK y : y = m.child[z, g]
        OBVIOUS
      <4>2. y \in {l, r} /\ y # 0
        BY <1>1, <2>2, <2>16, <3>1, <4>1
      <4>3. (l # 0 => l \in Members(s)) /\ (r # 0 => r \in Members(s))
        BY <2>11, <2>12, <2>14
      <4>4. y \in Members(s)
        BY <4>2, <4>3
      <4>5. QED BY <4>1, <4>4
    <3>2. CASE z \in Members(a)
      BY <2>11, <2>14, <2>16, <3>2
    <3>3. CASE z \in Members(b)
      BY <2>12, <2>14, <2>16, <3>3
    <3>4. QED BY <2>14, <3>1, <3>2, <3>3
  <2>17. QED BY <2>5, <2>13, <2>14, <2>15, <2>16 DEF Closed
<1>5. \A k \in Nat : k \in T
  <2> HIDE DEF T
  <2> QED BY <1>3, <1>4, SetInduction
<1>6. ASSUME NEW d \in 0 .. MaxNodes PROVE Good(d)
  <2>1. d \in Nat /\ d <= MaxNodes
    BY <1>1
  <2>2. QED BY <1>5, <2>1
<1>7. QED BY <1>6

\* map_foreach and _map_destroy visit every node.
LEMMA VisitReaches ==
  ASSUME NEW m, Tree(m), NEW s, s = Visit(m)
  PROVE  s \in Seq(Ptr) /\ Members(s) = m.used
<1>1. /\ MaxNodes \in Nat /\ m \in Maps /\ m.used \subseteq Ptr /\ 0 \notin m.used /\ m.root \in Ptr
      /\ MaxNodes \in 0 .. MaxNodes
  <2>1. MaxNodes \in Nat
    BY Addresses
  <2>2. MaxNodes \in 0 .. MaxNodes
    BY <2>1
  <2>3. QED BY <2>1, <2>2, Addresses, MapFields DEF Tree
<1>2. PICK W : W = Walking(m)
  OBVIOUS
<1>3. Walks(m, W)
  BY <1>1, <1>2, WalkingDef
<1>4. s = W[MaxNodes][m.root]
  BY <1>2 DEF Visit
<1>5. s \in Seq(Ptr)
  <2>1. PICK w : w = W[MaxNodes]
    OBVIOUS
  <2>2. w \in [Ptr -> Seq(Ptr)]
    BY <1>1, <1>3, <2>1 DEF Walks
  <2>3. QED BY <1>1, <1>4, <2>1, <2>2
<1>6. CASE m.root = 0
  <2>1. s = <<>>
    <3>1. CASE MaxNodes = 0
      BY <1>1, <1>3, <1>4, <3>1 DEF Walks
    <3>2. CASE MaxNodes # 0
      <4>1. MaxNodes \in 1 .. MaxNodes
        BY <1>1, <3>2
      <4>2. QED BY <1>1, <1>3, <1>4, <1>6, <4>1 DEF Walks
    <3>3. QED BY <3>1, <3>2
  <2>2. Members(s) = {}
    BY <2>1 DEF Members
  <2>3. QED BY <1>5, <1>6, <2>2, EmptyTree
<1>7. CASE m.root # 0
  <2>1. PICK D : Depths(m, D)
    BY DepthsExist
  <2>2. Ties(m) /\ m.root \in m.used
    BY <1>7, TreeLinks DEF Ties
  <2>3. D[m.root] \in 1 .. MaxNodes
    BY <2>1, <2>2 DEF Depths
  <2>4. D[m.root] + MaxNodes > MaxNodes
    BY <1>1, <2>3
  <2>5. Closed(m, s, m.root)
    BY <1>1, <1>3, <1>4, <2>1, <2>2, <2>4, WalkIsClosed
  <2>6. /\ Members(s) \subseteq m.used /\ m.root \in Members(s)
        /\ \A z \in Members(s), g \in Sides : m.child[z, g] # 0 => m.child[z, g] \in Members(s)
    BY <1>7, <2>5 DEF Closed
  <2>7. SUFFICES ASSUME m.used \ Members(s) # {} PROVE FALSE
    BY <1>5, <2>6
  <2>8. PICK U : U = m.used \ Members(s)
    OBVIOUS
  <2>9. PICK x \in U : m.parent[x] \notin U
    BY <2>7, <2>8 DEF Tree, Rooted
  <2>10. x \in m.used /\ x \notin Members(s) /\ x # m.root /\ x # 0
    BY <1>1, <2>6, <2>8, <2>9
  <2>11. PICK q, g : q = m.parent[x] /\ g = Side(m, x)
    OBVIOUS
  <2>12. q # 0
    BY <2>2, <2>10, <2>11 DEF Ties
  <2>13. Hangs(m, x, q, g)
    BY <2>10, <2>11, <2>12, ParentOf
  <2>14. q \in Members(s) /\ g \in Sides /\ m.child[q, g] = x
    BY <2>8, <2>9, <2>11, <2>13 DEF Hangs
  <2>15. QED BY <2>6, <2>10, <2>14
<1>8. QED BY <1>6, <1>7

----------------------------------------------------------------------------
(* Steps that recolor and rotate *)

\* m1 is m with other colors.
SameLinks(m, m1) ==
  Others(m, m1) /\ m1.root = m.root /\ m1.parent = m.parent /\ m1.child = m.child

\* m1 is m but for the colors, the keys and the values.
SameShape(m, m1) ==
  /\ m1 \in Maps /\ m1.used = m.used
  /\ m1.root = m.root /\ m1.parent = m.parent /\ m1.child = m.child

\* These do not make a tree a tree.
LEMMA ShapeKeepsTree ==
  ASSUME NEW m, Tree(m), NEW m1, SameShape(m, m1), Clean(m1)
  PROVE  Tree(m1)
<1>1. /\ m1 \in Maps /\ m1.used = m.used
      /\ m1.root = m.root /\ m1.parent = m.parent /\ m1.child = m.child
  BY DEF SameShape
<1>2. Linked(m1)
  <2>1. \A z \in m.used : Side(m1, z) = Side(m, z)
    BY <1>1 DEF Side
  <2>2. /\ \A z \in m.used, f \in Sides :
             m.child[z, f] # 0 => /\ m.child[z, f] \in m.used
                                  /\ m.parent[m.child[z, f]] = z
                                  /\ m.child[z, f] # m.child[z, Opp(f)]
        /\ \A z \in m.used :
             m.parent[z] # 0 => m.parent[z] \in m.used /\ m.child[m.parent[z], Side(m, z)] = z
        /\ \A z \in m.used : m.parent[z] = 0 => z = m.root
        /\ m.root # 0 => m.root \in m.used /\ m.parent[m.root] = 0
    BY DEF Tree, Linked
  <2>3. \A z \in m.used :
          m.parent[z] # 0 => m.parent[z] \in m.used /\ m.child[m.parent[z], Side(m1, z)] = z
    BY <2>1, <2>2
  <2>4. m1.used = m.used /\ m1.root = m.root /\ m1.parent = m.parent /\ m1.child = m.child
    BY <1>1
  <2>5. \A z \in m1.used, f \in Sides :
          m1.child[z, f] # 0 => /\ m1.child[z, f] \in m1.used
                                /\ m1.parent[m1.child[z, f]] = z
                                /\ m1.child[z, f] # m1.child[z, Opp(f)]
    <3>1. ASSUME NEW z \in m1.used, NEW f \in Sides, m1.child[z, f] # 0
          PROVE  /\ m1.child[z, f] \in m1.used
                 /\ m1.parent[m1.child[z, f]] = z
                 /\ m1.child[z, f] # m1.child[z, Opp(f)]
      <4>1. PICK u, w : u = m.child[z, f] /\ w = m.child[z, Opp(f)]
        OBVIOUS
      <4>2. u = m1.child[z, f] /\ w = m1.child[z, Opp(f)] /\ z \in m.used
        BY <2>4, <4>1
      <4>3. Kids(m, z, u, w)
        BY <4>1, <4>2, Children
      <4>4. u \in m.used /\ m.parent[u] = z /\ u # w
        BY <3>1, <4>2, <4>3 DEF Kids
      <4>5. QED BY <2>4, <4>2, <4>4
    <3>2. QED BY <3>1
  <2>6. \A z \in m1.used :
          m1.parent[z] # 0 => m1.parent[z] \in m1.used /\ m1.child[m1.parent[z], Side(m1, z)] = z
    BY <2>3, <2>4
  <2>7. \A z \in m1.used : m1.parent[z] = 0 => z = m1.root
    BY <2>2, <2>4
  <2>8. m1.root # 0 => m1.root \in m1.used /\ m1.parent[m1.root] = 0
    BY <2>2, <2>4
  <2>9. QED BY <2>5, <2>6, <2>7, <2>8 DEF Linked
<1>3. Rooted(m1)
  BY <1>1 DEF Rooted, Tree
<1>4. QED BY <1>1, <1>2, <1>3 DEF Tree

\* To paint a node keeps the tree a tree.
Painted(m, m1, x, c) == Tree(m1) /\ WritesColor(m, m1, x, c) /\ SameLinks(m, m1)

\* rb_set_color changes no link.
LEMMA PaintKeepsTree ==
  ASSUME NEW m, Tree(m), NEW x \in Ptr, NEW c \in {RB_RED, RB_BLACK}, x \in m.used \/ c = RB_RED,
         NEW m1, m1 = Paint(m, x, c)
  PROVE  Painted(m, m1, x, c)
<1>1. m \in Maps /\ c \in {0, 1}
  BY DEF Tree, RB_RED, RB_BLACK
<1>2. WritesColor(m, m1, x, c)
  BY <1>1, WriteFields
<1>3. /\ m1 \in Maps /\ m1.size = m.size /\ m1.used = m.used /\ m1.key = m.key /\ m1.value = m.value
      /\ m1.root = m.root /\ m1.parent = m.parent /\ m1.child = m.child
      /\ \A z \in Ptr : m1.color[z] = IF z = x THEN c ELSE m.color[z]
  BY <1>2 DEF WritesColor, Others
<1>4. Clean(m1)
  <2>1. ASSUME NEW z \in Ptr, z \notin m1.used
        PROVE  /\ m1.key[z] = 0 /\ m1.value[z] = 0 /\ m1.color[z] = RB_RED /\ m1.parent[z] = 0
               /\ \A f \in Sides : m1.child[z, f] = 0
    <3>1. z \notin m.used
      BY <1>3, <2>1
    <3>2. /\ m.key[z] = 0 /\ m.value[z] = 0 /\ m.color[z] = RB_RED /\ m.parent[z] = 0
          /\ \A f \in Sides : m.child[z, f] = 0
      BY <3>1 DEF Tree, Clean
    <3>3. m1.color[z] = RB_RED
      BY <1>3, <3>1, <3>2
    <3>4. QED BY <1>3, <3>2, <3>3
  <2>2. QED BY <2>1 DEF Clean
<1>5. Tree(m1)
  BY <1>3, <1>4, ShapeKeepsTree DEF SameShape
<1>6. QED BY <1>2, <1>3, <1>5 DEF Painted, SameLinks, Others

\* m2 is m1, which is m with other colors, after a rotation.
Turned(m, m1, m2, x, d, p, e, r, y) ==
  /\ Tree(m2) /\ Others(m, m2) /\ m2.color = m1.color
  /\ m2.root = IF p = 0 THEN r ELSE m.root
  /\ \A z \in Ptr : m2.parent[z] = IF z = x THEN r
                                   ELSE IF z = r THEN p
                                   ELSE IF z = y /\ y # 0 THEN x ELSE m.parent[z]
  /\ \A z \in Ptr, f \in Sides :
       m2.child[z, f] = IF z = r /\ f = d THEN x
                        ELSE IF z = x /\ f = Opp(d) THEN y
                        ELSE IF z = p /\ p # 0 /\ f = e THEN r ELSE m.child[z, f]

\* rb_rotate_left and rb_rotate_right keep the tree a tree, after nodes were painted,
\* and change the links that Turned lists.
LEMMA TurnKeepsTree ==
  ASSUME NEW m, Tree(m), NEW m1, Tree(m1), SameLinks(m, m1),
         NEW x, NEW d, NEW p, NEW e, NEW r, NEW y, Around(m, x, d, p, e, r, y),
         NEW m2, m2 = rb_rotate(m1, x, d)
  PROVE  Turned(m, m1, m2, x, d, p, e, r, y)
<1>1. /\ m1 \in Maps /\ m1.size = m.size /\ m1.used = m.used /\ m1.key = m.key /\ m1.value = m.value
      /\ m1.root = m.root /\ m1.parent = m.parent /\ m1.child = m.child
  BY DEF SameLinks, Others
<1>2. Around(m1, x, d, p, e, r, y)
  BY <1>1 DEF Around, Side
<1>3. Rotates(m1, m2, x, d, p, e, r, y)
  BY <1>1, <1>2, RotateFields
<1>4. Tree(m2)
  BY <1>2, <1>3, RotationKeepsTree
<1>5. QED BY <1>1, <1>3, <1>4, ZenonT(30) DEF Turned, Rotates, Others

\* Two and three nodes are painted.
PaintedTwo(m, m2, x, c, y, d) ==
  /\ Tree(m2) /\ SameLinks(m, m2)
  /\ \A z \in Ptr : m2.color[z] = IF z = y THEN d ELSE IF z = x THEN c ELSE m.color[z]

\* Two nodes painted one after the other.
LEMMA PaintTwo ==
  ASSUME NEW m, Tree(m), NEW x \in Ptr, NEW c \in {RB_RED, RB_BLACK}, x \in m.used \/ c = RB_RED,
         NEW y \in Ptr, NEW d \in {RB_RED, RB_BLACK}, y \in m.used \/ d = RB_RED,
         NEW m2, m2 = Paint(Paint(m, x, c), y, d)
  PROVE  PaintedTwo(m, m2, x, c, y, d)
<1>1. PICK m1 : m1 = Paint(m, x, c)
  OBVIOUS
<1>2. Painted(m, m1, x, c)
  BY <1>1, PaintKeepsTree
<1>3. Tree(m1) /\ m1.used = m.used /\ m2 = Paint(m1, y, d)
  BY <1>1, <1>2 DEF Painted, SameLinks, Others
<1>4. Painted(m1, m2, y, d)
  BY <1>3, PaintKeepsTree
<1>5. SameLinks(m, m2)
  BY <1>2, <1>4 DEF Painted, SameLinks, Others
<1>6. QED BY <1>2, <1>4, <1>5 DEF Painted, WritesColor, PaintedTwo

PaintedThree(m, m3, x, c, y, d, w, b) ==
  /\ Tree(m3) /\ SameLinks(m, m3)
  /\ \A z \in Ptr : m3.color[z] = IF z = w THEN b ELSE IF z = y THEN d
                                  ELSE IF z = x THEN c ELSE m.color[z]

\* Three nodes painted one after the other (rb_insert_case3).
LEMMA PaintThree ==
  ASSUME NEW m, Tree(m), NEW x \in Ptr, NEW c \in {RB_RED, RB_BLACK}, x \in m.used \/ c = RB_RED,
         NEW y \in Ptr, NEW d \in {RB_RED, RB_BLACK}, y \in m.used \/ d = RB_RED,
         NEW w \in Ptr, NEW b \in {RB_RED, RB_BLACK}, w \in m.used \/ b = RB_RED,
         NEW m3, m3 = Paint(Paint(Paint(m, x, c), y, d), w, b)
  PROVE  PaintedThree(m, m3, x, c, y, d, w, b)
<1>1. PICK m2 : m2 = Paint(Paint(m, x, c), y, d)
  OBVIOUS
<1>2. PaintedTwo(m, m2, x, c, y, d)
  BY <1>1, PaintTwo
<1>3. Tree(m2) /\ m2.used = m.used /\ m3 = Paint(m2, w, b)
  BY <1>1, <1>2 DEF PaintedTwo, SameLinks, Others
<1>4. Painted(m2, m3, w, b)
  BY <1>3, PaintKeepsTree
<1>5. SameLinks(m, m3)
  BY <1>2, <1>4 DEF Painted, PaintedTwo, SameLinks, Others
<1>6. QED BY <1>2, <1>4, <1>5 DEF Painted, PaintedTwo, WritesColor, PaintedThree
=============================================================================
