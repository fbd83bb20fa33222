------------------------------- MODULE RbMap -------------------------------
(***************************************************************************)
(* The red-black tree of asmg/rb_map.g, the map the system is built with.  *)
(*                                                                         *)
(* A node is its address; 0 is the null pointer.  The memory is the record *)
(* t of the map (root, size) and of the fields of all nodes; child[n, d]   *)
(* is the field RB_LEFT or RB_RIGHT of n.  The tail-recursive chains       *)
(* rb_insert_case1..5 and rb_delete_case1..6 are one action per routine,   *)
(* with pc the next routine and n its argument.                            *)
(* Keys are compared by strcmp: integers stand for them.                   *)
(***************************************************************************)
EXTENDS Integers, Sequences, FiniteSets

CONSTANTS
  MaxNodes,   \* bound: nodes that fit in memory
  Settings    \* the pairs of a key and a value that programs set

ASSUME RbConstants ==
  /\ MaxNodes \in Nat /\ Settings \subseteq Int \X Int

Keys == {kv[1] : kv \in Settings}
Values == {kv[2] : kv \in Settings}

Nodes == 1 .. MaxNodes
Ptr == 0 .. MaxNodes
Sides == {"left", "right"}
Opp(d) == IF d = "left" THEN "right" ELSE "left"
RB_RED == 0
RB_BLACK == 1

VARIABLES
  t,        \* the map and its nodes
  pc, n,    \* the routine that runs next and its node
  victim,   \* the node that rb_rbtree_delete is removing, and what takes
  child,    \* its place
  copies,   \* for every key, copies made by strdup and not freed yet
  result    \* what the last completed call returned

vars == <<t, pc, n, victim, child, copies, result>>

Result(op, out) == [op |-> op, out |-> out]
Bool(b) == IF b THEN 1 ELSE 0

----------------------------------------------------------------------------
(* Reading the tree *)

rb_node_color(m, x) == IF x = 0 THEN RB_BLACK ELSE m.color[x]
Black(m, x) == rb_node_color(m, x) = RB_BLACK
Red(m, x) == rb_node_color(m, x) = RB_RED

Parent(x) == t.parent[x]
Side(m, x) == IF m.child[m.parent[x], "left"] = x THEN "left" ELSE "right"
rb_sibling(m, x) == m.child[m.parent[x], Opp(Side(m, x))]
rb_uncle(m, x) == rb_sibling(m, m.parent[x])
rb_grandparent(m, x) == m.parent[m.parent[x]]
HasGrandparent(m, x) == m.parent[x] # 0 /\ rb_grandparent(m, x) # 0

\* x is child d of its parent, which is child e of the grandparent.
Chain(m, x, d, e) ==
  /\ m.child[m.parent[x], d] = x
  /\ m.child[rb_grandparent(m, x), e] = m.parent[x]

\* The way from x on, by the function next.  No path of a tree is longer than
\* MaxNodes.
Following(next, x) ==
  LET At[d \in 0 .. MaxNodes] == IF d = 0 THEN x ELSE next[At[d - 1]]
  IN  At

Toward(m, x, k) == IF k < m.key[x] THEN "left" ELSE "right"

Search(m, k) ==
  [x \in Ptr |-> IF x = 0 \/ m.key[x] = k THEN x ELSE m.child[x, Toward(m, x, k)]]
rb_lookup_node(m, key) == Following(Search(m, key), m.root)[MaxNodes]

\* Where the insertion of an absent key stops: the node that gets a child.
Descent(m, k) ==
  [x \in Ptr |-> IF m.child[x, Toward(m, x, k)] = 0 THEN x ELSE m.child[x, Toward(m, x, k)]]
LastOnPath(m, key) == Following(Descent(m, key), m.root)[MaxNodes]

Rightmost(m) == [x \in Ptr |-> IF m.child[x, "right"] = 0 THEN x ELSE m.child[x, "right"]]
rb_maximum_node(m, x) == Following(Rightmost(m), x)[MaxNodes]

\* _map_foreach: the nodes below x, in the order in which they are visited.
Walking(m) ==
  LET Walk[d \in 0 .. MaxNodes] ==
        [x \in Ptr |->
           IF x = 0 \/ d = 0 THEN <<>>
           ELSE Walk[d - 1][m.child[x, "left"]] \o <<x>> \o Walk[d - 1][m.child[x, "right"]]]
  IN  Walk
Visit(m) == Walking(m)[MaxNodes][m.root]

----------------------------------------------------------------------------
(* Changing it *)

rb_replace_node(m, oldn, newn) ==
  LET m1 == IF m.parent[oldn] = 0
            THEN [m EXCEPT !.root = newn]
            ELSE [m EXCEPT !.child[<<m.parent[oldn], Side(m, oldn)>>] = newn]
  IN  IF newn = 0 THEN m1 ELSE [m1 EXCEPT !.parent[newn] = m.parent[oldn]]

\* rb_rotate_left for d = "left", rb_rotate_right for d = "right".
rb_rotate(m, x, d) ==
  LET r == m.child[x, Opp(d)]
      m1 == rb_replace_node(m, x, r)
      y == m1.child[r, d]
      m2 == [m1 EXCEPT !.child[<<x, Opp(d)>>] = y]
      m3 == IF y = 0 THEN m2 ELSE [m2 EXCEPT !.parent[y] = x]
  IN  [m3 EXCEPT !.child[<<r, d>>] = x, !.parent[x] = r]

Paint(m, x, c) == [m EXCEPT !.color[x] = c]

\* Memory that is not in use, and the words at address 0, are kept at zero.
Blank ==
  [root |-> 0, size |-> 0, used |-> {},
   key |-> [x \in Ptr |-> 0], value |-> [x \in Ptr |-> 0],
   color |-> [x \in Ptr |-> RB_RED], parent |-> [x \in Ptr |-> 0],
   child |-> [xd \in Ptr \X Sides |-> 0]]

\* Which free node malloc returns makes no difference, as nodes are compared
\* with each other and with 0 only; the one numbered like the key keeps the
\* states few.
Fresh(m, k) ==
  CHOOSE x \in Nodes \ m.used :
    \/ x = k
    \/ k \notin Nodes \ m.used /\ \A y \in Nodes \ m.used : x <= y

rb_new_node(m, key, value) ==
  LET x == Fresh(m, key)
  IN  [m EXCEPT !.used = @ \union {x}, !.key[x] = key, !.value[x] = value]

Freed(m, x) ==
  [m EXCEPT !.used = @ \ {x}, !.key[x] = 0, !.value[x] = 0, !.color[x] = RB_RED,
            !.parent[x] = 0, !.child[<<x, "left">>] = 0, !.child[<<x, "right">>] = 0]

Init ==
  /\ t = Blank
  /\ pc = "idle" /\ n = 0 /\ victim = 0 /\ child = 0
  /\ copies = [k \in Keys |-> 0]
  /\ result = Result("init", <<>>)

Idle == pc = "idle"
Goto(routine, x) == pc' = routine /\ n' = x
Return == Goto("idle", 0)
Panic == Goto("panic", n) /\ UNCHANGED t

\* A step of the rebalancing: it leaves all but the tree and the control alone.
Rebalances == UNCHANGED <<victim, child, copies, result>>

\* strdup and free of a key.
_map_key_init(c, k) == [c EXCEPT ![k] = @ + 1]
_map_key_destroy(c, k) == [c EXCEPT ![k] = @ - 1]

----------------------------------------------------------------------------
(* map_set: rb_rbtree_insert and the cases it goes through *)

\* The key is there already: its value is replaced, and the node that was
\* made for it is destroyed with its copy of the key.
Overwrite(k, v) ==
  LET m == rb_new_node(t, k, v)
      x == rb_lookup_node(t, k)
  IN  /\ x # 0
      /\ t' = Freed([m EXCEPT !.value[x] = v], Fresh(t, k))
      /\ Return
      /\ copies' = _map_key_destroy(_map_key_init(copies, k), k)

Insert(k, v) ==
  LET m == rb_new_node(t, k, v)
      x == Fresh(t, k)
      p == LastOnPath(t, k)
  IN  /\ rb_lookup_node(t, k) = 0
      /\ t' = IF t.root = 0
              THEN [m EXCEPT !.root = x, !.size = @ + 1]
              ELSE [m EXCEPT !.child[<<p, Toward(t, p, k)>>] = x, !.parent[x] = p, !.size = @ + 1]
      /\ Goto("insert1", x)
      /\ copies' = _map_key_init(copies, k)

map_set(k, v) ==
  /\ Idle /\ t.used # Nodes
  /\ Overwrite(k, v) \/ Insert(k, v)
  /\ result' = Result("set", <<>>)
  /\ UNCHANGED <<victim, child>>

\* Mutant: the root may stay red.
insert1_RedRoot ==
  /\ pc = "insert1"
  /\ UNCHANGED t
  /\ IF Black(t, Parent(n)) THEN Return ELSE Goto("insert3", n)
  /\ Rebalances

\* rb_insert_case1 and rb_insert_case2
insert1 ==
  /\ pc = "insert1"
  /\ IF Parent(n) = 0 THEN t' = Paint(t, n, RB_BLACK) /\ Return
     ELSE /\ UNCHANGED t
          /\ IF Black(t, Parent(n)) THEN Return ELSE Goto("insert3", n)
  /\ Rebalances

insert3 ==
  /\ pc = "insert3"
  /\ IF ~HasGrandparent(t, n) THEN Panic
     ELSE IF Red(t, rb_uncle(t, n))
     THEN /\ t' = Paint(Paint(Paint(t, Parent(n), RB_BLACK), rb_uncle(t, n), RB_BLACK),
                        rb_grandparent(t, n), RB_RED)
          /\ Goto("insert1", rb_grandparent(t, n))
     ELSE UNCHANGED t /\ Goto("insert4", n)
  /\ Rebalances

\* Mutant: an inner grandchild is not rotated outwards.
insert4_Skip ==
  /\ pc = "insert4"
  /\ UNCHANGED t /\ Goto("insert5", n)
  /\ Rebalances

insert4 ==
  /\ pc = "insert4"
  /\ IF ~HasGrandparent(t, n) THEN Panic
     ELSE \/ \E d \in Sides :
               /\ Chain(t, n, Opp(d), d)
               /\ LET m == rb_rotate(t, Parent(n), d)
                  IN  t' = m /\ Goto("insert5", m.child[n, d])
          \/ /\ \A d \in Sides : ~Chain(t, n, Opp(d), d)
             /\ UNCHANGED t /\ Goto("insert5", n)
  /\ Rebalances

insert5 ==
  /\ pc = "insert5"
  /\ IF ~HasGrandparent(t, n) \/ \A d \in Sides : ~Chain(t, n, d, d) THEN Panic
     ELSE \E d \in Sides :
            /\ Chain(t, n, d, d)
            /\ t' = rb_rotate(Paint(Paint(t, Parent(n), RB_BLACK), rb_grandparent(t, n), RB_RED),
                              rb_grandparent(t, n), Opp(d))
            /\ Return
  /\ Rebalances

----------------------------------------------------------------------------
(* map_erase: rb_rbtree_delete and the cases it goes through *)

\* Mutants: the key is copied and not swapped; the values stay.
Swapped_Copy(m, x, y) == [m EXCEPT !.key[x] = m.key[y], !.value[x] = m.value[y]]
Swapped_NoValue(m, x, y) == [m EXCEPT !.key[x] = m.key[y], !.key[y] = m.key[x]]

\* A node with two children trades its key and its value with its predecessor.
Swapped(m, x, y) ==
  [m EXCEPT !.key[x] = m.key[y], !.key[y] = m.key[x],
            !.value[x] = m.value[y], !.value[y] = m.value[x]]

map_erase(k) ==
  LET x == rb_lookup_node(t, k)
      two == \A d \in Sides : t.child[x, d] # 0
      y == IF two THEN rb_maximum_node(t, t.child[x, "left"]) ELSE x
      m == [IF two THEN Swapped(t, x, y) ELSE t EXCEPT !.size = @ - 1]
      c == IF m.child[y, "right"] = 0 THEN m.child[y, "left"] ELSE m.child[y, "right"]
  IN  /\ Idle
      /\ IF x = 0 THEN /\ result' = Result("erase", <<>>)
                       /\ UNCHANGED <<t, pc, n, victim, child>>
         ELSE IF \A d \in Sides : m.child[y, d] # 0 THEN Panic /\ UNCHANGED <<victim, child, result>>
         ELSE /\ victim' = y /\ child' = c
              /\ IF Red(m, y) THEN t' = m /\ Goto("unlink", y)
                 ELSE t' = Paint(m, y, rb_node_color(m, c)) /\ Goto("delete1", y)
              /\ UNCHANGED result
      /\ UNCHANGED copies

\* Mutant: the root is treated like any other node.
delete1_NoRoot ==
  /\ pc = "delete1"
  /\ UNCHANGED t /\ Goto("delete2", n)
  /\ Rebalances

delete1 ==
  /\ pc = "delete1"
  /\ UNCHANGED t
  /\ Goto(IF Parent(n) = 0 THEN "unlink" ELSE "delete2", n)
  /\ Rebalances

delete2 ==
  /\ pc = "delete2"
  /\ Goto("delete3", n)
  /\ t' = IF Red(t, rb_sibling(t, n))
          THEN rb_rotate(Paint(Paint(t, Parent(n), RB_RED), rb_sibling(t, n), RB_BLACK),
                         Parent(n), Side(t, n))
          ELSE t
  /\ Rebalances

\* The sibling of n and both its children are black.
AllBlack ==
  LET s == rb_sibling(t, n)
  IN  Black(t, s) /\ \A d \in Sides : Black(t, t.child[s, d])

\* rb_delete_case3 and rb_delete_case4
delete3 ==
  LET recolored == Paint(t, rb_sibling(t, n), RB_RED)
  IN
  /\ pc = "delete3"
  /\ \/ AllBlack /\ Black(t, Parent(n)) /\ t' = recolored /\ Goto("delete1", Parent(n))
     \/ AllBlack /\ Red(t, Parent(n)) /\ t' = Paint(recolored, Parent(n), RB_BLACK) /\ Goto("unlink", n)
     \/ ~AllBlack /\ UNCHANGED t /\ Goto("delete5", n)
  /\ Rebalances

delete5 ==
  LET s == rb_sibling(t, n)
      d == Side(t, n)
      near == t.child[s, d]
  IN
  /\ pc = "delete5"
  /\ t' = IF Black(t, s) /\ Red(t, near) /\ Black(t, t.child[s, Opp(d)])
          THEN rb_rotate(Paint(Paint(t, s, RB_RED), near, RB_BLACK), s, Opp(d))
          ELSE t
  /\ Goto("delete6", n)
  /\ Rebalances

delete6 ==
  LET s == rb_sibling(t, n)
      far == t.child[s, Opp(Side(t, n))]
      m == Paint(Paint(t, s, t.color[Parent(n)]), Parent(n), RB_BLACK)
  IN
  /\ pc = "delete6"
  /\ IF Black(t, far) THEN Panic
     ELSE t' = rb_rotate(Paint(m, far, RB_BLACK), Parent(n), Side(t, n)) /\ Goto("unlink", n)
  /\ Rebalances

\* The rest of rb_rbtree_delete.
unlink ==
  LET m == rb_replace_node(t, victim, child)
      m1 == IF m.parent[victim] = 0 /\ child # 0 THEN Paint(m, child, RB_BLACK) ELSE m
  IN
  /\ pc = "unlink"
  /\ copies' = _map_key_destroy(copies, m1.key[victim])
  /\ t' = Freed(m1, victim)
  /\ Return
  /\ victim' = 0 /\ child' = 0
  /\ result' = Result("erase", <<>>)

----------------------------------------------------------------------------
(* The other calls, which complete in one step *)

Answers(r) == result' = r /\ UNCHANGED <<t, victim, child, copies>>

map_at(k) ==
  LET x == rb_lookup_node(t, k)
  IN  /\ Idle
      /\ IF x = 0 THEN Answers(Result("panic", <<>>)) /\ Goto("panic", 0)
         ELSE Answers(Result("at", << <<k, t.value[x]>> >>)) /\ Return

map_has(k) ==
  /\ Idle
  /\ Answers(Result("has", << <<k, Bool(rb_lookup_node(t, k) # 0)>> >>))
  /\ Return

map_size ==
  /\ Idle
  /\ Answers(Result("size", << <<0, t.size>> >>))
  /\ Return

map_foreach ==
  LET order == Visit(t)
  IN  /\ Idle
      /\ Answers(Result("foreach", [i \in DOMAIN order |-> <<t.key[order[i]], t.value[order[i]]>>]))
      /\ Return

\* _map_destroy frees the key of every node it visits, and the node.  The next
\* map starts from map_init.
map_destroy ==
  LET order == Visit(t)
      gone == {order[i] : i \in DOMAIN order}
  IN  /\ Idle
      /\ t' = [Blank EXCEPT !.used = t.used \ gone]
      /\ copies' = [k \in Keys |-> copies[k] - Cardinality({x \in gone : t.key[x] = k})]
      /\ result' = Result("destroy", <<>>)
      /\ Return
      /\ UNCHANGED <<victim, child>>

Calls ==
  \/ \E kv \in Settings : map_set(kv[1], kv[2])
  \/ \E k \in Keys : map_erase(k) \/ map_at(k) \/ map_has(k)
  \/ map_size \/ map_foreach \/ map_destroy

Steps ==
  \/ insert1 \/ insert3 \/ insert4 \/ insert5
  \/ delete1 \/ delete2 \/ delete3 \/ delete5 \/ delete6 \/ unlink

Next == Calls \/ Steps
Spec == Init /\ [][Next]_vars

\* A call that has begun goes on: there is nothing else the processor does.
FairSpec == Spec /\ WF_vars(Steps)

----------------------------------------------------------------------------
(* Properties *)

TypeOK ==
  /\ t.root \in Ptr /\ t.size \in Nat /\ t.used \subseteq Nodes
  /\ t.key \in [Ptr -> Int] /\ t.value \in [Ptr -> Int]
  /\ t.color \in [Ptr -> {RB_RED, RB_BLACK}]
  /\ t.parent \in [Ptr -> Ptr] /\ t.child \in [Ptr \X Sides -> Ptr]
  /\ pc \in {"idle", "panic", "unlink", "insert1", "insert3", "insert4", "insert5",
             "delete1", "delete2", "delete3", "delete5", "delete6"}
  /\ n \in Ptr /\ victim \in Ptr /\ child \in Ptr
  /\ copies \in [Keys -> Nat]

\* At every step, the rotations included, a node is the parent of its children.
LinksMatch ==
  /\ \A x \in t.used, d \in Sides :
       LET y == t.child[x, d] IN y # 0 => y \in t.used /\ t.parent[y] = x
  /\ t.root # 0 => t.root \in t.used /\ t.parent[t.root] = 0

\* Between calls the tree is a red-black tree, as the verification that
\* rb_verify_properties skips would find: the root is black, no red node has a
\* red child, and all paths to a null pointer have as many black nodes.
BlackHeights(m) ==
  LET H[d \in 0 .. MaxNodes] ==
        [y \in Ptr |->
           IF y = 0 \/ d = 0 THEN {1}
           ELSE {h + m.color[y] : h \in UNION {H[d - 1][m.child[y, e]] : e \in Sides}}]
  IN  H

RedBlack ==
  LinksMatch /\ (Idle => /\ Black(t, t.root)
                          /\ \A x \in t.used, d \in Sides : Red(t, x) => Black(t, t.child[x, d])
                          /\ Cardinality(BlackHeights(t)[MaxNodes][t.root]) = 1)

\* No assertion of the rebalancing ever fails: the system stops only when
\* map_at is asked for a key that is not there.  The cases of the deletion look
\* at the children of the sibling of n without testing that there is one, and
\* nothing is ever written through a null pointer.
AssertionsHold ==
  /\ pc = "panic" => result.op = "panic"
  /\ pc \in {"delete2", "delete3", "delete5", "delete6"} => Parent(n) # 0 /\ rb_sibling(t, n) # 0
  /\ t.key[0] = 0 /\ t.color[0] = RB_RED /\ t.parent[0] = 0
  /\ \A d \in Sides : t.child[0, d] = 0

\* Between calls there is one copy of every key of the map and of no other: a
\* deletion destroys the key that goes, also when its node stays.
KeysOwned ==
  Idle => \A k \in Keys : copies[k] = Cardinality({x \in t.used : t.key[x] = k})

\* The tree is a map.  Its contents change when a node is linked or unlinked.
Contents ==
  LET live == {x \in t.used : x # 0}
  IN  [k \in {t.key[x] : x \in live} |-> t.value[CHOOSE x \in live : t.key[x] = k]]

Abstract == INSTANCE MapSpec WITH map <- Contents
ImplementsMap == Abstract!Spec

\* Every call returns.
CallsReturn == pc # "idle" ~> pc \in {"idle", "panic"}
=============================================================================
