------------------------------ MODULE MapSpec ------------------------------
(***************************************************************************)
(* What the interface that map.g, avl_map.g and rb_map.g share promises: a *)
(* finite map from strings to words.  result is what the last completed    *)
(* call gave back: the call, and a sequence of pairs of a key and a value. *)
(***************************************************************************)
EXTENDS Integers, Sequences, FiniteSets

CONSTANTS Keys, Values

VARIABLES map, result

Result(op, out) == [op |-> op, out |-> out]
Bool(b) == IF b THEN 1 ELSE 0

Init == map = [k \in {} |-> 0] /\ result = Result("init", <<>>)

\* map_destroy, and map_init for the next map.
map_destroy == map' = [k \in {} |-> 0] /\ result' = Result("destroy", <<>>)

map_set(k, v) ==
  /\ map' = [j \in DOMAIN map \union {k} |-> IF j = k THEN v ELSE map[j]]
  /\ result' = Result("set", <<>>)

map_erase(k) ==
  /\ map' = [j \in DOMAIN map \ {k} |-> map[j]]
  /\ result' = Result("erase", <<>>)

\* The key must be there: anything else stops the system.
map_at(k) ==
  /\ result' = IF k \in DOMAIN map THEN Result("at", << <<k, map[k]>> >>)
                                   ELSE Result("panic", <<>>)
  /\ UNCHANGED map

map_has(k) ==
  /\ result' = Result("has", << <<k, Bool(k \in DOMAIN map)>> >>)
  /\ UNCHANGED map

map_size ==
  /\ result' = Result("size", << <<0, Cardinality(DOMAIN map)>> >>)
  /\ UNCHANGED map

\* Every pair is visited once, in an order of the implementation's choice.
map_foreach ==
  /\ result'.op = "foreach"
  /\ Len(result'.out) = Cardinality(DOMAIN map)
  /\ {result'.out[i] : i \in DOMAIN result'.out} = {<<k, map[k]>> : k \in DOMAIN map}
  /\ UNCHANGED map

Next ==
  /\ result.op # "panic"
  /\ \/ \E k \in Keys, v \in Values : map_set(k, v)
     \/ \E k \in Keys : map_erase(k) \/ map_at(k) \/ map_has(k)
     \/ map_size \/ map_foreach \/ map_destroy

Spec == Init /\ [][Next]_<<map, result>>
=============================================================================
