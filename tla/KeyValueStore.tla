--------------------------- MODULE KeyValueStore ---------------------------
(***************************************************************************)
(* What the index promises its user, with no tree, no hashes and no file:  *)
(* a map from keys to values in which writing a key replaces its value and *)
(* touches no other key.  Writing Nil takes the key out of the map.        *)
(***************************************************************************)
CONSTANTS Keys, Values, Nil

VARIABLE db

Init == db = [k \in Keys |-> Nil]

Put(k, v) == db' = [db EXCEPT ![k] = v]

Next == \E k \in Keys, v \in Values \cup {Nil} : Put(k, v)

Spec == Init /\ [][Next]_db
=============================================================================
