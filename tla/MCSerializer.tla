---------------------------- MODULE MCSerializer ----------------------------
(***************************************************************************)
(* A small instance of Serializer for TLC.                                 *)
(***************************************************************************)
EXTENDS Serializer, TLC

CONSTANTS v1, v2, v3

EntrySymmetry == Permutations(EntryIds)
InjectiveHash == [v \in Values |-> v]

\* filterEmptyFields: v1 has nothing in it, v2 and v3 are left alone.
FilterFields == [v \in Values |-> IF v = v1 THEN Nil ELSE v]

\* The two children of the root never join, so the left half of the keys shows
\* every join, and one key of the right half what goes on beside it.  Of a
\* value that the filter leaves alone, InsertDefaultNull is Insert.
UsedKeys == {k \in Keys : k[1] = 0 \/ k[2] + k[3] = 0}
WriterNext == Calls(UsedKeys, {v \in Values : Filtered[v] # v})
WriterSpec == SerializerInit /\ [][WriterNext]_allVars

\* Ids are not read while totalNodes is 0: prepare gives new ones.
LiveState ==
  <<vars, totalNodes, IF totalNodes = 0 THEN <<>> ELSE nodeId, file, failed>>
=============================================================================
