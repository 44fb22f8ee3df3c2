---------------------------- MODULE MCBinaryTree ----------------------------
(***************************************************************************)
(* Small instances of BinaryTree for TLC.                                  *)
(***************************************************************************)
EXTENDS BinaryTree, TLC

CONSTANTS v1, v2, v3

EntrySymmetry == Permutations(EntryIds)

\* A hash without collisions, and one in which v1 and v2 collide.
InjectiveHash == [v \in Values |-> v]
CollidingHash == [v \in Values |-> IF v = v2 THEN v1 ELSE v]

\* filterEmptyFields: v1 has nothing in it, v2 loses a field and becomes v3
\* where v3 is a value, and any other value is left alone.
FilterFields ==
  [v \in Values |-> CASE v = v1 -> Nil
                      [] v = v2 /\ v3 \in Values -> v3
                      [] OTHER -> v]
=============================================================================
