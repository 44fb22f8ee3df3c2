------------------------------ MODULE MCReader ------------------------------
(***************************************************************************)
(* Small instances of Reader for TLC.                                      *)
(***************************************************************************)
EXTENDS Reader

CONSTANTS v1, v2

InjectiveHash == [v \in Values |-> v]

\* An empty database, and any values below the left child of the root, with
\* one key at the full depth below the right one.
Nothing == [k \in Keys |-> Nil]
OneKey == [Nothing EXCEPT ![KeyOfId(2^PrefixBits - 2)] = v1]
SomeContents ==
  {Nothing} \cup
  {[k \in Keys |-> IF k[1] = 0 THEN left[k] ELSE OneKey[k]] :
     left \in [{k \in Keys : k[1] = 0} -> Values \cup {Nil}]}
=============================================================================
