-------------------------------- MODULE Trie --------------------------------
(***************************************************************************)
(* What the writer's tree and the file have in common: keys, read bit by   *)
(* bit from the most significant one, and the paths these bits take.       *)
(***************************************************************************)
EXTENDS Integers, Sequences, FiniteSets

CONSTANTS
  PrefixBits,   \* bits of a key; 64 in the code
  Values,       \* the DataItems a client inserts
  Nil,          \* the nil DataItem: nothing to store
  Hash          \* the 32-bit hash of a value's serialization

ASSUME TrieAssumption ==
  /\ PrefixBits \in Nat \ {0}
  /\ Nil \notin Values
  /\ DOMAIN Hash = Values

HashKeys == {Hash[v] : v \in Values}

Bit == {0, 1}
Keys == [1..PrefixBits -> Bit]
Paths == UNION {[1..d -> Bit] : d \in 1..PrefixBits}

\* The record find reaches after d bits of key k, and its sibling.
Path(k, d) == [i \in 1..d |-> k[i]]
Sibling(k, d) == [i \in 1..d |-> IF i = d THEN 1 - k[i] ELSE k[i]]

\* p is on the way to k; p hangs off that way (its parent is on it);
\* p is in the subtree of the record at depth d of that way.
OnPath(p, k) == \A i \in 1..Len(p) : p[i] = k[i]
OffPath(p, k) == \A i \in 1..(Len(p) - 1) : p[i] = k[i]
Below(p, k, d) == Len(p) > d /\ \A i \in 1..d : p[i] = k[i]
=============================================================================
