------------------------------ MODULE TrieProofs ------------------------------
(***************************************************************************)
(* Proofs about Trie and DbFile: paths, the numbers that prepare gives to  *)
(* the nodes, the layout of the file of a trie, and what Find reads in it. *)
(***************************************************************************)
EXTENDS DbFile, NumberLemmas, TLAPS, FiniteSetTheorems, SequenceTheorems

USE DEF Bit
-----------------------------------------------------------------------------
(***************************************************************************)
(* Paths.                                                                  *)
(***************************************************************************)

\* A path of d bits is a function on 1..d, and Len gives d back.
LEMMA PathsLen ==
  ASSUME NEW d \in 1..PrefixBits, NEW p \in [1..d -> Bit]
  PROVE  p \in Paths /\ Len(p) = d
<1>1. p \in Seq(Bit)
  <2>1. d \in Nat
    BY TrieAssumption
  <2> QED BY <2>1, SeqDef
<1>2. DOMAIN p = 1..d
  OBVIOUS
<1>3. Len(p) = d
  BY <1>1, <1>2, LenProperties, TrieAssumption
<1> QED BY <1>3, TrieAssumption DEF Paths

LEMMA PathType ==
  ASSUME NEW k \in Keys, NEW d \in 1..PrefixBits
  PROVE  /\ Path(k, d) \in Paths /\ Len(Path(k, d)) = d
         /\ Sibling(k, d) \in Paths /\ Len(Sibling(k, d)) = d
<1>1. Path(k, d) \in [1..d -> Bit] /\ Sibling(k, d) \in [1..d -> Bit]
  BY TrieAssumption DEF Path, Sibling, Keys
<1> QED BY <1>1, PathsLen

\* Every path leads on to some key.
LEMMA PathOfKey ==
  ASSUME NEW p \in Paths
  PROVE  Len(p) \in 1..PrefixBits /\ \E k \in Keys : p = Path(k, Len(p))
<1>1. PICK d \in 1..PrefixBits : p \in [1..d -> Bit]
  BY DEF Paths
<1>2. Len(p) = d
  BY <1>1, PathsLen
<1> DEFINE k == [i \in 1..PrefixBits |-> IF i <= d THEN p[i] ELSE 0]
<1>3. k \in Keys
  BY <1>1, TrieAssumption DEF Keys
<1>4. p = Path(k, d)
  BY <1>1, TrieAssumption DEF Path
<1> QED BY <1>2, <1>3, <1>4

\* Two paths are the same when they are as long and have the same bits.
LEMMA PathEqual ==
  ASSUME NEW k \in Keys, NEW d \in 1..PrefixBits,
         NEW l \in Keys, NEW e \in 1..PrefixBits
  PROVE  Path(k, d) = Path(l, e) <=> d = e /\ \A i \in 1..d : k[i] = l[i]
<1>1. ASSUME Path(k, d) = Path(l, e) PROVE d = e /\ \A i \in 1..d : k[i] = l[i]
  <2>1. d = e
    BY <1>1, PathType
  <2>2. \A i \in 1..d : Path(k, d)[i] = k[i] /\ Path(l, d)[i] = l[i]
    BY DEF Path
  <2> QED BY <1>1, <2>1, <2>2
<1>2. ASSUME d = e, \A i \in 1..d : k[i] = l[i] PROVE Path(k, d) = Path(l, e)
  BY <1>2 DEF Path
<1> QED BY <1>1, <1>2

\* Two keys have a first bit in which they differ.
LEMMA FirstDifference ==
  ASSUME NEW k \in Keys, NEW l \in Keys, NEW m \in 0..PrefixBits,
         ~ \A i \in 1..m : k[i] = l[i]
  PROVE  \E f \in 1..m : k[f] # l[f] /\ \A i \in 1..(f - 1) : k[i] = l[i]
<1> DEFINE D == {i \in 1..m : k[i] # l[i]}
<1>1. D # {} /\ D \in SUBSET Nat
  BY TrieAssumption
<1>2. PICK f \in D : \A n \in D : f <= n
  BY <1>1, LeastNumber
<1>3. \A i \in 1..(f - 1) : k[i] = l[i]
  BY <1>2, TrieAssumption
<1> QED BY <1>2, <1>3

LEMMA PathsFinite == IsFiniteSet(Paths)
<1> DEFINE T == SUBSET ((-PrefixBits)..PrefixBits)
           f == [p \in Paths |-> {i \in 1..Len(p) : p[i] = 1} \cup {-Len(p)}]
<1>0. PrefixBits \in Int /\ -PrefixBits \in Int
  BY TrieAssumption
<1>1. \A p \in Paths : /\ Len(p) \in 1..PrefixBits /\ p = [i \in 1..Len(p) |-> p[i]]
                       /\ \A i \in 1..Len(p) : p[i] \in {0, 1}
  BY PathsLen DEF Paths
<1>2. IsFiniteSet(T)
  <2>1. IsFiniteSet((-PrefixBits)..PrefixBits)
    BY <1>0, FS_Interval
  <2> QED BY <2>1, FS_SUBSET, Zenon
<1>3. f \in [Paths -> T]
  <2> SUFFICES ASSUME NEW p \in Paths
               PROVE  {i \in 1..Len(p) : p[i] = 1} \cup {-Len(p)} \in T
    OBVIOUS
  <2>1. Len(p) \in 1..PrefixBits
    BY <1>1
  <2> QED BY <1>0, <2>1
<1>4. ASSUME NEW p \in Paths, NEW q \in Paths, f[p] = f[q] PROVE p = q
  <2>1. {i \in 1..Len(p) : p[i] = 1} \cup {-Len(p)} = {i \in 1..Len(q) : q[i] = 1} \cup {-Len(q)}
    BY <1>4
  <2>2. Len(p) \in 1..PrefixBits /\ Len(q) \in 1..PrefixBits
    BY <1>1
  <2>3. Len(p) = Len(q)
    <3>1. -Len(p) \in {i \in 1..Len(q) : q[i] = 1} \cup {-Len(q)}
      BY <2>1
    <3>2. -Len(p) \notin 1..Len(q)
      BY <1>0, <2>2
    <3>3. -Len(p) = -Len(q)
      BY <3>1, <3>2
    <3> QED BY <1>0, <2>2, <3>3
  <2>4. ASSUME NEW i \in 1..Len(p) PROVE p[i] = q[i]
    <3>1. i # -Len(p) /\ i # -Len(q)
      BY <1>0, <2>2
    <3>2. p[i] = 1 <=> q[i] = 1
      BY <2>1, <2>3, <3>1
    <3> QED BY <1>1, <2>3, <3>2
  <2> QED BY <1>1, <2>3, <2>4
<1> HIDE DEF T, f
<1>5. f \in Injection(Paths, T)
  BY <1>3, <1>4 DEF Injection, IsInjective
<1> QED BY <1>2, <1>5, FS_Injection
-----------------------------------------------------------------------------
(***************************************************************************)
(* The order of the nodes.                                                 *)
(***************************************************************************)
Places == {Root} \cup Paths

LEMMA PlaceType ==
  ASSUME NEW p \in Places
  PROVE  /\ Len(p) \in 0..PrefixBits /\ p \in [1..Len(p) -> Bit]
         /\ Len(p) \in Nat /\ \A i \in 1..Len(p) : p[i] \in {0, 1}
         /\ p = [i \in 1..Len(p) |-> p[i]]
         /\ Len(p) > 0 => p \in Paths
<1>1. CASE p = Root
  BY <1>1, TrieAssumption DEF Root
<1>2. CASE p \in Paths
  <2>1. PICK d \in 1..PrefixBits : p \in [1..d -> Bit]
    BY <1>2 DEF Paths
  <2>2. Len(p) = d
    BY <2>1, PathsLen
  <2> QED BY <1>2, <2>1, <2>2, TrieAssumption
<1> QED BY <1>1, <1>2 DEF Places

LEMMA PlacesFinite == IsFiniteSet(Places)
<1>1. Places = Paths \cup {Root}
  BY DEF Places
<1>2. IsFiniteSet(Paths \cup {Root})
  BY PathsFinite, FS_AddElement
<1> QED BY <1>1, <1>2

LEMMA BeforeIrreflexive ==
  ASSUME NEW p \in Places
  PROVE  ~Before(p, p)
<1>1. Len(p) \in 0..PrefixBits /\ \A i \in 1..Len(p) : p[i] \in {0, 1}
  BY PlaceType
<1> QED BY <1>1 DEF Before

LEMMA BeforeTransitive ==
  ASSUME NEW p \in Places, NEW q \in Places, NEW r \in Places, Before(p, q), Before(q, r)
  PROVE  Before(p, r)
<1>0. /\ Len(p) \in Nat /\ \A i \in 1..Len(p) : p[i] \in {0, 1}
      /\ Len(q) \in Nat /\ \A i \in 1..Len(q) : q[i] \in {0, 1}
      /\ Len(r) \in Nat /\ \A i \in 1..Len(r) : r[i] \in {0, 1}
  BY PlaceType, TrieAssumption
<1>1. CASE Len(p) < Len(q) /\ \A i \in 1..Len(p) : p[i] = q[i]
  <2>1. CASE Len(q) < Len(r) /\ \A i \in 1..Len(q) : q[i] = r[i]
    BY <1>0, <1>1, <2>1 DEF Before
  <2>2. CASE \E i \in 1..Len(q) : /\ i <= Len(r) /\ q[i] < r[i]
                                  /\ \A h \in 1..(i - 1) : q[h] = r[h]
    <3>1. PICK i \in 1..Len(q) : /\ i <= Len(r) /\ q[i] < r[i]
                                 /\ \A h \in 1..(i - 1) : q[h] = r[h]
      BY <2>2
    <3>2. CASE i <= Len(p)
      <4>1. i \in 1..Len(p) /\ p[i] < r[i] /\ \A h \in 1..(i - 1) : p[h] = r[h]
        BY <1>0, <1>1, <3>1, <3>2
      <4> QED BY <3>1, <4>1 DEF Before
    <3>3. CASE i > Len(p)
      <4>1. Len(p) < Len(r) /\ \A h \in 1..Len(p) : p[h] = r[h]
        BY <1>0, <1>1, <3>1, <3>3
      <4> QED BY <4>1 DEF Before
    <3> QED BY <1>0, <3>2, <3>3
  <2> QED BY <2>1, <2>2 DEF Before
<1>2. CASE \E i \in 1..Len(p) : /\ i <= Len(q) /\ p[i] < q[i]
                                /\ \A h \in 1..(i - 1) : p[h] = q[h]
  <2>0. PICK i \in 1..Len(p) : /\ i <= Len(q) /\ p[i] < q[i]
                               /\ \A h \in 1..(i - 1) : p[h] = q[h]
    BY <1>2
  <2>1. CASE Len(q) < Len(r) /\ \A j \in 1..Len(q) : q[j] = r[j]
    <3>1. i <= Len(r) /\ p[i] < r[i] /\ \A h \in 1..(i - 1) : p[h] = r[h]
      BY <1>0, <2>0, <2>1
    <3> QED BY <3>1 DEF Before
  <2>2. CASE \E j \in 1..Len(q) : /\ j <= Len(r) /\ q[j] < r[j]
                                  /\ \A h \in 1..(j - 1) : q[h] = r[h]
    <3>1. PICK j \in 1..Len(q) : /\ j <= Len(r) /\ q[j] < r[j]
                                 /\ \A h \in 1..(j - 1) : q[h] = r[h]
      BY <2>2
    <3>2. CASE i < j
      <4>1. i <= Len(r) /\ p[i] < r[i] /\ \A h \in 1..(i - 1) : p[h] = r[h]
        BY <1>0, <2>0, <3>1, <3>2
      <4> QED BY <4>1 DEF Before
    <3>3. CASE i = j
      <4>1. p[i] < r[i]
        BY <1>0, <2>0, <3>1, <3>3
      <4>2. \A h \in 1..(i - 1) : p[h] = r[h]
        BY <1>0, <2>0, <3>1, <3>3
      <4> QED BY <3>1, <3>3, <4>1, <4>2 DEF Before
    <3>4. CASE i > j
      <4>1. j \in 1..Len(p) /\ p[j] < r[j] /\ \A h \in 1..(j - 1) : p[h] = r[h]
        BY <1>0, <2>0, <3>1, <3>4
      <4> QED BY <3>1, <4>1 DEF Before
    <3> QED BY <3>2, <3>3, <3>4
  <2> QED BY <2>1, <2>2 DEF Before
<1> QED BY <1>1, <1>2 DEF Before

LEMMA BeforeTotal ==
  ASSUME NEW p \in Places, NEW q \in Places, p # q
  PROVE  Before(p, q) \/ Before(q, p)
<1>0. /\ Len(p) \in Nat /\ \A i \in 1..Len(p) : p[i] \in {0, 1}
      /\ Len(q) \in Nat /\ \A i \in 1..Len(q) : q[i] \in {0, 1}
      /\ p = [i \in 1..Len(p) |-> p[i]] /\ q = [i \in 1..Len(q) |-> q[i]]
  BY PlaceType, TrieAssumption
<1> DEFINE D == {i \in Nat : i \in 1..Len(p) /\ i \in 1..Len(q) /\ p[i] # q[i]}
<1>1. CASE D = {}
  <2>1. \A i \in Nat : i \in 1..Len(p) /\ i \in 1..Len(q) => p[i] = q[i]
    BY <1>1
  <2>2. CASE Len(p) = Len(q)
    <3>1. \A i \in 1..Len(p) : p[i] = q[i]
      BY <2>1, <2>2
    <3> QED BY <1>0, <2>2, <3>1
  <2>3. CASE Len(p) < Len(q)
    <3>1. \A i \in 1..Len(p) : p[i] = q[i]
      BY <1>0, <2>1, <2>3
    <3> QED BY <2>3, <3>1 DEF Before
  <2>4. CASE Len(q) < Len(p)
    <3>1. \A i \in 1..Len(q) : q[i] = p[i]
      BY <1>0, <2>1, <2>4
    <3> QED BY <2>4, <3>1 DEF Before
  <2>5. Len(p) = Len(q) \/ Len(p) < Len(q) \/ Len(q) < Len(p)
    <3>1. \A a \in Nat, b \in Nat : a = b \/ a < b \/ b < a
      OBVIOUS
    <3> QED BY <1>0, <3>1, Zenon
  <2> QED BY <2>2, <2>3, <2>4, <2>5
<1>2. CASE D # {}
  <2>1. D \in SUBSET Nat
    OBVIOUS
  <2>2. PICK f \in D : \A n \in D : f <= n
    <3> HIDE DEF D
    <3> QED BY <1>2, <2>1, LeastNumber
  <2>3. \A h \in 1..(f - 1) : p[h] = q[h]
    <3> TAKE h \in 1..(f - 1)
    <3>1. h \in Nat /\ h \in 1..Len(p) /\ h \in 1..Len(q) /\ ~(f <= h)
      BY <1>0, <2>2
    <3>2. h \notin D
      BY <2>2, <3>1
    <3> QED BY <3>1, <3>2
  <2>4. f \in 1..Len(p) /\ f \in 1..Len(q) /\ p[f] # q[f]
    BY <2>2
  <2> HIDE DEF D
  <2>5. p[f] < q[f] \/ q[f] < p[f]
    BY <1>0, <2>4
  <2> QED BY <1>0, <2>3, <2>4, <2>5 DEF Before
<1> QED BY <1>1, <1>2
-----------------------------------------------------------------------------
(***************************************************************************)
(* prepare: the numbers of the nodes.                                      *)
(***************************************************************************)
LEMMA NodePathsFinite ==
  ASSUME NEW t
  PROVE  /\ NodePaths(t) \subseteq Places /\ IsFiniteSet(NodePaths(t))
         /\ Cardinality(NodePaths(t)) \in Nat /\ Cardinality(NodePaths(t)) > 0
<1>1. NodePaths(t) \subseteq Places /\ Root \in NodePaths(t)
  BY DEF NodePaths, Places
<1>2. IsFiniteSet(NodePaths(t))
  BY <1>1, PlacesFinite, FS_Subset
<1> QED BY <1>1, <1>2, FS_CardinalityType, FS_EmptySet

\* Node after node in the order of the walk, from 0 for the root on.
LEMMA PreorderNumbers ==
  ASSUME NEW t
  PROVE  /\ DOMAIN Preorder(t) = NodePaths(t)
         /\ Preorder(t)[Root] = 0
         /\ \A p \in NodePaths(t) :
              Preorder(t)[p] \in 0..(Cardinality(NodePaths(t)) - 1)
         /\ \A p, q \in NodePaths(t) : Before(p, q) => Preorder(t)[p] < Preorder(t)[q]
         /\ \A p, q \in NodePaths(t) : Preorder(t)[p] = Preorder(t)[q] => p = q
<1> DEFINE N == NodePaths(t)
           B(p) == {q \in N : Before(q, p)}
<1>1. N \subseteq Places /\ IsFiniteSet(N) /\ Cardinality(N) \in Nat
  BY NodePathsFinite
<1>2. DOMAIN Preorder(t) = N /\ \A p \in N : Preorder(t)[p] = Cardinality(B(p))
  BY DEF Preorder
<1>3. Root \in N
  BY DEF NodePaths
<1> HIDE DEF N
<1>4. \A p \in N : IsFiniteSet(B(p)) /\ Cardinality(B(p)) \in Nat /\ p \notin B(p)
  <2> TAKE p \in N
  <2>1. B(p) \in SUBSET N
    OBVIOUS
  <2>2. p \notin B(p)
    BY <1>1, BeforeIrreflexive
  <2> HIDE DEF B
  <2> QED BY <1>1, <2>1, <2>2, FS_Subset, FS_CardinalityType
<1>5. ASSUME NEW p \in N, NEW q \in N, Before(p, q)
      PROVE  Cardinality(B(p)) < Cardinality(B(q))
  <2>1. B(p) \in SUBSET B(q) /\ p \in B(q) /\ p \notin B(p)
    <3>1. \A r \in N : Before(r, p) => Before(r, q)
      BY <1>1, <1>5, BeforeTransitive
    <3> QED BY <1>4, <1>5, <3>1
  <2>2. Cardinality(B(p)) <= Cardinality(B(q)) /\ Cardinality(B(p)) # Cardinality(B(q))
    <3> HIDE DEF B
    <3> QED BY <1>4, <2>1, FS_Subset
  <2> HIDE DEF B
  <2> QED BY <1>4, <2>2
<1>6. \A p \in N : Cardinality(B(p)) < Cardinality(N)
  <2> TAKE p \in N
  <2>1. B(p) \in SUBSET N
    OBVIOUS
  <2> HIDE DEF B
  <2>2. Cardinality(B(p)) <= Cardinality(N) /\ Cardinality(B(p)) # Cardinality(N)
    BY <1>1, <1>4, <2>1, FS_Subset
  <2> QED BY <1>1, <1>4, <2>2
<1>7. B(Root) = {}
  <2> SUFFICES ASSUME NEW q \in N, Before(q, Root) PROVE FALSE
    OBVIOUS
  <2>1. Len(Root) = 0 /\ Len(q) \in Nat
    BY <1>1, PlaceType DEF Root
  <2>2. \A i \in 1..Len(q) : ~(i <= Len(Root))
    BY <2>1
  <2>3. ~(Len(q) < Len(Root))
    BY <2>1
  <2> QED BY <2>2, <2>3 DEF Before
<1>8. Cardinality(B(Root)) = 0
  BY <1>7, FS_EmptySet
<1>9. \A p, q \in N : Cardinality(B(p)) = Cardinality(B(q)) => p = q
  <2> SUFFICES ASSUME NEW p \in N, NEW q \in N, p # q
               PROVE  Cardinality(B(p)) # Cardinality(B(q))
    OBVIOUS
  <2>1. Before(p, q) \/ Before(q, p)
    BY <1>1, BeforeTotal
  <2> HIDE DEF B
  <2> QED BY <1>4, <1>5, <2>1
<1> HIDE DEF B
<1>10. \A p \in N : Preorder(t)[p] \in 0..(Cardinality(N) - 1)
  BY <1>1, <1>2, <1>4, <1>6
<1> QED BY <1>2, <1>3, <1>5, <1>8, <1>9, <1>10 DEF N
-----------------------------------------------------------------------------
(***************************************************************************)
(* Nodes and their children.                                               *)
(***************************************************************************)
Parent(p) == SubSeq(p, 1, Len(p) - 1)

LEMMA ChildType ==
  ASSUME NEW p \in Places, Len(p) < PrefixBits, NEW b \in Bit
  PROVE  /\ Child(p, b) \in Paths /\ Len(Child(p, b)) = Len(p) + 1
         /\ Child(p, b) = [i \in 1..(Len(p) + 1) |-> IF i = Len(p) + 1 THEN b ELSE p[i]]
         /\ Parent(Child(p, b)) = p /\ Child(p, b)[Len(p) + 1] = b
         /\ Before(p, Child(p, b))
<1> DEFINE d == Len(p)
           c == [i \in 1..(d + 1) |-> IF i = d + 1 THEN b ELSE p[i]]
<1>1. d \in Nat /\ d + 1 \in 1..PrefixBits /\ \A i \in 1..d : p[i] \in {0, 1}
  BY PlaceType, TrieAssumption
<1>2. p = [i \in 1..d |-> p[i]]
  BY PlaceType
<1>3. c \in [1..(d + 1) -> Bit]
  BY <1>1
<1>4. c \in Paths /\ Len(c) = d + 1
  <2> DEFINE e == d + 1
  <2>1. e \in 1..PrefixBits /\ c \in [1..e -> Bit]
    BY <1>1, <1>3
  <2> HIDE DEF e, c
  <2>2. c \in Paths /\ Len(c) = e
    BY <2>1, PathsLen
  <2> QED BY <2>2 DEF e
<1>5. Child(p, b) = c
  <2>1. p \in Seq(Bit)
    BY <1>1, <1>2
  <2> DEFINE q == Append(p, b)
  <2>2. q \in Seq(Bit) /\ Len(q) = d + 1 /\ q[d + 1] = b /\ \A i \in 1..d : q[i] = p[i]
    BY <1>1, <2>1
  <2> HIDE DEF q
  <2>3. q = [i \in 1..Len(q) |-> q[i]]
    BY <2>2
  <2>4. \A i \in 1..(d + 1) : q[i] = IF i = d + 1 THEN b ELSE p[i]
    BY <1>1, <2>2
  <2>5. q = c
    BY <2>2, <2>3, <2>4
  <2> QED BY <2>5 DEF Child, q
<1>6. Parent(c) = p
  <2>1. c \in Seq(Bit)
    BY <1>1, <1>3
  <2> HIDE DEF c
  <2>2. SubSeq(c, 1, d) = [i \in 1..d |-> c[i]]
    BY <1>1, <1>4, <2>1
  <2>3. \A i \in 1..d : c[i] = p[i]
    BY <1>1 DEF c
  <2>4. Len(c) - 1 = d
    BY <1>1, <1>4
  <2> QED BY <1>2, <2>2, <2>3, <2>4 DEF Parent
<1>7. Before(p, c)
  BY <1>1, <1>4 DEF Before
<1> QED BY <1>4, <1>5, <1>6, <1>7, <1>1

LEMMA ParentType ==
  ASSUME NEW p \in Paths
  PROVE  /\ Len(p) \in 1..PrefixBits /\ p[Len(p)] \in Bit
         /\ Parent(p) \in Places /\ Len(Parent(p)) = Len(p) - 1
         /\ \A i \in 1..(Len(p) - 1) : Parent(p)[i] = p[i]
         /\ Child(Parent(p), p[Len(p)]) = p
<1> DEFINE d == Len(p) - 1
           c == [i \in 1..d |-> p[i]]
<1>1. PICK n \in 1..PrefixBits : p \in [1..n -> Bit]
  BY DEF Paths
<1>2. Len(p) = n
  BY <1>1, PathsLen
<1>3. d \in Nat /\ d + 1 = n /\ p \in Seq(Bit) /\ n \in Nat
  BY <1>1, <1>2, TrieAssumption
<1>4. Parent(p) = c
  BY <1>1, <1>2, <1>3 DEF Parent
<1>5. c \in [1..d -> Bit]
  BY <1>1, <1>2, <1>3
<1>6. c \in Places /\ Len(c) = d
  <2>1. CASE d = 0
    <3>1. \A f \in [1..0 -> Bit] : f = <<>>
      OBVIOUS
    <3>2. c = <<>>
      <4> HIDE DEF c
      <4> QED BY <1>5, <2>1, <3>1
    <3> QED BY <2>1, <3>2 DEF Places, Root
  <2>2. CASE d > 0
    <3>1. d \in 1..PrefixBits
      BY <1>1, <1>2, <1>3, <2>2, TrieAssumption
    <3> HIDE DEF d, c
    <3> QED BY <1>5, <3>1, PathsLen DEF Places
  <2> QED BY <1>3, <2>1, <2>2
<1>7. Child(c, p[n]) = p
  <2>1. d < PrefixBits /\ p[n] \in Bit
    BY <1>1, <1>2, <1>3, TrieAssumption
  <2>2. \A i \in 1..d : c[i] = p[i]
    OBVIOUS
  <2> HIDE DEF c
  <2>3. Child(c, p[n]) = [i \in 1..(d + 1) |-> IF i = d + 1 THEN p[n] ELSE c[i]]
    BY <1>6, <2>1, ChildType
  <2>4. \A i \in 1..(d + 1) : p[i] = IF i = d + 1 THEN p[n] ELSE c[i]
    BY <1>2, <1>3, <2>2
  <2>5. p = [i \in 1..n |-> p[i]]
    BY <1>1
  <2> QED BY <1>3, <2>3, <2>4, <2>5
<1> QED BY <1>1, <1>2, <1>4, <1>6, <1>7

\* What a trie is: records hang on nodes, and a node has two records.
TrieOK(t) ==
  /\ \A p \in Paths : t[p].kind \in {"none", "empty", "data", "node"}
  /\ \A p \in Paths : t[p].kind # "none" => Parent(p) \in NodePaths(t)
  /\ \A p \in NodePaths(t) :
       Len(p) < PrefixBits /\ \A b \in Bit : t[Child(p, b)].kind # "none"

LEMMA PathParent ==
  ASSUME NEW k \in Keys, NEW e \in 1..PrefixBits
  PROVE  Parent(Path(k, e)) = IF e = 1 THEN Root ELSE Path(k, e - 1)
<1>1. Path(k, e) \in Paths /\ Len(Path(k, e)) = e
  BY PathType
<1>2. /\ Len(Parent(Path(k, e))) = e - 1
      /\ Parent(Path(k, e)) = [i \in 1..(e - 1) |-> Parent(Path(k, e))[i]]
      /\ \A i \in 1..(e - 1) : Parent(Path(k, e))[i] = Path(k, e)[i]
  BY <1>1, ParentType, PlaceType
<1>3. \A i \in 1..(e - 1) : Path(k, e)[i] = k[i]
  BY TrieAssumption DEF Path
<1>4. Parent(Path(k, e)) = [i \in 1..(e - 1) |-> k[i]]
  <2> DEFINE q == Parent(Path(k, e))
  <2> HIDE DEF q
  <2>1. q = [i \in 1..(e - 1) |-> q[i]] /\ \A i \in 1..(e - 1) : q[i] = k[i]
    BY <1>2, <1>3 DEF q
  <2>2. q = [i \in 1..(e - 1) |-> k[i]]
    BY <2>1
  <2> QED BY <2>2 DEF q
<1>5. CASE e = 1
  <2>1. [i \in 1..(e - 1) |-> k[i]] = <<>>
    BY <1>5
  <2> QED BY <1>4, <1>5, <2>1 DEF Root
<1>6. CASE e # 1
  BY <1>4, <1>6 DEF Path
<1> QED BY <1>5, <1>6
-----------------------------------------------------------------------------
(***************************************************************************)
(* The layout of a file.                                                   *)
(***************************************************************************)

\* The smaller of two elements of a finite set has fewer below it.
LEMMA Ranks ==
  ASSUME NEW S, IsFiniteSet(S), NEW s \in [S -> Nat]
  PROVE  /\ \A x \in S : Cardinality({z \in S : s[z] < s[x]}) \in Nat
         /\ \A x, y \in S : s[x] < s[y] =>
              Cardinality({z \in S : s[z] < s[x]}) < Cardinality({z \in S : s[z] < s[y]})
<1> DEFINE B(x) == {z \in S : s[z] < s[x]}
<1>1. \A x \in S : IsFiniteSet(B(x)) /\ Cardinality(B(x)) \in Nat
  <2> TAKE x \in S
  <2>1. B(x) \in SUBSET S
    OBVIOUS
  <2> HIDE DEF B
  <2> QED BY <2>1, FS_Subset, FS_CardinalityType
<1>2. ASSUME NEW x \in S, NEW y \in S, s[x] < s[y] PROVE Cardinality(B(x)) < Cardinality(B(y))
  <2>1. B(x) \in SUBSET B(y) /\ x \in B(y) /\ x \notin B(x)
    BY <1>2
  <2>2. Cardinality(B(x)) <= Cardinality(B(y)) /\ Cardinality(B(x)) # Cardinality(B(y))
    <3> HIDE DEF B
    <3> QED BY <1>1, <2>1, FS_Subset
  <2> HIDE DEF B
  <2> QED BY <1>1, <2>2
<1> QED BY <1>1, <1>2

Slot(t) == [p \in DataPaths(t) |-> 2 * Preorder(t)[Parent(p)] + p[Len(p)]]
Hashes(t) == {HashOf(t, p) : p \in DataPaths(t)}
IsFirst(t, h, p) ==
  /\ HashOf(t, p) = h
  /\ \A q \in DataPaths(t) : HashOf(t, q) = h => Slot(t)[p] <= Slot(t)[q]
First(t) == [h \in Hashes(t) |-> CHOOSE p \in DataPaths(t) : IsFirst(t, h, p)]
Position(t) == [h \in Hashes(t) |->
  Cardinality({g \in Hashes(t) : Slot(t)[First(t)[g]] < Slot(t)[First(t)[h]]})]

LEMMA LayoutParts ==
  ASSUME NEW t
  PROVE  /\ Layout(t).node = [n \in {Preorder(t)[p] : p \in NodePaths(t)} |->
                                CHOOSE p \in NodePaths(t) : Preorder(t)[p] = n]
         /\ Layout(t).first = First(t)
         /\ Layout(t).position = Position(t)
BY DEF Layout, First, Position, IsFirst, Slot, Hashes, Parent

\* Every number names its node.
LEMMA NodeOfNumber ==
  ASSUME NEW t
  PROVE  /\ DOMAIN Layout(t).node = {Preorder(t)[p] : p \in NodePaths(t)}
         /\ \A p \in NodePaths(t) : Preorder(t)[p] \in DOMAIN Layout(t).node
                                    /\ Layout(t).node[Preorder(t)[p]] = p
         /\ \A n \in DOMAIN Layout(t).node :
              Layout(t).node[n] \in NodePaths(t) /\ Preorder(t)[Layout(t).node[n]] = n
<1> DEFINE f == Layout(t).node
           num == Preorder(t)
           N == NodePaths(t)
<1>1. f = [n \in {num[p] : p \in N} |-> CHOOSE p \in N : num[p] = n]
  BY LayoutParts
<1>2. \A p, q \in N : num[p] = num[q] => p = q
  BY PreorderNumbers
<1> HIDE DEF f, num, N
<1>3. DOMAIN f = {num[p] : p \in N}
  BY <1>1
<1>4. \A p \in N : num[p] \in DOMAIN f /\ f[num[p]] = p
  BY <1>1, <1>2
<1>5. \A n \in DOMAIN f : f[n] \in N /\ num[f[n]] = n
  BY <1>3, <1>4
<1> QED BY <1>3, <1>4, <1>5 DEF f, num, N

\* No two values are written from the same place.
LEMMA SlotInjective ==
  ASSUME NEW t, TrieOK(t)
  PROVE  /\ Slot(t) \in [DataPaths(t) -> Nat]
         /\ \A p, q \in DataPaths(t) : Slot(t)[p] = Slot(t)[q] => p = q
<1> DEFINE num == Preorder(t)
<1>1. \A p \in DataPaths(t) : p \in Paths /\ Parent(p) \in NodePaths(t) /\ p[Len(p)] \in {0, 1}
                              /\ Child(Parent(p), p[Len(p)]) = p
  BY ParentType DEF DataPaths, TrieOK
<1>2. \A p \in NodePaths(t) : num[p] \in Nat
  <2>1. \A p \in NodePaths(t) : num[p] \in 0..(Cardinality(NodePaths(t)) - 1)
    BY PreorderNumbers
  <2> QED BY <2>1
<1>3. \A p, q \in NodePaths(t) : num[p] = num[q] => p = q
  BY PreorderNumbers
<1>4. Slot(t) = [p \in DataPaths(t) |-> 2 * num[Parent(p)] + p[Len(p)]]
  BY DEF Slot
<1> HIDE DEF num
<1>5. ASSUME NEW p \in DataPaths(t)
      PROVE  Slot(t)[p] = 2 * num[Parent(p)] + p[Len(p)] /\ Slot(t)[p] \in Nat
  BY <1>1, <1>2, <1>4
<1>6. ASSUME NEW p \in DataPaths(t), NEW q \in DataPaths(t), Slot(t)[p] = Slot(t)[q] PROVE p = q
  <2>1. 2 * num[Parent(p)] + p[Len(p)] = 2 * num[Parent(q)] + q[Len(q)]
    BY <1>5, <1>6
  <2>2. \A a \in Nat, b \in Nat, c \in {0, 1}, d \in {0, 1} :
          2 * a + c = 2 * b + d => a = b /\ c = d
    OBVIOUS
  <2>3. num[Parent(p)] = num[Parent(q)] /\ p[Len(p)] = q[Len(q)]
    BY <1>1, <1>2, <2>1, <2>2
  <2> QED BY <1>1, <1>3, <2>3
<1> QED BY <1>4, <1>5, <1>6

LEMMA FirstOK ==
  ASSUME NEW t, TrieOK(t), NEW h \in Hashes(t)
  PROVE  First(t)[h] \in DataPaths(t) /\ HashOf(t, First(t)[h]) = h
<1> DEFINE D == {q \in DataPaths(t) : HashOf(t, q) = h}
           S == {Slot(t)[q] : q \in D}
<1>1. S \in SUBSET Nat /\ S # {}
  <2>1. PICK p \in DataPaths(t) : HashOf(t, p) = h
    BY DEF Hashes
  <2>2. Slot(t)[p] \in S
    BY <2>1
  <2>3. \A q \in D : Slot(t)[q] \in Nat
    BY SlotInjective
  <2> QED BY <2>2, <2>3
<1>2. PICK n \in S : \A i \in S : n <= i
  <2> HIDE DEF S
  <2> QED BY <1>1, LeastNumber
<1>3. PICK p \in D : n = Slot(t)[p]
  OBVIOUS
<1>4. IsFirst(t, h, p)
  BY <1>2, <1>3 DEF IsFirst
<1>5. First(t)[h] = CHOOSE q \in DataPaths(t) : IsFirst(t, h, q)
  BY DEF First
<1>6. First(t)[h] \in DataPaths(t) /\ IsFirst(t, h, First(t)[h])
  BY <1>4, <1>5
<1> QED BY <1>6 DEF IsFirst

LEMMA HashesFinite ==
  ASSUME NEW t
  PROVE  IsFiniteSet(Hashes(t))
<1> DEFINE f == [p \in DataPaths(t) |-> HashOf(t, p)]
<1>1. IsFiniteSet(DataPaths(t))
  <2>1. DataPaths(t) \in SUBSET Places
    BY DEF DataPaths, Places
  <2> QED BY <2>1, PlacesFinite, FS_Subset
<1>2. f \in Surjection(DataPaths(t), Hashes(t))
  BY DEF Surjection, Hashes
<1> HIDE DEF f
<1> QED BY <1>1, <1>2, FS_Surjection

\* Values of different hashes have places of their own.
LEMMA PositionsDiffer ==
  ASSUME NEW t, TrieOK(t)
  PROVE  /\ DOMAIN Position(t) = Hashes(t)
         /\ \A h \in Hashes(t) : Position(t)[h] \in Nat
         /\ \A g, h \in Hashes(t) : Position(t)[g] = Position(t)[h] => g = h
<1> DEFINE H == Hashes(t)
           s == [h \in H |-> Slot(t)[First(t)[h]]]
<1>1. IsFiniteSet(H)
  BY HashesFinite
<1>2. s \in [H -> Nat]
  BY FirstOK, SlotInjective
<1>3. \A g, h \in H : s[g] = s[h] => g = h
  <2> SUFFICES ASSUME NEW g \in H, NEW h \in H, s[g] = s[h] PROVE g = h
    OBVIOUS
  <2>1. First(t)[g] = First(t)[h]
    BY FirstOK, SlotInjective
  <2> QED BY <2>1, FirstOK
<1>4. Position(t) = [h \in H |-> Cardinality({g \in H : s[g] < s[h]})]
  <2>1. \A h \in H : {g \in H : Slot(t)[First(t)[g]] < Slot(t)[First(t)[h]]} = {g \in H : s[g] < s[h]}
    OBVIOUS
  <2> QED BY <2>1 DEF Position
<1> HIDE DEF s, H
<1>5. /\ \A h \in H : Position(t)[h] \in Nat
      /\ \A g, h \in H : s[g] < s[h] => Position(t)[g] < Position(t)[h]
  <2>1. /\ \A x \in H : Cardinality({z \in H : s[z] < s[x]}) \in Nat
        /\ \A x, y \in H : s[x] < s[y] =>
             Cardinality({z \in H : s[z] < s[x]}) < Cardinality({z \in H : s[z] < s[y]})
    BY <1>1, <1>2, Ranks
  <2> QED BY <1>4, <2>1
<1>6. \A g, h \in H : Position(t)[g] = Position(t)[h] => g = h
  <2> SUFFICES ASSUME NEW g \in H, NEW h \in H, g # h PROVE Position(t)[g] # Position(t)[h]
    OBVIOUS
  <2>1. s[g] # s[h] /\ s[g] \in Nat /\ s[h] \in Nat
    BY <1>2, <1>3
  <2>2. s[g] < s[h] \/ s[h] < s[g]
    BY <2>1
  <2> QED BY <1>5, <2>2
<1>7. DOMAIN Position(t) = H
  BY <1>4
<1> QED BY <1>5, <1>6, <1>7 DEF H
-----------------------------------------------------------------------------
(***************************************************************************)
(* The file that a trie is written to.                                     *)
(***************************************************************************)
FileOfTrie(t, count) ==
  File(t, Layout(t), Preorder(t), Cardinality(NodePaths(t)), count)
\* The number that stands for the record at p.
NumberAt(t, p) == NodeValue(t, Layout(t), Preorder(t), Cardinality(NodePaths(t)), p)
\* Every leaf that has data has a value (otherwise Serialize panics).
HasValues(t) == \A p \in Paths : t[p].kind = "data" => t[p].value \in Values

LEMMA FileNodes ==
  ASSUME NEW t, TrieOK(t), NEW count
  PROVE  /\ FileOfTrie(t, count).nodeCount = Cardinality(NodePaths(t))
         /\ DOMAIN FileOfTrie(t, count).nodes = DOMAIN Layout(t).node
         /\ \A p \in NodePaths(t), b \in Bit :
              FileOfTrie(t, count).nodes[Preorder(t)[p]][b] = NumberAt(t, Child(p, b))
<1> DEFINE f == FileOfTrie(t, count)
<1>1. /\ f.nodeCount = Cardinality(NodePaths(t))
      /\ f.nodes = [n \in DOMAIN Layout(t).node |->
                      [b \in Bit |-> NumberAt(t, Child(Layout(t).node[n], b))]]
  BY DEF FileOfTrie, File, NumberAt
<1> HIDE DEF f
<1>2. \A p \in NodePaths(t) : Preorder(t)[p] \in DOMAIN Layout(t).node
                              /\ Layout(t).node[Preorder(t)[p]] = p
  BY NodeOfNumber
<1> QED BY <1>1, <1>2 DEF f

\* The numbers tell the kinds of records apart.
LEMMA NumberKinds ==
  ASSUME NEW t, TrieOK(t), HasValues(t), NEW p \in Paths
  PROVE  LET N == Cardinality(NodePaths(t))
             h == HashOf(t, p)
         IN  /\ t[p].kind = "node" => p \in NodePaths(t) /\ NumberAt(t, p) = Preorder(t)[p]
                                      /\ NumberAt(t, p) \in 0..(N - 1)
             /\ t[p].kind = "empty" => NumberAt(t, p) = N
             /\ t[p].kind = "data" => /\ p \in DataPaths(t) /\ h \in Hashes(t)
                                      /\ NumberAt(t, p) = N + Separator + Position(t)[h]
                                      /\ NumberAt(t, p) \in Nat /\ NumberAt(t, p) > N
<1> DEFINE N == Cardinality(NodePaths(t))
           h == HashOf(t, p)
<1>1. N \in Nat
  BY NodePathsFinite
<1>2. ASSUME t[p].kind = "node"
      PROVE  p \in NodePaths(t) /\ NumberAt(t, p) = Preorder(t)[p] /\ NumberAt(t, p) \in 0..(N - 1)
  <2>1. p \in NodePaths(t)
    BY <1>2 DEF NodePaths
  <2>2. NumberAt(t, p) = Preorder(t)[p]
    BY <1>2 DEF NumberAt, NodeValue
  <2> QED BY <2>1, <2>2, PreorderNumbers
<1>3. ASSUME t[p].kind = "empty" PROVE NumberAt(t, p) = N
  BY <1>3 DEF NumberAt, NodeValue
<1>4. ASSUME t[p].kind = "data"
      PROVE  /\ p \in DataPaths(t) /\ h \in Hashes(t)
             /\ NumberAt(t, p) = N + Separator + Position(t)[h]
             /\ NumberAt(t, p) \in Nat /\ NumberAt(t, p) > N
  <2>1. p \in DataPaths(t)
    BY <1>4, TrieAssumption DEF DataPaths, HasValues
  <2>2. h \in Hashes(t)
    BY <2>1 DEF Hashes
  <2>3. NumberAt(t, p) = N + Separator + Position(t)[h]
    BY <1>4, LayoutParts DEF NumberAt, NodeValue
  <2>4. Position(t)[h] \in Nat
    BY <2>2, PositionsDiffer
  <2> HIDE DEF N, h
  <2> QED BY <1>1, <2>1, <2>2, <2>3, <2>4, FileAssumption
<1> QED BY <1>2, <1>3, <1>4

LEMMA FileData ==
  ASSUME NEW t, TrieOK(t), NEW count
  PROVE  /\ DOMAIN FileOfTrie(t, count).data = {Position(t)[h] : h \in Hashes(t)}
         /\ \A h \in Hashes(t) :
              FileOfTrie(t, count).data[Position(t)[h]] = t[First(t)[h]].value
<1> DEFINE f == FileOfTrie(t, count)
           pos == Position(t)
           H == Hashes(t)
<1>1. f.data = [n \in {pos[h] : h \in H} |-> t[First(t)[CHOOSE h \in H : pos[h] = n]].value]
  <2>1. Layout(t).position = pos /\ Layout(t).first = First(t) /\ DOMAIN pos = H
    BY LayoutParts, PositionsDiffer
  <2>2. f.data = [n \in {Layout(t).position[h] : h \in DOMAIN Layout(t).position} |->
                    t[Layout(t).first[CHOOSE h \in DOMAIN Layout(t).position :
                                        Layout(t).position[h] = n]].value]
    BY DEF FileOfTrie, File
  <2> QED BY <2>1, <2>2
<1>2. \A g, h \in H : pos[g] = pos[h] => g = h
  BY PositionsDiffer
<1> HIDE DEF f, pos, H
<1>3. ASSUME NEW h \in H PROVE f.data[pos[h]] = t[First(t)[h]].value
  <2> DEFINE c(n) == CHOOSE g \in H : pos[g] = n
  <2>1. c(pos[h]) = h
    BY <1>2
  <2>2. f.data = [n \in {pos[g] : g \in H} |-> t[First(t)[c(n)]].value]
    BY <1>1
  <2> HIDE DEF c
  <2>3. f.data[pos[h]] = t[First(t)[c(pos[h])]].value
    BY <2>2
  <2> QED BY <2>1, <2>3
<1>4. DOMAIN f.data = {pos[h] : h \in H}
  BY <1>1
<1> QED BY <1>3, <1>4 DEF f, pos, H

\* No two values have the same hash.
HashInjective == \A v, w \in Values : Hash[v] = Hash[w] => v = w
-----------------------------------------------------------------------------
(***************************************************************************)
(* Find.                                                                   *)
(***************************************************************************)
LEMMA KeyOfIdType ==
  ASSUME NEW id \in Ids
  PROVE  /\ KeyOfId(id) \in Keys
         /\ \A d \in 1..PrefixBits : KeyOfId(id)[d] = GetBit(id, d - 1)
<1>1. id \in Int
  BY PowersOfTwo, TrieAssumption DEF Ids
<1>2. ASSUME NEW d \in 1..PrefixBits PROVE GetBit(id, d - 1) \in Bit
  <2> DEFINE k == PrefixBits - 1 - (d - 1)
  <2>1. k \in Nat
    BY TrieAssumption
  <2> HIDE DEF k
  <2>2. Power2(k) \in Nat /\ Power2(k) > 0
    BY <2>1, PowersOfTwo
  <2>3. (id \div Power2(k)) % 2 \in {0, 1}
    <3>1. id \div Power2(k) \in Int
      BY <1>1, <2>2
    <3> QED BY <3>1
  <2> QED BY <2>3 DEF GetBit, k
<1> QED BY <1>2 DEF KeyOfId, Keys

WalkEquation(f, id, at) ==
  at = [d \in 0..PrefixBits |->
          IF d = 0 THEN 0
          ELSE IF IsNode(f, at[d - 1]) THEN f.nodes[at[d - 1]][GetBit(id, d - 1)]
          ELSE at[d - 1]]

\* The nodes on the way, and then the number of the leaf.
PlaceOn(k, e) == IF e = 0 THEN Root ELSE Path(k, e)
LeadsTo(t, k, d) ==
  /\ \A e \in 0..(d - 1) : PlaceOn(k, e) \in NodePaths(t)
  /\ t[Path(k, d)].kind \in {"empty", "data"}

LEMMA WalkPlaces ==
  ASSUME NEW t, TrieOK(t), HasValues(t), NEW count, NEW id \in Ids,
         NEW d \in 1..PrefixBits, LeadsTo(t, KeyOfId(id), d)
  PROVE  LET f == FileOfTrie(t, count)
         IN  /\ \A e \in 0..PrefixBits :
                  Walk(f, id, e) = IF e < d THEN Preorder(t)[PlaceOn(KeyOfId(id), e)]
                                   ELSE NumberAt(t, Path(KeyOfId(id), d))
             /\ Walk(f, id, 0) = 0
             /\ \A e \in 1..PrefixBits :
                  Walk(f, id, e) = IF IsNode(f, Walk(f, id, e - 1))
                                   THEN f.nodes[Walk(f, id, e - 1)][GetBit(id, e - 1)]
                                   ELSE Walk(f, id, e - 1)
<1> DEFINE f == FileOfTrie(t, count)
           k == KeyOfId(id)
           N == Cardinality(NodePaths(t))
           leaf == NumberAt(t, Path(k, d))
           w == [e \in 0..PrefixBits |->
                   IF e < d THEN Preorder(t)[PlaceOn(k, e)] ELSE leaf]
           G(e, n) == IF e = 0 THEN 0
                      ELSE IF IsNode(f, n) THEN f.nodes[n][GetBit(id, e - 1)] ELSE n
<1>1. k \in Keys /\ \A e \in 1..PrefixBits : k[e] = GetBit(id, e - 1) /\ k[e] \in Bit
  BY KeyOfIdType DEF Keys
<1>2. leaf >= N /\ N \in Nat /\ leaf \in Nat
  <2>1. Path(k, d) \in Paths
    BY <1>1, PathType
  <2>2. t[Path(k, d)].kind = "empty" \/ t[Path(k, d)].kind = "data"
    BY DEF LeadsTo
  <2>3. (t[Path(k, d)].kind = "empty" => leaf = N)
        /\ (t[Path(k, d)].kind = "data" => leaf \in Nat /\ leaf > N)
    BY <2>1, NumberKinds
  <2>4. N \in Nat
    BY NodePathsFinite
  <2> QED BY <2>2, <2>3, <2>4
<1>3. \A n : IsNode(f, n) <=> n < N
  BY FileNodes DEF IsNode
<1>4. \A e \in 0..(d - 1) : Preorder(t)[PlaceOn(k, e)] \in 0..(N - 1)
  BY PreorderNumbers DEF LeadsTo
<1>5. \A e \in 0..(d - 1) :
        /\ Child(PlaceOn(k, e), k[e + 1]) = Path(k, e + 1)
        /\ f.nodes[Preorder(t)[PlaceOn(k, e)]][k[e + 1]] = NumberAt(t, Path(k, e + 1))
  <2> TAKE e \in 0..(d - 1)
  <2>0. e + 1 \in 1..PrefixBits /\ (e + 1) - 1 = e /\ (e + 1 = 1 <=> e = 0)
    BY TrieAssumption
  <2>1. Path(k, e + 1) \in Paths /\ Len(Path(k, e + 1)) = e + 1
    BY <1>1, <2>0, PathType
  <2>2. Parent(Path(k, e + 1)) = PlaceOn(k, e)
    BY <1>1, <2>0, PathParent DEF PlaceOn
  <2>3. Path(k, e + 1)[e + 1] = k[e + 1]
    BY <2>0 DEF Path
  <2>4. Child(PlaceOn(k, e), k[e + 1]) = Path(k, e + 1)
    BY <2>1, <2>2, <2>3, ParentType
  <2>5. k[e + 1] \in Bit /\ PlaceOn(k, e) \in NodePaths(t)
    BY <1>1, <2>0 DEF LeadsTo
  <2>6. f.nodes[Preorder(t)[PlaceOn(k, e)]][k[e + 1]] = NumberAt(t, Child(PlaceOn(k, e), k[e + 1]))
    <3> HIDE DEF k
    <3> QED BY <2>5, FileNodes
  <2> QED BY <2>4, <2>6
<1>6. \A e \in 1..(d - 1) : NumberAt(t, Path(k, e)) = Preorder(t)[PlaceOn(k, e)]
  <2> TAKE e \in 1..(d - 1)
  <2>1. PlaceOn(k, e) = Path(k, e) /\ e \in 0..(d - 1) /\ e \in 1..PrefixBits
    BY TrieAssumption DEF PlaceOn
  <2>2. Path(k, e) \in NodePaths(t) /\ Path(k, e) \in Paths /\ Len(Path(k, e)) = e
    BY <1>1, <2>1, PathType DEF LeadsTo
  <2>3. t[Path(k, e)].kind = "node"
    <3>1. Path(k, e) # Root
      <4>1. Len(Root) = 0
        BY DEF Root
      <4> QED BY <2>1, <2>2, <4>1
    <3> QED BY <2>2, <3>1 DEF NodePaths
  <2> QED BY <2>1, <2>2, <2>3, NumberKinds
<1>7. Preorder(t)[PlaceOn(k, 0)] = 0
  BY PreorderNumbers DEF PlaceOn
<1> HIDE DEF f, k, N, leaf
<1>8. \A e \in 1..PrefixBits : w[e] = G(e, w[e - 1])
  <2> TAKE e \in 1..PrefixBits
  <2>0. e \in 0..PrefixBits /\ e - 1 \in 0..PrefixBits /\ e # 0 /\ e \in Nat /\ d \in Nat
    BY TrieAssumption
  <2>1. CASE e < d
    <3>1. e - 1 \in 0..(d - 1) /\ e \in 1..(d - 1) /\ (e - 1) + 1 = e
      BY <2>0, <2>1
    <3>2. w[e - 1] = Preorder(t)[PlaceOn(k, e - 1)] /\ w[e] = Preorder(t)[PlaceOn(k, e)]
      BY <2>0, <2>1, <3>1
    <3>3. IsNode(f, w[e - 1])
      BY <1>2, <1>3, <1>4, <3>1, <3>2
    <3>4. f.nodes[w[e - 1]][k[e]] = NumberAt(t, Path(k, e))
      BY <1>5, <3>1, <3>2
    <3>5. k[e] = GetBit(id, e - 1)
      BY <1>1
    <3> HIDE DEF w
    <3> QED BY <1>6, <2>0, <3>1, <3>2, <3>3, <3>4, <3>5
  <2>2. CASE e = d
    <3>1. e - 1 \in 0..(d - 1) /\ (e - 1) + 1 = e /\ ~(e < d)
      BY <2>0, <2>2
    <3>2. w[e - 1] = Preorder(t)[PlaceOn(k, e - 1)] /\ w[e] = leaf
      BY <2>0, <2>2, <3>1
    <3>3. IsNode(f, w[e - 1])
      BY <1>2, <1>3, <1>4, <3>1, <3>2
    <3>4. f.nodes[w[e - 1]][k[e]] = leaf
      BY <1>5, <2>2, <3>1, <3>2 DEF leaf
    <3>5. k[e] = GetBit(id, e - 1)
      BY <1>1
    <3> HIDE DEF w
    <3> QED BY <2>0, <3>2, <3>3, <3>4, <3>5
  <2>3. CASE e > d
    <3>1. w[e - 1] = leaf /\ w[e] = leaf
      BY <2>0, <2>3
    <3>2. ~IsNode(f, leaf)
      BY <1>2, <1>3
    <3> HIDE DEF w
    <3> QED BY <2>0, <3>1, <3>2
  <2> QED BY <2>0, <2>1, <2>2, <2>3
<1>9. w[0] = 0
  BY <1>7, TrieAssumption
<1>10. WalkEquation(f, id, w)
  <2> DEFINE x == [e \in 0..PrefixBits |-> G(e, w[e - 1])]
  <2>1. w = [e \in 0..PrefixBits |-> w[e]]
    OBVIOUS
  <2> HIDE DEF w
  <2>2. \A e \in 0..PrefixBits : w[e] = G(e, w[e - 1])
    <3>1. \A e \in 0..PrefixBits : e = 0 \/ e \in 1..PrefixBits
      BY TrieAssumption
    <3> QED BY <1>8, <1>9, <3>1
  <2>3. w = x
    <3> HIDE DEF G
    <3> QED BY <2>1, <2>2
  <2> QED BY <2>3 DEF WalkEquation
<1> DEFINE at == CHOOSE at : WalkEquation(f, id, at)
<1>11. \A e \in 0..PrefixBits : Walk(f, id, e) = at[e]
  BY DEF Walk, WalkEquation
<1>12. WalkEquation(f, id, at)
  BY <1>10
<1> HIDE DEF at
<1>13. \A e \in 0..PrefixBits : at[e] = G(e, at[e - 1])
  BY <1>12 DEF WalkEquation
<1> DEFINE S == {e \in Nat : e <= PrefixBits => at[e] = w[e]}
<1> HIDE DEF w, G
<1>14. 0 \in S
  <2>1. 0 \in 0..PrefixBits
    BY TrieAssumption
  <2>2. at[0] = 0
    BY <1>13, <2>1 DEF G
  <2> QED BY <1>9, <2>2
<1>15. ASSUME NEW e \in Nat, e \in S PROVE e + 1 \in S
  <2> SUFFICES ASSUME e + 1 <= PrefixBits PROVE at[e + 1] = w[e + 1]
    OBVIOUS
  <2>1. e + 1 \in 1..PrefixBits /\ e + 1 \in 0..PrefixBits /\ (e + 1) - 1 = e /\ at[e] = w[e]
    BY <1>15, TrieAssumption
  <2> QED BY <1>8, <1>13, <2>1
<1>16. ASSUME NEW e \in 0..PrefixBits PROVE at[e] = w[e]
  <2>1. Nat \subseteq S
    <3> HIDE DEF S
    <3> QED BY <1>14, <1>15, Induction
  <2> QED BY <2>1
<1>17. \A e \in 0..PrefixBits : w[e] = IF e < d THEN Preorder(t)[PlaceOn(k, e)] ELSE leaf
  BY DEF w
<1>18. Walk(f, id, 0) = 0
  <2>1. 0 \in 0..PrefixBits
    BY TrieAssumption
  <2> QED BY <1>11, <1>13, <2>1 DEF G
<1>19. ASSUME NEW e \in 1..PrefixBits PROVE Walk(f, id, e) = G(e, Walk(f, id, e - 1))
  <2>1. e \in 0..PrefixBits /\ e - 1 \in 0..PrefixBits
    BY TrieAssumption
  <2> QED BY <1>11, <1>13, <2>1
<1>20. \A e \in 1..PrefixBits : e # 0
  OBVIOUS
<1> QED BY <1>11, <1>16, <1>17, <1>18, <1>19, <1>20 DEF f, leaf, k, G

LEMMA WalkLeads ==
  ASSUME NEW t, TrieOK(t), HasValues(t), NEW count, NEW id \in Ids,
         NEW d \in 1..PrefixBits, LeadsTo(t, KeyOfId(id), d)
  PROVE  Walk(FileOfTrie(t, count), id, PrefixBits) = NumberAt(t, Path(KeyOfId(id), d))
<1>1. PrefixBits \in 0..PrefixBits /\ ~(PrefixBits < d)
  BY TrieAssumption
<1> QED BY <1>1, WalkPlaces

\* Find gives the value of the leaf that the bits of the id lead to.
LEMMA FindReads ==
  ASSUME HashInjective, NEW t, TrieOK(t), HasValues(t), NEW count, NEW id \in Ids,
         NEW d \in 1..PrefixBits, LeadsTo(t, KeyOfId(id), d)
  PROVE  FindValue(FileOfTrie(t, count), id) =
           IF t[Path(KeyOfId(id), d)].kind = "data" THEN t[Path(KeyOfId(id), d)].value ELSE Nil
<1> DEFINE f == FileOfTrie(t, count)
           p == Path(KeyOfId(id), d)
           n == NumberAt(t, p)
           N == Cardinality(NodePaths(t))
           h == HashOf(t, p)
<1>1. Walk(f, id, PrefixBits) = n
  BY WalkLeads
<1>2. FindValue(f, id) = IF IsData(f, n) THEN f.data[Resolve(f, n)] ELSE Nil
  BY <1>1 DEF FindValue
<1>3. f.nodeCount = N /\ N \in Nat
  BY FileNodes, NodePathsFinite
<1>4. p \in Paths
  BY KeyOfIdType, PathType
<1>5. CASE t[p].kind = "empty"
  <2>1. n = N
    BY <1>4, <1>5, NumberKinds
  <2>2. ~IsData(f, n)
    <3> HIDE DEF f, n, N
    <3> QED BY <1>3, <2>1 DEF IsData
  <2> QED BY <1>2, <1>5, <2>2
<1>6. CASE t[p].kind = "data"
  <2>1. /\ p \in DataPaths(t) /\ h \in Hashes(t) /\ n \in Nat /\ n > N
        /\ n = N + Separator + Position(t)[h]
    <3> HIDE DEF p
    <3> QED BY <1>4, <1>6, NumberKinds
  <2>2. Position(t)[h] \in Nat
    BY <2>1, PositionsDiffer
  <2>3. IsData(f, n) /\ Resolve(f, n) = Position(t)[h]
    <3> HIDE DEF f, n, N, h, p
    <3> QED BY <1>3, <2>1, <2>2, FileAssumption DEF IsData, Resolve
  <2>4. f.data[Position(t)[h]] = t[First(t)[h]].value
    BY <2>1, FileData
  <2> DEFINE q == First(t)[h]
  <2>5. q \in DataPaths(t) /\ HashOf(t, q) = h
    BY <2>1, FirstOK
  <2>6. t[q].value \in Values /\ t[p].value \in Values
    BY <2>1, <2>5 DEF DataPaths, HasValues
  <2>7. t[q].value = t[p].value
    BY <2>5, <2>6 DEF HashInjective, HashOf
  <2> QED BY <1>2, <1>6, <2>3, <2>4, <2>7
<1> QED BY <1>5, <1>6 DEF LeadsTo
-----------------------------------------------------------------------------
\* The node table of a written trie is a tree, and no value stands twice.
LEMMA FileShape ==
  ASSUME NEW t, TrieOK(t), HasValues(t), NEW count
  PROVE  LET f == FileOfTrie(t, count)
         IN  /\ \A n \in DOMAIN f.nodes \ {0} :
                  \E m \in 0..(n - 1), b \in Bit :
                    /\ f.nodes[m][b] = n
                    /\ \A i \in DOMAIN f.nodes, c \in Bit :
                         f.nodes[i][c] = n => i = m /\ c = b
             /\ \A i, j \in DOMAIN f.data : f.data[i] = f.data[j] => i = j
<1> DEFINE f == FileOfTrie(t, count)
           num == Preorder(t)
           N == Cardinality(NodePaths(t))
<1>1. /\ \A r \in NodePaths(t), b \in Bit : f.nodes[num[r]][b] = NumberAt(t, Child(r, b))
      /\ \A n \in DOMAIN f.nodes : \E r \in NodePaths(t) : n = num[r]
  BY FileNodes, NodeOfNumber
<1>2. /\ num[Root] = 0 /\ N \in Nat
      /\ \A r \in NodePaths(t) : num[r] \in 0..(N - 1)
      /\ \A q, r \in NodePaths(t) : Before(q, r) => num[q] < num[r]
      /\ \A q, r \in NodePaths(t) : num[q] = num[r] => q = r
  BY PreorderNumbers, NodePathsFinite
<1>3. ASSUME NEW r \in NodePaths(t), NEW b \in Bit
      PROVE  /\ Child(r, b) \in Paths /\ Parent(Child(r, b)) = r
             /\ Child(r, b)[Len(Child(r, b))] = b /\ Before(r, Child(r, b))
             /\ t[Child(r, b)].kind \in {"empty", "data", "node"}
  <2>1. r \in Places /\ Len(r) < PrefixBits /\ t[Child(r, b)].kind # "none"
    BY NodePathsFinite DEF TrieOK
  <2> QED BY <2>1, ChildType DEF TrieOK
<1> HIDE DEF f, num
<1>4. ASSUME NEW n \in DOMAIN f.nodes \ {0}
      PROVE  \E m \in 0..(n - 1), b \in Bit :
               /\ f.nodes[m][b] = n
               /\ \A i \in DOMAIN f.nodes, c \in Bit : f.nodes[i][c] = n => i = m /\ c = b
  <2>1. PICK p \in NodePaths(t) : n = num[p]
    BY <1>1
  <2>2. p # Root
    BY <1>2, <2>1
  <2>3. p \in Paths /\ t[p].kind = "node"
    BY <2>2 DEF NodePaths
  <2> DEFINE q == Parent(p)
             a == p[Len(p)]
  <2>4. q \in NodePaths(t) /\ a \in Bit /\ Child(q, a) = p
    BY <2>3, ParentType DEF TrieOK
  <2> HIDE DEF q, a
  <2>5. f.nodes[num[q]][a] = n
    <3>1. NumberAt(t, p) = num[p]
      BY <2>3, NumberKinds DEF num
    <3> QED BY <1>1, <2>1, <2>4, <3>1
  <2>6. num[q] \in 0..(n - 1)
    <3>1. Before(q, p)
      BY <1>3, <2>4
    <3>2. num[q] < n /\ num[q] \in Nat /\ n \in Nat
      BY <1>2, <2>1, <2>4, <3>1
    <3> QED BY <3>2
  <2>7. ASSUME NEW i \in DOMAIN f.nodes, NEW c \in Bit, f.nodes[i][c] = n
        PROVE  i = num[q] /\ c = a
    <3>1. PICK r \in NodePaths(t) : i = num[r]
      BY <1>1
    <3> DEFINE x == Child(r, c)
    <3>2. NumberAt(t, x) = n /\ x \in Paths /\ Parent(x) = r /\ x[Len(x)] = c
          /\ t[x].kind \in {"empty", "data", "node"}
      BY <1>1, <1>3, <2>7, <3>1
    <3>3. n \in 0..(N - 1)
      BY <1>2, <2>1
    <3> HIDE DEF x
    <3>4. t[x].kind = "node"
      <4>1. /\ t[x].kind = "empty" => NumberAt(t, x) = N
            /\ t[x].kind = "data" => NumberAt(t, x) \in Nat /\ NumberAt(t, x) > N
        BY <3>2, NumberKinds
      <4> QED BY <1>2, <3>2, <3>3, <4>1
    <3>5. x \in NodePaths(t) /\ NumberAt(t, x) = num[x]
      BY <3>2, <3>4, NumberKinds DEF num
    <3>6. x = p
      BY <1>2, <2>1, <3>2, <3>5
    <3> QED BY <3>1, <3>2, <3>6 DEF q, a
  <2> QED BY <2>4, <2>5, <2>6, <2>7
<1>5. ASSUME NEW i \in DOMAIN f.data, NEW j \in DOMAIN f.data, f.data[i] = f.data[j]
      PROVE  i = j
  <2>1. PICK g \in Hashes(t) : i = Position(t)[g] /\ f.data[i] = t[First(t)[g]].value
    BY FileData DEF f
  <2>2. PICK h \in Hashes(t) : j = Position(t)[h] /\ f.data[j] = t[First(t)[h]].value
    BY FileData DEF f
  <2>3. Hash[t[First(t)[g]].value] = g /\ Hash[t[First(t)[h]].value] = h
    BY FirstOK DEF HashOf
  <2> QED BY <1>5, <2>1, <2>2, <2>3
<1> QED BY <1>4, <1>5 DEF f
-----------------------------------------------------------------------------
(***************************************************************************)
(* The smallest trie of a content.                                         *)
(***************************************************************************)

\* The keys below a path are those that share its bits.
LEMMA BelowPath ==
  ASSUME NEW k \in Keys, NEW d \in 1..PrefixBits
  PROVE  /\ \A l \in Keys : l \in KeysBelow(Path(k, d)) <=> \A i \in 1..d : k[i] = l[i]
         /\ \A e \in 1..(d - 1) : SubSeq(Path(k, d), 1, e) = Path(k, e)
<1>1. Path(k, d) \in [1..d -> Bit] /\ Len(Path(k, d)) = d /\ d \in Nat
  BY PathType, TrieAssumption DEF Path, Keys
<1>2. ASSUME NEW l \in Keys
      PROVE  l \in KeysBelow(Path(k, d)) <=> \A i \in 1..d : k[i] = l[i]
  <2>1. \A i \in 1..d : Path(k, d)[i] = k[i]
    BY DEF Path
  <2> QED BY <1>1, <2>1 DEF KeysBelow, OnPath
<1>3. ASSUME NEW e \in 1..(d - 1) PROVE SubSeq(Path(k, d), 1, e) = Path(k, e)
  <2> DEFINE p == Path(k, d)
  <2>1. p \in Seq(Bit) /\ \A i \in 1..e : p[i] = k[i]
    BY <1>1 DEF Path
  <2> HIDE DEF p
  <2>2. SubSeq(p, 1, e) = [i \in 1..e |-> p[i]]
    BY <1>1, <2>1
  <2> QED BY <2>1, <2>2 DEF Path, p
<1> QED BY <1>2, <1>3

\* Where a key's records are, and what they are.
LEMMA TrieOfOnPath ==
  ASSUME NEW c, NEW k \in Keys, NEW n \in 1..PrefixBits
  PROVE  TrieOf(c)[Path(k, n)] =
           IF \E e \in 1..(n - 1) : Uniform(c, Path(k, e)) THEN NoLabel
           ELSE IF ~Uniform(c, Path(k, n)) THEN NodeLabel
           ELSE IF c[k] = Nil THEN EmptyLabel
           ELSE DataLabel(c[k])
<1> DEFINE p == Path(k, n)
<1>1. p \in Paths /\ Len(p) = n
  BY PathType
<1>2. \A e \in 1..(n - 1) : SubSeq(p, 1, e) = Path(k, e)
  BY BelowPath
<1>3. k \in KeysBelow(p)
  BY BelowPath
<1>4. Uniform(c, p) => ValueAt(c, p) = c[k]
  <2>1. (CHOOSE l \in KeysBelow(p) : TRUE) \in KeysBelow(p)
    BY <1>3
  <2> QED BY <1>3, <2>1 DEF Uniform, ValueAt
<1> HIDE DEF p
<1> QED BY <1>1, <1>2, <1>4 DEF TrieOf, p

\* A key alone at the full depth.
LEMMA UniformAtDepth ==
  ASSUME NEW c, NEW k \in Keys
  PROVE  Uniform(c, Path(k, PrefixBits))
<1>1. PrefixBits \in 1..PrefixBits
  BY TrieAssumption
<1>2. ASSUME NEW l \in KeysBelow(Path(k, PrefixBits)) PROVE l = k
  <2>1. l \in Keys
    BY DEF KeysBelow
  <2>2. \A i \in 1..PrefixBits : k[i] = l[i]
    BY <1>1, <2>1, BelowPath
  <2>3. k = [i \in 1..PrefixBits |-> k[i]] /\ l = [i \in 1..PrefixBits |-> l[i]]
    BY <2>1 DEF Keys
  <2> QED BY <2>2, <2>3
<1> QED BY <1>2 DEF Uniform

LEMMA TrieOfOK ==
  ASSUME NEW c \in [Keys -> Values \cup {Nil}]
  PROVE  TrieOK(TrieOf(c)) /\ HasValues(TrieOf(c))
<1> DEFINE t == TrieOf(c)
<1> USE DEF NoLabel, NodeLabel, EmptyLabel, DataLabel
<1>1. ASSUME NEW p \in Paths
      PROVE  /\ t[p].kind \in {"none", "empty", "data", "node"}
             /\ t[p].kind # "none" => Parent(p) \in NodePaths(t)
             /\ t[p].kind = "node" => Len(p) < PrefixBits /\ ~Uniform(c, p)
             /\ t[p].kind = "node" => \A e \in 1..(Len(p) - 1) : ~Uniform(c, SubSeq(p, 1, e))
             /\ t[p].kind = "data" => t[p].value \in Values
  <2>1. PICK k \in Keys, n \in 1..PrefixBits : p = Path(k, n) /\ Len(p) = n
    BY PathOfKey
  <2>2. \A e \in 1..(n - 1) : SubSeq(p, 1, e) = Path(k, e)
    BY <2>1, BelowPath
  <2>3. t[p] = IF \E e \in 1..(n - 1) : Uniform(c, Path(k, e)) THEN NoLabel
               ELSE IF ~Uniform(c, p) THEN NodeLabel
               ELSE IF c[k] = Nil THEN EmptyLabel
               ELSE DataLabel(c[k])
    BY <2>1, TrieOfOnPath
  <2>4. c[k] \in Values \cup {Nil}
    OBVIOUS
  <2>5. t[p].kind \in {"none", "empty", "data", "node"} /\ (t[p].kind = "data" => t[p].value \in Values)
    <3> HIDE DEF t
    <3> QED BY <2>3, <2>4
  <2>6. ASSUME t[p].kind = "node"
        PROVE  /\ Len(p) < PrefixBits /\ ~Uniform(c, p)
               /\ \A e \in 1..(Len(p) - 1) : ~Uniform(c, SubSeq(p, 1, e))
    <3>1. ~Uniform(c, p) /\ \A e \in 1..(n - 1) : ~Uniform(c, Path(k, e))
      <4> HIDE DEF t
      <4> QED BY <2>3, <2>6
    <3>2. n # PrefixBits
      BY <2>1, <3>1, UniformAtDepth
    <3>3. n < PrefixBits
      BY <3>2, TrieAssumption
    <3>4. \A e \in 1..(Len(p) - 1) : ~Uniform(c, SubSeq(p, 1, e))
      BY <2>1, <2>2, <3>1
    <3> QED BY <2>1, <3>1, <3>3, <3>4
  <2>7. ASSUME t[p].kind # "none" PROVE Parent(p) \in NodePaths(t)
    <3>1. Parent(p) = IF n = 1 THEN Root ELSE Path(k, n - 1)
      BY <2>1, PathParent
    <3>2. CASE n = 1
      BY <3>1, <3>2 DEF NodePaths
    <3>3. CASE n # 1
      <4> DEFINE m == n - 1
      <4>1. m \in 1..PrefixBits /\ m \in 1..(n - 1) /\ \A e \in 1..(m - 1) : e \in 1..(n - 1)
        BY <3>3, TrieAssumption
      <4>2. \A e \in 1..(n - 1) : ~Uniform(c, Path(k, e))
        <5> HIDE DEF t
        <5> QED BY <2>3, <2>7
      <4> HIDE DEF m
      <4>3. t[Path(k, m)] = NodeLabel
        BY <4>1, <4>2, TrieOfOnPath
      <4>4. Path(k, m) \in Paths /\ Path(k, m) = Parent(p)
        BY <3>1, <3>3, <4>1, PathType DEF m
      <4> HIDE DEF t
      <4> QED BY <4>3, <4>4 DEF NodePaths
    <3> QED BY <3>2, <3>3
  <2> QED BY <2>5, <2>6, <2>7
<1>2. ASSUME NEW p \in NodePaths(t), NEW b \in Bit
      PROVE  Len(p) < PrefixBits /\ t[Child(p, b)].kind # "none"
  <2>1. /\ p \in Places /\ Len(p) < PrefixBits /\ Len(p) \in Nat
        /\ \A e \in 1..Len(p) : ~Uniform(c, SubSeq(p, 1, e))
    <3>1. CASE p = Root
      <4>1. Len(p) = 0 /\ 1..0 = {} /\ 0 < PrefixBits
        BY <3>1, TrieAssumption DEF Root
      <4> QED BY <3>1, <4>1 DEF Places
    <3>2. CASE p \in Paths /\ t[p].kind = "node"
      <4>1. Len(p) < PrefixBits /\ ~Uniform(c, p)
            /\ \A e \in 1..(Len(p) - 1) : ~Uniform(c, SubSeq(p, 1, e))
        BY <1>1, <3>2
      <4>2. Len(p) \in 1..PrefixBits /\ p \in Seq(Bit)
        <5>1. Len(p) \in 1..PrefixBits /\ p \in [1..Len(p) -> Bit]
          BY <3>2, PlaceType, PathOfKey DEF Places
        <5> QED BY <5>1
      <4>3. SubSeq(p, 1, Len(p)) = p
        BY <4>2
      <4>4. \A e \in 1..Len(p) : e = Len(p) \/ e \in 1..(Len(p) - 1)
        BY <4>2
      <4>5. \A e \in 1..Len(p) : ~Uniform(c, SubSeq(p, 1, e))
        BY <4>1, <4>3, <4>4
      <4>6. p \in Places /\ Len(p) \in Nat
        BY <3>2, <4>2 DEF Places
      <4> QED BY <4>1, <4>5, <4>6
    <3> HIDE DEF t
    <3> QED BY <3>1, <3>2 DEF NodePaths
  <2> DEFINE q == Child(p, b)
             n == Len(p) + 1
  <2>2. /\ q \in Paths /\ Len(q) = n
        /\ q = [i \in 1..n |-> IF i = n THEN b ELSE p[i]]
    BY <2>1, ChildType
  <2>3. PICK k \in Keys : q = Path(k, n)
    BY <2>2, PathOfKey
  <2>4. n \in 1..PrefixBits /\ n - 1 = Len(p)
    BY <2>1, TrieAssumption
  <2>5. \A e \in 1..(n - 1) : SubSeq(p, 1, e) = Path(k, e)
    <3> TAKE e \in 1..(n - 1)
    <3>1. p \in Seq(Bit)
      BY <2>1, PlaceType
    <3>2. \A i \in 1..e : q[i] = p[i] /\ q[i] = k[i]
      <4>1. \A i \in 1..e : i \in 1..n /\ i # n
        BY <2>4
      <4> HIDE DEF q, n
      <4>2. \A i \in 1..e : q[i] = p[i]
        BY <2>2, <4>1
      <4>3. \A i \in 1..e : q[i] = k[i]
        BY <2>3, <4>1 DEF Path
      <4> QED BY <4>2, <4>3
    <3>3. e \in 1..Len(p)
      BY <2>4
    <3>4. SubSeq(p, 1, e) = [i \in 1..e |-> p[i]]
      BY <3>1, <3>3
    <3> HIDE DEF q, n
    <3> QED BY <3>2, <3>4 DEF Path
  <2> HIDE DEF q, n
  <2>6. \A e \in 1..(n - 1) : ~Uniform(c, Path(k, e))
    BY <2>1, <2>4, <2>5
  <2>7. t[q] # NoLabel /\ t[q].kind # "none"
    <3>1. t[q] = IF ~Uniform(c, Path(k, n)) THEN NodeLabel
                 ELSE IF c[k] = Nil THEN EmptyLabel
                 ELSE DataLabel(c[k])
      BY <2>3, <2>4, <2>6, TrieOfOnPath
    <3> HIDE DEF t
    <3> QED BY <3>1
  <2> QED BY <2>1, <2>7 DEF q
<1> HIDE DEF t
<1> QED BY <1>1, <1>2 DEF TrieOK, HasValues, t

\* Every key leads to a leaf, and the leaf to the key's value.
LEMMA TrieOfLeads ==
  ASSUME NEW c, NEW k \in Keys
  PROVE  \E d \in 1..PrefixBits :
           /\ LeadsTo(TrieOf(c), k, d)
           /\ TrieOf(c)[Path(k, d)] = IF c[k] = Nil THEN EmptyLabel ELSE DataLabel(c[k])
<1> DEFINE t == TrieOf(c)
           D == {d \in 1..PrefixBits : Uniform(c, Path(k, d))}
<1>1. PrefixBits \in D /\ D \in SUBSET Nat
  BY UniformAtDepth, TrieAssumption
<1>2. PICK d \in D : \A e \in D : d <= e
  BY <1>1, LeastNumber
<1>3. \A e \in 1..(d - 1) : e \in 1..PrefixBits /\ ~Uniform(c, Path(k, e))
  <2> TAKE e \in 1..(d - 1)
  <2>1. e \in 1..PrefixBits /\ ~(d <= e)
    BY TrieAssumption
  <2> QED BY <1>2, <2>1
<1>4. t[Path(k, d)] = IF c[k] = Nil THEN EmptyLabel ELSE DataLabel(c[k])
  <2> HIDE DEF t
  <2> QED BY <1>3, TrieOfOnPath DEF t
<1>5. ASSUME NEW e \in 0..(d - 1) PROVE PlaceOn(k, e) \in NodePaths(t)
  <2>1. CASE e = 0
    BY <2>1 DEF PlaceOn, NodePaths
  <2>2. CASE e # 0
    <3>1. e \in 1..(d - 1) /\ e \in 1..PrefixBits /\ \A g \in 1..(e - 1) : g \in 1..(d - 1)
      BY <1>3, <2>2
    <3>2. t[Path(k, e)] = NodeLabel
      BY <1>3, <3>1, TrieOfOnPath
    <3>3. Path(k, e) \in Paths
      BY <3>1, PathType
    <3> HIDE DEF t
    <3> QED BY <2>2, <3>2, <3>3 DEF PlaceOn, NodePaths, NodeLabel
  <2> QED BY <2>1, <2>2
<1>6. t[Path(k, d)].kind \in {"empty", "data"}
  <2> HIDE DEF t
  <2> QED BY <1>4 DEF EmptyLabel, DataLabel
<1> HIDE DEF t
<1> QED BY <1>4, <1>5, <1>6 DEF LeadsTo, t
===============================================================================
