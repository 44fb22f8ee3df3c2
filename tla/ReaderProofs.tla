----------------------------- MODULE ReaderProofs -----------------------------
(***************************************************************************)
(* Proofs about Reader: an item on the stack of an iterator is the record  *)
(* that the bits of its id lead to, and an iterator hands out what Cursor  *)
(* promises, for every content and every query.                            *)
(***************************************************************************)
EXTENDS Reader, TrieProofs

-----------------------------------------------------------------------------
(***************************************************************************)
(* The bits of an id.                                                      *)
(***************************************************************************)

\* Shifting by one bit more.
LEMMA ShiftBit ==
  ASSUME NEW n \in Int, NEW P \in Nat, P > 0
  PROVE  n \div (2 * P) = (n \div P) \div 2
<1> DEFINE q == n \div P
           r == n % P
           u == q \div 2
           v == q % 2
<1>1. q \in Int /\ r \in 0..(P - 1) /\ n = P * q + r
  OBVIOUS
<1>2. u \in Int /\ v \in 0..1 /\ q = 2 * u + v
  OBVIOUS
<1> HIDE DEF q, r, u, v
<1>3. n = (2 * P) * u + (P * v + r)
  BY <1>1, <1>2
<1>4. P * v + r \in 0..(2 * P - 1)
  BY <1>1, <1>2
<1>5. \A x \in Int, y \in Int : y \in 0..(2 * P - 1) => ((2 * P) * x + y) \div (2 * P) = x
  OBVIOUS
<1> QED BY <1>2, <1>3, <1>4, <1>5 DEF u, q

\* Numbers that agree above some bit agree above every higher one.
LEMMA SameAbove ==
  ASSUME NEW i \in Int, NEW j \in Int, NEW k \in Nat,
         i \div Power2(k) = j \div Power2(k), NEW n \in Nat
  PROVE  i \div Power2(k + n) = j \div Power2(k + n)
<1> DEFINE S == {m \in Nat : i \div Power2(k + m) = j \div Power2(k + m)}
<1>1. 0 \in S
  OBVIOUS
<1>2. ASSUME NEW m \in Nat, m \in S PROVE m + 1 \in S
  <2> DEFINE h == k + m
             P == Power2(h)
  <2>1. h \in Nat /\ k + (m + 1) = h + 1
    OBVIOUS
  <2> HIDE DEF h
  <2>2. P \in Nat /\ P > 0 /\ Power2(h + 1) = 2 * P
    BY <2>1, PowersOfTwo
  <2>3. i \div P = j \div P
    BY <1>2 DEF h
  <2> HIDE DEF P
  <2>4. i \div (2 * P) = (i \div P) \div 2 /\ j \div (2 * P) = (j \div P) \div 2
    BY <2>2, ShiftBit
  <2> QED BY <2>1, <2>2, <2>3, <2>4
<1> HIDE DEF S
<1>3. n \in S
  BY <1>1, <1>2, Induction
<1> QED BY <1>3 DEF S

\* Where the rest of an id is 0, its next bit is, and setting it changes no bit
\* above (BeginScan, LeftItem, RightItem).
LEMMA NextBit ==
  ASSUME NEW id \in Ids, NEW b \in 0..(PrefixBits - 1), id % Power2(PrefixBits - b) = 0
  PROVE  LET j == WithBit(id, b)
         IN  /\ GetBit(id, b) = 0 /\ id % Power2(PrefixBits - (b + 1)) = 0
             /\ j \in Ids /\ j = id + Power(b)
             /\ GetBit(j, b) = 1 /\ j % Power2(PrefixBits - (b + 1)) = 0
             /\ \A c \in 0..(b - 1) : GetBit(j, c) = GetBit(id, c)
<1> DEFINE k == PrefixBits - 1 - b
           a == Power2(k)
           m == id \div (2 * a)
           j == id + a
           T == Power2(PrefixBits)
<1>1. /\ k \in Nat /\ b \in Nat /\ PrefixBits - b = k + 1 /\ PrefixBits - (b + 1) = k
      /\ PrefixBits = (k + 1) + b /\ PrefixBits \in Nat
      /\ \A c \in 0..(b - 1) : b - 1 - c \in Nat /\ PrefixBits - 1 - c = (k + 1) + (b - 1 - c)
  BY TrieAssumption
<1> HIDE DEF k
<1>2. a \in Nat /\ a > 0 /\ Power2(k + 1) = 2 * a /\ T \in Nat /\ T > 0
  BY <1>1, PowersOfTwo
<1>3. id \in 0..(T - 1) /\ id \in Nat
  BY <1>2 DEF Ids
<1>4. id % (2 * a) = 0
  BY <1>1, <1>2
<1> HIDE DEF a, T
<1>5. m \in Nat /\ id = (2 * a) * m
  BY <1>2, <1>3, <1>4
<1> HIDE DEF m
<1>6. \A x \in Nat, y \in 0..(a - 1) : (a * x + y) \div a = x /\ (a * x + y) % a = y
  BY <1>2
<1>7. \A x \in Nat, y \in 0..(2 * a - 1) : ((2 * a) * x + y) \div (2 * a) = x
  BY <1>2
<1>8. id = a * (2 * m) + 0 /\ j = a * (2 * m + 1) + 0 /\ 2 * m \in Nat /\ 2 * m + 1 \in Nat
      /\ 0 \in 0..(a - 1) /\ a \in 0..(2 * a - 1) /\ 0 \in 0..(2 * a - 1)
  BY <1>2, <1>5
<1>9. id \div a = 2 * m /\ id % a = 0 /\ j \div a = 2 * m + 1 /\ j % a = 0
  BY <1>6, <1>8
<1>10. id \div (2 * a) = m /\ j \div (2 * a) = m
  <2>1. id = (2 * a) * m + 0 /\ j = (2 * a) * m + a
    BY <1>2, <1>5
  <2> HIDE DEF j
  <2> QED BY <1>5, <1>7, <1>8, <2>1
<1>11. GetBit(id, b) = 0 /\ GetBit(j, b) = 1
  <2>1. (2 * m) % 2 = 0 /\ (2 * m + 1) % 2 = 1
    BY <1>5
  <2> HIDE DEF j
  <2> QED BY <1>9, <2>1 DEF GetBit, k, a
<1>12. j \in Int /\ id \in Int /\ k + 1 \in Nat
       /\ id \div Power2(k + 1) = j \div Power2(k + 1)
  BY <1>1, <1>2, <1>3, <1>10
<1>13. \A n \in Nat : id \div Power2((k + 1) + n) = j \div Power2((k + 1) + n)
  <2> DEFINE h == k + 1
  <2> HIDE DEF h, j
  <2>1. h \in Nat /\ id \div Power2(h) = j \div Power2(h)
    BY <1>12 DEF h
  <2>2. \A n \in Nat : id \div Power2(h + n) = j \div Power2(h + n)
    BY <1>12, <2>1, SameAbove
  <2> QED BY <2>2 DEF h
<1>14. j \in Ids
  <2>1. id \div T = j \div T
    BY <1>1, <1>13 DEF T
  <2>2. id \div T = 0
    BY <1>2, <1>3
  <2>3. j \in Nat
    BY <1>2, <1>3
  <2> HIDE DEF j
  <2>4. j < T
    BY <1>2, <2>1, <2>2, <2>3
  <2> QED BY <1>2, <2>3, <2>4 DEF Ids, T
<1>15. \A c \in 0..(b - 1) : GetBit(j, c) = GetBit(id, c)
  <2> HIDE DEF j
  <2> QED BY <1>1, <1>13 DEF GetBit
<1>16. WithBit(id, b) = j /\ j = id + Power(b)
  BY <1>11 DEF WithBit, Power, k, a
<1>17. Power2(PrefixBits - (b + 1)) = a
  BY <1>1 DEF a
<1> HIDE DEF j
<1> QED BY <1>9, <1>11, <1>14, <1>15, <1>16, <1>17
-----------------------------------------------------------------------------
(***************************************************************************)
(* Walks in the file.                                                      *)
(***************************************************************************)

FileOK == content \in Contents /\ file = FileOf(TrieOf(content))

\* A walk starts at node 0, takes one number from the table at every node, and
\* is at a leaf after the last bit.
LEMMA WalkSteps ==
  ASSUME FileOK
  PROVE  /\ file.nodeCount \in Nat
         /\ \A id \in Ids :
              /\ Walk(file, id, 0) = 0
              /\ \A b \in 0..PrefixBits : Walk(file, id, b) \in Nat
              /\ \A b \in 0..(PrefixBits - 1) :
                   Walk(file, id, b + 1) = IF IsNode(file, Walk(file, id, b))
                                           THEN file.nodes[Walk(file, id, b)][GetBit(id, b)]
                                           ELSE Walk(file, id, b)
              /\ ~IsNode(file, Walk(file, id, PrefixBits))
<1> DEFINE t == TrieOf(content)
           N == Cardinality(NodePaths(t))
<1>1. content \in [Keys -> Values \cup {Nil}]
  BY ReaderAssumption DEF FileOK
<1>2. TrieOK(t) /\ HasValues(t)
  BY <1>1, TrieOfOK
<1>3. file = FileOfTrie(t, 0)
  BY DEF FileOK, FileOf, FileOfTrie, Numbered
<1>4. file.nodeCount = N /\ N \in Nat
  BY <1>2, <1>3, FileNodes, NodePathsFinite
<1>5. ASSUME NEW id \in Ids
      PROVE  /\ Walk(file, id, 0) = 0
             /\ \A b \in 0..PrefixBits : Walk(file, id, b) \in Nat
             /\ \A b \in 1..PrefixBits :
                  Walk(file, id, b) = IF IsNode(file, Walk(file, id, b - 1))
                                      THEN file.nodes[Walk(file, id, b - 1)][GetBit(id, b - 1)]
                                      ELSE Walk(file, id, b - 1)
             /\ ~IsNode(file, Walk(file, id, PrefixBits))
  <2> DEFINE k == KeyOfId(id)
  <2>1. k \in Keys
    BY KeyOfIdType
  <2> HIDE DEF k
  <2>2. PICK d \in 1..PrefixBits : LeadsTo(t, k, d)
    BY <2>1, TrieOfLeads
  <2> DEFINE n == NumberAt(t, Path(k, d))
  <2> HIDE DEF t
  <2>3. /\ \A b \in 0..PrefixBits :
             Walk(file, id, b) = IF b < d THEN Preorder(t)[PlaceOn(k, b)] ELSE n
        /\ Walk(file, id, 0) = 0
        /\ \A b \in 1..PrefixBits :
             Walk(file, id, b) = IF IsNode(file, Walk(file, id, b - 1))
                                 THEN file.nodes[Walk(file, id, b - 1)][GetBit(id, b - 1)]
                                 ELSE Walk(file, id, b - 1)
    BY <1>2, <1>3, <2>2, WalkPlaces DEF k
  <2>4. n \in Nat /\ n >= N
    <3>1. Path(k, d) \in Paths
      BY <2>1, PathType
    <3>2. t[Path(k, d)].kind = "empty" \/ t[Path(k, d)].kind = "data"
      BY <2>2 DEF LeadsTo
    <3>3. (t[Path(k, d)].kind = "empty" => n = N)
          /\ (t[Path(k, d)].kind = "data" => n \in Nat /\ n > N)
      BY <1>2, <3>1, NumberKinds
    <3> HIDE DEF n, N
    <3> QED BY <1>4, <3>2, <3>3
  <2> HIDE DEF n, N
  <2>5. ASSUME NEW b \in 0..PrefixBits PROVE Walk(file, id, b) \in Nat
    <3>1. CASE b < d
      <4>1. b \in 0..(d - 1)
        BY <3>1
      <4>2. PlaceOn(k, b) \in NodePaths(t)
        BY <2>2, <4>1 DEF LeadsTo
      <4>3. Preorder(t)[PlaceOn(k, b)] \in 0..(Cardinality(NodePaths(t)) - 1)
        BY <4>2, PreorderNumbers
      <4> QED BY <2>3, <3>1, <4>3
    <3>2. CASE ~(b < d)
      BY <2>3, <2>4, <3>2
    <3> QED BY <3>1, <3>2
  <2>6. ~IsNode(file, Walk(file, id, PrefixBits))
    <3>1. PrefixBits \in 0..PrefixBits /\ ~(PrefixBits < d)
      BY TrieAssumption
    <3>2. Walk(file, id, PrefixBits) = n
      BY <2>3, <3>1
    <3> QED BY <1>4, <2>4, <3>2 DEF IsNode
  <2> QED BY <2>3, <2>5, <2>6
<1>6. ASSUME NEW id \in Ids, NEW b \in 0..(PrefixBits - 1)
      PROVE  Walk(file, id, b + 1) = IF IsNode(file, Walk(file, id, b))
                                     THEN file.nodes[Walk(file, id, b)][GetBit(id, b)]
                                     ELSE Walk(file, id, b)
  <2> DEFINE c == b + 1
  <2>1. c \in 1..PrefixBits /\ c - 1 = b
    BY TrieAssumption
  <2> HIDE DEF c
  <2> QED BY <1>5, <2>1 DEF c
<1> HIDE DEF N
<1> QED BY <1>4, <1>5, <1>6

\* Ids with the same first bits go the same way.
LEMMA SameWay ==
  ASSUME FileOK, NEW i \in Ids, NEW j \in Ids, NEW b \in 0..PrefixBits,
         \A c \in 0..(b - 1) : GetBit(i, c) = GetBit(j, c)
  PROVE  Walk(file, i, b) = Walk(file, j, b)
<1> DEFINE S == {n \in Nat : n <= b => Walk(file, i, n) = Walk(file, j, n)}
<1>1. 0 \in S
  BY WalkSteps
<1>2. ASSUME NEW n \in Nat, n \in S PROVE n + 1 \in S
  <2> SUFFICES ASSUME n + 1 <= b PROVE Walk(file, i, n + 1) = Walk(file, j, n + 1)
    OBVIOUS
  <2>1. n \in 0..(b - 1) /\ n \in 0..(PrefixBits - 1) /\ n <= b
    BY TrieAssumption
  <2>2. Walk(file, i, n) = Walk(file, j, n) /\ GetBit(i, n) = GetBit(j, n)
    BY <1>2, <2>1
  <2> QED BY <2>1, <2>2, WalkSteps
<1>3. b \in Nat
  OBVIOUS
<1> HIDE DEF S
<1>4. b \in S
  BY <1>1, <1>2, <1>3, Induction
<1> QED BY <1>3, <1>4 DEF S

\* A walk that has come to a leaf stays there.
LEMMA StaysAtLeaf ==
  ASSUME FileOK, NEW id \in Ids, NEW b \in 0..PrefixBits, ~IsNode(file, Walk(file, id, b))
  PROVE  Walk(file, id, PrefixBits) = Walk(file, id, b)
<1> DEFINE S == {n \in Nat : b + n <= PrefixBits => Walk(file, id, b + n) = Walk(file, id, b)}
<1>1. 0 \in S
  <2>1. b + 0 = b
    OBVIOUS
  <2> QED BY <2>1
<1>2. ASSUME NEW n \in Nat, n \in S PROVE n + 1 \in S
  <2> SUFFICES ASSUME b + (n + 1) <= PrefixBits
               PROVE  Walk(file, id, b + (n + 1)) = Walk(file, id, b)
    OBVIOUS
  <2> DEFINE c == b + n
  <2>1. c \in 0..(PrefixBits - 1) /\ b + (n + 1) = c + 1 /\ c <= PrefixBits
    BY TrieAssumption
  <2>2. Walk(file, id, c) = Walk(file, id, b)
    BY <1>2, <2>1
  <2> HIDE DEF c
  <2>3. Walk(file, id, c + 1) = Walk(file, id, c)
    BY <2>1, <2>2, WalkSteps
  <2> QED BY <2>1, <2>2, <2>3
<1> DEFINE m == PrefixBits - b
<1>3. m \in Nat /\ b + m = PrefixBits /\ PrefixBits <= PrefixBits
  BY TrieAssumption
<1> HIDE DEF S, m
<1>4. m \in S
  BY <1>1, <1>2, <1>3, Induction
<1> QED BY <1>3, <1>4 DEF S
-----------------------------------------------------------------------------
(***************************************************************************)
(* The inductive invariant.                                                *)
(***************************************************************************)

\* An item is the record that the first bits of its id lead to, and the rest of
\* the id is 0.  A result has the value that Find gives for its id, or none.
Items ==
  {i \in {Item(Walk(file, id, bit), id, bit) : id \in Ids, bit \in 0..PrefixBits} :
     i.id % Power2(PrefixBits - i.bit) = 0}
Results ==
  {[id |-> id, value |-> FindValue(file, id)] : id \in Ids}
    \cup {[id |-> id, value |-> Nil] : id \in Ids}

ItemsOK ==
  query # NoQuery /\ Aligned(query) => stack \in Seq(Items) /\ out \in Seq(Results)
IInv ==
  /\ FileOK
  /\ status = "idle" => query = NoQuery /\ out = <<>> /\ stack = <<>>
  /\ ItemsOK

LEMMA ItemOK ==
  ASSUME NEW i \in Items
  PROVE  /\ i.id \in Ids /\ i.bit \in 0..PrefixBits
         /\ i.node = Walk(file, i.id, i.bit)
         /\ i.id % Power2(PrefixBits - i.bit) = 0
BY DEF Items, Item

LEMMA ItemIs ==
  ASSUME NEW id \in Ids, NEW bit \in 0..PrefixBits, NEW node,
         node = Walk(file, id, bit), id % Power2(PrefixBits - bit) = 0
  PROVE  Item(node, id, bit) \in Items
BY DEF Items, Item

\* The children of an item are items: the left one has its id, and the right one
\* the next bit besides (LeftItem, RightItem).
LEMMA ChildItems ==
  ASSUME FileOK, NEW i \in Items, IsNode(file, i.node)
  PROVE  LeftItem(i) \in Items /\ RightItem(i) \in Items
<1> DEFINE id == i.id
           b == i.bit
           j == WithBit(id, b)
<1>1. /\ id \in Ids /\ b \in 0..PrefixBits /\ i.node = Walk(file, id, b)
      /\ id % Power2(PrefixBits - b) = 0
  BY ItemOK
<1>2. b \in 0..(PrefixBits - 1)
  <2>1. b # PrefixBits
    BY <1>1, WalkSteps
  <2> QED BY <1>1, <2>1, TrieAssumption
<1> DEFINE c == b + 1
<1>3. c \in 0..PrefixBits
  BY <1>2, TrieAssumption
<1>4. LeftItem(i) = Item(file.nodes[i.node][0], id, c)
      /\ RightItem(i) = Item(file.nodes[i.node][1], j, c)
  BY DEF LeftItem, RightItem
<1> HIDE DEF id, b, j
<1>5. /\ GetBit(id, b) = 0 /\ id % Power2(PrefixBits - c) = 0
      /\ j \in Ids /\ GetBit(j, b) = 1 /\ j % Power2(PrefixBits - c) = 0
      /\ \A a \in 0..(b - 1) : GetBit(j, a) = GetBit(id, a)
  BY <1>1, <1>2, NextBit DEF j
<1>6. Walk(file, j, b) = Walk(file, id, b)
  BY <1>1, <1>5, SameWay
<1>7. Walk(file, id, c) = file.nodes[i.node][0] /\ Walk(file, j, c) = file.nodes[i.node][1]
  BY <1>1, <1>2, <1>5, <1>6, WalkSteps
<1> HIDE DEF c
<1> QED BY <1>1, <1>3, <1>4, <1>5, <1>7, ItemIs

\* At a leaf, Find comes to the same number for the id of the item, and for that
\* of Scan, which has one bit more (resolveDataPointer).
LEMMA LeafResults ==
  ASSUME FileOK, NEW i \in Items, IsData(file, i.node)
  PROVE  /\ Result(i.id, i) \in Results
         /\ i.bit < PrefixBits => Result(WithBit(i.id, i.bit), i) \in Results
<1> DEFINE id == i.id
           b == i.bit
           j == WithBit(id, b)
<1>1. /\ id \in Ids /\ b \in 0..PrefixBits /\ i.node = Walk(file, id, b)
      /\ id % Power2(PrefixBits - b) = 0
  BY ItemOK
<1> HIDE DEF id, b
<1>2. ~IsNode(file, i.node)
  BY <1>1, WalkSteps DEF IsNode, IsData
<1>3. ASSUME NEW x \in Ids, Walk(file, x, b) = i.node PROVE Result(x, i) \in Results
  <2>1. Walk(file, x, PrefixBits) = i.node
    BY <1>1, <1>2, <1>3, StaysAtLeaf
  <2>2. FindValue(file, x) = file.data[Resolve(file, i.node)]
    BY <2>1 DEF FindValue
  <2> QED BY <2>2 DEF Result, Results
<1>4. ASSUME b < PrefixBits PROVE Result(j, i) \in Results
  <2>1. b \in 0..(PrefixBits - 1)
    BY <1>1, <1>4, TrieAssumption
  <2>2. j \in Ids /\ \A a \in 0..(b - 1) : GetBit(j, a) = GetBit(id, a)
    BY <1>1, <2>1, NextBit
  <2> HIDE DEF j
  <2>3. Walk(file, j, b) = i.node
    BY <1>1, <2>2, SameWay
  <2> QED BY <1>3, <2>2, <2>3
<1> QED BY <1>1, <1>3, <1>4 DEF id, b

LEMMA FailedResults ==
  /\ Failed \in Results
  /\ \A id \in Ids : [Failed EXCEPT !.id = id] \in Results
<1>1. 0 \in Ids
  BY PowersOfTwo, TrieAssumption DEF Ids
<1> QED BY <1>1 DEF Failed, Results

LEMMA StopBitType ==
  ASSUME NEW q, q.prefixLen \in Nat
  PROVE  StopBit(q) \in 0..PrefixBits
<1> DEFINE a == q.prefixLen
           S == {a, PrefixBits}
<1>1. PrefixBits \in Nat /\ S \in SUBSET Nat /\ S # {}
  BY TrieAssumption
<1>2. \E x \in S : \A y \in S : x <= y
  BY <1>1
<1>3. Min(S) \in S /\ \A y \in S : Min(S) <= y
  BY <1>2 DEF Min
<1> QED BY <1>1, <1>3 DEF StopBit
-----------------------------------------------------------------------------
(***************************************************************************)
(* The steps.                                                              *)
(***************************************************************************)
LEMMA InitInvariant == Init => IInv
BY DEF Init, IInv, FileOK, ItemsOK

LEMMA BeginStep ==
  ASSUME IInv, NEW q \in Queries, Begin(q)
  PROVE  IInv'
<1>1. /\ query' = q /\ status' = "running" /\ out' = <<>> /\ stack = <<>>
      /\ content' = content /\ file' = file
  BY DEF IInv, Begin, bytes
<1>2. FileOK' /\ Items' = Items
  BY <1>1 DEF IInv, FileOK, Items
<1>3. ASSUME Aligned(q) PROVE stack' \in Seq(Items)
  <2>1. ASSUME NEW i \in Items PROVE <<i>> \in Seq(Items)
    OBVIOUS
  <2>2. <<>> \in Seq(Items)
    OBVIOUS
  <2>3. Item(0, 0, 0) \in Items
    <3>1. 0 \in Ids /\ 0 \in 0..PrefixBits /\ Power2(PrefixBits - 0) \in Nat
          /\ Power2(PrefixBits - 0) > 0
      BY PowersOfTwo, TrieAssumption DEF Ids
    <3>2. 0 % Power2(PrefixBits - 0) = 0
      BY <3>1
    <3>3. Walk(file, 0, 0) = 0
      BY <3>1, WalkSteps DEF IInv
    <3> QED BY <3>1, <3>2, <3>3, ItemIs
  <2>4. CASE q.kind = "scan"
    <3> DEFINE b == StopBit(q)
               i == Item(Walk(file, q.id, b), q.id, b)
    <3>1. q.id \in Ids /\ q.prefixLen \in Nat
      BY <2>4, TrieAssumption DEF Queries
    <3>2. b \in 0..PrefixBits
      BY <3>1, StopBitType
    <3>3. q.id % Power2(PrefixBits - b) = 0
      BY <1>3, <2>4 DEF Aligned
    <3>4. stack' = <<i>> \/ stack' = stack
      BY <2>4 DEF Begin, BeginScan, Continue
    <3> HIDE DEF b
    <3>5. i \in Items
      BY <3>1, <3>2, <3>3, ItemIs
    <3> HIDE DEF i
    <3> QED BY <1>1, <2>1, <2>2, <3>4, <3>5
  <2> DEFINE root == Item(0, 0, 0)
  <2>5. CASE q.kind = "range"
    <3>1. stack' = <<>> \/ stack' = <<root>>
      BY <2>5 DEF Begin, BeginRange
    <3> HIDE DEF root
    <3> QED BY <2>1, <2>2, <2>3, <3>1 DEF root
  <2>6. CASE q.kind = "where"
    <3>1. stack' = <<>> \/ stack' = <<root>>
      BY <2>6 DEF Begin, BeginWhere
    <3> HIDE DEF root
    <3> QED BY <2>1, <2>2, <2>3, <3>1 DEF root
  <2> QED BY <2>4, <2>5, <2>6 DEF Begin
<1> QED BY <1>1, <1>2, <1>3 DEF IInv, ItemsOK, Aligned, StopBit

LEMMA StackOfItems ==
  ASSUME stack \in Seq(Items), stack # <<>>
  PROVE  Top \in Items /\ Popped \in Seq(Items)
<1> DEFINE n == Len(stack)
<1>1. n \in Nat /\ n >= 1
  OBVIOUS
<1>2. n \in 1..n /\ n - 1 \in 0..n
  BY <1>1
<1>3. stack[n] \in Items
  BY <1>2
<1>4. SubSeq(stack, 1, n - 1) \in Seq(Items)
  BY <1>2
<1> QED BY <1>3, <1>4 DEF Top, Popped

\* A turn puts children on the stack, drops items, or hands out a leaf.
LEMMA TurnItems ==
  ASSUME FileOK, stack \in Seq(Items), out \in Seq(Results), Turn
  PROVE  stack' \in Seq(Items) /\ out' \in Seq(Results)
<1> DEFINE i == Top
           s == Popped
           left == LeftItem(i)
           right == RightItem(i)
<1>1. i \in Items /\ s \in Seq(Items)
  BY StackOfItems DEF Turn
<1>2. /\ i.id \in Ids /\ i.bit \in 0..PrefixBits /\ i.node \in Nat /\ file.nodeCount \in Nat
      /\ IsData(file, i.node) => ~IsNode(file, i.node)
  <2>1. i.id \in Ids /\ i.bit \in 0..PrefixBits /\ i.node = Walk(file, i.id, i.bit)
    BY <1>1, ItemOK
  <2>2. i.node \in Nat /\ file.nodeCount \in Nat
    BY <2>1, WalkSteps
  <2> HIDE DEF i
  <2> QED BY <2>1, <2>2 DEF IsData, IsNode
<1>3. ASSUME IsNode(file, i.node) PROVE left \in Items /\ right \in Items
  BY <1>1, <1>3, ChildItems
<1>4. ASSUME IsData(file, i.node)
      PROVE  /\ Result(i.id, i) \in Results
             /\ i.bit < PrefixBits => Result(WithBit(i.id, i.bit), i) \in Results
  BY <1>1, <1>4, LeafResults
<1>5. Failed \in Results /\ [Failed EXCEPT !.id = i.id] \in Results
  BY <1>2, FailedResults
<1>6. <<>> \in Seq(Items)
  OBVIOUS
<1>7. ASSUME NEW r \in Results, Yield(r) PROVE stack' \in Seq(Items) /\ out' \in Seq(Results)
  <2>1. out' = Append(out, r) /\ (stack' = <<>> \/ stack' = s)
    BY <1>7 DEF Yield
  <2>2. \A x \in Seq(Results) : Append(x, r) \in Seq(Results)
    BY <1>7
  <2> HIDE DEF s
  <2> QED BY <1>1, <1>6, <2>1, <2>2
<1>8. ASSUME NEW z \in Seq(Items), Descend(z)
      PROVE  stack' \in Seq(Items) /\ out' \in Seq(Results)
  BY <1>8 DEF Descend, Continue
<1>9. ASSUME Drop PROVE stack' \in Seq(Items) /\ out' \in Seq(Results)
  BY <1>1, <1>9 DEF Drop
<1>10. ASSUME IsNode(file, i.node) PROVE s \o <<right, left>> \in Seq(Items)
  <2>1. left \in Items /\ right \in Items
    BY <1>3, <1>10
  <2> HIDE DEF left, right, s
  <2> QED BY <1>1, <2>1
<1>11. ASSUME NEW z \in Seq(Items), NEW c, NEW j \in Items PROVE PushIf(z, c, j) \in Seq(Items)
  BY DEF PushIf
<1>12. CASE ScanTurn
  <2>1. CASE IsData(file, i.node)
    <3>1. \E r \in Results : Yield(r)
      BY <1>2, <1>4, <1>5, <1>12, <2>1 DEF ScanTurn
    <3> QED BY <1>7, <3>1
  <2>2. CASE IsNode(file, i.node)
    <3>1. Descend(s \o <<right, left>>)
      BY <1>2, <1>12, <2>2 DEF ScanTurn
    <3> QED BY <1>8, <1>10, <2>2, <3>1
  <2>3. CASE ~IsData(file, i.node) /\ ~IsNode(file, i.node)
    <3>1. Drop
      BY <1>12, <2>3 DEF ScanTurn
    <3> QED BY <1>9, <3>1
  <2> QED BY <2>1, <2>2, <2>3
<1>13. CASE RangeTurn
  <2>1. CASE i.id > query.end \/ NetEnd(i) < query.start
    <3>1. Drop
      BY <1>13, <2>1 DEF RangeTurn
    <3> QED BY <1>9, <3>1
  <2> DEFINE inside == ~(i.id > query.end \/ NetEnd(i) < query.start)
  <2>2. CASE inside /\ IsData(file, i.node)
    <3>1. \E r \in Results : Yield(r)
      BY <1>2, <1>4, <1>5, <1>13, <2>2 DEF RangeTurn
    <3> QED BY <1>7, <3>1
  <2>3. CASE inside /\ IsNode(file, i.node)
    <3> DEFINE c == WithBit(i.id, i.bit) <= query.end
               d == i.id <= query.end
               z == PushIf(s, c, right)
    <3>1. Descend(PushIf(z, d, left))
      BY <1>2, <1>13, <2>3 DEF RangeTurn
    <3> HIDE DEF c, d, left, right
    <3>2. z \in Seq(Items)
      BY <1>1, <1>3, <1>11, <2>3
    <3> HIDE DEF z
    <3>3. PushIf(z, d, left) \in Seq(Items)
      BY <1>3, <1>11, <2>3, <3>2
    <3> QED BY <1>8, <3>1, <3>3
  <2>4. CASE inside /\ ~IsData(file, i.node) /\ ~IsNode(file, i.node)
    <3>1. Drop
      BY <1>13, <2>4 DEF RangeTurn
    <3> QED BY <1>9, <3>1
  <2> QED BY <2>1, <2>2, <2>3, <2>4
<1>14. CASE WhereTurn
  <2>1. CASE IsData(file, i.node)
    <3>1. (\E r \in Results : Yield(r)) \/ Drop
      BY <1>2, <1>4, <1>14, <2>1 DEF WhereTurn
    <3> QED BY <1>7, <1>9, <3>1
  <2>2. CASE IsNode(file, i.node)
    <3>1. Descend(s \o <<right, left>>) \/ Drop
      BY <1>2, <1>14, <2>2 DEF WhereTurn
    <3> QED BY <1>8, <1>9, <1>10, <2>2, <3>1
  <2>3. CASE ~IsData(file, i.node) /\ ~IsNode(file, i.node)
    <3>1. Drop
      BY <1>14, <2>3 DEF WhereTurn
    <3> QED BY <1>9, <3>1
  <2> QED BY <2>1, <2>2, <2>3
<1> QED BY <1>12, <1>13, <1>14 DEF Turn

LEMMA TurnStep ==
  ASSUME IInv, Turn
  PROVE  IInv'
<1>1. /\ content' = content /\ file' = file /\ query' = query /\ status = "running"
      /\ status' # "idle"
  BY DEF Turn, ScanTurn, RangeTurn, WhereTurn, Yield, Descend, Drop, bytes
<1>2. FileOK' /\ Items' = Items /\ Results' = Results
  BY <1>1 DEF IInv, FileOK, Items, Results
<1>3. ItemsOK'
  BY <1>1, <1>2, TurnItems DEF IInv, ItemsOK, Aligned, StopBit
<1> QED BY <1>1, <1>2, <1>3 DEF IInv

LEMMA OtherSteps ==
  ASSUME IInv, End \/ Close \/ UNCHANGED vars
  PROVE  IInv'
<1>1. /\ content' = content /\ file' = file /\ query' = query /\ stack' = stack /\ out' = out
      /\ status' = "idle" => status = "idle"
  BY DEF End, Close, vars, bytes
<1> QED BY <1>1 DEF IInv, FileOK, ItemsOK, Items, Results, Aligned, StopBit

LEMMA NextInvariant == IInv /\ [Next]_vars => IInv'
BY BeginStep, TurnStep, OtherSteps DEF Next

\* However a reader is used, stopped or closed: an item on the stack of Scan,
\* GetRange or Where is the record that the first bits of its id lead to, with
\* the rest of the id 0, so that no turn mixes up a node and its id.
THEOREM Invariance == Spec => []IInv
<1>1. Init => IInv
  BY InitInvariant
<1>2. IInv /\ [Next]_vars => IInv'
  BY NextInvariant
<1> QED BY <1>1, <1>2, PTL DEF Spec

\* The id an iterator gives with a value leads Find back to that value, for every
\* file, every query and at every moment.
THEOREM IdsLeadBack == Spec => []IdLeadsBack
<1>1. IInv => IdLeadsBack
  <2> SUFFICES ASSUME IInv, query # NoQuery, Aligned(query),
                      NEW i \in DOMAIN out, out[i].value # Nil
               PROVE  FindValue(file, out[i].id) = out[i].value
    BY DEF IdLeadsBack
  <2>1. out \in Seq(Results)
    BY DEF IInv, ItemsOK
  <2>2. out[i] \in Results
    BY <2>1
  <2> QED BY <2>2 DEF Results
<1> QED BY <1>1, Invariance, PTL
-----------------------------------------------------------------------------
(***************************************************************************)
(* Ids and the paths of their keys.                                        *)
(***************************************************************************)

\* The numbers of which a quotient is that of the first.
LEMMA Quotient ==
  ASSUME NEW x \in Int, NEW a \in Int, NEW P \in Nat, P > 0
  PROVE  x \div P = a <=> a * P <= x /\ x <= a * P + (P - 1)
<1> DEFINE u == x \div P
           r == x % P
<1>1. u \in Int /\ r \in 0..(P - 1) /\ x = P * u + r
  OBVIOUS
<1> HIDE DEF u, r
<1>2. ASSUME u = a PROVE a * P <= x /\ x <= a * P + (P - 1)
  BY <1>1, <1>2
<1>3. ASSUME a * P <= x, x <= a * P + (P - 1) PROVE u = a
  <2> DEFINE y == x - P * a
  <2>1. y \in 0..(P - 1) /\ x = P * a + y
    BY <1>3
  <2> HIDE DEF y
  <2>2. \A b \in Int, z \in 0..(P - 1) : (P * b + z) \div P = b
    OBVIOUS
  <2> QED BY <2>1, <2>2 DEF u
<1> QED BY <1>2, <1>3 DEF u

\* The number of a path, bit by bit.
LEMMA NumberOfPath ==
  ASSUME NEW k \in Keys
  PROVE  /\ NumberOf(Path(k, 0)) = 0
         /\ \A n \in 0..PrefixBits : NumberOf(Path(k, n)) \in Nat
         /\ \A n \in 0..(PrefixBits - 1) :
              NumberOf(Path(k, n + 1)) = 2 * NumberOf(Path(k, n)) + k[n + 1]
<1>1. \A n \in 0..PrefixBits : Path(k, n) \in [1..n -> Int]
  <2> TAKE n \in 0..PrefixBits
  <2>1. \A i \in 1..n : i \in 1..PrefixBits
    BY TrieAssumption
  <2>2. \A i \in 1..n : k[i] \in Int
    BY <2>1 DEF Keys, Bit
  <2> QED BY <2>2 DEF Path
<1>2. NumberOf(Path(k, 0)) = 0
  <2> DEFINE s == Path(k, 0)
  <2>1. 0 \in 0..PrefixBits /\ 0 \in Int /\ 2 \in Int
    BY TrieAssumption
  <2>2. s \in [1..0 -> Int]
    BY <1>1, <2>1
  <2> HIDE DEF s
  <2>3. \A base \in Int, first \in Int : Horner(base, first, s) = first
    BY <2>2, HornerEmpty
  <2>4. Horner(2, 0, s) = 0
    BY <2>1, <2>3, Zenon
  <2> QED BY <2>4 DEF NumberOf, s
<1>3. ASSUME NEW n \in 0..(PrefixBits - 1)
      PROVE  NumberOf(Path(k, n + 1)) = 2 * NumberOf(Path(k, n)) + k[n + 1]
  <2> DEFINE s == Path(k, n)
             t == Path(k, n + 1)
  <2>1. n \in Nat /\ n \in 0..PrefixBits /\ n + 1 \in 0..PrefixBits /\ n + 1 \in 1..(n + 1)
    BY TrieAssumption
  <2>2. s \in [1..n -> Int] /\ t \in [1..(n + 1) -> Int]
    BY <1>1, <2>1
  <2>3. (\A i \in 1..n : t[i] = s[i]) /\ t[n + 1] = k[n + 1]
    BY <2>1 DEF Path
  <2> HIDE DEF s, t
  <2>4. \A base \in Int, first \in Int :
          Horner(base, first, t) = base * Horner(base, first, s) + t[n + 1]
    BY <2>1, <2>2, <2>3, HornerAppend
  <2>5. 2 \in Int /\ 0 \in Int
    OBVIOUS
  <2>6. Horner(2, 0, t) = 2 * Horner(2, 0, s) + t[n + 1]
    BY <2>4, <2>5, Zenon
  <2> QED BY <2>3, <2>6 DEF NumberOf, s, t
<1> DEFINE S == {n \in Nat : n <= PrefixBits => NumberOf(Path(k, n)) \in Nat}
<1>4. 0 \in S
  BY <1>2
<1>5. ASSUME NEW n \in Nat, n \in S PROVE n + 1 \in S
  <2> SUFFICES ASSUME n + 1 <= PrefixBits PROVE NumberOf(Path(k, n + 1)) \in Nat
    OBVIOUS
  <2>1. n \in 0..(PrefixBits - 1) /\ n + 1 \in 1..PrefixBits /\ NumberOf(Path(k, n)) \in Nat
    BY <1>5, TrieAssumption
  <2>2. k[n + 1] \in Nat
    BY <2>1 DEF Keys, Bit
  <2> QED BY <1>3, <2>1, <2>2
<1>6. \A n \in 0..PrefixBits : NumberOf(Path(k, n)) \in Nat
  <2>1. Nat \subseteq S
    <3> HIDE DEF S
    <3> QED BY <1>4, <1>5, Induction
  <2> QED BY <2>1
<1> QED BY <1>2, <1>3, <1>6

\* The first n bits of an id make its quotient.
LEMMA NumberOfId ==
  ASSUME NEW id \in Ids, NEW n \in 0..PrefixBits
  PROVE  NumberOf(Path(KeyOfId(id), n)) = id \div Power2(PrefixBits - n)
<1> DEFINE k == KeyOfId(id)
           S == {m \in Nat : m <= PrefixBits =>
                               NumberOf(Path(k, m)) = id \div Power2(PrefixBits - m)}
<1>1. k \in Keys /\ \A d \in 1..PrefixBits : k[d] = GetBit(id, d - 1)
  BY KeyOfIdType
<1> HIDE DEF k
<1>2. 0 \in S
  <2>1. PrefixBits - 0 = PrefixBits /\ PrefixBits \in Nat
    BY TrieAssumption
  <2>2. id \div Power2(PrefixBits) = 0
    BY <2>1, PowersOfTwo DEF Ids
  <2> QED BY <1>1, <2>1, <2>2, NumberOfPath
<1>3. ASSUME NEW m \in Nat, m \in S PROVE m + 1 \in S
  <2> SUFFICES ASSUME m + 1 <= PrefixBits
               PROVE  NumberOf(Path(k, m + 1)) = id \div Power2(PrefixBits - (m + 1))
    OBVIOUS
  <2> DEFINE h == PrefixBits - (m + 1)
             P == Power2(h)
             x == id \div P
  <2>1. /\ h \in Nat /\ PrefixBits - m = h + 1 /\ PrefixBits - 1 - m = h
        /\ m \in 0..(PrefixBits - 1) /\ m + 1 \in 1..PrefixBits /\ (m + 1) - 1 = m
    BY TrieAssumption
  <2>2. NumberOf(Path(k, m)) = id \div Power2(h + 1)
    <3>1. m <= PrefixBits
      BY <2>1, TrieAssumption
    <3>2. NumberOf(Path(k, m)) = id \div Power2(PrefixBits - m)
      BY <1>3, <3>1
    <3> HIDE DEF h
    <3> QED BY <2>1, <3>2
  <2>3. k[m + 1] = x % 2
    BY <1>1, <2>1 DEF GetBit
  <2> HIDE DEF h
  <2>4. P \in Nat /\ P > 0 /\ Power2(h + 1) = 2 * P
    BY <2>1, PowersOfTwo
  <2>5. id \in Int
    BY DEF Ids
  <2> HIDE DEF P
  <2>6. id \div (2 * P) = x \div 2 /\ x \in Int
    BY <2>4, <2>5, ShiftBit
  <2>7. NumberOf(Path(k, m + 1)) = 2 * NumberOf(Path(k, m)) + k[m + 1]
    BY <1>1, <2>1, NumberOfPath
  <2> HIDE DEF x
  <2>8. x = 2 * (x \div 2) + (x % 2)
    BY <2>6
  <2>9. NumberOf(Path(k, m + 1)) = x
    BY <2>2, <2>3, <2>4, <2>6, <2>7, <2>8
  <2> QED BY <2>9 DEF x, P, h
<1>4. n \in S
  <2> HIDE DEF S
  <2> QED BY <1>2, <1>3, Induction
<1> QED BY <1>4 DEF k

\* Every key is that of the id that its bits make.
LEMMA IdOfKey ==
  ASSUME NEW k \in Keys
  PROVE  NumberOf(k) \in Ids /\ KeyOfId(NumberOf(k)) = k
<1> DEFINE N(n) == NumberOf(Path(k, n))
           id == N(PrefixBits)
           S == {m \in Nat : m <= PrefixBits => id \div Power2(m) = N(PrefixBits - m)}
           U == {n \in Nat : n <= PrefixBits => N(n) < Power2(n)}
<1>0. PrefixBits \in Nat /\ PrefixBits \in 0..PrefixBits
  BY TrieAssumption
<1>1. /\ N(0) = 0
      /\ \A n \in 0..PrefixBits : N(n) \in Nat
      /\ \A n \in 0..(PrefixBits - 1) : N(n + 1) = 2 * N(n) + k[n + 1]
      /\ \A n \in 0..(PrefixBits - 1) : k[n + 1] \in {0, 1}
  <2>1. \A n \in 0..(PrefixBits - 1) : n + 1 \in 1..PrefixBits
    BY <1>0
  <2>2. \A n \in 0..(PrefixBits - 1) : k[n + 1] \in {0, 1}
    BY <2>1 DEF Keys, Bit
  <2> QED BY <2>2, NumberOfPath
<1>2. NumberOf(k) = id
  <2>1. k = [i \in 1..PrefixBits |-> k[i]]
    BY DEF Keys
  <2> QED BY <2>1 DEF Path
<1> HIDE DEF N
<1>3. 0 \in U
  BY <1>1, PowersOfTwo
<1>4. ASSUME NEW n \in Nat, n \in U PROVE n + 1 \in U
  <2> SUFFICES ASSUME n + 1 <= PrefixBits PROVE N(n + 1) < Power2(n + 1)
    OBVIOUS
  <2>1. n \in 0..(PrefixBits - 1) /\ n \in 0..PrefixBits /\ N(n) < Power2(n)
    BY <1>0, <1>4
  <2>2. Power2(n + 1) = 2 * Power2(n) /\ Power2(n) \in Nat /\ N(n) \in Nat
    BY <1>1, <2>1, PowersOfTwo
  <2>3. N(n + 1) = 2 * N(n) + k[n + 1] /\ k[n + 1] \in {0, 1}
    BY <1>1, <2>1
  <2> QED BY <2>1, <2>2, <2>3
<1>5. id \in Ids
  <2>1. PrefixBits \in U
    <3> HIDE DEF U
    <3> QED BY <1>0, <1>3, <1>4, Induction
  <2> QED BY <1>0, <1>1, <2>1, PowersOfTwo DEF Ids
<1>6. id \in Nat
  BY <1>0, <1>1
<1>7. 0 \in S
  <2>1. id \div 1 = id /\ PrefixBits - 0 = PrefixBits
    BY <1>0, <1>6
  <2> QED BY <2>1, PowersOfTwo
<1>8. ASSUME NEW m \in Nat, m \in S PROVE m + 1 \in S
  <2> SUFFICES ASSUME m + 1 <= PrefixBits
               PROVE  id \div Power2(m + 1) = N(PrefixBits - (m + 1))
    OBVIOUS
  <2> DEFINE n == PrefixBits - (m + 1)
             P == Power2(m)
  <2>1. n \in 0..(PrefixBits - 1) /\ n + 1 = PrefixBits - m /\ m <= PrefixBits
        /\ n \in 0..PrefixBits
    BY <1>0
  <2>2. id \div P = N(n + 1)
    BY <1>8, <2>1
  <2>3. P \in Nat /\ P > 0 /\ Power2(m + 1) = 2 * P
    BY PowersOfTwo
  <2> HIDE DEF P, n, id
  <2>4. id \div (2 * P) = (id \div P) \div 2
    BY <1>6, <2>3, ShiftBit
  <2>5. N(n + 1) = 2 * N(n) + k[n + 1] /\ k[n + 1] \in {0, 1} /\ N(n) \in Nat
    BY <1>1, <2>1
  <2>6. (2 * N(n) + k[n + 1]) \div 2 = N(n)
    BY <2>5
  <2> QED BY <2>2, <2>3, <2>4, <2>5, <2>6 DEF n
<1>9. ASSUME NEW d \in 1..PrefixBits PROVE GetBit(id, d - 1) = k[d]
  <2> DEFINE m == PrefixBits - 1 - (d - 1)
             n == d - 1
  <2>1. m \in Nat /\ m <= PrefixBits /\ PrefixBits - m = n + 1 /\ n \in 0..(PrefixBits - 1)
        /\ n + 1 = d /\ n \in 0..PrefixBits
    BY <1>0
  <2>2. m \in S
    <3> HIDE DEF S, m
    <3> QED BY <1>7, <1>8, <2>1, Induction
  <2>3. id \div Power2(m) = N(n + 1)
    BY <2>1, <2>2
  <2>4. N(n + 1) = 2 * N(n) + k[n + 1] /\ k[n + 1] \in {0, 1} /\ N(n) \in Nat
    BY <1>1, <2>1
  <2>5. N(n + 1) % 2 = k[n + 1]
    BY <2>4
  <2> HIDE DEF id, n
  <2> QED BY <2>1, <2>3, <2>5 DEF GetBit
<1> HIDE DEF id
<1>10. k = [i \in 1..PrefixBits |-> k[i]]
  BY DEF Keys
<1>11. KeyOfId(id) = k
  BY <1>9, <1>10 DEF KeyOfId
<1> QED BY <1>2, <1>5, <1>11
-----------------------------------------------------------------------------
(***************************************************************************)
(* Leaves and the ids they stand for.                                      *)
(***************************************************************************)

\* A path stands for the ids whose keys begin with it.
LEMMA PathIds ==
  ASSUME NEW p \in Paths
  PROVE  /\ Low(p) \in Ids /\ High(p) \in Ids /\ Low(p) <= High(p)
         /\ \A id \in Ids :
              Low(p) <= id /\ id <= High(p) <=> p = Path(KeyOfId(id), Len(p))
<1> DEFINE d == Len(p)
           h == PrefixBits - d
           P == Power2(h)
<1>1. d \in 1..PrefixBits /\ \E l \in Keys : p = Path(l, d)
  BY PathOfKey
<1>2. PICK l \in Keys : p = Path(l, d)
  BY <1>1
<1>3. PICK x \in Ids : KeyOfId(x) = l
  BY IdOfKey
<1>4. /\ PrefixBits \in Nat /\ d \in Nat /\ d \in 0..PrefixBits /\ h \in Nat /\ h + d = PrefixBits
      /\ \A c \in 1..d : d - c \in Nat /\ PrefixBits - 1 - (c - 1) = h + (d - c)
  BY <1>1, TrieAssumption
<1> DEFINE a == x \div P
           T == Power2(PrefixBits)
<1>5. NumberOf(p) = a
  BY <1>2, <1>3, <1>4, NumberOfId
<1>6. Low(p) = a * P /\ High(p) = a * P + P - 1
  BY <1>5 DEF Low, High
<1> HIDE DEF d
<1>7. P \in Nat /\ P > 0 /\ T \in Nat /\ T > 0
  BY <1>4, PowersOfTwo
<1>8. Ids = 0..(T - 1)
  BY DEF Ids
<1> HIDE DEF h, P, T
<1>9. x \in Nat /\ a \in Nat /\ x \in Int
  BY <1>7, <1>8
<1> HIDE DEF a
<1>10. a * P \in Nat
  BY <1>7, <1>9
<1>11. \A y \in Int : y \div P = a <=> Low(p) <= y /\ y <= High(p)
  <2> TAKE y \in Int
  <2>1. y \div P = a <=> a * P <= y /\ y <= a * P + (P - 1)
    BY <1>7, <1>9, Quotient
  <2> QED BY <1>6, <1>7, <1>10, <2>1
<1>12. ASSUME NEW y \in Int, y \div P = a
       PROVE  \A n \in Nat : y \div Power2(h + n) = x \div Power2(h + n)
  <2>1. h \in Nat /\ y \div Power2(h) = x \div Power2(h)
    BY <1>4, <1>12 DEF a, P
  <2> QED BY <1>9, <2>1, SameAbove
<1>13. ASSUME NEW y \in Nat, y \div P = a PROVE y \in Ids
  <2>1. y \div Power2(h + d) = x \div Power2(h + d) /\ y \in Int
    BY <1>4, <1>12, <1>13
  <2>2. y \div T = x \div T
    BY <1>4, <2>1 DEF T
  <2>3. x \div T = 0
    BY <1>7, <1>8
  <2>4. y < T
    BY <1>7, <2>2, <2>3
  <2> QED BY <1>7, <1>8, <2>4
<1>14. Low(p) \in Ids /\ High(p) \in Ids /\ Low(p) <= High(p)
  <2>1. Low(p) \in Nat /\ High(p) \in Nat /\ Low(p) <= High(p)
    BY <1>6, <1>7, <1>10
  <2> QED BY <1>11, <1>13, <2>1
<1>15. ASSUME NEW id \in Ids, Low(p) <= id, id <= High(p)
       PROVE  p = Path(KeyOfId(id), d)
  <2>1. id \in Int /\ id \div P = a
    BY <1>7, <1>8, <1>11, <1>15
  <2>2. \A n \in Nat : id \div Power2(h + n) = x \div Power2(h + n)
    BY <1>12, <2>1
  <2>3. \A c \in 1..d : GetBit(id, c - 1) = GetBit(x, c - 1)
    BY <1>4, <2>2 DEF GetBit
  <2>4. \A c \in 1..d : c \in 1..PrefixBits
    BY <1>4
  <2>5. \A c \in 1..d : KeyOfId(id)[c] = KeyOfId(x)[c]
    BY <2>3, <2>4, KeyOfIdType
  <2> QED BY <1>2, <1>3, <2>5 DEF Path
<1>16. ASSUME NEW id \in Ids, p = Path(KeyOfId(id), d)
       PROVE  Low(p) <= id /\ id <= High(p)
  <2>1. NumberOf(p) = id \div P
    BY <1>4, <1>16, NumberOfId DEF P, h
  <2>2. id \in Int /\ id \div P = a
    BY <1>5, <1>7, <1>8, <2>1
  <2> QED BY <1>11, <2>2
<1> QED BY <1>14, <1>15, <1>16 DEF d

Trie0 == TrieOf(content)
Leaves == DataPaths(Trie0)

\* The way of a key ends once.
LEMMA OneLeaf ==
  ASSUME NEW k \in Keys, NEW d \in 1..PrefixBits, NEW e \in 1..PrefixBits,
         Trie0[Path(k, d)].kind \in {"empty", "data"},
         Trie0[Path(k, e)].kind \in {"empty", "data"}
  PROVE  d = e
<1>1. ASSUME NEW n \in 1..PrefixBits, Trie0[Path(k, n)].kind \in {"empty", "data"}
      PROVE  /\ Uniform(content, Path(k, n))
             /\ \A m \in 1..(n - 1) : ~Uniform(content, Path(k, m))
  <2>1. Trie0[Path(k, n)] =
           IF \E m \in 1..(n - 1) : Uniform(content, Path(k, m)) THEN NoLabel
           ELSE IF ~Uniform(content, Path(k, n)) THEN NodeLabel
           ELSE IF content[k] = Nil THEN EmptyLabel
           ELSE DataLabel(content[k])
    BY TrieOfOnPath DEF Trie0
  <2> QED BY <1>1, <2>1 DEF NoLabel, NodeLabel
<1>2. /\ Uniform(content, Path(k, d)) /\ Uniform(content, Path(k, e))
      /\ \A m \in 1..(d - 1) : ~Uniform(content, Path(k, m))
      /\ \A m \in 1..(e - 1) : ~Uniform(content, Path(k, m))
  BY <1>1
<1>3. d \notin 1..(e - 1) /\ e \notin 1..(d - 1)
  BY <1>2
<1> QED BY <1>3, TrieAssumption

LEMMA LeafType ==
  ASSUME NEW p \in Leaves
  PROVE  p \in Paths /\ Len(p) \in 1..PrefixBits /\ Trie0[p].kind = "data"
BY PathOfKey DEF Leaves, DataPaths

\* No two leaves stand for the same id.
LEMMA LeavesDisjoint ==
  ASSUME NEW p \in Leaves, NEW q \in Leaves, Low(p) <= High(q), Low(q) <= High(p)
  PROVE  p = q
<1> DEFINE y == IF Low(p) <= Low(q) THEN Low(q) ELSE Low(p)
<1>1. Low(p) \in Int /\ Low(q) \in Int /\ High(p) \in Int /\ High(q) \in Int
      /\ Low(p) <= High(p) /\ Low(q) <= High(q)
  BY LeafType, PathIds, PowersOfTwo, TrieAssumption DEF Ids
<1>2. y \in Ids /\ Low(p) <= y /\ y <= High(p) /\ Low(q) <= y /\ y <= High(q)
  BY <1>1, LeafType, PathIds
<1> HIDE DEF y
<1>3. p = Path(KeyOfId(y), Len(p)) /\ q = Path(KeyOfId(y), Len(q))
  BY <1>2, LeafType, PathIds
<1>4. Trie0[p].kind = "data" /\ Trie0[q].kind = "data" /\ KeyOfId(y) \in Keys
      /\ Len(p) \in 1..PrefixBits /\ Len(q) \in 1..PrefixBits
  BY <1>2, LeafType, KeyOfIdType
<1> DEFINE d == Len(p)
           e == Len(q)
<1>5. p = Path(KeyOfId(y), d) /\ q = Path(KeyOfId(y), e)
  BY <1>3
<1>6. d \in 1..PrefixBits /\ e \in 1..PrefixBits
  BY <1>4
<1> HIDE DEF d, e
<1>7. d = e
  BY <1>4, <1>5, <1>6, OneLeaf
<1> QED BY <1>5, <1>7

\* The leaves by their lowest ids.
LEMMA LeavesById ==
  ASSUME FileOK, leaves = LeavesOf(Trie0)
  PROVE  /\ DOMAIN leaves \in SUBSET Ids /\ IsFiniteSet(DOMAIN leaves)
         /\ \A id \in DOMAIN leaves :
              /\ leaves[id].path \in Leaves /\ Low(leaves[id].path) = id
              /\ leaves[id].value = Trie0[leaves[id].path].value
              /\ leaves[id].value \in Values
         /\ \A p \in Leaves : Low(p) \in DOMAIN leaves /\ leaves[Low(p)].path = p
<1>1. DOMAIN leaves = {Low(p) : p \in Leaves}
  BY DEF LeavesOf, Leaves
<1>2. ASSUME NEW p \in Leaves
      PROVE  leaves[Low(p)].path = p /\ leaves[Low(p)].value = Trie0[p].value
  <2>1. \A q \in Leaves : Low(q) = Low(p) => q = p
    <3> TAKE q \in Leaves
    <3>1. Low(q) \in Int /\ Low(p) \in Int /\ High(p) \in Int /\ High(q) \in Int
          /\ Low(q) <= High(q) /\ Low(p) <= High(p)
      BY LeafType, PathIds, PowersOfTwo, TrieAssumption DEF Ids
    <3> QED BY <3>1, LeavesDisjoint
  <2>2. (CHOOSE r \in DataPaths(Trie0) : Low(r) = Low(p)) = p
    BY <2>1 DEF Leaves
  <2>3. Low(p) \in {Low(r) : r \in DataPaths(Trie0)}
    BY DEF Leaves
  <2>4. leaves[Low(p)] = LeafAt(Trie0, Low(p))
    BY <2>3 DEF LeavesOf
  <2> DEFINE r == CHOOSE r \in DataPaths(Trie0) : Low(r) = Low(p)
  <2>5. leaves[Low(p)] = [path |-> r, value |-> Trie0[r].value]
    BY <2>4 DEF LeafAt
  <2>6. r = p
    BY <2>2
  <2> HIDE DEF r
  <2> QED BY <2>5, <2>6
<1>3. \A p \in Leaves : Trie0[p].value \in Values
  <2>1. HasValues(Trie0)
    BY ReaderAssumption, TrieOfOK DEF FileOK, Trie0
  <2> QED BY <2>1, LeafType DEF HasValues
<1>4. IsFiniteSet(DOMAIN leaves) /\ DOMAIN leaves \in SUBSET Ids
  <2>1. \A p \in Leaves : Low(p) \in Ids
    BY LeafType, PathIds
  <2>2. DOMAIN leaves \subseteq Ids
    BY <1>1, <2>1
  <2>3. IsFiniteSet(Ids)
    BY FS_Interval, PowersOfTwo, TrieAssumption DEF Ids
  <2> QED BY <2>2, <2>3, FS_Subset
<1> QED BY <1>1, <1>2, <1>3, <1>4
-----------------------------------------------------------------------------
(***************************************************************************)
(* Items and the leaves below them.                                        *)
(***************************************************************************)
Touches(p, i) == Low(p) <= NetEnd(i) /\ High(p) >= i.id
Hung(i) == i.bit > 0 /\ IsNode(file, Walk(file, i.id, i.bit - 1))

\* The ids of an item are those with its first bits.
LEMMA ItemIds ==
  ASSUME NEW i \in Items
  PROVE  /\ i.id \in Ids /\ i.id \in Int /\ i.bit \in 0..PrefixBits /\ i.bit \in Nat
         /\ NetEnd(i) \in Ids /\ NetEnd(i) \in Int /\ i.id <= NetEnd(i)
         /\ \A y \in Ids : i.id <= y /\ y <= NetEnd(i) =>
              \A d \in 0..(i.bit) : Path(KeyOfId(y), d) = Path(KeyOfId(i.id), d)
<1> DEFINE id == i.id
           b == i.bit
           h == PrefixBits - b
           P == Power2(h)
           T == Power2(PrefixBits)
<1>1. id \in Ids /\ b \in 0..PrefixBits /\ id % P = 0
  BY ItemOK
<1>2. NetEnd(i) = id + P - 1
  BY DEF NetEnd
<1> HIDE DEF id, b
<1>3. /\ PrefixBits \in Nat /\ b \in Nat /\ h \in Nat /\ h + b = PrefixBits
      /\ \A c \in 1..b : b - c \in Nat /\ PrefixBits - 1 - (c - 1) = h + (b - c)
  BY <1>1, TrieAssumption
<1> HIDE DEF h
<1>4. P \in Nat /\ P > 0 /\ T \in Nat /\ T > 0 /\ Ids = 0..(T - 1)
  BY <1>3, PowersOfTwo DEF Ids
<1> HIDE DEF P, T
<1> DEFINE a == id \div P
<1>5. a \in Nat /\ id = P * a
  BY <1>1, <1>4
<1> HIDE DEF a
<1>6. id = a * P
  BY <1>4, <1>5
<1>7. \A y \in Int : y \div P = a <=> id <= y /\ y <= NetEnd(i)
  <2> TAKE y \in Int
  <2>1. y \div P = a <=> a * P <= y /\ y <= a * P + (P - 1)
    BY <1>4, <1>5, Quotient
  <2> QED BY <1>1, <1>2, <1>4, <1>6, <2>1
<1>8. id \in Int /\ NetEnd(i) \in Nat /\ id <= NetEnd(i)
  BY <1>1, <1>2, <1>4
<1>9. ASSUME NEW y \in Int, y \div P = a
      PROVE  \A n \in Nat : y \div Power2(h + n) = id \div Power2(h + n)
  <2>1. h \in Nat /\ y \div Power2(h) = id \div Power2(h)
    BY <1>3, <1>9 DEF a, P
  <2> QED BY <1>8, <2>1, SameAbove
<1>10. NetEnd(i) \in Ids
  <2> DEFINE y == NetEnd(i)
  <2>1. y \in Int /\ y \in Nat /\ y \div P = a
    BY <1>7, <1>8
  <2> HIDE DEF y
  <2>2. y \div Power2(h + b) = id \div Power2(h + b)
    BY <1>3, <1>9, <2>1
  <2>3. y \div T = id \div T
    BY <1>3, <2>2 DEF T
  <2>4. id \div T = 0
    BY <1>1, <1>4
  <2>5. y < T
    BY <1>4, <2>1, <2>3, <2>4
  <2> QED BY <1>4, <2>1, <2>5 DEF y
<1>11. ASSUME NEW y \in Ids, id <= y, y <= NetEnd(i), NEW d \in 0..b
       PROVE  Path(KeyOfId(y), d) = Path(KeyOfId(id), d)
  <2>1. y \in Int /\ y \div P = a
    BY <1>4, <1>7, <1>11
  <2>2. \A n \in Nat : y \div Power2(h + n) = id \div Power2(h + n)
    BY <1>9, <2>1
  <2>3. \A c \in 1..d : c \in 1..b /\ c \in 1..PrefixBits
    BY <1>3
  <2>4. \A c \in 1..d : GetBit(y, c - 1) = GetBit(id, c - 1)
    BY <1>3, <2>2, <2>3 DEF GetBit
  <2>5. \A c \in 1..d : KeyOfId(y)[c] = KeyOfId(id)[c]
    BY <1>1, <2>3, <2>4, KeyOfIdType
  <2> QED BY <2>5 DEF Path
<1> QED BY <1>1, <1>3, <1>8, <1>10, <1>11 DEF id, b

\* Where the way of an item ends, when it is not a node.
LEMMA ItemEnd ==
  ASSUME FileOK, NEW i \in Items, ~IsNode(file, i.node)
  PROVE  \E d \in 1..PrefixBits :
           /\ d <= i.bit /\ (Hung(i) => d = i.bit)
           /\ i.node = NumberAt(Trie0, Path(KeyOfId(i.id), d))
           /\ LeadsTo(Trie0, KeyOfId(i.id), d)
           /\ IsData(file, i.node) <=> Trie0[Path(KeyOfId(i.id), d)].kind = "data"
<1> DEFINE t == Trie0
           N == Cardinality(NodePaths(t))
           id == i.id
           k == KeyOfId(id)
<1>1. content \in [Keys -> Values \cup {Nil}]
  BY ReaderAssumption DEF FileOK
<1>2. TrieOK(t) /\ HasValues(t)
  BY <1>1, TrieOfOK DEF Trie0
<1>3. file = FileOfTrie(t, 0)
  BY DEF FileOK, FileOf, FileOfTrie, Numbered, Trie0
<1>4. file.nodeCount = N /\ N \in Nat
  BY <1>2, <1>3, FileNodes, NodePathsFinite
<1>5. id \in Ids /\ i.bit \in 0..PrefixBits /\ i.node = Walk(file, id, i.bit) /\ k \in Keys
  BY ItemOK, KeyOfIdType
<1>6. PICK d \in 1..PrefixBits : LeadsTo(t, k, d)
  BY <1>5, TrieOfLeads DEF Trie0
<1> DEFINE p == Path(k, d)
           n == NumberAt(t, p)
<1>7. /\ Walk(file, id, 0) = 0
      /\ \A b \in 0..PrefixBits :
           Walk(file, id, b) = IF b < d THEN Preorder(t)[PlaceOn(k, b)] ELSE n
  <2> HIDE DEF id, t, p
  <2> QED BY <1>2, <1>3, <1>5, <1>6, WalkPlaces DEF k, p
<1> HIDE DEF t
<1>8. \A b \in 0..(d - 1) : Preorder(t)[PlaceOn(k, b)] \in 0..(N - 1)
  BY <1>6, PreorderNumbers DEF LeadsTo
<1>9. d <= i.bit
  <2> SUFFICES ASSUME i.bit < d PROVE FALSE
    BY <1>5, TrieAssumption
  <2>1. i.bit \in 0..(d - 1)
    BY <1>5
  <2>2. i.node \in 0..(N - 1)
    BY <1>5, <1>7, <1>8, <2>1
  <2> QED BY <1>4, <2>2 DEF IsNode
<1>10. i.node = n
  BY <1>5, <1>7, <1>9
<1>11. p \in Paths
  BY <1>5, PathType
<1>12. t[p].kind = "empty" \/ t[p].kind = "data"
  BY <1>6 DEF LeadsTo
<1>13. (t[p].kind = "empty" => n = N) /\ (t[p].kind = "data" => n \in Nat /\ n > N)
  BY <1>2, <1>11, NumberKinds
<1>14. IsData(file, i.node) <=> t[p].kind = "data"
  <2> HIDE DEF p, n, N
  <2> QED BY <1>4, <1>10, <1>12, <1>13 DEF IsData
<1>15. ASSUME Hung(i) PROVE d = i.bit
  <2> DEFINE c == i.bit - 1
  <2>1. c \in 0..PrefixBits /\ IsNode(file, Walk(file, id, c))
    BY <1>5, <1>15, TrieAssumption DEF Hung
  <2> HIDE DEF c
  <2>2. n >= N /\ n \in Nat
    <3> HIDE DEF p, n, N
    <3> QED BY <1>4, <1>12, <1>13
  <2>3. c < d
    <3> HIDE DEF n, N
    <3> QED BY <1>4, <1>7, <2>1, <2>2 DEF IsNode
  <2> QED BY <1>5, <1>9, <2>3, TrieAssumption DEF c
<1> QED BY <1>6, <1>9, <1>10, <1>14, <1>15 DEF t

\* A data record is one leaf, which stands for all ids of the item, and for no
\* others when it was reached from a node.  Result has the leaf's value.
LEMMA ItemLeaf ==
  ASSUME FileOK, HashInjective, NEW i \in Items, IsData(file, i.node)
  PROVE  \E p \in Leaves :
           /\ Low(p) <= i.id /\ NetEnd(i) <= High(p) /\ Len(p) <= i.bit
           /\ Hung(i) => Len(p) = i.bit /\ Low(p) = i.id /\ High(p) = NetEnd(i)
           /\ file.data[Resolve(file, i.node)] = Trie0[p].value
<1> DEFINE id == i.id
           k == KeyOfId(id)
<1>1. content \in [Keys -> Values \cup {Nil}]
  BY ReaderAssumption DEF FileOK
<1>2. TrieOK(Trie0) /\ HasValues(Trie0)
  BY <1>1, TrieOfOK DEF Trie0
<1>3. file = FileOfTrie(Trie0, 0)
  BY DEF FileOK, FileOf, FileOfTrie, Numbered, Trie0
<1>4. /\ id \in Ids /\ id \in Int /\ i.bit \in 0..PrefixBits /\ i.bit \in Nat
      /\ NetEnd(i) \in Ids /\ NetEnd(i) \in Int /\ id <= NetEnd(i) /\ k \in Keys
      /\ i.node = Walk(file, id, i.bit) /\ id % Power2(PrefixBits - i.bit) = 0
      /\ NetEnd(i) = id + Power2(PrefixBits - i.bit) - 1
  BY ItemIds, ItemOK, KeyOfIdType DEF NetEnd
<1>5. ~IsNode(file, i.node)
  BY <1>4, WalkSteps DEF IsNode, IsData
<1>6. PICK d \in 1..PrefixBits :
         /\ d <= i.bit /\ (Hung(i) => d = i.bit)
         /\ LeadsTo(Trie0, k, d) /\ Trie0[Path(k, d)].kind = "data"
  BY <1>5, ItemEnd
<1> DEFINE p == Path(k, d)
<1>7. p \in Paths /\ Len(p) = d
  BY <1>4, PathType
<1>8. p \in Leaves
  BY <1>2, <1>6, <1>7, TrieAssumption DEF Leaves, DataPaths, HasValues
<1>9. Low(p) <= id /\ id <= High(p)
  BY <1>4, <1>7, PathIds
<1>10. NetEnd(i) <= High(p)
  <2> DEFINE y == NetEnd(i)
  <2>1. y \in Ids /\ id <= y /\ y <= NetEnd(i) /\ d \in 0..(i.bit)
    BY <1>4, <1>6, TrieAssumption
  <2>2. Path(KeyOfId(y), d) = p
    BY <2>1, ItemIds
  <2> HIDE DEF y, p
  <2>3. y <= High(p)
    BY <1>7, <2>1, <2>2, PathIds
  <2> QED BY <2>3 DEF y
<1>11. ASSUME Hung(i) PROVE Low(p) = id /\ High(p) = NetEnd(i)
  <2>1. d = i.bit
    BY <1>6, <1>11
  <2> DEFINE P == Power2(PrefixBits - i.bit)
  <2>2. Low(p) = NumberOf(p) * P /\ NumberOf(p) = id \div P /\ High(p) = Low(p) + P - 1
    BY <1>4, <1>7, <2>1, NumberOfId DEF Low, High
  <2>3. PrefixBits - i.bit \in Nat
    BY <1>4, TrieAssumption
  <2>4. P \in Nat /\ P > 0 /\ id % P = 0
    BY <1>4, <2>3, PowersOfTwo
  <2> HIDE DEF P, p
  <2>5. (id \div P) * P = id
    BY <1>4, <2>4
  <2> QED BY <1>4, <2>2, <2>4, <2>5 DEF P
<1>12. file.data[Resolve(file, i.node)] = Trie0[p].value
  <2>1. FindValue(FileOfTrie(Trie0, 0), id) =
           IF Trie0[Path(KeyOfId(id), d)].kind = "data" THEN Trie0[Path(KeyOfId(id), d)].value
           ELSE Nil
    BY <1>2, <1>4, <1>6, FindReads
  <2>2. FindValue(file, id) = Trie0[p].value
    BY <1>3, <1>6, <2>1
  <2>3. Walk(file, id, PrefixBits) = i.node
    BY <1>4, <1>5, StaysAtLeaf
  <2> HIDE DEF p
  <2> QED BY <2>2, <2>3 DEF FindValue
<1> HIDE DEF p
<1> QED BY <1>6, <1>7, <1>8, <1>9, <1>10, <1>11, <1>12

\* No leaf is below an empty record.
LEMMA EmptyItem ==
  ASSUME FileOK, NEW i \in Items, ~IsNode(file, i.node), ~IsData(file, i.node),
         NEW p \in Leaves
  PROVE  ~Touches(p, i)
<1> SUFFICES ASSUME Touches(p, i) PROVE FALSE
  OBVIOUS
<1>1. PICK d \in 1..PrefixBits :
         /\ d <= i.bit /\ LeadsTo(Trie0, KeyOfId(i.id), d)
         /\ Trie0[Path(KeyOfId(i.id), d)].kind # "data"
  BY ItemEnd
<1>2. Low(p) \in Ids /\ High(p) \in Ids /\ Low(p) <= High(p)
      /\ \A y \in Ids : Low(p) <= y /\ y <= High(p) <=> p = Path(KeyOfId(y), Len(p))
  BY LeafType, PathIds
<1>3. i.id \in Ids /\ i.id \in Int /\ NetEnd(i) \in Ids /\ i.id <= NetEnd(i) /\ i.bit \in Nat
  BY ItemIds
<1>4. Ids \subseteq Int
  BY PowersOfTwo, TrieAssumption DEF Ids
<1>5. PICK y \in Ids : Low(p) <= y /\ y <= High(p) /\ i.id <= y /\ y <= NetEnd(i)
  <2> DEFINE x == IF Low(p) <= i.id THEN i.id ELSE Low(p)
  <2>1. /\ Low(p) \in Int /\ High(p) \in Int /\ i.id \in Int /\ NetEnd(i) \in Int
        /\ Low(p) <= NetEnd(i) /\ High(p) >= i.id
    BY <1>2, <1>3, <1>4 DEF Touches
  <2>2. x \in Ids /\ Low(p) <= x /\ x <= High(p) /\ i.id <= x /\ x <= NetEnd(i)
    BY <1>2, <1>3, <2>1
  <2> HIDE DEF x
  <2> QED BY <2>2
<1>6. p = Path(KeyOfId(y), Len(p)) /\ Trie0[p].kind = "data" /\ Len(p) \in 1..PrefixBits
  BY <1>2, <1>5, LeafType
<1>7. d \in 0..(i.bit)
  BY <1>1, <1>3, TrieAssumption
<1>8. Path(KeyOfId(y), d) = Path(KeyOfId(i.id), d)
  BY <1>5, <1>7, ItemIds
<1>9. Trie0[Path(KeyOfId(y), d)].kind \in {"empty", "data"} /\ KeyOfId(y) \in Keys
  BY <1>1, <1>8, KeyOfIdType DEF LeadsTo
<1> DEFINE e == Len(p)
<1>10. e \in 1..PrefixBits /\ p = Path(KeyOfId(y), e)
       /\ Trie0[Path(KeyOfId(y), e)].kind \in {"empty", "data"}
  BY <1>6
<1> HIDE DEF e
<1>11. d = e
  BY <1>9, <1>10, OneLeaf
<1> QED BY <1>1, <1>6, <1>8, <1>10, <1>11

\* The ids of a node are those of its left item and then those of its right one.
LEMMA ChildIds ==
  ASSUME FileOK, NEW i \in Items, IsNode(file, i.node)
  PROVE  LET l == LeftItem(i)
             r == RightItem(i)
         IN  /\ i.bit < PrefixBits /\ l.bit = i.bit + 1 /\ r.bit = i.bit + 1
             /\ l.id = i.id /\ r.id = i.id + Power(i.bit) /\ r.id = WithBit(i.id, i.bit)
             /\ NetEnd(l) + 1 = r.id /\ NetEnd(r) = NetEnd(i) /\ r.id > 0
             /\ Hung(l) /\ Hung(r)
<1> DEFINE id == i.id
           b == i.bit
           j == WithBit(id, b)
<1>1. /\ id \in Ids /\ b \in 0..PrefixBits /\ i.node = Walk(file, id, b)
      /\ id % Power2(PrefixBits - b) = 0 /\ id \in Int
  BY ItemOK, ItemIds
<1>2. b \in 0..(PrefixBits - 1) /\ b < PrefixBits
  <2>1. b # PrefixBits
    BY <1>1, WalkSteps
  <2> QED BY <1>1, <2>1, TrieAssumption
<1>3. LeftItem(i) = Item(file.nodes[i.node][0], id, b + 1)
      /\ RightItem(i) = Item(file.nodes[i.node][1], j, b + 1)
  BY DEF LeftItem, RightItem
<1> HIDE DEF id, b, j
<1>4. /\ j \in Ids /\ j = id + Power(b)
      /\ \A a \in 0..(b - 1) : GetBit(j, a) = GetBit(id, a)
  BY <1>1, <1>2, NextBit DEF j
<1>5. Walk(file, j, b) = Walk(file, id, b)
  BY <1>1, <1>4, SameWay
<1> DEFINE h == PrefixBits - 1 - b
           P == Power2(h)
<1>6. h \in Nat /\ PrefixBits - b = h + 1 /\ PrefixBits - (b + 1) = h
      /\ (b + 1) - 1 = b /\ b + 1 > 0
  BY <1>2, TrieAssumption
<1>7. Power(b) = P
  BY DEF Power
<1> HIDE DEF h
<1>8. P \in Nat /\ P > 0 /\ Power2(h + 1) = 2 * P
  BY <1>6, PowersOfTwo
<1>9. /\ NetEnd(i) = id + 2 * P - 1
      /\ NetEnd(LeftItem(i)) = id + P - 1 /\ NetEnd(RightItem(i)) = j + P - 1
  BY <1>3, <1>6, <1>8 DEF NetEnd, Item, id, b
<1>10. /\ LeftItem(i).bit = b + 1 /\ RightItem(i).bit = b + 1
       /\ LeftItem(i).id = id /\ RightItem(i).id = j
  BY <1>3 DEF Item
<1>11. Hung(LeftItem(i)) /\ Hung(RightItem(i))
  BY <1>1, <1>5, <1>6, <1>10 DEF Hung, b, id
<1>12. id >= 0
  BY <1>1, PowersOfTwo, TrieAssumption DEF Ids
<1> HIDE DEF P
<1>13. NetEnd(LeftItem(i)) + 1 = j /\ NetEnd(RightItem(i)) = NetEnd(i) /\ j > 0
  BY <1>1, <1>4, <1>7, <1>8, <1>9, <1>12
<1> QED BY <1>2, <1>4, <1>10, <1>11, <1>13 DEF id, b, j
-----------------------------------------------------------------------------
(***************************************************************************)
(* What a query should give.                                               *)
(***************************************************************************)
Rank(S, x) == Cardinality({y \in S : y <= x})

\* Counting up a finite set of numbers.
LEMMA Ranking ==
  ASSUME NEW S \in SUBSET Ids, IsFiniteSet(S)
  PROVE  /\ Cardinality(S) \in Nat
         /\ \A x \in S : Rank(S, x) \in 1..Cardinality(S) /\ Nth(S, Rank(S, x)) = x
         /\ \A x, y \in S : x < y => Rank(S, x) < Rank(S, y)
         /\ \A n \in 1..Cardinality(S) : Nth(S, n) \in S /\ Rank(S, Nth(S, n)) = n
<1> DEFINE N == Cardinality(S)
           T(x) == {y \in S : y <= x}
           f == [x \in S |-> Rank(S, x)]
<1>1. N \in Nat /\ S \subseteq Int
  BY FS_CardinalityType, PowersOfTwo, TrieAssumption DEF Ids
<1>2. \A x \in S : /\ T(x) \in SUBSET S /\ x \in T(x) /\ IsFiniteSet(T(x))
                   /\ Rank(S, x) = Cardinality(T(x))
  <2> TAKE x \in S
  <2>1. T(x) \in SUBSET S /\ x \in T(x) /\ Rank(S, x) = Cardinality(T(x))
    BY <1>1 DEF Rank
  <2> HIDE DEF T
  <2> QED BY <2>1, FS_Subset
<1>3. \A x \in S : Rank(S, x) \in 1..N
  <2> TAKE x \in S
  <2> HIDE DEF T
  <2>1. Cardinality(T(x)) \in Nat /\ Cardinality(T(x)) <= N /\ Cardinality(T(x)) # 0
    BY <1>2, FS_Subset, FS_CardinalityType, FS_EmptySet
  <2> QED BY <1>1, <1>2, <2>1
<1>4. \A x, y \in S : x < y => Rank(S, x) < Rank(S, y)
  <2> SUFFICES ASSUME NEW x \in S, NEW y \in S, x < y PROVE Rank(S, x) < Rank(S, y)
    OBVIOUS
  <2>1. x \in Int /\ y \in Int
    BY <1>1
  <2>2. \A z \in S : z <= x => z <= y
    BY <1>1, <2>1
  <2>3. ~(y <= x) /\ y <= y
    BY <2>1
  <2>4. T(x) \in SUBSET T(y) /\ y \notin T(x) /\ y \in T(y)
    BY <2>2, <2>3
  <2> HIDE DEF T
  <2>5. Cardinality(T(x)) <= Cardinality(T(y)) /\ Cardinality(T(x)) # Cardinality(T(y))
    BY <1>2, <2>4, FS_Subset
  <2>6. Rank(S, x) \in Nat /\ Rank(S, y) \in Nat
    BY <1>3
  <2> QED BY <1>2, <2>5, <2>6
<1> HIDE DEF T
<1>5. \A x, y \in S : Rank(S, x) = Rank(S, y) => x = y
  <2> SUFFICES ASSUME NEW x \in S, NEW y \in S, x # y PROVE Rank(S, x) # Rank(S, y)
    OBVIOUS
  <2>1. (x < y \/ y < x) /\ Rank(S, x) \in Int /\ Rank(S, y) \in Int
    BY <1>1, <1>3
  <2> QED BY <1>4, <2>1
<1>6. \A n \in 1..N : \E x \in S : Rank(S, x) = n
  <2>1. f \in [S -> 1..N] /\ \A x, y \in S : f[x] = f[y] => x = y
    BY <1>3, <1>5
  <2>2. f \in Injection(S, 1..N)
    <3> HIDE DEF f, N
    <3> QED BY <2>1 DEF Injection, IsInjective
  <2>3. IsFiniteSet(1..N) /\ Cardinality(1..N) = N
    BY <1>1, FS_Interval
  <2>4. f \in Surjection(S, 1..N)
    <3> HIDE DEF f
    <3> QED BY <2>2, <2>3, FS_Injection
  <2>5. \A n \in 1..N : \E x \in S : f[x] = n
    BY <2>4 DEF Surjection
  <2> QED BY <2>5
<1>7. \A x \in S : Nth(S, Rank(S, x)) = x
  BY <1>5 DEF Nth, Rank
<1>8. \A n \in 1..N : Nth(S, n) \in S /\ Rank(S, Nth(S, n)) = n
  BY <1>6 DEF Nth, Rank
<1> QED BY <1>1, <1>3, <1>4, <1>7, <1>8

FirstBit(q) == IF q.kind = "scan" THEN StopBit(q) ELSE 0

LEMMA QueryType ==
  ASSUME NEW q \in Queries
  PROVE  /\ q.kind \in {"scan", "range", "where"} /\ FirstBit(q) \in 0..PrefixBits
         /\ q.kind = "scan" => q.id \in Ids /\ q.id \in Nat /\ StopBit(q) \in 0..PrefixBits
         /\ q.kind = "range" => /\ q.start \in Ids /\ q.end \in Ids
                                /\ q.start \in Nat /\ q.end \in Nat
         /\ q.kind = "where" => q.matches \in SUBSET Values
         /\ q # NoQuery
<1>1. Ids \subseteq Nat /\ PrefixBits \in Nat /\ 0 \in 0..PrefixBits
  BY PowersOfTwo, TrieAssumption DEF Ids
<1>2. q.kind \in {"scan", "range", "where"}
  BY DEF Queries
<1>3. ASSUME q.kind = "scan" PROVE q.id \in Ids /\ q.prefixLen \in Nat
  BY <1>1, <1>3 DEF Queries
<1>4. ASSUME q.kind = "scan" PROVE StopBit(q) \in 0..PrefixBits
  BY <1>3, <1>4, StopBitType
<1>5. ASSUME q.kind = "range" PROVE q.start \in Ids /\ q.end \in Ids
  BY <1>5 DEF Queries
<1>6. ASSUME q.kind = "where" PROVE q.matches \in SUBSET Values
  BY <1>6 DEF Queries
<1>7. q # NoQuery
  BY <1>2 DEF NoQuery
<1> QED BY <1>1, <1>2, <1>3, <1>4, <1>5, <1>6, <1>7 DEF FirstBit

\* An id is held by the leaf that stands for it and by no other.
LEMMA HoldsOne ==
  ASSUME FileOK, leaves = LeavesOf(Trie0), NEW p \in Leaves, NEW y \in Ids,
         Low(p) <= y, y <= High(p)
  PROVE  Holding(y) = {Low(p)}
<1>1. Low(p) \in DOMAIN leaves /\ leaves[Low(p)].path = p
  BY LeavesById
<1>2. ASSUME NEW low \in DOMAIN leaves, low <= y, y <= High(leaves[low].path)
      PROVE  low = Low(p)
  <2> DEFINE r == leaves[low].path
  <2>1. r \in Leaves /\ Low(r) = low
    BY LeavesById
  <2>2. Low(r) <= y /\ y <= High(r)
    BY <1>2, <2>1
  <2> HIDE DEF r
  <2>3. /\ Low(r) \in Int /\ High(r) \in Int /\ Low(p) \in Int /\ High(p) \in Int
        /\ y \in Int
    BY <2>1, LeafType, PathIds, PowersOfTwo, TrieAssumption DEF Ids
  <2>4. Low(r) <= High(p) /\ Low(p) <= High(r)
    BY <2>2, <2>3
  <2>5. r = p
    BY <2>1, <2>4, LeavesDisjoint
  <2> QED BY <2>1, <2>5
<1> QED BY <1>1, <1>2 DEF Holding

\* The expected results have the type of results, and the place of each is its rank.
LEMMA ExpectedOK ==
  ASSUME FileOK, leaves = LeavesOf(Trie0), NEW q \in Queries
  PROVE  /\ Chosen(q) \in SUBSET Ids /\ Chosen(q) \subseteq DOMAIN leaves
         /\ IsFiniteSet(Chosen(q))
         /\ Expected(q) \in Seq([id : Ids, value : Values])
         /\ Len(Expected(q)) = Cardinality(Chosen(q))
         /\ \A x \in Chosen(q) :
              Expected(q)[Rank(Chosen(q), x)] = ResultOf(leaves[x])
<1> DEFINE C == Chosen(q)
           N == Cardinality(C)
           E == [n \in 1..N |-> ResultOf(leaves[Nth(C, n)])]
<1>1. C \in SUBSET Ids /\ C \subseteq DOMAIN leaves /\ IsFiniteSet(C)
  <2>1. C \in SUBSET (DOMAIN leaves)
    BY DEF Chosen
  <2> HIDE DEF C
  <2> QED BY <2>1, LeavesById, FS_Subset
<1>2. Expected(q) = E
  BY DEF Expected
<1> HIDE DEF C
<1>3. /\ N \in Nat
      /\ \A x \in C : Rank(C, x) \in 1..N /\ Nth(C, Rank(C, x)) = x
      /\ \A n \in 1..N : Nth(C, n) \in C
  BY <1>1, Ranking
<1>4. \A x \in C : ResultOf(leaves[x]) \in [id : Ids, value : Values]
  <2> TAKE x \in C
  <2> DEFINE p == leaves[x].path
  <2>1. p \in Leaves /\ leaves[x].value \in Values
    BY <1>1, LeavesById
  <2>2. p \in Paths
    BY <2>1, LeafType
  <2>3. Low(p) \in Ids
    BY <2>2, PathIds
  <2> QED BY <2>1, <2>3 DEF ResultOf
<1>5. E \in Seq([id : Ids, value : Values]) /\ Len(E) = N
  <2> DEFINE R == [id : Ids, value : Values]
             e(n) == ResultOf(leaves[Nth(C, n)])
  <2>1. \A n \in 1..N : e(n) \in R
    BY <1>3, <1>4
  <2> HIDE DEF N, R, e
  <2>2. E = [n \in 1..N |-> e(n)]
    BY DEF e
  <2> HIDE DEF E
  <2>3. E \in [1..N -> R]
    BY <2>1, <2>2
  <2>4. E \in Seq(R) /\ Len(E) = N
    BY <1>3, <2>3
  <2> QED BY <2>4 DEF R
<1>6. \A x \in C : E[Rank(C, x)] = ResultOf(leaves[x])
  BY <1>3
<1> HIDE DEF E
<1> QED BY <1>1, <1>2, <1>5, <1>6 DEF C
-----------------------------------------------------------------------------
(***************************************************************************)
(* What is on the stack of a query, and what is still to come of it.       *)
(***************************************************************************)
Reached(p, st) == \E n \in 1..Len(st) : Touches(p, st[n])

\* The items that may be at place n of the stack of a query: deep enough for the
\* place, below the record where it began, and, at full depth, the left end.
Fits(q, n, i) ==
  /\ n <= i.bit + 1 /\ FirstBit(q) <= i.bit
  /\ q.kind = "scan" =>
       q.id <= i.id /\ NetEnd(i) <= q.id + (Power2(PrefixBits - StopBit(q)) - 1)
  /\ q.kind = "range" =>
       /\ q.start <= q.end /\ n <= RangeStack
       /\ i.id = 0 /\ q.end >= Power(0) => n = i.bit + 1
       /\ n = i.bit + 1 => i.id = 0 /\ (n > 1 => q.end >= Power(0))

\* The items have no id in common, the lowest at the top.
Stacked(q, st) ==
  \A n \in 1..Len(st) : /\ Fits(q, n, st[n])
                        /\ \A m \in 1..(n - 1) : NetEnd(st[n]) < st[m].id

\* All of them hang from a node, but for the one the query began with.
AllHung(st) == \A n \in 1..Len(st) : Hung(st[n])
Rooted(q, st) == AllHung(st) \/ (Len(st) = 1 /\ st[1].bit = FirstBit(q))

\* What the stack leads to of the leaves of the query is what lies behind the
\* first n of them.
ToCome(q, st, n) ==
  \A id \in Chosen(q) : n < Rank(Chosen(q), id) <=> Reached(leaves[id].path, st)

Ready(q, st, n) ==
  st \in Seq(Items) /\ Stacked(q, st) /\ Rooted(q, st) /\ ToCome(q, st, n)

\* The results with a value are the first of those there are.
Delivered ==
  \E g \in 0..Len(out) : /\ \A n \in 1..Len(out) : out[n].value # Nil <=> n <= g
                         /\ open => g = Len(out)

CInv ==
  /\ IInv /\ leaves = LeavesOf(Trie0)
  /\ status = "idle" => expected = <<>>
  /\ status # "idle" => query \in Queries /\ expected = Expected(query)
  /\ Delivered
  /\ open /\ status = "running" => Ready(query, stack, Len(out))
-----------------------------------------------------------------------------
(***************************************************************************)
(* What an item leads to.                                                  *)
(***************************************************************************)

\* Smaller bits count no more than the first.
LEMMA PowerMono ==
  ASSUME NEW b \in 0..(PrefixBits - 1)
  PROVE  Power(b) \in Nat /\ Power(b) > 0 /\ Power(b) <= Power(0)
<1> DEFINE h == PrefixBits - 1 - b
           S == {n \in Nat : Power2(h) <= Power2(h + n)}
<1>1. h \in Nat /\ b \in Nat /\ PrefixBits - 1 - 0 = h + b
  BY TrieAssumption
<1> HIDE DEF h
<1>2. 0 \in S
  <2>1. h + 0 = h /\ Power2(h) \in Nat
    BY <1>1, PowersOfTwo
  <2> QED BY <2>1
<1>3. ASSUME NEW n \in Nat, n \in S PROVE n + 1 \in S
  <2> DEFINE e == h + n
  <2>1. e \in Nat /\ h + (n + 1) = e + 1 /\ Power2(h) <= Power2(e)
    BY <1>1, <1>3
  <2> HIDE DEF e
  <2>2. Power2(e) \in Nat /\ Power2(e + 1) = 2 * Power2(e) /\ Power2(h) \in Nat
    BY <1>1, <2>1, PowersOfTwo
  <2>3. Power2(h) <= Power2(e + 1)
    BY <2>1, <2>2
  <2> QED BY <2>1, <2>3
<1> HIDE DEF S
<1>4. b \in S
  BY <1>1, <1>2, <1>3, Induction
<1>5. Power2(h) <= Power2(PrefixBits - 1 - 0)
  BY <1>1, <1>4 DEF S
<1> QED BY <1>1, <1>5, PowersOfTwo DEF Power, h

\* An id with the first bits of an item is one of the item's.
LEMMA ItemHas ==
  ASSUME NEW i \in Items, NEW y \in Ids,
         Path(KeyOfId(y), i.bit) = Path(KeyOfId(i.id), i.bit)
  PROVE  i.id <= y /\ y <= NetEnd(i)
<1> DEFINE id == i.id
           b == i.bit
           P == Power2(PrefixBits - b)
<1>1. id \in Ids /\ b \in 0..PrefixBits /\ id % P = 0 /\ NetEnd(i) = id + P - 1
      /\ Path(KeyOfId(y), b) = Path(KeyOfId(id), b)
  BY ItemOK DEF NetEnd
<1>2. PrefixBits - b \in Nat
  BY <1>1, TrieAssumption
<1>3. P \in Nat /\ P > 0 /\ id \in Int /\ y \in Int
  BY <1>1, <1>2, PowersOfTwo DEF Ids
<1> HIDE DEF id, b
<1>4. y \div P = id \div P
  BY <1>1, NumberOfId
<1> HIDE DEF P
<1> DEFINE a == id \div P
<1>5. a \in Int /\ id = P * a
  BY <1>1, <1>3
<1>6. y \div P = a
  BY <1>4
<1> HIDE DEF a
<1>7. id = a * P /\ a * P <= y /\ y <= a * P + (P - 1)
  BY <1>3, <1>5, <1>6, Quotient
<1> QED BY <1>1, <1>3, <1>7 DEF id

\* A leaf and an item that have an id in common.
LEMMA CommonId ==
  ASSUME NEW i \in Items, NEW p \in Leaves, Touches(p, i)
  PROVE  \E y \in Ids : /\ Low(p) <= y /\ y <= High(p) /\ i.id <= y /\ y <= NetEnd(i)
                        /\ p = Path(KeyOfId(y), Len(p)) /\ KeyOfId(y) \in Keys
<1> DEFINE x == IF Low(p) <= i.id THEN i.id ELSE Low(p)
<1>1. Low(p) \in Ids /\ High(p) \in Ids /\ Low(p) <= High(p)
      /\ \A y \in Ids : Low(p) <= y /\ y <= High(p) <=> p = Path(KeyOfId(y), Len(p))
  BY LeafType, PathIds
<1>2. i.id \in Ids /\ NetEnd(i) \in Ids /\ i.id <= NetEnd(i) /\ Ids \subseteq Int
  BY ItemIds, PowersOfTwo, TrieAssumption DEF Ids
<1>3. /\ Low(p) \in Int /\ High(p) \in Int /\ i.id \in Int /\ NetEnd(i) \in Int
      /\ Low(p) <= NetEnd(i) /\ High(p) >= i.id
  BY <1>1, <1>2 DEF Touches
<1>4. x \in Ids /\ Low(p) <= x /\ x <= High(p) /\ i.id <= x /\ x <= NetEnd(i)
  BY <1>1, <1>2, <1>3
<1> HIDE DEF x
<1>5. p = Path(KeyOfId(x), Len(p)) /\ KeyOfId(x) \in Keys
  BY <1>1, <1>4, KeyOfIdType
<1> QED BY <1>4, <1>5

\* The way of an id comes to no node from its leaf on.
LEMMA NodesBeforeLeaf ==
  ASSUME FileOK, NEW y \in Ids, NEW d \in 1..PrefixBits, LeadsTo(Trie0, KeyOfId(y), d)
  PROVE  \A b \in 0..PrefixBits : IsNode(file, Walk(file, y, b)) => b < d
<1> DEFINE t == Trie0
           k == KeyOfId(y)
           r == Path(k, d)
           n == NumberAt(t, r)
           N == Cardinality(NodePaths(t))
<1>1. content \in [Keys -> Values \cup {Nil}]
  BY ReaderAssumption DEF FileOK
<1>2. TrieOK(t) /\ HasValues(t)
  BY <1>1, TrieOfOK DEF Trie0
<1>3. file = FileOfTrie(t, 0)
  BY DEF FileOK, FileOf, FileOfTrie, Numbered, Trie0
<1>4. file.nodeCount = N /\ N \in Nat
  BY <1>2, <1>3, FileNodes, NodePathsFinite
<1>5. r \in Paths /\ (t[r].kind = "empty" \/ t[r].kind = "data")
  BY KeyOfIdType, PathType DEF LeadsTo
<1>6. LeadsTo(t, k, d)
  OBVIOUS
<1>7. /\ Walk(file, y, 0) = 0
      /\ \A b \in 0..PrefixBits :
           Walk(file, y, b) = IF b < d THEN Preorder(t)[PlaceOn(k, b)] ELSE n
  <2> HIDE DEF t, r
  <2> QED BY <1>2, <1>3, <1>6, WalkPlaces DEF k, r
<1>8. n \in Nat /\ n >= N
  <2>1. (t[r].kind = "empty" => n = N) /\ (t[r].kind = "data" => n \in Nat /\ n > N)
    BY <1>2, <1>5, NumberKinds
  <2> HIDE DEF r, n, N
  <2> QED BY <1>4, <1>5, <2>1
<1> HIDE DEF n, N
<1> QED BY <1>4, <1>7, <1>8 DEF IsNode

LEMMA LeafEnds ==
  ASSUME FileOK, NEW p \in Leaves, NEW y \in Ids, p = Path(KeyOfId(y), Len(p)),
         NEW b \in 0..PrefixBits, IsNode(file, Walk(file, y, b))
  PROVE  b < Len(p)
<1> DEFINE k == KeyOfId(y)
           e == Len(p)
<1>1. k \in Keys /\ e \in 1..PrefixBits /\ p = Path(k, e) /\ Trie0[p].kind = "data"
  BY LeafType, KeyOfIdType
<1>2. PICK d \in 1..PrefixBits : LeadsTo(Trie0, k, d)
  BY <1>1, TrieOfLeads DEF Trie0
<1>3. Trie0[Path(k, d)].kind \in {"empty", "data"} /\ Trie0[Path(k, e)].kind \in {"empty", "data"}
  BY <1>1, <1>2 DEF LeadsTo
<1> HIDE DEF e
<1>4. d = e
  BY <1>1, <1>2, <1>3, OneLeaf
<1>5. b < d
  BY <1>2, NodesBeforeLeaf
<1> QED BY <1>4, <1>5 DEF e

\* A leaf with an id in common with a node, or with a record that hangs from one,
\* is below it.
LEMMA InsideItem ==
  ASSUME FileOK, NEW i \in Items, NEW p \in Leaves, Touches(p, i),
         i.bit = 0 \/ Hung(i) \/ IsNode(file, i.node)
  PROVE  /\ i.id <= Low(p) /\ High(p) <= NetEnd(i) /\ i.bit <= Len(p)
         /\ IsNode(file, i.node) => i.bit < Len(p)
<1> DEFINE id == i.id
           b == i.bit
           e == Len(p)
<1>1. PICK y \in Ids : /\ id <= y /\ y <= NetEnd(i)
                       /\ p = Path(KeyOfId(y), e) /\ KeyOfId(y) \in Keys
  BY CommonId
<1>2. /\ id \in Ids /\ b \in 0..PrefixBits /\ b \in Nat /\ i.node = Walk(file, id, b)
      /\ \A d \in 0..b : Path(KeyOfId(y), d) = Path(KeyOfId(id), d)
      /\ e \in 1..PrefixBits
  BY <1>1, ItemIds, ItemOK, LeafType
<1> HIDE DEF id, b
<1>3. ASSUME NEW d \in 0..b PROVE Walk(file, y, d) = Walk(file, id, d)
  <2>1. Path(KeyOfId(y), d) = Path(KeyOfId(id), d) /\ d \in 0..PrefixBits
    BY <1>2, TrieAssumption
  <2>2. ASSUME NEW c \in 0..(d - 1) PROVE GetBit(y, c) = GetBit(id, c)
    <3> DEFINE g == c + 1
    <3>1. g \in 1..d /\ g \in 1..PrefixBits /\ g - 1 = c
      BY <2>1, TrieAssumption
    <3> HIDE DEF g
    <3>2. Path(KeyOfId(y), d)[g] = KeyOfId(y)[g] /\ Path(KeyOfId(id), d)[g] = KeyOfId(id)[g]
      BY <3>1 DEF Path
    <3>3. KeyOfId(y)[g] = GetBit(y, c) /\ KeyOfId(id)[g] = GetBit(id, c)
      BY <1>2, <3>1, KeyOfIdType
    <3> QED BY <2>1, <3>2, <3>3
  <2> QED BY <1>2, <2>1, <2>2, SameWay
<1>4. ASSUME IsNode(file, i.node) PROVE b < e
  <2>1. b \in 0..b
    BY <1>2
  <2>2. IsNode(file, Walk(file, y, b))
    BY <1>2, <1>3, <1>4, <2>1
  <2> QED BY <1>1, <1>2, <2>2, LeafEnds
<1>5. ASSUME Hung(i) PROVE b <= e
  <2> DEFINE c == b - 1
  <2>1. c \in 0..b /\ c \in 0..PrefixBits /\ IsNode(file, Walk(file, id, c))
    BY <1>2, <1>5, TrieAssumption DEF Hung, id, b
  <2> HIDE DEF c
  <2>2. IsNode(file, Walk(file, y, c))
    BY <1>3, <2>1
  <2>3. c < e
    BY <1>1, <2>1, <2>2, LeafEnds
  <2> QED BY <1>2, <2>3 DEF c
<1>6. b <= e
  BY <1>2, <1>4, <1>5 DEF b
<1>7. ASSUME NEW x \in Ids, p = Path(KeyOfId(x), e) PROVE id <= x /\ x <= NetEnd(i)
  <2>1. \A c \in 1..b : c \in 1..e
    BY <1>2, <1>6
  <2>2. \A c \in 1..e : p[c] = KeyOfId(x)[c] /\ p[c] = KeyOfId(y)[c]
    <3>1. p = [c \in 1..e |-> KeyOfId(x)[c]] /\ p = [c \in 1..e |-> KeyOfId(y)[c]]
      BY <1>1, <1>7 DEF Path
    <3> HIDE DEF e
    <3> QED BY <3>1
  <2>3. \A c \in 1..b : KeyOfId(x)[c] = KeyOfId(y)[c]
    BY <2>1, <2>2
  <2>4. Path(KeyOfId(x), b) = Path(KeyOfId(y), b)
    BY <2>3 DEF Path
  <2>5. b \in 0..b
    BY <1>2
  <2>6. Path(KeyOfId(x), b) = Path(KeyOfId(id), b)
    BY <1>2, <2>4, <2>5
  <2> QED BY <2>6, ItemHas DEF id, b
<1>8. Low(p) \in Ids /\ High(p) \in Ids /\ p = Path(KeyOfId(Low(p)), e)
      /\ p = Path(KeyOfId(High(p)), e)
  <2>1. /\ Low(p) \in Ids /\ High(p) \in Ids /\ Low(p) <= High(p)
        /\ \A x \in Ids : Low(p) <= x /\ x <= High(p) <=> p = Path(KeyOfId(x), Len(p))
    BY LeafType, PathIds
  <2>2. \A x \in Ids : x <= x
    BY PowersOfTwo, TrieAssumption DEF Ids
  <2> QED BY <2>1, <2>2
<1> QED BY <1>4, <1>6, <1>7, <1>8 DEF id, b

\* A leaf below a node is below one of its children, and the other way round.
LEMMA BelowNode ==
  ASSUME FileOK, NEW i \in Items, IsNode(file, i.node), NEW p \in Leaves
  PROVE  Touches(p, i) <=> Touches(p, LeftItem(i)) \/ Touches(p, RightItem(i))
<1> DEFINE l == LeftItem(i)
           r == RightItem(i)
<1>1. l \in Items /\ r \in Items
  BY ChildItems
<1>2. l.id = i.id /\ NetEnd(l) + 1 = r.id /\ NetEnd(r) = NetEnd(i)
  BY ChildIds
<1> HIDE DEF l, r
<1>3. /\ i.id \in Int /\ NetEnd(i) \in Int /\ i.id <= NetEnd(i)
      /\ l.id \in Int /\ NetEnd(l) \in Int /\ l.id <= NetEnd(l)
      /\ r.id \in Int /\ NetEnd(r) \in Int /\ r.id <= NetEnd(r)
  BY <1>1, ItemIds
<1>4. Low(p) \in Int /\ High(p) \in Int /\ Low(p) <= High(p)
  BY LeafType, PathIds, PowersOfTwo, TrieAssumption DEF Ids
<1>5. Touches(p, i) <=> Touches(p, l) \/ Touches(p, r)
  BY <1>2, <1>3, <1>4 DEF Touches
<1> QED BY <1>5 DEF l, r
-----------------------------------------------------------------------------
(***************************************************************************)
(* Taking an item off the stack, and putting its children on it.           *)
(***************************************************************************)
Under(st) == SubSeq(st, 1, Len(st) - 1)

\* The top of the stack and what is under it.
LEMMA Uncover ==
  ASSUME NEW q, NEW n, NEW st, Ready(q, st, n), st # <<>>
  PROVE  LET k == Len(st)
             i == st[k]
             s == Under(st)
         IN  /\ k \in Nat /\ k >= 1 /\ i \in Items /\ Fits(q, k, i)
             /\ Hung(i) \/ (k = 1 /\ i.bit = FirstBit(q))
             /\ s \in Seq(Items) /\ Len(s) = k - 1 /\ Stacked(q, s) /\ AllHung(s)
             /\ \A m \in 1..(k - 1) : NetEnd(i) < s[m].id
             /\ \A p : Reached(p, st) <=> Reached(p, s) \/ Touches(p, i)
<1> DEFINE k == Len(st)
           i == st[k]
           s == Under(st)
<1>1. st \in Seq(Items) /\ k \in Nat /\ k >= 1
  BY DEF Ready
<1>2. k \in 1..k /\ k - 1 \in 0..k
  BY <1>1
<1>3. i \in Items
  BY <1>1, <1>2
<1>4. s \in Seq(Items) /\ Len(s) = k - 1 /\ \A m \in 1..(k - 1) : s[m] = st[m]
  <2>1. SubSeq(st, 1, k - 1) \in Seq(Items)
    BY <1>1, <1>2
  <2> DEFINE h == k - 1
             z == SubSeq(st, 1, h)
  <2>2. h \in Nat /\ \A m \in 1..h : 1 + m - 1 = m
    BY <1>1
  <2> HIDE DEF h
  <2>3. z = [m \in 1..h |-> st[m]]
    BY <2>2
  <2> HIDE DEF z
  <2>4. Len(z) = h /\ \A m \in 1..h : z[m] = st[m]
    BY <2>2, <2>3
  <2> QED BY <2>1, <2>4 DEF Under, h, z
<1> HIDE DEF s
<1>5. /\ \A m \in 1..k : /\ Fits(q, m, st[m])
                         /\ \A l \in 1..(m - 1) : NetEnd(st[m]) < st[l].id
      /\ AllHung(st) \/ (k = 1 /\ st[1].bit = FirstBit(q))
  BY DEF Ready, Stacked, Rooted
<1> HIDE DEF k
<1>6. Fits(q, k, i) /\ \A m \in 1..(k - 1) : NetEnd(i) < s[m].id
  BY <1>2, <1>4, <1>5
<1>7. Stacked(q, s)
  <2>1. \A m \in 1..(k - 1) : m \in 1..k /\ s[m] = st[m] /\ \A l \in 1..(m - 1) : s[l] = st[l]
    BY <1>1, <1>4
  <2> QED BY <1>4, <1>5, <2>1 DEF Stacked
<1>8. Hung(i) \/ (k = 1 /\ i.bit = FirstBit(q))
  BY <1>2, <1>5 DEF AllHung, k
<1>9. AllHung(s)
  <2>1. CASE AllHung(st)
    <3>1. \A m \in 1..(k - 1) : m \in 1..k
      BY <1>1
    <3> QED BY <1>4, <2>1, <3>1 DEF AllHung, k
  <2>2. CASE k = 1
    BY <1>4, <2>2 DEF AllHung
  <2> QED BY <1>5, <2>1, <2>2
<1>10. \A p : Reached(p, st) <=> Reached(p, s) \/ Touches(p, i)
  <2> TAKE p
  <2>1. \A m \in 1..k : m = k \/ m \in 1..(k - 1)
    BY <1>1
  <2>2. \A m \in 1..(k - 1) : m \in 1..k
    BY <1>1
  <2>3. Reached(p, st) <=> \E m \in 1..k : Touches(p, st[m])
    BY DEF Reached, k
  <2>4. Reached(p, s) <=> \E m \in 1..(k - 1) : Touches(p, st[m])
    BY <1>4 DEF Reached
  <2> QED BY <1>2, <2>1, <2>2, <2>3, <2>4
<1> QED BY <1>1, <1>3, <1>4, <1>6, <1>7, <1>8, <1>9, <1>10 DEF k, s

\* An item that leads to no leaf of the query is no loss.
LEMMA DropReady ==
  ASSUME NEW q, NEW n, NEW st, Ready(q, st, n), st # <<>>,
         \A id \in Chosen(q) : ~Touches(leaves[id].path, st[Len(st)])
  PROVE  Ready(q, Under(st), n)
<1>1. /\ Under(st) \in Seq(Items) /\ Stacked(q, Under(st)) /\ AllHung(Under(st))
      /\ \A p : Reached(p, st) <=> Reached(p, Under(st)) \/ Touches(p, st[Len(st)])
  BY Uncover
<1>2. ToCome(q, Under(st), n)
  BY <1>1 DEF Ready, ToCome
<1> QED BY <1>1, <1>2 DEF Ready, Rooted

\* The leaf at the top is the next of the query.
LEMMA TakeReady ==
  ASSUME FileOK, leaves = LeavesOf(Trie0), NEW q \in Queries, NEW n \in Nat,
         NEW st, Ready(q, st, n), st # <<>>, NEW p \in Leaves, Low(p) \in Chosen(q),
         Low(p) <= st[Len(st)].id, NetEnd(st[Len(st)]) <= High(p),
         Hung(st[Len(st)]) => High(p) = NetEnd(st[Len(st)])
  PROVE  /\ Rank(Chosen(q), Low(p)) = n + 1 /\ n < Cardinality(Chosen(q))
         /\ Ready(q, Under(st), n + 1)
<1> DEFINE k == Len(st)
           i == st[k]
           s == Under(st)
           C == Chosen(q)
           x == Low(p)
<1>1. /\ k \in Nat /\ k >= 1 /\ i \in Items /\ (Hung(i) \/ k = 1)
      /\ s \in Seq(Items) /\ Len(s) = k - 1 /\ Stacked(q, s) /\ AllHung(s)
      /\ \A m \in 1..(k - 1) : NetEnd(i) < s[m].id
      /\ \A r : Reached(r, st) <=> Reached(r, s) \/ Touches(r, i)
  BY Uncover
<1>2. C \in SUBSET Ids /\ C \subseteq DOMAIN leaves /\ IsFiniteSet(C)
  BY ExpectedOK
<1>3. /\ \A y \in C : Rank(C, y) \in 1..Cardinality(C) /\ Nth(C, Rank(C, y)) = y
      /\ \A y, z \in C : y < z => Rank(C, y) < Rank(C, z)
      /\ \A m \in 1..Cardinality(C) : Nth(C, m) \in C /\ Rank(C, Nth(C, m)) = m
      /\ Cardinality(C) \in Nat
  <2> HIDE DEF C
  <2> QED BY <1>2, Ranking
<1>4. \A y \in C : leaves[y].path \in Leaves /\ Low(leaves[y].path) = y
  BY <1>2, LeavesById
<1>5. leaves[x].path = p
  BY LeavesById
<1>6. \A y \in C : n < Rank(C, y) <=> Reached(leaves[y].path, st)
  BY DEF Ready, ToCome
<1>7. x \in C /\ x <= i.id /\ NetEnd(i) <= High(p) /\ (Hung(i) => High(p) = NetEnd(i))
  OBVIOUS
<1>8. i.id \in Int /\ NetEnd(i) \in Int /\ i.id <= NetEnd(i) /\ x \in Int /\ High(p) \in Int
  <2>1. x \in Ids /\ High(p) \in Ids
    BY LeafType, PathIds
  <2>2. \A y \in Ids : y \in Int
    BY PowersOfTwo, TrieAssumption DEF Ids
  <2> HIDE DEF i, x
  <2> QED BY <1>1, <2>1, <2>2, ItemIds
<1>9. \A r \in Leaves : Low(r) \in Int /\ High(r) \in Int /\ Low(r) <= High(r)
  BY LeafType, PathIds, PowersOfTwo, TrieAssumption DEF Ids
<1>10. \A m \in 1..Len(s) : s[m].id \in Int /\ NetEnd(s[m]) \in Int /\ s[m].id <= NetEnd(s[m])
  <2> HIDE DEF s
  <2>1. \A m \in 1..Len(s) : s[m] \in Items
    BY <1>1
  <2> QED BY <2>1, ItemIds
<1> HIDE DEF k, i, s, C
<1>11. \A r \in Leaves : Touches(r, i) => r = p
  <2> TAKE r \in Leaves
  <2> HAVE Touches(r, i)
  <2>1. Low(r) <= High(p) /\ x <= High(r)
    <3>1. Low(r) <= NetEnd(i) /\ High(r) >= i.id
      BY DEF Touches
    <3> QED BY <1>7, <1>8, <1>9, <3>1
  <2> QED BY <2>1, LeavesDisjoint
<1>12. Touches(p, i)
  BY <1>7, <1>8 DEF Touches
<1>13. ~Reached(p, s)
  <2> SUFFICES ASSUME NEW m \in 1..Len(s), Touches(p, s[m]) PROVE FALSE
    BY DEF Reached
  <2>1. k > 1 /\ m \in 1..(k - 1)
    BY <1>1
  <2>2. NetEnd(i) < s[m].id /\ High(p) = NetEnd(i)
    BY <1>1, <1>7, <2>1
  <2>3. High(p) >= s[m].id
    BY DEF Touches
  <2> QED BY <1>8, <1>10, <2>2, <2>3
<1>14. \A y \in C : Reached(leaves[y].path, st) <=> y = x \/ Reached(leaves[y].path, s)
  <2> TAKE y \in C
  <2>1. Touches(leaves[y].path, i) <=> y = x
    BY <1>4, <1>5, <1>11, <1>12
  <2> QED BY <1>1, <2>1
<1>15. \A y \in C : Reached(leaves[y].path, s) => x < y
  <2> SUFFICES ASSUME NEW y \in C, NEW m \in 1..Len(s), Touches(leaves[y].path, s[m])
               PROVE  x < y
    BY DEF Reached
  <2> DEFINE r == leaves[y].path
  <2>1. r \in Leaves /\ Low(r) = y
    BY <1>4
  <2>2. High(r) >= s[m].id /\ NetEnd(i) < s[m].id /\ y \in Int
    BY <1>1, <1>9, <2>1 DEF Touches
  <2> HIDE DEF r
  <2>3. High(r) > NetEnd(i)
    BY <1>8, <1>9, <1>10, <2>1, <2>2
  <2> SUFFICES ASSUME y <= x PROVE FALSE
    BY <1>8, <2>2
  <2>4. Low(r) <= High(p) /\ x <= High(r)
    BY <1>7, <1>8, <1>9, <2>1, <2>2, <2>3
  <2>5. r = p
    BY <2>1, <2>4, LeavesDisjoint
  <2>6. Reached(p, s)
    BY <2>5 DEF Reached, r
  <2> QED BY <1>13, <2>6
<1>16. n < Rank(C, x) /\ Rank(C, x) \in 1..Cardinality(C)
  BY <1>3, <1>6, <1>7, <1>14
<1>17. Rank(C, x) = n + 1
  <2> SUFFICES ASSUME Rank(C, x) # n + 1 PROVE FALSE
    OBVIOUS
  <2> DEFINE y == Nth(C, n + 1)
  <2>1. n + 1 \in 1..Cardinality(C) /\ n + 1 < Rank(C, x)
    BY <1>3, <1>16
  <2>2. y \in C /\ Rank(C, y) = n + 1
    BY <1>3, <2>1
  <2> HIDE DEF y
  <2>3. n < Rank(C, y) /\ y # x
    BY <2>1, <2>2
  <2>4. x < y
    BY <1>6, <1>14, <1>15, <2>2, <2>3
  <2> QED BY <1>3, <1>7, <2>1, <2>2, <2>4
<1>18. ToCome(q, s, n + 1)
  <2> SUFFICES ASSUME NEW y \in C PROVE n + 1 < Rank(C, y) <=> Reached(leaves[y].path, s)
    BY DEF ToCome, C
  <2>1. Rank(C, y) \in Nat /\ (n < Rank(C, y) <=> y = x \/ Reached(leaves[y].path, s))
    BY <1>3, <1>6, <1>14
  <2>2. Rank(C, y) = n + 1 => y = x
    BY <1>3, <1>7, <1>17
  <2>3. ~Reached(leaves[x].path, s)
    BY <1>5, <1>13
  <2> QED BY <1>17, <2>1, <2>2, <2>3
<1> QED BY <1>1, <1>3, <1>16, <1>17, <1>18 DEF Ready, Rooted, s, C

\* A record that hangs from a node goes on the stack.
LEMMA Push ==
  ASSUME NEW q, NEW s \in Seq(Items), Stacked(q, s), AllHung(s), NEW j \in Items, Hung(j),
         Fits(q, Len(s) + 1, j), \A m \in 1..Len(s) : NetEnd(j) < s[m].id
  PROVE  LET t == Append(s, j)
         IN  /\ t \in Seq(Items) /\ Stacked(q, t) /\ AllHung(t) /\ Len(t) = Len(s) + 1
             /\ \A m \in 1..Len(s) : t[m] = s[m]
             /\ t[Len(s) + 1] = j
             /\ \A p : Reached(p, t) <=> Reached(p, s) \/ Touches(p, j)
<1> DEFINE t == Append(s, j)
           k == Len(s)
<1>1. /\ t \in Seq(Items) /\ Len(t) = k + 1 /\ k \in Nat
      /\ \A m \in 1..k : t[m] = s[m]
  OBVIOUS
<1>2. t[k + 1] = j
  OBVIOUS
<1> HIDE DEF t, k
<1>3. \A m \in 1..(k + 1) : m = k + 1 \/ m \in 1..k
  BY <1>1
<1>4. \A m \in 1..k : m \in 1..(k + 1) /\ \A l \in 1..(m - 1) : l \in 1..k
  BY <1>1
<1>5. k + 1 \in 1..(k + 1) /\ (k + 1) - 1 = k
  BY <1>1
<1>6. AllHung(t)
  <2> SUFFICES ASSUME NEW m \in 1..(k + 1) PROVE Hung(t[m])
    BY <1>1 DEF AllHung
  <2> QED BY <1>1, <1>2, <1>3 DEF AllHung, k
<1>7. Stacked(q, t)
  <2> SUFFICES ASSUME NEW m \in 1..(k + 1)
               PROVE  Fits(q, m, t[m]) /\ \A l \in 1..(m - 1) : NetEnd(t[m]) < t[l].id
    BY <1>1 DEF Stacked
  <2>1. CASE m \in 1..k
    <3>1. Fits(q, m, s[m]) /\ \A l \in 1..(m - 1) : NetEnd(s[m]) < s[l].id
      BY <2>1 DEF Stacked, k
    <3> QED BY <1>1, <1>4, <2>1, <3>1
  <2>2. CASE m = k + 1
    <3>1. Fits(q, k + 1, j) /\ \A l \in 1..k : NetEnd(j) < s[l].id
      BY DEF k
    <3> QED BY <1>1, <1>2, <1>5, <2>2, <3>1
  <2> QED BY <1>3, <2>1, <2>2
<1>8. \A p : Reached(p, t) <=> Reached(p, s) \/ Touches(p, j)
  <2> TAKE p
  <2>1. Reached(p, t) <=> \E m \in 1..(k + 1) : Touches(p, t[m])
    BY <1>1 DEF Reached
  <2>2. Reached(p, s) <=> \E m \in 1..k : Touches(p, s[m])
    BY DEF Reached, k
  <2> QED BY <1>1, <1>2, <1>3, <1>4, <1>5, <2>1, <2>2
<1> QED BY <1>1, <1>2, <1>6, <1>7, <1>8 DEF t, k

\* A node gives way to its children, but for those that lead to no leaf of the
\* query.
LEMMA SplitReady ==
  ASSUME FileOK, leaves = LeavesOf(Trie0), NEW q \in Queries, NEW n,
         NEW st, Ready(q, st, n), st # <<>>, IsNode(file, st[Len(st)].node),
         NEW c \in BOOLEAN, NEW d \in BOOLEAN,
         NEW s, c => s = Append(Under(st), RightItem(st[Len(st)])), ~c => s = Under(st),
         NEW t, d => t = Append(s, LeftItem(st[Len(st)])), ~d => t = s,
         c => Fits(q, Len(st), RightItem(st[Len(st)])),
         d => Fits(q, Len(s) + 1, LeftItem(st[Len(st)])),
         \A id \in Chosen(q) :
           /\ Touches(leaves[id].path, RightItem(st[Len(st)])) => c
           /\ Touches(leaves[id].path, LeftItem(st[Len(st)])) => d
  PROVE  Ready(q, t, n)
<1> DEFINE k == Len(st)
           i == st[k]
           u == Under(st)
           l == LeftItem(i)
           r == RightItem(i)
<1>1. /\ k \in Nat /\ k >= 1 /\ i \in Items
      /\ u \in Seq(Items) /\ Len(u) = k - 1 /\ Stacked(q, u) /\ AllHung(u)
      /\ \A m \in 1..(k - 1) : NetEnd(i) < u[m].id
      /\ \A p : Reached(p, st) <=> Reached(p, u) \/ Touches(p, i)
  BY Uncover
<1>2. l \in Items /\ r \in Items
  BY <1>1, ChildItems
<1>3. Hung(l) /\ Hung(r) /\ NetEnd(l) + 1 = r.id /\ NetEnd(r) = NetEnd(i)
  BY <1>1, ChildIds
<1>4. \A p \in Leaves : Touches(p, i) <=> Touches(p, l) \/ Touches(p, r)
  BY <1>1, BelowNode
<1>5. \A id \in Chosen(q) : leaves[id].path \in Leaves
  BY ExpectedOK, LeavesById
<1>6. \A id \in Chosen(q) : /\ id \in Chosen(q)
                            /\ Touches(leaves[id].path, r) => c
                            /\ Touches(leaves[id].path, l) => d
  OBVIOUS
<1>7. /\ (c => s = Append(u, r)) /\ (~c => s = u)
      /\ (d => t = Append(s, l)) /\ (~d => t = s)
      /\ c => Fits(q, k, r)
      /\ d => Fits(q, Len(s) + 1, l)
  OBVIOUS
<1>8. \A m \in 1..Len(u) : u[m].id \in Int
  <2> HIDE DEF u
  <2>1. \A m \in 1..Len(u) : u[m] \in Items
    BY <1>1
  <2> QED BY <2>1, ItemIds
<1>9. \A id \in Chosen(q) : n < Rank(Chosen(q), id) <=> Reached(leaves[id].path, st)
  BY DEF Ready, ToCome
<1> HIDE DEF k, i, u, l, r
<1>10. /\ s \in Seq(Items) /\ Stacked(q, s) /\ AllHung(s) /\ Len(s) \in Nat
       /\ \A m \in 1..Len(s) : NetEnd(l) < s[m].id
       /\ \A p : Reached(p, s) <=> Reached(p, u) \/ (c /\ Touches(p, r))
  <2>1. NetEnd(l) \in Int /\ NetEnd(r) \in Int /\ NetEnd(l) < NetEnd(r) /\ NetEnd(l) < r.id
        /\ r.id \in Int
    BY <1>2, <1>3, ItemIds
  <2>2. \A m \in 1..Len(u) : NetEnd(r) < u[m].id /\ NetEnd(l) < u[m].id
    BY <1>1, <1>3, <1>8, <2>1
  <2>3. CASE c
    <3> DEFINE z == Append(u, r)
    <3>1. s = z
      BY <1>7, <2>3
    <3>2. Fits(q, Len(u) + 1, r)
      <4>1. Len(u) + 1 = k
        BY <1>1
      <4> QED BY <1>7, <2>3, <4>1
    <3>3. /\ z \in Seq(Items) /\ Stacked(q, z) /\ AllHung(z) /\ Len(z) = Len(u) + 1
          /\ \A m \in 1..Len(u) : z[m] = u[m]
          /\ z[Len(u) + 1] = r
          /\ \A p : Reached(p, z) <=> Reached(p, u) \/ Touches(p, r)
      BY <1>1, <1>2, <1>3, <2>2, <3>2, Push
    <3> HIDE DEF z
    <3>4. Len(u) \in Nat
      BY <1>1
    <3>5. \A m \in 1..Len(z) : m \in 1..Len(u) \/ m = Len(u) + 1
      BY <3>3, <3>4
    <3>6. \A m \in 1..Len(z) : NetEnd(l) < z[m].id
      BY <2>1, <2>2, <3>3, <3>5
    <3>7. \A p : Reached(p, s) <=> Reached(p, u) \/ (c /\ Touches(p, r))
      BY <2>3, <3>1, <3>3, Zenon
    <3>8. Len(s) \in Nat
      BY <3>1, <3>3, <3>4
    <3> QED BY <3>1, <3>3, <3>6, <3>7, <3>8
  <2>4. CASE ~c
    <3>1. s = u
      BY <1>7, <2>4
    <3> QED BY <1>1, <2>2, <2>4, <3>1
  <2> QED BY <2>3, <2>4
<1>11. /\ t \in Seq(Items) /\ Stacked(q, t) /\ AllHung(t)
       /\ \A p : Reached(p, t) <=> Reached(p, s) \/ (d /\ Touches(p, l))
  <2>1. CASE d
    <3> DEFINE z == Append(s, l)
    <3>1. t = z /\ Fits(q, Len(s) + 1, l)
      BY <1>7, <2>1
    <3>2. /\ z \in Seq(Items) /\ Stacked(q, z) /\ AllHung(z) /\ Len(z) = Len(s) + 1
          /\ \A m \in 1..Len(s) : z[m] = s[m]
          /\ z[Len(s) + 1] = l
          /\ \A p : Reached(p, z) <=> Reached(p, s) \/ Touches(p, l)
      <4>1. /\ s \in Seq(Items) /\ Stacked(q, s) /\ AllHung(s)
            /\ \A m \in 1..Len(s) : NetEnd(l) < s[m].id
        BY <1>10
      <4>2. Fits(q, Len(s) + 1, l)
        BY <3>1
      <4> QED BY <1>2, <1>3, <4>1, <4>2, Push
    <3> HIDE DEF z
    <3>3. \A p : Reached(p, t) <=> Reached(p, s) \/ (d /\ Touches(p, l))
      BY <2>1, <3>1, <3>2, Zenon
    <3> QED BY <3>1, <3>2, <3>3
  <2>2. CASE ~d
    <3>1. t = s
      BY <1>7, <2>2
    <3> QED BY <1>10, <2>2, <3>1
  <2> QED BY <2>1, <2>2
<1>12. ToCome(q, t, n)
  <2> SUFFICES ASSUME NEW id \in Chosen(q)
               PROVE  Reached(leaves[id].path, st) <=> Reached(leaves[id].path, t)
    BY <1>9 DEF ToCome
  <2> DEFINE p == leaves[id].path
  <2>1. p \in Leaves /\ (Touches(p, r) => c) /\ (Touches(p, l) => d)
    BY <1>5, <1>6
  <2> HIDE DEF p
  <2>2. Reached(p, st) <=> Reached(p, t)
    BY <1>1, <1>4, <1>10, <1>11, <2>1
  <2> QED BY <2>2 DEF p
<1> QED BY <1>11, <1>12 DEF Ready, Rooted
-----------------------------------------------------------------------------
(***************************************************************************)
(* One turn of an iterator whose reader is open: it gives the next of the  *)
(* expected results, or the stack changes and leads to the same ones.      *)
(***************************************************************************)
UnderWay ==
  /\ FileOK /\ leaves = LeavesOf(Trie0) /\ open
  /\ query \in Queries /\ expected = Expected(query) /\ Aligned(query)
  /\ out \in Seq(Results) /\ Ready(query, stack, Len(out)) /\ stack # <<>>
Goes == out' = out /\ status' = status /\ Ready(query, stack', Len(out))
Gives ==
  /\ Len(out) < Len(expected)
  /\ \E r : out' = Append(out, r) /\ Seen(r) = Seen(expected[Len(out) + 1])
  /\ status' \in {"running", "stopped"}
  /\ status' = "running" => Ready(query, stack', Len(out) + 1)

\* The leaf at the top, and that no other is there.
LEMMA LeafAtTop ==
  ASSUME UnderWay, HashInjective, IsData(file, Top.node)
  PROVE  \E p \in Leaves :
           /\ Low(p) <= Top.id /\ NetEnd(Top) <= High(p) /\ Len(p) <= Top.bit
           /\ Hung(Top) => Len(p) = Top.bit /\ Low(p) = Top.id /\ High(p) = NetEnd(Top)
           /\ \A x : Result(x, Top) = [id |-> x, value |-> leaves[Low(p)].value]
           /\ Low(p) \in DOMAIN leaves /\ leaves[Low(p)].path = p
           /\ \A id \in Chosen(query) : Touches(leaves[id].path, Top) => id = Low(p)
<1> DEFINE i == Top
<1>1. i \in Items
  BY Uncover DEF UnderWay, Top
<1>2. FileOK /\ leaves = LeavesOf(Trie0) /\ query \in Queries /\ IsData(file, i.node)
  BY DEF UnderWay
<1> HIDE DEF i
<1>3. PICK p \in Leaves :
         /\ Low(p) <= i.id /\ NetEnd(i) <= High(p) /\ Len(p) <= i.bit
         /\ Hung(i) => Len(p) = i.bit /\ Low(p) = i.id /\ High(p) = NetEnd(i)
         /\ file.data[Resolve(file, i.node)] = Trie0[p].value
  BY <1>1, <1>2, ItemLeaf
<1>4. Low(p) \in DOMAIN leaves /\ leaves[Low(p)].path = p
      /\ leaves[Low(p)].value = Trie0[p].value
  BY <1>2, LeavesById
<1>5. \A x : Result(x, i) = [id |-> x, value |-> leaves[Low(p)].value]
  BY <1>3, <1>4 DEF Result
<1>6. ASSUME NEW id \in Chosen(query), Touches(leaves[id].path, i) PROVE id = Low(p)
  <2> DEFINE r == leaves[id].path
  <2>1. r \in Leaves /\ Low(r) = id
    BY <1>2, ExpectedOK, LeavesById
  <2>2. Low(r) <= NetEnd(i) /\ High(r) >= i.id
    BY <1>6 DEF Touches
  <2> HIDE DEF r
  <2>3. \A x \in Ids : x \in Int
    BY PowersOfTwo, TrieAssumption DEF Ids
  <2>4. /\ Low(r) \in Int /\ High(r) \in Int /\ Low(p) \in Int /\ High(p) \in Int
        /\ i.id \in Int /\ NetEnd(i) \in Int
    BY <1>1, <2>1, <2>3, ItemIds, LeafType, PathIds
  <2>5. Low(r) <= High(p) /\ Low(p) <= High(r)
    BY <1>3, <2>2, <2>4
  <2>6. r = p
    BY <2>1, <2>5, LeavesDisjoint
  <2> QED BY <2>1, <2>6
<1> QED BY <1>3, <1>4, <1>5, <1>6 DEF i

\* Handing out the leaf at the top.
LEMMA YieldGives ==
  ASSUME UnderWay, NEW p \in Leaves, Low(p) \in Chosen(query),
         Low(p) <= Top.id, NetEnd(Top) <= High(p), Hung(Top) => High(p) = NetEnd(Top),
         NEW r, Seen(r) = Seen(ResultOf(leaves[Low(p)])), Yield(r)
  PROVE  Gives
<1> DEFINE n == Len(out)
           C == Chosen(query)
<1>1. n \in Nat
  BY DEF UnderWay
<1>2. /\ Rank(C, Low(p)) = n + 1 /\ n < Cardinality(C)
      /\ Ready(query, Under(stack), n + 1)
  <2>1. /\ FileOK /\ leaves = LeavesOf(Trie0) /\ query \in Queries
        /\ Ready(query, stack, n) /\ stack # <<>>
    BY DEF UnderWay
  <2>2. Low(p) <= stack[Len(stack)].id /\ NetEnd(stack[Len(stack)]) <= High(p)
        /\ (Hung(stack[Len(stack)]) => High(p) = NetEnd(stack[Len(stack)]))
    BY DEF Top
  <2> HIDE DEF n
  <2> QED BY <1>1, <2>1, <2>2, TakeReady
<1>3. Len(expected) = Cardinality(C) /\ expected[Rank(C, Low(p))] = ResultOf(leaves[Low(p)])
  BY ExpectedOK DEF UnderWay
<1>4. Popped = Under(stack)
  BY DEF Popped, Under
<1> QED BY <1>1, <1>2, <1>3, <1>4 DEF Yield, Gives

LEMMA DropGoes ==
  ASSUME UnderWay, \A id \in Chosen(query) : ~Touches(leaves[id].path, Top), Drop
  PROVE  Goes
<1>1. Ready(query, stack, Len(out)) /\ stack # <<>>
  BY DEF UnderWay
<1>2. Ready(query, Under(stack), Len(out))
  BY <1>1, DropReady DEF Top
<1> QED BY <1>2 DEF Drop, Goes, Popped, Under

\* A record that is neither node nor data leads to nothing.
LEMMA EmptyGoes ==
  ASSUME UnderWay, ~IsNode(file, Top.node), ~IsData(file, Top.node), Drop
  PROVE  Goes
<1>1. Top \in Items /\ FileOK
  BY Uncover DEF UnderWay, Top
<1>2. \A id \in Chosen(query) : leaves[id].path \in Leaves
  BY ExpectedOK, LeavesById DEF UnderWay
<1>3. \A id \in Chosen(query) : ~Touches(leaves[id].path, Top)
  BY <1>1, <1>2, EmptyItem
<1> QED BY <1>3, DropGoes

LEMMA TwoMore ==
  ASSUME NEW S, NEW s \in Seq(S), NEW a \in S, NEW b \in S
  PROVE  s \o <<a, b>> = Append(Append(s, a), b)
OBVIOUS

\* Where and Scan put both children on the stack.
LEMMA BothGo ==
  ASSUME UnderWay, query.kind # "range", IsNode(file, Top.node),
         Descend(Popped \o <<RightItem(Top), LeftItem(Top)>>)
  PROVE  Goes
<1> DEFINE k == Len(stack)
           i == Top
           l == LeftItem(i)
           r == RightItem(i)
           u == Under(stack)
           s == Append(u, r)
           t == Append(s, l)
<1>1. /\ k \in Nat /\ k >= 1 /\ i \in Items /\ Fits(query, k, i)
      /\ u \in Seq(Items) /\ Len(u) = k - 1
  BY Uncover DEF UnderWay, Top
<1>2. l \in Items /\ r \in Items
  BY <1>1, ChildItems DEF UnderWay
<1>3. /\ l.bit = i.bit + 1 /\ r.bit = i.bit + 1 /\ l.id = i.id /\ i.bit < PrefixBits
      /\ NetEnd(l) + 1 = r.id /\ NetEnd(r) = NetEnd(i) /\ r.id = i.id + Power(i.bit)
  BY <1>1, ChildIds DEF UnderWay
<1>4. /\ i.id \in Int /\ r.id \in Int /\ NetEnd(l) \in Int /\ NetEnd(r) \in Int
      /\ r.id <= NetEnd(r) /\ l.id <= NetEnd(l) /\ i.bit \in Nat
  BY <1>1, <1>2, ItemIds
<1>5. query.kind = "scan" => query.id \in Int /\ Power2(PrefixBits - StopBit(query)) \in Int
  <2> SUFFICES ASSUME query.kind = "scan"
               PROVE  query.id \in Int /\ Power2(PrefixBits - StopBit(query)) \in Int
    OBVIOUS
  <2>1. query.id \in Int /\ StopBit(query) \in 0..PrefixBits
    BY QueryType DEF UnderWay
  <2>2. PrefixBits - StopBit(query) \in Nat
    BY <2>1, TrieAssumption
  <2> QED BY <2>1, <2>2, PowersOfTwo
<1>6. FirstBit(query) \in Int
  BY QueryType DEF UnderWay
<1>7. s = Append(u, r) /\ t = Append(s, l) /\ Len(s) = k
  <2> HIDE DEF u, l, r, k
  <2> QED BY <1>1, <1>2
<1>8. query.kind # "range"
  OBVIOUS
<1>9. Popped \o <<r, l>> = t
  <2>1. Popped = u
    BY DEF Popped, Under
  <2> HIDE DEF u, l, r
  <2> QED BY <1>1, <1>2, <2>1, TwoMore
<1>10. stack' = t /\ out' = out /\ status' = status
  BY <1>9 DEF Descend, Continue, Unreadable, UnderWay
<1> HIDE DEF k, i, l, r
<1>11. Fits(query, k, r) /\ Fits(query, k + 1, l)
  BY <1>1, <1>3, <1>4, <1>5, <1>6, <1>8 DEF Fits
<1>12. Ready(query, t, Len(out))
  <2>1. /\ FileOK /\ leaves = LeavesOf(Trie0) /\ query \in Queries
        /\ Ready(query, stack, Len(out)) /\ stack # <<>>
    BY DEF UnderWay
  <2> HIDE DEF s, t
  <2>2. /\ IsNode(file, stack[Len(stack)].node)
        /\ s = Append(Under(stack), RightItem(stack[Len(stack)]))
        /\ t = Append(s, LeftItem(stack[Len(stack)]))
        /\ Fits(query, Len(stack), RightItem(stack[Len(stack)]))
        /\ Fits(query, Len(s) + 1, LeftItem(stack[Len(stack)]))
    BY <1>7, <1>11 DEF Top, k, i, l, r, u
  <2> QED BY <2>1, <2>2, SplitReady
<1> QED BY <1>10, <1>12 DEF Goes

\* The id that Scan makes of an item is one of the item's.
LEMMA MiddleId ==
  ASSUME NEW i \in Items, NEW y,
         y = IF i.bit < PrefixBits THEN WithBit(i.id, i.bit) ELSE i.id
  PROVE  y \in Ids /\ i.id <= y /\ y <= NetEnd(i)
<1>1. i.id \in Ids /\ i.id \in Int /\ i.bit \in 0..PrefixBits /\ i.id <= NetEnd(i)
      /\ i.id % Power2(PrefixBits - i.bit) = 0
  BY ItemIds, ItemOK
<1> DEFINE id == i.id
           b == i.bit
<1>2. NetEnd(i) = id + Power2(PrefixBits - b) - 1
  BY DEF NetEnd
<1>3. CASE b < PrefixBits
  <2>1. b \in 0..(PrefixBits - 1)
    BY <1>1, <1>3, TrieAssumption
  <2>2. y = WithBit(id, b) /\ id \in Ids /\ id \in Int /\ id % Power2(PrefixBits - b) = 0
    BY <1>1, <1>3
  <2> HIDE DEF id, b
  <2>3. y \in Ids /\ y = id + Power(b)
    BY <2>1, <2>2, NextBit
  <2>4. Power(b) \in Nat /\ Power(b) > 0
    BY <2>1, PowerMono
  <2>5. Power2(PrefixBits - b) = 2 * Power(b)
    <3> DEFINE k == PrefixBits - 1 - b
    <3>1. k \in Nat /\ PrefixBits - b = k + 1
      BY <2>1, TrieAssumption
    <3> HIDE DEF k
    <3>2. Power2(PrefixBits - b) = 2 * Power2(k)
      BY <3>1, PowersOfTwo
    <3> QED BY <3>2 DEF Power, k
  <2>6. id <= y /\ y <= id + Power2(PrefixBits - b) - 1
    BY <2>2, <2>3, <2>4, <2>5
  <2> QED BY <1>2, <2>3, <2>6 DEF id
<1>4. CASE ~(b < PrefixBits)
  BY <1>1, <1>4
<1> QED BY <1>3, <1>4

\* Scan.
LEMMA ScanGoes ==
  ASSUME UnderWay, HashInjective, query.kind = "scan", ScanTurn
  PROVE  Goes \/ Gives
<1> DEFINE i == Top
           k == Len(stack)
           a == StopBit(query)
           x == query.id
           size == Power2(PrefixBits - a)
<1>1. /\ i \in Items /\ Fits(query, k, i) /\ (Hung(i) \/ i.bit = FirstBit(query))
      /\ FileOK /\ query \in Queries /\ Aligned(query) /\ open
  BY Uncover DEF UnderWay, Top
<1>2. i.bit \in 0..PrefixBits /\ file.nodeCount \in Nat /\ i.node \in Nat
  BY <1>1, ItemOK, WalkSteps
<1>3. IsData(file, i.node) => ~IsNode(file, i.node)
  <2> HIDE DEF i
  <2> QED BY <1>2 DEF IsData, IsNode
<1>4. CASE IsData(file, i.node)
  <2>1. PICK p \in Leaves :
           /\ Low(p) <= i.id /\ NetEnd(i) <= High(p) /\ Len(p) <= i.bit
           /\ Hung(i) => Len(p) = i.bit /\ Low(p) = i.id /\ High(p) = NetEnd(i)
           /\ \A z : Result(z, i) = [id |-> z, value |-> leaves[Low(p)].value]
           /\ Low(p) \in DOMAIN leaves /\ leaves[Low(p)].path = p
    BY <1>4, LeafAtTop
  <2>2. /\ a \in 0..PrefixBits /\ x \in Ids /\ FirstBit(query) = a /\ x % size = 0
        /\ a <= i.bit /\ x <= i.id /\ NetEnd(i) <= x + (size - 1)
    BY <1>1, QueryType DEF Fits, FirstBit, Aligned
  <2>3. /\ i.id \in Int /\ NetEnd(i) \in Int /\ i.id <= NetEnd(i) /\ x \in Int
        /\ Low(p) \in Int /\ High(p) \in Int /\ size \in Int
    <3>1. \A y \in Ids : y \in Int
      BY PowersOfTwo, TrieAssumption DEF Ids
    <3>2. Low(p) \in Ids /\ High(p) \in Ids /\ i.id \in Int /\ NetEnd(i) \in Int
          /\ i.id <= NetEnd(i)
      BY <1>1, ItemIds, LeafType, PathIds
    <3>3. PrefixBits - a \in Nat
      BY <2>2, TrieAssumption
    <3> QED BY <2>2, <3>1, <3>2, <3>3, PowersOfTwo
  <2>4. InPrefix(query, p)
    <3> HIDE DEF i, a, x, size
    <3>1. Low(p) < x + size /\ High(p) >= x
      BY <2>1, <2>2, <2>3
    <3>2. x - (x % size) = x
      BY <2>2, <2>3
    <3> QED BY <3>1, <3>2 DEF InPrefix, x, size, a
  <2>5. Low(p) \in Chosen(query)
    BY <2>1, <2>4 DEF Chosen, Selected
  <2> DEFINE y == IF i.bit < PrefixBits THEN WithBit(i.id, i.bit) ELSE i.id
  <2>6. y \in Ids /\ Low(p) <= y /\ y <= High(p) /\ Low(p) \in Ids /\ Low(p) <= High(p)
    <3>1. y \in Ids /\ i.id <= y /\ y <= NetEnd(i)
      BY <1>1, MiddleId
    <3>2. Low(p) \in Ids /\ Low(p) <= High(p)
      BY LeafType, PathIds
    <3>3. y \in Int
      BY <3>1, PowersOfTwo, TrieAssumption DEF Ids
    <3> HIDE DEF i, y
    <3> QED BY <2>1, <2>3, <3>1, <3>2, <3>3
  <2> HIDE DEF y
  <2>7. Named(y) = Named(Low(p))
    <3>1. Holding(y) = {Low(p)}
      BY <2>6, HoldsOne DEF UnderWay
    <3>2. Low(p) <= Low(p)
      BY <2>3
    <3>3. Holding(Low(p)) = {Low(p)}
      BY <2>6, <3>2, HoldsOne DEF UnderWay
    <3> QED BY <1>1, <3>1, <3>3 DEF Named
  <2>8. Yield(Result(y, i))
    BY <1>1, <1>3, <1>4 DEF ScanTurn, y
  <2>9. Seen(Result(y, i)) = Seen(ResultOf(leaves[Low(p)]))
    BY <2>1, <2>7 DEF ResultOf, Seen
  <2> QED BY <2>1, <2>5, <2>8, <2>9, YieldGives
<1>5. CASE IsNode(file, i.node)
  <2>1. Descend(Popped \o <<RightItem(i), LeftItem(i)>>)
    BY <1>3, <1>5 DEF ScanTurn
  <2> QED BY <1>5, <2>1, BothGo
<1>6. CASE ~IsNode(file, i.node) /\ ~IsData(file, i.node)
  <2>1. Drop
    BY <1>6 DEF ScanTurn
  <2> QED BY <1>6, <2>1, EmptyGoes
<1> QED BY <1>4, <1>5, <1>6

\* Where: its stack is deep enough for both children of every node.
LEMMA WhereGoes ==
  ASSUME UnderWay, HashInjective, WhereStack > PrefixBits + 1, query.kind = "where", WhereTurn
  PROVE  Goes \/ Gives
<1> DEFINE i == Top
           k == Len(stack)
<1>1. /\ i \in Items /\ Fits(query, k, i) /\ (Hung(i) \/ i.bit = FirstBit(query))
      /\ k \in Nat /\ k >= 1 /\ Under(stack) \in Seq(Items) /\ Len(Under(stack)) = k - 1
      /\ FileOK /\ query \in Queries /\ open
  BY Uncover DEF UnderWay, Top
<1>2. i.bit \in 0..PrefixBits /\ file.nodeCount \in Nat /\ i.node \in Nat
  BY <1>1, ItemOK, WalkSteps
<1>3. IsData(file, i.node) => ~IsNode(file, i.node)
  <2> HIDE DEF i
  <2> QED BY <1>2 DEF IsData, IsNode
<1>4. CASE IsData(file, i.node)
  <2>1. PICK p \in Leaves :
           /\ Low(p) <= i.id /\ NetEnd(i) <= High(p) /\ Len(p) <= i.bit
           /\ Hung(i) => Len(p) = i.bit /\ Low(p) = i.id /\ High(p) = NetEnd(i)
           /\ \A z : Result(z, i) = [id |-> z, value |-> leaves[Low(p)].value]
           /\ Low(p) \in DOMAIN leaves /\ leaves[Low(p)].path = p
           /\ \A id \in Chosen(query) : Touches(leaves[id].path, i) => id = Low(p)
    BY <1>4, LeafAtTop
  <2>2. Hung(i)
    <3>1. Len(p) \in 1..PrefixBits
      BY LeafType
    <3>2. FirstBit(query) = 0
      BY DEF FirstBit
    <3> HIDE DEF i
    <3> QED BY <1>1, <1>2, <2>1, <3>1, <3>2
  <2> DEFINE v == leaves[Low(p)].value
  <2>3. Result(i.id, i) = [id |-> i.id, value |-> v] /\ Low(p) = i.id
    BY <2>1, <2>2
  <2>4. CASE v \in query.matches
    <3>1. Yield(Result(i.id, i))
      BY <1>1, <1>3, <1>4, <2>3, <2>4 DEF WhereTurn
    <3>2. Result(i.id, i) = ResultOf(leaves[Low(p)])
      BY <2>1, <2>3 DEF ResultOf
    <3>3. Low(p) \in Chosen(query)
      BY <2>1, <2>4 DEF Chosen, Selected
    <3> QED BY <2>1, <3>1, <3>2, <3>3, YieldGives
  <2>5. CASE v \notin query.matches
    <3>1. Drop
      BY <1>1, <1>3, <1>4, <2>3, <2>5 DEF WhereTurn
    <3>2. Low(p) \notin Chosen(query)
      BY <2>5 DEF Chosen, Selected
    <3>3. \A id \in Chosen(query) : ~Touches(leaves[id].path, Top)
      BY <2>1, <3>2
    <3> QED BY <3>1, <3>3, DropGoes
  <2> QED BY <2>4, <2>5
<1>5. CASE IsNode(file, i.node)
  <2>1. Len(Popped) + 2 < WhereStack
    <3>1. k <= i.bit + 1 /\ i.bit < PrefixBits
      BY <1>1, <1>5, ChildIds DEF Fits
    <3>2. Len(Popped) = k - 1
      BY <1>1 DEF Popped, Under
    <3> HIDE DEF i, k
    <3> QED BY <1>1, <1>2, <3>1, <3>2, TrieAssumption, ReaderAssumption
  <2>2. Descend(Popped \o <<RightItem(i), LeftItem(i)>>)
    BY <1>3, <1>5, <2>1 DEF WhereTurn
  <2> QED BY <1>5, <2>2, BothGo
<1>6. CASE ~IsNode(file, i.node) /\ ~IsData(file, i.node)
  <2>1. Drop
    BY <1>6 DEF WhereTurn
  <2> QED BY <1>6, <2>1, EmptyGoes
<1> QED BY <1>4, <1>5, <1>6

\* GetRange: what lies outside the range is dropped, and the one record for which
\* there is no room can only be a leaf.
LEMMA RangeGoes ==
  ASSUME UnderWay, HashInjective, RangeStack = PrefixBits, query.kind = "range", RangeTurn
  PROVE  Goes \/ Gives
<1> DEFINE i == Top
           k == Len(stack)
           e == query.end
           b == query.start
<1>1. /\ i \in Items /\ Fits(query, k, i) /\ (Hung(i) \/ i.bit = FirstBit(query))
      /\ k \in Nat /\ k >= 1 /\ Under(stack) \in Seq(Items) /\ Len(Under(stack)) = k - 1
      /\ FileOK /\ query \in Queries /\ open
      /\ leaves = LeavesOf(Trie0)
  BY Uncover DEF UnderWay, Top
<1>2. /\ i.bit \in 0..PrefixBits /\ i.bit \in Nat /\ file.nodeCount \in Nat /\ i.node \in Nat
      /\ i.id \in Int /\ NetEnd(i) \in Int /\ i.id >= 0 /\ i.id <= NetEnd(i)
      /\ e \in Nat /\ b \in Nat /\ PrefixBits \in Nat
  <2>1. i.bit \in 0..PrefixBits /\ i.bit \in Nat /\ i.id \in Ids /\ i.id \in Int
        /\ NetEnd(i) \in Int /\ i.node \in Nat /\ file.nodeCount \in Nat /\ i.id <= NetEnd(i)
    BY <1>1, ItemIds, ItemOK, WalkSteps
  <2>2. \A y \in Ids : y >= 0
    BY PowersOfTwo, TrieAssumption DEF Ids
  <2>3. e \in Nat /\ b \in Nat
    BY <1>1, QueryType
  <2> QED BY <2>1, <2>2, <2>3, TrieAssumption
<1>3. IsData(file, i.node) => ~IsNode(file, i.node)
  <2> HIDE DEF i
  <2> QED BY <1>2 DEF IsData, IsNode
<1>4. /\ k <= i.bit + 1 /\ b <= e /\ k <= RangeStack
      /\ i.id = 0 /\ e >= Power(0) => k = i.bit + 1
      /\ k = i.bit + 1 => i.id = 0 /\ (k > 1 => e >= Power(0))
  BY <1>1 DEF Fits
<1>5. i.bit = 0 \/ Hung(i)
  BY <1>1 DEF FirstBit
<1>6. \A id \in Chosen(query) :
         /\ leaves[id].path \in Leaves /\ Low(leaves[id].path) \in Int
         /\ High(leaves[id].path) \in Int /\ Low(leaves[id].path) <= High(leaves[id].path)
         /\ Low(leaves[id].path) <= e /\ High(leaves[id].path) >= b
         /\ ~NoRoom(query, leaves[id].path)
  <2> TAKE id \in Chosen(query)
  <2> DEFINE p == leaves[id].path
  <2>1. p \in Leaves /\ InRange(query, p) /\ ~NoRoom(query, p)
    <3>1. p \in Leaves
      BY <1>1, ExpectedOK, LeavesById
    <3>2. Selected(query, leaves[id])
      BY DEF Chosen
    <3> QED BY <3>1, <3>2 DEF Selected
  <2> HIDE DEF p
  <2>2. Low(p) \in Int /\ High(p) \in Int /\ Low(p) <= High(p)
    BY <2>1, LeafType, PathIds, PowersOfTwo, TrieAssumption DEF Ids
  <2> QED BY <2>1, <2>2 DEF InRange, p
<1> DEFINE inside == ~(i.id > e \/ NetEnd(i) < b)
<1>7. CASE ~inside
  <2>1. Drop
    BY <1>7 DEF RangeTurn
  <2>2. ASSUME NEW id \in Chosen(query), Touches(leaves[id].path, i) PROVE FALSE
    <3> DEFINE p == leaves[id].path
    <3>1. p \in Leaves /\ Low(p) \in Int /\ High(p) \in Int /\ Low(p) <= e /\ High(p) >= b
      BY <1>6
    <3>2. Touches(p, i)
      BY <2>2
    <3> HIDE DEF p, i
    <3>3. i.id <= Low(p) /\ High(p) <= NetEnd(i)
      BY <1>1, <1>5, <3>1, <3>2, InsideItem
    <3> QED BY <1>2, <1>7, <3>1, <3>3
  <2> QED BY <2>1, <2>2, DropGoes
<1>8. CASE inside /\ IsData(file, i.node)
  <2>1. PICK p \in Leaves :
           /\ Low(p) <= i.id /\ NetEnd(i) <= High(p) /\ Len(p) <= i.bit
           /\ Hung(i) => Len(p) = i.bit /\ Low(p) = i.id /\ High(p) = NetEnd(i)
           /\ \A z : Result(z, i) = [id |-> z, value |-> leaves[Low(p)].value]
           /\ Low(p) \in DOMAIN leaves /\ leaves[Low(p)].path = p
    BY <1>8, LeafAtTop
  <2>2. Hung(i)
    <3>1. Len(p) \in 1..PrefixBits
      BY LeafType
    <3> HIDE DEF i
    <3> QED BY <1>2, <1>5, <2>1, <3>1
  <2>3. Low(p) = i.id /\ High(p) = NetEnd(i) /\ Len(p) = i.bit
    BY <2>1, <2>2
  <2>4. InRange(query, p)
    <3> HIDE DEF i
    <3> QED BY <1>2, <1>4, <1>8, <2>3 DEF InRange
  <2>5. ~NoRoom(query, p)
    <3> SUFFICES ASSUME i.id = 0, i.bit = PrefixBits, e >= Power(0) PROVE FALSE
      BY <2>3 DEF NoRoom
    <3>1. k = PrefixBits + 1 /\ k <= PrefixBits
      BY <1>4
    <3> HIDE DEF k
    <3> QED BY <1>1, <1>2, <3>1
  <2>6. Low(p) \in Chosen(query)
    BY <2>1, <2>4, <2>5 DEF Chosen, Selected
  <2>7. Yield(Result(i.id, i))
    BY <1>1, <1>3, <1>8 DEF RangeTurn
  <2>8. Result(i.id, i) = ResultOf(leaves[Low(p)])
    BY <2>1, <2>3 DEF ResultOf
  <2> QED BY <2>1, <2>6, <2>7, <2>8, YieldGives
<1>9. CASE inside /\ IsNode(file, i.node)
  <2> DEFINE l == LeftItem(i)
             r == RightItem(i)
             u == Under(stack)
             c == r.id <= e
             s == IF c THEN Append(u, r) ELSE u
             d == Len(s) < RangeStack
             t == IF d THEN Append(s, l) ELSE s
  <2>1. /\ i.bit < PrefixBits /\ l.bit = i.bit + 1 /\ r.bit = i.bit + 1
        /\ l.id = i.id /\ r.id = i.id + Power(i.bit) /\ r.id = WithBit(i.id, i.bit)
        /\ NetEnd(l) + 1 = r.id /\ NetEnd(r) = NetEnd(i) /\ r.id > 0
        /\ Hung(l) /\ Hung(r)
    BY <1>1, <1>9, ChildIds
  <2>2. l \in Items /\ r \in Items
    BY <1>1, <1>9, ChildItems
  <2>3. r.id \in Int /\ NetEnd(l) \in Int
    BY <2>2, ItemIds
  <2>4. Power(i.bit) \in Nat /\ Power(i.bit) > 0 /\ Power(i.bit) <= Power(0) /\ Power(0) \in Nat
    <3>1. i.bit \in 0..(PrefixBits - 1) /\ 0 \in 0..(PrefixBits - 1)
      BY <1>2, <2>1, TrieAssumption
    <3> QED BY <3>1, PowerMono
  <2>5. k - 1 < RangeStack /\ Len(u) = k - 1
    <3>1. k \in Nat /\ k <= RangeStack /\ Len(u) = k - 1
      BY <1>1, <1>4
    <3> HIDE DEF k, u
    <3> QED BY <3>1, ReaderAssumption
  <2>6. /\ (c => Len(s) = k) /\ (~c => Len(s) = k - 1) /\ Len(s) \in Nat
    <3>1. u \in Seq(Items) /\ Len(u) = k - 1 /\ k \in Nat /\ k >= 1
      BY <1>1
    <3> HIDE DEF u, r, k
    <3>2. Len(Append(u, r)) = Len(u) + 1
      BY <2>2, <3>1
    <3> QED BY <3>1, <3>2
  <2>7. Descend(t)
    <3> DEFINE e1 == WithBit(i.id, i.bit) <= e
               e2 == i.id <= e
               z == PushIf(Popped, e1, r)
    <3>1. Descend(PushIf(z, e2, l))
      BY <1>3, <1>9 DEF RangeTurn
    <3>2. Popped = u
      BY DEF Popped, Under
    <3>3. e2 /\ (e1 <=> c)
      <4> HIDE DEF i, r
      <4> QED BY <1>2, <1>9, <2>1
    <3>4. z = s
      <4> HIDE DEF u, r, e1, c
      <4> QED BY <2>5, <3>2, <3>3 DEF PushIf, s
    <3>5. PushIf(z, e2, l) = t
      <4> HIDE DEF s, l, e2, z
      <4> QED BY <3>3, <3>4 DEF PushIf
    <3> HIDE DEF t, z, e2
    <3> QED BY <3>1, <3>5
  <2>8. stack' = t /\ out' = out /\ status' = status
    BY <1>1, <2>7 DEF Descend, Continue, Unreadable
  <2>9. c => Fits(query, k, r)
    <3> SUFFICES ASSUME c PROVE Fits(query, k, r)
      OBVIOUS
    <3>1. FirstBit(query) = 0 /\ query.kind # "scan"
      BY DEF FirstBit
    <3> HIDE DEF i, k, r
    <3>2. k <= r.bit + 1 /\ 0 <= r.bit /\ r.id # 0 /\ k # r.bit + 1
      BY <1>1, <1>2, <1>4, <2>1, <2>3
    <3> QED BY <1>4, <3>1, <3>2 DEF Fits
  <2>10. d => Fits(query, Len(s) + 1, l)
    <3> SUFFICES ASSUME d PROVE Fits(query, Len(s) + 1, l)
      OBVIOUS
    <3>1. FirstBit(query) = 0 /\ query.kind # "scan"
      BY DEF FirstBit
    <3> DEFINE m == Len(s) + 1
    <3>2. m <= RangeStack /\ (c => m = k + 1) /\ (~c => m = k)
      BY <1>1, <1>2, <2>6
    <3> HIDE DEF s, m, k, i, l, r
    <3>3. m <= l.bit + 1 /\ 0 <= l.bit
      BY <1>1, <1>2, <1>4, <2>1, <3>2
    <3>4. ASSUME l.id = 0, e >= Power(0) PROVE m = l.bit + 1
      <4>1. k = i.bit + 1
        BY <1>4, <2>1, <3>4
      <4>2. c
        BY <1>2, <2>1, <2>3, <2>4, <3>4
      <4> QED BY <1>2, <2>1, <3>2, <4>1, <4>2
    <3>5. ASSUME m = l.bit + 1 PROVE l.id = 0 /\ e >= Power(0)
      <4>1. c /\ k = i.bit + 1
        BY <1>1, <1>2, <1>4, <2>1, <3>2, <3>5
      <4>2. i.id = 0 /\ (k > 1 => e >= Power(0))
        BY <1>4, <4>1
      <4>3. k = 1 => e >= Power(0)
        <5> SUFFICES ASSUME k = 1 PROVE e >= Power(0)
          OBVIOUS
        <5>1. i.bit = 0
          BY <1>2, <4>1
        <5>2. r.id = 0 + Power(0)
          BY <2>1, <4>2, <5>1
        <5> QED BY <1>2, <2>3, <2>4, <4>1, <5>2
      <4> QED BY <1>1, <2>1, <4>2, <4>3
    <3>6. Fits(query, m, l)
      BY <1>4, <3>1, <3>2, <3>3, <3>4, <3>5 DEF Fits
    <3> QED BY <3>6 DEF m
  <2>11. ASSUME NEW id \in Chosen(query)
         PROVE  /\ Touches(leaves[id].path, r) => c
                /\ Touches(leaves[id].path, l) => d
    <3> DEFINE p == leaves[id].path
    <3>1. /\ p \in Leaves /\ Low(p) \in Int /\ High(p) \in Int /\ Low(p) <= High(p)
          /\ Low(p) <= e /\ ~NoRoom(query, p)
      BY <1>6
    <3> HIDE DEF p, i, k, s
    <3>2. ASSUME Touches(p, r) PROVE c
      <4>1. r.id <= Low(p)
        BY <1>1, <2>1, <2>2, <3>1, <3>2, InsideItem
      <4> HIDE DEF r
      <4> QED BY <1>2, <2>3, <3>1, <4>1
    <3>3. ASSUME Touches(p, l), ~d PROVE FALSE
      <4>1. l.id <= Low(p) /\ High(p) <= NetEnd(l) /\ l.bit <= Len(p)
        BY <1>1, <2>1, <2>2, <3>1, <3>3, InsideItem
      <4> HIDE DEF l, r
      <4>2. c /\ k = PrefixBits
        BY <1>1, <1>2, <1>4, <2>5, <2>6, <3>3
      <4>3. i.bit = PrefixBits - 1 /\ k = i.bit + 1
        BY <1>1, <1>2, <1>4, <2>1, <4>2
      <4>4. i.id = 0 /\ (k > 1 => e >= Power(0)) /\ r.id = 0 + Power(i.bit)
        BY <1>4, <2>1, <4>3
      <4>5. e >= Power(0)
        <5>1. k = 1 => i.bit = 0
          BY <1>2, <4>3
        <5>2. k = 1 => r.id = Power(0)
          BY <2>4, <4>4, <5>1
        <5> QED BY <1>1, <1>2, <2>3, <2>4, <4>2, <4>4, <5>2
      <4>6. Power(i.bit) = 1
        <5>1. PrefixBits - 1 - i.bit = 0
          BY <1>2, <4>3
        <5> QED BY <5>1, PowersOfTwo DEF Power
      <4>7. Low(p) = 0
        BY <2>1, <2>3, <3>1, <4>1, <4>4, <4>6
      <4>8. Len(p) = PrefixBits
        <5>1. Len(p) \in 1..PrefixBits
          BY <3>1, LeafType
        <5> QED BY <1>2, <2>1, <4>1, <4>3, <5>1
      <4> QED BY <3>1, <4>5, <4>7, <4>8 DEF NoRoom
    <3>4. (Touches(p, r) => c) /\ (Touches(p, l) => d)
      BY <3>2, <3>3
    <3> QED BY <3>4 DEF p
  <2>12. Ready(query, t, Len(out))
    <3>1. Ready(query, stack, Len(out)) /\ stack # <<>>
      BY DEF UnderWay
    <3>2. /\ c \in BOOLEAN /\ d \in BOOLEAN
          /\ (c => s = Append(u, r)) /\ (~c => s = u)
          /\ (d => t = Append(s, l)) /\ (~d => t = s)
      OBVIOUS
    <3>3. u = Under(stack) /\ i = stack[Len(stack)] /\ k = Len(stack)
          /\ l = LeftItem(stack[Len(stack)]) /\ r = RightItem(stack[Len(stack)])
      BY DEF Top
    <3> HIDE DEF c, d, s, t, u, i, k, l, r
    <3>4. IsNode(file, stack[Len(stack)].node)
      BY <1>9, <3>3
    <3>5. /\ (c => s = Append(Under(stack), RightItem(stack[Len(stack)])))
          /\ (~c => s = Under(stack))
          /\ (d => t = Append(s, LeftItem(stack[Len(stack)]))) /\ (~d => t = s)
          /\ (c => Fits(query, Len(stack), RightItem(stack[Len(stack)])))
          /\ (d => Fits(query, Len(s) + 1, LeftItem(stack[Len(stack)])))
          /\ \A id \in Chosen(query) :
               /\ Touches(leaves[id].path, RightItem(stack[Len(stack)])) => c
               /\ Touches(leaves[id].path, LeftItem(stack[Len(stack)])) => d
      BY <2>9, <2>10, <2>11, <3>2, <3>3
    <3> QED BY <1>1, <3>1, <3>2, <3>4, <3>5, SplitReady
  <2> QED BY <2>8, <2>12 DEF Goes
<1>10. CASE inside /\ ~IsNode(file, i.node) /\ ~IsData(file, i.node)
  <2>1. Drop
    BY <1>10 DEF RangeTurn
  <2> QED BY <1>10, <2>1, EmptyGoes
<1> QED BY <1>7, <1>8, <1>9, <1>10
-----------------------------------------------------------------------------
(***************************************************************************)
(* The steps of the reader as steps of the cursor.                         *)
(***************************************************************************)
Fails ==
  \E r : r.value = Nil /\ out' = Append(out, r) /\ status' \in {"running", "stopped"}

\* A turn of an open reader, and of one that is closed.
LEMMA TurnCases ==
  ASSUME CInv, Aligned(query), Turn, HashInjective,
         RangeStack = PrefixBits, WhereStack > PrefixBits + 1
  PROVE  IF open THEN Goes \/ Gives ELSE (out' = out /\ status' = status) \/ Fails
<1>1. CASE open
  <2>1. status = "running" /\ stack # <<>>
    BY DEF Turn
  <2>2. query \in Queries /\ query # NoQuery
    BY <2>1, QueryType DEF CInv
  <2>3. UnderWay
    BY <1>1, <2>1, <2>2 DEF UnderWay, CInv, IInv, ItemsOK
  <2>4. \/ query.kind = "scan" /\ ScanTurn
        \/ query.kind = "range" /\ RangeTurn
        \/ query.kind = "where" /\ WhereTurn
    BY DEF Turn
  <2>5. Goes \/ Gives
    BY <2>3, <2>4, ScanGoes, RangeGoes, WhereGoes
  <2> QED BY <1>1, <2>5
<1>2. CASE ~open
  <2>1. ASSUME NEW r, r.value = Nil, Yield(r) PROVE Fails
    BY <2>1 DEF Yield, Fails
  <2>2. Failed.value = Nil /\ \A x : [Failed EXCEPT !.id = x].value = Nil
    BY DEF Failed
  <2>3. ASSUME NEW s, Descend(s) PROVE out' = out /\ status' = status
    BY <2>3 DEF Descend
  <2>4. ASSUME Drop PROVE out' = out /\ status' = status
    BY <2>4 DEF Drop
  <2>5. CASE ScanTurn
    <3>1. (\E r : r.value = Nil /\ Yield(r)) \/ (\E s : Descend(s)) \/ Drop
      BY <1>2, <2>2, <2>5 DEF ScanTurn
    <3> QED BY <1>2, <2>1, <2>3, <2>4, <3>1
  <2>6. CASE RangeTurn
    <3>1. (\E r : r.value = Nil /\ Yield(r)) \/ (\E s : Descend(s)) \/ Drop
      BY <1>2, <2>2, <2>6 DEF RangeTurn
    <3> QED BY <1>2, <2>1, <2>3, <2>4, <3>1
  <2>7. CASE WhereTurn
    <3>1. (\E s : Descend(s)) \/ Drop
      BY <1>2, <2>7 DEF WhereTurn
    <3> QED BY <1>2, <2>3, <2>4, <3>1
  <2> QED BY <2>5, <2>6, <2>7 DEF Turn
<1> QED BY <1>1, <1>2

\* What is ready stays so while the file is the same.
LEMMA ReadyLater ==
  ASSUME file' = file, leaves' = leaves, query' = query, Ready(query, stack', Len(out'))
  PROVE  Ready(query, stack, Len(out))'
BY DEF Ready, Items, Item, Stacked, Rooted, AllHung, Hung, ToCome, Chosen, Reached

\* The item that Scan begins with, and the root.
LEMMA FirstItem ==
  ASSUME FileOK, leaves = LeavesOf(Trie0), NEW q \in Queries, Aligned(q), NEW i \in Items,
         \/ /\ q.kind = "scan" /\ i.id = q.id /\ i.bit = StopBit(q)
         \/ /\ q.kind = "range" /\ q.start <= q.end /\ RangeStack = PrefixBits
            /\ i.id = 0 /\ i.bit = 0
         \/ /\ q.kind = "where" /\ i.id = 0 /\ i.bit = 0
  PROVE  Ready(q, <<i>>, 0)
<1> DEFINE st == <<i>>
           C == Chosen(q)
<1>1. st \in Seq(Items) /\ Len(st) = 1 /\ st[1] = i
  OBVIOUS
<1> HIDE DEF st
<1>2. i.id \in Int /\ NetEnd(i) \in Int /\ i.bit \in Nat
  BY ItemIds
<1>3. i.bit = FirstBit(q)
  BY DEF FirstBit
<1>4. Fits(q, 1, i)
  <2>1. q.kind = "scan" =>
          q.id <= i.id /\ NetEnd(i) <= q.id + (Power2(PrefixBits - StopBit(q)) - 1)
    <3> SUFFICES ASSUME q.kind = "scan"
                 PROVE  /\ q.id <= i.id
                        /\ NetEnd(i) <= q.id + (Power2(PrefixBits - StopBit(q)) - 1)
      OBVIOUS
    <3> DEFINE P == Power2(PrefixBits - StopBit(q))
    <3>1. NetEnd(i) = i.id + P - 1 /\ i.id = q.id
      BY DEF NetEnd
    <3>2. StopBit(q) \in 0..PrefixBits
      BY QueryType
    <3>3. PrefixBits - StopBit(q) \in Nat
      BY <3>2, TrieAssumption
    <3>4. P \in Nat
      BY <3>3, PowersOfTwo
    <3> HIDE DEF P
    <3>5. q.id <= i.id /\ NetEnd(i) <= q.id + (P - 1)
      BY <1>2, <3>1, <3>4
    <3> QED BY <3>5 DEF P
  <2>2. q.kind = "range" =>
          /\ q.start <= q.end /\ 1 <= RangeStack
          /\ i.id = 0 /\ i.bit = 0
    BY TrieAssumption
  <2> QED BY <1>2, <1>3, <2>1, <2>2 DEF Fits
<1>5. Stacked(q, st)
  BY <1>1, <1>4 DEF Stacked
<1>6. Rooted(q, st)
  BY <1>1, <1>3 DEF Rooted
<1>7. ASSUME NEW id \in C PROVE Touches(leaves[id].path, i)
  <2> DEFINE p == leaves[id].path
  <2>1. p \in Leaves /\ Selected(q, leaves[id])
    BY ExpectedOK, LeavesById DEF Chosen
  <2> HIDE DEF p
  <2>2. Low(p) \in Ids /\ High(p) \in Ids
    BY <2>1, LeafType, PathIds
  <2>3. CASE q.kind = "scan"
    <3> DEFINE P == Power2(PrefixBits - StopBit(q))
               x == q.id
    <3>1. InPrefix(q, p)
      BY <2>1, <2>3 DEF Selected, p
    <3>2. x % P = 0
      BY <2>3 DEF Aligned
    <3>3. NetEnd(i) = x + P - 1 /\ i.id = x
      BY <2>3 DEF NetEnd
    <3>4. StopBit(q) \in 0..PrefixBits
      BY <2>3, QueryType
    <3>5. PrefixBits - StopBit(q) \in Nat
      BY <3>4, TrieAssumption
    <3>6. P \in Nat /\ Low(p) \in Int /\ High(p) \in Int
      BY <2>2, <3>5, PowersOfTwo, TrieAssumption DEF Ids
    <3>7. Low(p) < (x - (x % P)) + P /\ High(p) >= x - (x % P)
      BY <3>1 DEF InPrefix
    <3> HIDE DEF P, x
    <3>8. x \in Int
      BY <1>2, <3>3
    <3>9. Low(p) <= NetEnd(i) /\ High(p) >= i.id
      BY <1>2, <3>2, <3>3, <3>6, <3>7, <3>8
    <3> QED BY <3>9 DEF Touches, p
  <2>4. CASE q.kind # "scan"
    <3>1. i.id = 0 /\ i.bit = 0 /\ PrefixBits - 0 = PrefixBits /\ PrefixBits \in Nat
      BY <2>4, TrieAssumption
    <3>2. NetEnd(i) = 0 + Power2(PrefixBits) - 1
      BY <3>1 DEF NetEnd
    <3>3. Low(p) <= NetEnd(i) /\ High(p) >= i.id
      BY <2>2, <3>1, <3>2, PowersOfTwo DEF Ids
    <3> QED BY <3>3 DEF Touches, p
  <2> QED BY <2>3, <2>4
<1>8. \A id \in C : Rank(C, id) \in Nat /\ Rank(C, id) > 0
  <2>1. C \in SUBSET Ids /\ IsFiniteSet(C)
    BY ExpectedOK
  <2> HIDE DEF C
  <2>2. \A id \in C : Rank(C, id) \in 1..Cardinality(C)
    BY <2>1, Ranking
  <2> QED BY <2>2
<1>9. ToCome(q, st, 0)
  <2> SUFFICES ASSUME NEW id \in C PROVE 0 < Rank(C, id) /\ Reached(leaves[id].path, st)
    BY DEF ToCome
  <2> QED BY <1>1, <1>7, <1>8 DEF Reached
<1> QED BY <1>1, <1>5, <1>6, <1>9 DEF Ready, st

\* A query that begins is to give what it should.
LEMMA BeginReady ==
  ASSUME CInv, NEW q \in Queries, Begin(q), Aligned(q), RangeStack = PrefixBits, open
  PROVE  Ready(q, stack', 0)
<1>1. FileOK /\ leaves = LeavesOf(Trie0)
  BY DEF CInv, IInv
<1>2. ~Unreadable
  BY DEF Unreadable
<1>3. CASE q.kind = "scan"
  <2> DEFINE x == q.id
             b == StopBit(q)
             n == Walk(file, x, b)
             i == Item(n, x, b)
  <2>1. stack' = <<i>>
    BY <1>2, <1>3 DEF Begin, BeginScan, Continue
  <2>2. x \in Ids /\ b \in 0..PrefixBits /\ x % Power2(PrefixBits - b) = 0
    BY <1>3, QueryType DEF Aligned
  <2> HIDE DEF x, b
  <2>3. i \in Items /\ i.id = x /\ i.bit = b
    BY <2>2, ItemIs DEF Item
  <2> HIDE DEF i
  <2>4. Ready(q, <<i>>, 0)
    BY <1>1, <1>3, <2>3, FirstItem DEF x, b
  <2> QED BY <2>1, <2>4
<1> DEFINE root == Item(0, 0, 0)
<1>4. root \in Items /\ root.id = 0 /\ root.bit = 0
  <2>1. 0 \in Ids /\ 0 \in 0..PrefixBits /\ Power2(PrefixBits - 0) \in Nat
        /\ Power2(PrefixBits - 0) > 0
    BY PowersOfTwo, TrieAssumption DEF Ids
  <2>2. 0 % Power2(PrefixBits - 0) = 0
    BY <2>1
  <2>3. Walk(file, 0, 0) = 0
    BY <1>1, <2>1, WalkSteps
  <2>4. root \in Items
    BY <2>1, <2>2, <2>3, ItemIs
  <2> QED BY <2>4 DEF Item
<1> HIDE DEF root
<1>5. CASE q.kind = "range"
  <2>1. q.start \in Int /\ q.end \in Int
    BY <1>5, QueryType
  <2>2. CASE q.start <= q.end
    <3>1. stack' = <<root>>
      BY <1>5, <2>1, <2>2 DEF Begin, BeginRange, root
    <3>2. Ready(q, <<root>>, 0)
      BY <1>1, <1>4, <1>5, <2>2, FirstItem
    <3> QED BY <3>1, <3>2
  <2>3. CASE q.start > q.end
    <3>1. stack' = <<>>
      BY <1>5, <2>3 DEF Begin, BeginRange
    <3>2. \A id \in Chosen(q) : FALSE
      BY <1>5, <2>1, <2>3 DEF Chosen, Selected, InRange
    <3>3. Ready(q, <<>>, 0)
      <4> DEFINE st == <<>>
      <4>1. st \in Seq(Items) /\ Len(st) = 0
        OBVIOUS
      <4> HIDE DEF st
      <4>2. Ready(q, st, 0)
        BY <3>2, <4>1 DEF Ready, Stacked, Rooted, AllHung, ToCome
      <4> QED BY <4>2 DEF st
    <3> QED BY <3>1, <3>3
  <2> QED BY <2>1, <2>2, <2>3
<1>6. CASE q.kind = "where"
  <2>1. stack' = <<root>>
    BY <1>6 DEF Begin, BeginWhere, root
  <2>2. Ready(q, <<root>>, 0)
    BY <1>1, <1>4, <1>6, FirstItem
  <2> QED BY <2>1, <2>2
<1> QED BY <1>3, <1>5, <1>6 DEF Begin

LEMMA InitCursor == Init => CInv
<1> SUFFICES ASSUME Init PROVE CInv
  OBVIOUS
<1>1. IInv
  BY InitInvariant
<1>2. out = <<>> /\ status = "idle" /\ expected = <<>> /\ leaves = LeavesOf(Trie0)
  BY DEF Init, Trie0
<1>3. Delivered
  BY <1>2 DEF Delivered
<1> QED BY <1>1, <1>2, <1>3 DEF CInv

LEMMA BeginCursor ==
  ASSUME CInv, NEW q \in Queries, Begin(q), Aligned(q), RangeStack = PrefixBits
  PROVE  CInv'
<1>1. IInv'
  BY BeginStep DEF CInv
<1>2. /\ query' = q /\ expected' = Expected(q) /\ status' = "running" /\ out' = out
      /\ content' = content /\ leaves' = leaves /\ file' = file /\ open' = open
      /\ out = <<>>
  BY DEF Begin, bytes, CInv, IInv
<1>3. leaves' = LeavesOf(Trie0)'
  BY <1>2 DEF CInv, Trie0
<1>4. expected' = Expected(query)'
  BY <1>2 DEF Expected, Chosen
<1>5. Delivered'
  BY <1>2 DEF Delivered
<1>6. ASSUME open' PROVE Ready(query, stack, Len(out))'
  <2>1. Ready(q, stack', 0)
    BY <1>2, <1>6, BeginReady
  <2>2. Len(out') = 0
    BY <1>2
  <2>3. /\ query' = q /\ leaves' = leaves /\ file' = file
        /\ Ready(query', stack', Len(out'))
    BY <1>2, <2>1, <2>2
  <2> QED BY <2>3 DEF Ready, Items, Item, Stacked, Rooted, AllHung, Hung, ToCome, Chosen, Reached
<1> QED BY <1>1, <1>2, <1>3, <1>4, <1>5, <1>6 DEF CInv

\* The results with a value stay the first when one more comes.
LEMMA DeliveredLater ==
  ASSUME Delivered, out \in Seq(Results), NEW r, out' = Append(out, r), open' = open,
         IF open THEN r.value # Nil ELSE r.value = Nil
  PROVE  Delivered'
<1> DEFINE n == Len(out)
           o == Append(out, r)
<1>1. PICK g \in 0..n : /\ \A m \in 1..n : out[m].value # Nil <=> m <= g
                        /\ open => g = n
  BY DEF Delivered
<1>2. n \in Nat /\ Len(o) = n + 1 /\ o[n + 1] = r /\ \A m \in 1..n : o[m] = out[m]
  OBVIOUS
<1>3. out' = o
  OBVIOUS
<1> HIDE DEF n, o
<1>4. \A m \in 1..(n + 1) : m = n + 1 \/ m \in 1..n
  BY <1>2
<1> DEFINE h == IF open THEN n + 1 ELSE g
<1>5. h \in 0..(n + 1) /\ (open => h = n + 1)
  BY <1>1, <1>2
<1>6. \A m \in 1..(n + 1) : o[m].value # Nil <=> m <= h
  BY <1>1, <1>2, <1>4
<1> HIDE DEF h
<1>7. \E x \in 0..Len(o) : /\ \A m \in 1..Len(o) : o[m].value # Nil <=> m <= x
                           /\ open => x = Len(o)
  BY <1>2, <1>5, <1>6
<1> QED BY <1>3, <1>7 DEF Delivered

\* The type of the results while there are some.
LEMMA RunningTypes ==
  ASSUME CInv, Aligned(query), status # "idle"
  PROVE  /\ out \in Seq(Results) /\ expected \in Seq([id : Ids, value : Values])
         /\ query \in Queries /\ expected = Expected(query)
         /\ Len(expected) = Cardinality(Chosen(query)) /\ IsFiniteSet(Chosen(query))
         /\ Chosen(query) \in SUBSET Ids
<1>1. query \in Queries /\ expected = Expected(query)
  BY DEF CInv
<1>2. query # NoQuery
  BY <1>1, QueryType
<1> QED BY <1>1, <1>2, ExpectedOK DEF CInv, IInv, ItemsOK

LEMMA TurnCursor ==
  ASSUME CInv, Aligned(query), Turn, HashInjective,
         RangeStack = PrefixBits, WhereStack > PrefixBits + 1
  PROVE  CInv'
<1>1. IInv'
  BY TurnStep DEF CInv
<1>2. /\ query' = query /\ expected' = expected /\ status = "running" /\ open' = open
      /\ content' = content /\ leaves' = leaves /\ file' = file
  BY DEF Turn, bytes
<1>3. leaves' = LeavesOf(Trie0)'
  BY <1>2 DEF CInv, Trie0
<1>4. query \in Queries /\ expected = Expected(query)
      /\ out \in Seq(Results) /\ expected \in Seq([id : Ids, value : Values])
  BY <1>2, RunningTypes
<1>5. expected' = Expected(query)'
  BY <1>2, <1>4 DEF Expected, Chosen
<1>6. CASE open
  <2>1. Goes \/ Gives
    BY <1>6, TurnCases
  <2>2. CASE Goes
    <3>1. out' = out /\ status' = status /\ Ready(query, stack', Len(out'))
      BY <2>2 DEF Goes
    <3>2. Ready(query, stack, Len(out))'
      BY <1>2, <3>1, ReadyLater
    <3>3. Delivered'
      BY <1>2, <3>1 DEF Delivered, CInv
    <3> QED BY <1>1, <1>2, <1>3, <1>4, <1>5, <3>1, <3>2, <3>3 DEF CInv
  <2>3. CASE Gives
    <3> DEFINE n == Len(out)
               e == expected[n + 1]
    <3>1. PICK r : /\ n < Len(expected) /\ out' = Append(out, r) /\ Seen(r) = Seen(e)
                   /\ status' \in {"running", "stopped"}
                   /\ (status' = "running" => Ready(query, stack', n + 1))
      BY <2>3 DEF Gives
    <3>2. r.value # Nil
      <4>1. n + 1 \in 1..Len(expected)
        BY <1>4, <3>1
      <4> DEFINE R == [id : Ids, value : Values]
      <4>2. expected \in Seq(R)
        BY <1>4
      <4> HIDE DEF R
      <4>3. e \in R
        BY <4>1, <4>2
      <4>4. r.value = e.value
        BY <3>1 DEF Seen
      <4> QED BY <4>3, <4>4, TrieAssumption DEF R
    <3>3. Len(out') = n + 1
      BY <1>4, <3>1
    <3> HIDE DEF e, n
    <3>4. Delivered'
      BY <1>2, <1>4, <1>6, <3>1, <3>2, DeliveredLater DEF CInv
    <3>5. status' = "running" => Ready(query, stack, Len(out))'
      BY <1>2, <3>1, <3>3, ReadyLater
    <3> QED BY <1>1, <1>2, <1>3, <1>4, <1>5, <3>1, <3>4, <3>5 DEF CInv
  <2> QED BY <2>1, <2>2, <2>3
<1>7. CASE ~open
  <2>1. (out' = out /\ status' = status) \/ Fails
    BY <1>7, TurnCases
  <2>2. Delivered'
    <3>1. CASE out' = out
      BY <1>2, <3>1 DEF Delivered, CInv
    <3>2. CASE Fails
      BY <1>2, <1>4, <1>7, <3>2, DeliveredLater DEF CInv, Fails
    <3> QED BY <2>1, <3>1, <3>2
  <2>3. status' # "idle" /\ ~open'
    BY <1>2, <1>7, <2>1 DEF Fails
  <2> QED BY <1>1, <1>2, <1>3, <1>4, <1>5, <2>2, <2>3 DEF CInv
<1> QED BY <1>6, <1>7

LEMMA OtherCursor ==
  ASSUME CInv, End \/ Close \/ UNCHANGED vars
  PROVE  CInv'
<1>1. IInv'
  BY OtherSteps DEF CInv
<1>2. /\ query' = query /\ expected' = expected /\ out' = out /\ stack' = stack
      /\ content' = content /\ leaves' = leaves /\ file' = file
      /\ (status' = status \/ (status' = "done" /\ status = "running"))
      /\ (open' => open)
  BY DEF End, Close, vars, bytes
<1>3. leaves' = LeavesOf(Trie0)'
  BY <1>2 DEF CInv, Trie0
<1>4. Expected(query)' = Expected(query)
  BY <1>2 DEF Expected, Chosen
<1>5. Delivered'
  BY <1>2 DEF Delivered, CInv
<1>6. ASSUME open', status' = "running" PROVE Ready(query, stack, Len(out))'
  <2>1. Ready(query, stack, Len(out))
    BY <1>2, <1>6 DEF CInv
  <2>2. Ready(query, stack', Len(out'))
    BY <1>2, <2>1
  <2> QED BY <1>2, <2>2, ReadyLater
<1> QED BY <1>1, <1>2, <1>3, <1>4, <1>5, <1>6 DEF CInv

\* How many results have a value.
LEMMA GivenFirst ==
  ASSUME NEW o \in Seq(Results), NEW g \in 0..Len(o),
         \A m \in 1..Len(o) : o[m].value # Nil <=> m <= g
  PROVE  SubSeq(o, 1, Cardinality({m \in DOMAIN o : o[m].value # Nil})) = SubSeq(o, 1, g)
<1> DEFINE n == Len(o)
           S == {m \in DOMAIN o : o[m].value # Nil}
<1>1. DOMAIN o = 1..n /\ n \in Nat /\ \A m \in 1..n : o[m].value # Nil <=> m <= g
  OBVIOUS
<1>2. S = {m \in 1..n : m <= g}
  BY <1>1
<1> HIDE DEF S, n
<1>3. g \in 0..n
  BY DEF n
<1>4. S = 1..g
  BY <1>1, <1>2, <1>3
<1>5. Cardinality(1..g) = g
  BY <1>1, <1>3, FS_Interval
<1> QED BY <1>4, <1>5 DEF S

\* The first results are the same when one more comes.
LEMMA FirstSame ==
  ASSUME NEW R, NEW o \in Seq(R), NEW r \in R, NEW g \in 0..Len(o)
  PROVE  SubSeq(Append(o, r), 1, g) = SubSeq(o, 1, g)
<1> DEFINE n == Len(o)
           z == Append(o, r)
<1>1. n \in Nat /\ \A m \in 1..n : z[m] = o[m]
  OBVIOUS
<1>2. g \in 0..n
  OBVIOUS
<1>3. SubSeq(z, 1, g) = [m \in 1..g |-> z[m]] /\ SubSeq(o, 1, g) = [m \in 1..g |-> o[m]]
  <2>1. g \in Nat /\ \A m \in 1..g : 1 + m - 1 = m
    BY <1>1, <1>2
  <2> HIDE DEF z
  <2> QED BY <2>1
<1> HIDE DEF z, n
<1>4. \A m \in 1..g : m \in 1..n
  BY <1>1, <1>2
<1> QED BY <1>1, <1>3, <1>4 DEF z

LEMMA AllGiven ==
  ASSUME NEW R, NEW o \in Seq(R)
  PROVE  SubSeq(o, 1, Len(o)) = o
<1> DEFINE n == Len(o)
<1>1. n \in Nat /\ \A m \in 1..n : 1 + m - 1 = m
  OBVIOUS
<1>2. o = [m \in 1..n |-> o[m]]
  OBVIOUS
<1> HIDE DEF n
<1>3. SubSeq(o, 1, n) = [m \in 1..n |-> o[m]]
  BY <1>1
<1> QED BY <1>2, <1>3 DEF n

\* Taking the first of what is still to come.
LEMMA HeadAndTail ==
  ASSUME NEW R, NEW e \in Seq(R), NEW n \in Nat, n < Len(e)
  PROVE  LET s == SubSeq(e, n + 1, Len(e))
         IN  s # <<>> /\ Head(s) = e[n + 1] /\ Tail(s) = SubSeq(e, (n + 1) + 1, Len(e))
<1> DEFINE k == Len(e)
           s == SubSeq(e, n + 1, k)
           t == SubSeq(e, (n + 1) + 1, k)
<1>1. k \in Nat /\ n + 1 \in 1..k /\ k - n \in Nat /\ k - n >= 1
  OBVIOUS
<1> HIDE DEF k
<1>2. s = [m \in 1..(k - n) |-> e[n + m]]
  <2>1. k - (n + 1) + 1 = k - n /\ \A m \in 1..(k - n) : (n + 1) + m - 1 = n + m
    BY <1>1
  <2> QED BY <1>1, <2>1
<1>3. t = [m \in 1..((k - n) - 1) |-> e[n + (m + 1)]]
  <2>1. k - ((n + 1) + 1) + 1 = (k - n) - 1
        /\ \A m \in 1..((k - n) - 1) : ((n + 1) + 1) + m - 1 = n + (m + 1)
    BY <1>1
  <2> QED BY <1>1, <2>1
<1> HIDE DEF s, t
<1> DEFINE h == k - n
<1>4. h \in Nat /\ h >= 1 /\ s = [m \in 1..h |-> e[n + m]]
  BY <1>1, <1>2
<1>5. Len(s) = h /\ s \in Seq(R)
  <2>1. \A m \in 1..h : n + m \in 1..k
    BY <1>1
  <2>2. e \in [1..k -> R]
    BY DEF k
  <2> HIDE DEF h
  <2>3. \A m \in 1..h : e[n + m] \in R
    BY <2>1, <2>2
  <2>4. s \in [1..h -> R] /\ h \in Nat
    BY <1>4, <2>3
  <2> QED BY <2>4
<1>6. s # <<>> /\ Head(s) = e[n + 1]
  <2> HIDE DEF h
  <2>1. 1 \in 1..h /\ s # <<>> /\ Head(s) = s[1]
    BY <1>4, <1>5
  <2> QED BY <1>4, <2>1
<1>7. Tail(s) = [m \in 1..(h - 1) |-> s[m + 1]]
  <2> HIDE DEF h
  <2> QED BY <1>4, <1>5
<1>8. \A m \in 1..(h - 1) : m + 1 \in 1..h
  <2> HIDE DEF h
  <2> QED BY <1>4
<1>9. Tail(s) = t
  <2> HIDE DEF h
  <2>1. [m \in 1..(h - 1) |-> s[m + 1]] = [m \in 1..(h - 1) |-> e[n + (m + 1)]]
    BY <1>4, <1>8
  <2> QED BY <1>3, <1>7, <2>1 DEF h
<1> QED BY <1>6, <1>9 DEF s, t, k

\* What is seen of a sequence of results, one by one.
LEMMA SeenEach ==
  ASSUME NEW R, NEW s \in Seq(R)
  PROVE  /\ AsSeen(s) \in Seq({Seen(x) : x \in R}) /\ Len(AsSeen(s)) = Len(s)
         /\ \A m \in 1..Len(s) : AsSeen(s)[m] = Seen(s[m])
<1> DEFINE n == Len(s)
           T == {Seen(x) : x \in R}
           z == AsSeen(s)
<1>1. n \in Nat /\ s \in [1..n -> R]
  OBVIOUS
<1>2. z = [m \in 1..n |-> Seen(s[m])]
  BY <1>1 DEF AsSeen
<1> HIDE DEF z
<1>3. z \in [1..n -> T]
  <2>1. \A m \in 1..n : s[m] \in R
    BY <1>1
  <2> QED BY <1>2, <2>1
<1>4. z \in Seq(T) /\ Len(z) = n
  <2> HIDE DEF T, n
  <2> QED BY <1>1, <1>3
<1>5. \A m \in 1..n : z[m] = Seen(s[m])
  BY <1>2
<1> QED BY <1>4, <1>5 DEF z

LEMMA SeenMore ==
  ASSUME NEW R, NEW s \in Seq(R), NEW r \in R
  PROVE  AsSeen(Append(s, r)) = Append(AsSeen(s), Seen(r))
<1> DEFINE n == Len(s)
           T == {Seen(x) : x \in R}
           a == Append(s, r)
           z == AsSeen(s)
           v == AsSeen(a)
           u == Seen(r)
           w == Append(z, u)
<1>1. /\ n \in Nat /\ a \in Seq(R) /\ Len(a) = n + 1 /\ a[n + 1] = r
      /\ \A m \in 1..n : a[m] = s[m]
  BY AppendProperties
<1>2. z \in Seq(T) /\ Len(z) = n /\ \A m \in 1..n : z[m] = Seen(s[m])
  BY SeenEach
<1> HIDE DEF a
<1>3. v \in Seq(T) /\ Len(v) = n + 1 /\ \A m \in 1..(n + 1) : v[m] = Seen(a[m])
  BY <1>1, SeenEach
<1>4. u \in T
  OBVIOUS
<1> HIDE DEF n, T, z, v, u
<1>5. /\ w \in Seq(T) /\ Len(w) = n + 1 /\ w[n + 1] = u
      /\ \A m \in 1..n : w[m] = z[m]
  BY <1>2, <1>4, AppendProperties
<1> HIDE DEF w
<1>6. \A m \in 1..Len(v) : v[m] = w[m]
  <2> TAKE m \in 1..Len(v)
  <2>1. m \in 1..(n + 1) /\ (m = n + 1 \/ m \in 1..n)
    BY <1>1, <1>3
  <2> QED BY <1>1, <1>2, <1>3, <1>5, <2>1 DEF u
<1>7. v = w
  BY <1>3, <1>5, <1>6, SeqEqual
<1> QED BY <1>7 DEF a, v, w, z, u

LEMMA SeenNext ==
  ASSUME NEW R, NEW s \in Seq(R), s # <<>>
  PROVE  /\ AsSeen(s) # <<>> /\ Head(AsSeen(s)) = Seen(Head(s))
         /\ Tail(AsSeen(s)) = AsSeen(Tail(s))
<1> DEFINE n == Len(s)
           T == {Seen(x) : x \in R}
           z == AsSeen(s)
           t == Tail(s)
           v == AsSeen(t)
           w == Tail(z)
<1>1. n \in Nat /\ n # 0 /\ Head(s) = s[1]
  BY EmptySeq
<1>2. z \in Seq(T) /\ Len(z) = n /\ \A m \in 1..n : z[m] = Seen(s[m])
  BY SeenEach
<1>3. t \in Seq(R) /\ Len(t) = n - 1 /\ \A m \in 1..(n - 1) : t[m] = s[m + 1]
  BY HeadTailProperties
<1> HIDE DEF t
<1>4. v \in Seq(T) /\ Len(v) = n - 1 /\ \A m \in 1..(n - 1) : v[m] = Seen(t[m])
  BY <1>3, SeenEach
<1> HIDE DEF n, T, z, v
<1>5. z # <<>> /\ Head(z) = z[1] /\ 1 \in 1..n
  <2>1. z # <<>>
    BY <1>1, <1>2, EmptySeq
  <2> QED BY <1>1, <1>2, <2>1
<1>6. w \in Seq(T) /\ Len(w) = n - 1 /\ \A m \in 1..(n - 1) : w[m] = z[m + 1]
  BY <1>2, <1>5, HeadTailProperties
<1> HIDE DEF w
<1>7. \A m \in 1..Len(w) : w[m] = v[m]
  <2> TAKE m \in 1..Len(w)
  <2>1. m \in 1..(n - 1) /\ m + 1 \in 1..n
    BY <1>1, <1>6
  <2> QED BY <1>2, <1>3, <1>4, <1>6, <2>1
<1>8. w = v
  BY <1>4, <1>6, <1>7, SeqEqual
<1> QED BY <1>1, <1>2, <1>5, <1>8 DEF z, t, v, w

LEMMA SeenNothing == AsSeen(<<>>) = <<>>
<1>1. DOMAIN <<>> = {} /\ <<>> = [i \in {} |-> Seen(i)]
  OBVIOUS
<1> QED BY <1>1 DEF AsSeen

\* While the query is the same, so is what is seen of a result.
LEMMA SeenSame ==
  ASSUME query' = query, leaves' = leaves
  PROVE  /\ AsSeen(StillToCome)' = AsSeen(StillToCome')
         /\ AsSeen(Given)' = AsSeen(Given')
BY DEF AsSeen, Seen, Named, Holding, Aligned

\* Every step is a step of the cursor, or changes nothing of it.
LEMMA CursorStep ==
  ASSUME CInv, Aligned(query), Aligned(query)', [Next]_vars, HashInjective,
         RangeStack = PrefixBits, WhereStack > PrefixBits + 1
  PROVE  [IsCursor!Next]_<<AsSeen(StillToCome), AsSeen(Given), status>>
<1> DEFINE R == [id : Ids, value : Values]
<1>1. ASSUME NEW q \in Queries, Begin(q) PROVE IsCursor!Next
  <2>1. /\ query' = q /\ expected' = Expected(q) /\ status' = "running" /\ out' = out
        /\ open' = open /\ out = <<>> /\ status = "idle" /\ leaves' = leaves
    BY <1>1 DEF Begin, bytes, CInv, IInv
  <2>2. Expected(q) \in Seq(R)
    BY ExpectedOK DEF CInv, IInv
  <2>3. AsSeen(Given)' = AsSeen(Given)
    <3>1. Given = <<>> /\ Given' = <<>>
      BY <2>1 DEF Given
    <3>2. AsSeen(Given) = <<>>
      BY <3>1, SeenNothing
    <3>3. AsSeen(Given)' = <<>>
      BY <3>1 DEF AsSeen
    <3> QED BY <3>2, <3>3
  <2> HIDE DEF R
  <2>4. SubSeq(Expected(q), 1, Len(Expected(q))) = Expected(q)
    BY <2>2, AllGiven
  <2>5. StillToCome' \in Seq(R)
    <3>1. Len(out') + 1 = 1 /\ <<>> \in Seq(R)
      BY <2>1
    <3>2. StillToCome' = IF open THEN SubSeq(Expected(q), 1, Len(Expected(q))) ELSE <<>>
      BY <2>1, <3>1 DEF StillToCome
    <3> QED BY <2>2, <2>4, <3>1, <3>2
  <2>6. AsSeen(StillToCome)' \in Seq([leaf : SUBSET Ids, value : Values])
    <3> DEFINE z == StillToCome'
               n == Len(z)
               L == [leaf : SUBSET Ids, value : Values]
               w(m) == [leaf |-> Named(StillToCome[m].id)', value |-> z[m].value]
    <3>1. n \in Nat /\ z \in [1..n -> R]
      BY <2>5
    <3>2. AsSeen(StillToCome)' = [m \in 1..n |-> w(m)]
      BY <3>1 DEF AsSeen, Seen
    <3>3. \A m \in 1..n : w(m) \in L
      <4> TAKE m \in 1..n
      <4>1. z[m].id \in Ids /\ z[m].value \in Values
        BY <3>1 DEF R
      <4>2. DOMAIN leaves \subseteq Ids
        BY LeavesById DEF CInv, IInv
      <4>3. Named(StillToCome[m].id)' \in SUBSET Ids
        BY <2>1, <4>1, <4>2 DEF Named, Holding
      <4> QED BY <4>1, <4>3
    <3> HIDE DEF w, L, n
    <3>4. [m \in 1..n |-> w(m)] \in Seq(L)
      BY <3>1, <3>3
    <3> QED BY <3>2, <3>4 DEF L
  <2> QED BY <2>1, <2>3, <2>6 DEF IsCursor!Next, IsCursor!Begin
<1>2. ASSUME Turn PROVE [IsCursor!Next]_<<AsSeen(StillToCome), AsSeen(Given), status>>
  <2>1. status = "running" /\ expected' = expected /\ open' = open
        /\ query' = query /\ leaves' = leaves
    BY <1>2 DEF Turn, bytes
  <2>2. out \in Seq(Results) /\ expected \in Seq(R)
    BY <2>1, RunningTypes
  <2>3. PICK g \in 0..Len(out) : /\ \A m \in 1..Len(out) : out[m].value # Nil <=> m <= g
                                 /\ open => g = Len(out)
    BY DEF CInv, Delivered
  <2>4. Given = SubSeq(out, 1, g)
    BY <2>2, <2>3, GivenFirst DEF Given
  <2>5. IF open THEN Goes \/ Gives ELSE (out' = out /\ status' = status) \/ Fails
    BY <1>2, TurnCases
  <2>6. CInv'
    BY <1>2, TurnCursor
  <2>7. out' \in Seq(Results)
    <3>1. status' # "idle"
      BY <2>1, <2>5 DEF Goes, Gives, Fails
    <3>2. Aligned(query)'
      OBVIOUS
    <3>3. query' \in Queries /\ query' # NoQuery
      BY <2>6, <3>1, QueryType DEF CInv
    <3>4. Results' = Results
      BY <1>2 DEF Results, Turn, bytes
    <3> QED BY <2>6, <3>2, <3>3, <3>4 DEF CInv, IInv, ItemsOK
  <2>11. /\ AsSeen(StillToCome)' = AsSeen(StillToCome')
         /\ AsSeen(Given)' = AsSeen(Given')
    BY <2>1, SeenSame
  <2>8. CASE out' = out /\ status' = status
    <3>1. StillToCome' = StillToCome /\ Given' = Given
      BY <2>1, <2>8 DEF StillToCome, Given
    <3> QED BY <2>8, <2>11, <3>1
  <2>9. CASE open /\ Gives
    <3> DEFINE n == Len(out)
               e == expected[n + 1]
    <3>1. PICK r : /\ n \in Nat /\ n < Len(expected) /\ out' = Append(out, r)
                   /\ Seen(r) = Seen(e) /\ status' \in {"running", "stopped"}
      BY <2>2, <2>9 DEF Gives
    <3> DEFINE o == Append(out, r)
    <3>2. StillToCome = SubSeq(expected, n + 1, Len(expected))
      BY <2>9 DEF StillToCome
    <3>3. StillToCome' = SubSeq(expected, (n + 1) + 1, Len(expected))
      <4>1. Len(o) = n + 1
        BY <2>2
      <4> HIDE DEF o
      <4> QED BY <2>1, <2>9, <3>1, <4>1 DEF StillToCome
    <3>4. StillToCome # <<>> /\ Head(StillToCome) = e /\ StillToCome' = Tail(StillToCome)
      <4> HIDE DEF n, R
      <4> QED BY <2>2, <3>1, <3>2, <3>3, HeadAndTail
    <3>8. StillToCome \in Seq(R)
      <4>1. n + 1 \in 1..(Len(expected) + 1)
        BY <2>2, <3>1
      <4> HIDE DEF n, R
      <4> QED BY <2>2, <3>1, <3>2, <4>1
    <3>5. Given = out
      <4>1. g = Len(out)
        BY <2>3, <2>9
      <4> QED BY <2>2, <2>4, <4>1, AllGiven
    <3>6. Given' = o
      <4>1. r.value # Nil
        <5>1. n + 1 \in 1..Len(expected)
          BY <2>2, <3>1
        <5> HIDE DEF R
        <5>2. e \in R
          BY <2>2, <5>1
        <5>3. r.value = e.value
          BY <3>1 DEF Seen
        <5> QED BY <5>2, <5>3, TrieAssumption DEF R
      <4>2. PICK h \in 0..Len(out') :
               /\ \A m \in 1..Len(out') : out'[m].value # Nil <=> m <= h
               /\ open' => h = Len(out')
        BY <2>6 DEF CInv, Delivered
      <4>6. h = Len(out')
        BY <2>1, <2>9, <4>2
      <4>7. Given' = SubSeq(out', 1, Cardinality({m \in DOMAIN out' : out'[m].value # Nil}))
        BY DEF Given
      <4> DEFINE z == out'
      <4>8. z \in Seq(Results) /\ h \in 0..Len(z) /\ h = Len(z)
            /\ \A m \in 1..Len(z) : z[m].value # Nil <=> m <= h
        BY <2>7, <4>2, <4>6
      <4>9. Given' = SubSeq(z, 1, Cardinality({m \in DOMAIN z : z[m].value # Nil})) /\ z = o
        BY <3>1, <4>7
      <4> HIDE DEF z
      <4>10. Given' = z
        BY <4>8, <4>9, GivenFirst, AllGiven
      <4> QED BY <4>9, <4>10
    <3>9. r \in Results
      <4>1. Len(o) = n + 1 /\ o[n + 1] = r /\ n + 1 \in 1..(n + 1)
        BY <2>2, <3>1
      <4>2. o \in Seq(Results)
        BY <2>7, <3>1
      <4> HIDE DEF o, n
      <4> QED BY <4>1, <4>2
    <3>10. AsSeen(Given)' = Append(AsSeen(Given), Seen(r))
      BY <2>2, <2>11, <3>5, <3>6, <3>9, SeenMore
    <3> HIDE DEF e
    <3>11. /\ AsSeen(StillToCome) # <<>> /\ Head(AsSeen(StillToCome)) = Seen(r)
           /\ AsSeen(StillToCome)' = Tail(AsSeen(StillToCome))
      BY <2>11, <3>1, <3>4, <3>8, SeenNext
    <3>7. IsCursor!Take
      BY <2>1, <3>1, <3>10, <3>11 DEF IsCursor!Take
    <3> QED BY <3>7 DEF IsCursor!Next
  <2>10. CASE ~open /\ Fails
    <3>1. StillToCome = <<>> /\ StillToCome' = <<>>
      BY <2>1, <2>10 DEF StillToCome
    <3>2. PICK r : r.value = Nil /\ out' = Append(out, r) /\ status' \in {"running", "stopped"}
      BY <2>10 DEF Fails
    <3>3. Given' = Given
      <4> DEFINE n == Len(out)
                 z == Append(out, r)
      <4>1. n \in Nat /\ Len(z) = n + 1 /\ z[n + 1] = r /\ \A m \in 1..n : z[m] = out[m]
        BY <2>2
      <4>2. out' = z /\ z \in Seq(Results)
        BY <2>7, <3>2
      <4> HIDE DEF z
      <4>3. r \in Results
        <5> HIDE DEF n
        <5> QED BY <4>1, <4>2
      <4>4. g \in 0..n /\ \A m \in 1..n : out[m].value # Nil <=> m <= g
        BY <2>3
      <4> HIDE DEF n
      <4>5. \A m \in 1..(n + 1) : m = n + 1 \/ m \in 1..n
        BY <4>1
      <4>6. g \in 0..Len(z) /\ \A m \in 1..Len(z) : z[m].value # Nil <=> m <= g
        BY <3>2, <4>1, <4>4, <4>5
      <4>7. SubSeq(z, 1, Cardinality({m \in DOMAIN z : z[m].value # Nil})) = SubSeq(z, 1, g)
        BY <4>2, <4>6, GivenFirst
      <4>8. SubSeq(z, 1, g) = SubSeq(out, 1, g)
        <5>1. g \in 0..Len(out)
          OBVIOUS
        <5>2. SubSeq(Append(out, r), 1, g) = SubSeq(out, 1, g)
          BY <2>2, <4>3, <5>1, FirstSame
        <5> QED BY <5>2 DEF z
      <4> QED BY <2>4, <4>2, <4>7, <4>8 DEF Given
    <3>6. /\ AsSeen(StillToCome) = <<>> /\ AsSeen(StillToCome)' = <<>>
          /\ AsSeen(Given)' = AsSeen(Given)
      BY <2>11, <3>1, <3>3, SeenNothing
    <3>4. CASE status' = "running"
      BY <2>1, <3>4, <3>6
    <3>5. CASE status' = "stopped"
      <4>1. IsCursor!Finish
        BY <2>1, <3>5, <3>6 DEF IsCursor!Finish
      <4> QED BY <4>1 DEF IsCursor!Next
    <3> QED BY <3>2, <3>4, <3>5
  <2> QED BY <2>8, <2>9, <2>10, <2>5 DEF Goes
<1>3. ASSUME End PROVE IsCursor!Next
  <2>1. /\ status = "running" /\ status' = "done" /\ stack = <<>> /\ expected' = expected
        /\ out' = out /\ open' = open /\ query' = query /\ leaves' = leaves
    BY <1>3 DEF End, bytes
  <2>2. Given' = Given /\ StillToCome' = StillToCome
    BY <2>1 DEF Given, StillToCome
  <2>3. StillToCome = <<>>
    <3>1. CASE ~open
      BY <3>1 DEF StillToCome
    <3>2. CASE open
      <4> DEFINE C == Chosen(query)
                 n == Len(out)
                 k == Len(expected)
      <4>1. n \in Nat /\ expected \in Seq(R) /\ k = Cardinality(C)
            /\ C \in SUBSET Ids /\ IsFiniteSet(C)
        BY <2>1, RunningTypes
      <4>2. ToCome(query, <<>>, n)
        BY <2>1, <3>2 DEF CInv, Ready
      <4>3. Len(<<>>) = 0
        OBVIOUS
      <4>4. \A id \in C : ~(n < Rank(C, id))
        <5> SUFFICES ASSUME NEW id \in C PROVE ~Reached(leaves[id].path, <<>>)
          BY <4>2 DEF ToCome
        <5> QED BY <4>3 DEF Reached
      <4> HIDE DEF C
      <4>5. k \in Nat /\ \A m \in 1..k : Nth(C, m) \in C /\ Rank(C, Nth(C, m)) = m
        BY <4>1, Ranking
      <4> HIDE DEF n, k
      <4>6. k <= n
        <5> SUFFICES ASSUME n < k PROVE FALSE
          BY <4>1, <4>5
        <5>1. k \in 1..k
          BY <4>1, <4>5
        <5> QED BY <4>4, <4>5, <5>1
      <4>7. SubSeq(expected, n + 1, k) = <<>>
        BY <4>1, <4>5, <4>6
      <4> QED BY <3>2, <4>7 DEF StillToCome, n, k
    <3> QED BY <3>1, <3>2
  <2>4. AsSeen(StillToCome) = <<>> /\ AsSeen(StillToCome)' = <<>>
        /\ AsSeen(Given)' = AsSeen(Given)
    BY <2>1, <2>2, <2>3, SeenSame, SeenNothing
  <2> QED BY <2>1, <2>4 DEF IsCursor!Next, IsCursor!Finish
<1>4. ASSUME Close PROVE IsCursor!Next
  <2>1. status' = status /\ out' = out /\ ~open' /\ query' = query /\ leaves' = leaves
    BY <1>4 DEF Close, bytes
  <2>2. Given' = Given /\ StillToCome' = <<>>
    BY <2>1 DEF Given, StillToCome
  <2>3. AsSeen(StillToCome)' = <<>> /\ AsSeen(Given)' = AsSeen(Given)
    BY <2>1, <2>2, SeenSame, SeenNothing
  <2> QED BY <2>1, <2>3 DEF IsCursor!Next, IsCursor!Lose
<1>5. ASSUME UNCHANGED vars
      PROVE  UNCHANGED <<AsSeen(StillToCome), AsSeen(Given), status>>
  <2>1. /\ StillToCome' = StillToCome /\ Given' = Given /\ status' = status
        /\ query' = query /\ leaves' = leaves
    BY <1>5 DEF vars, bytes, StillToCome, Given
  <2> QED BY <2>1, SeenSame
<1> QED BY <1>1, <1>2, <1>3, <1>4, <1>5 DEF Next

\* An iterator of an open reader hands out exactly the leaves of its query, in the
\* order of their ids, each once, for every file and query, wherever its consumer
\* stops; a Close on the way costs it the rest.  The id of a result is the lowest of
\* its leaf, or for Scan one that this leaf alone holds.  (RangeStack and WhereStack
\* as in the code; Scan from an id whose bits past the prefix are 0, as GetAll's.)
THEOREM CursorRefinement ==
  ASSUME HashInjective, RangeStack = PrefixBits, WhereStack > PrefixBits + 1
  PROVE  Spec /\ []Aligned(query) => CursorSpec
<1>1. Init => CInv /\ IsCursor!Init
  <2> SUFFICES ASSUME Init PROVE IsCursor!Init
    BY InitCursor
  <2>1. expected = <<>> /\ out = <<>> /\ status = "idle"
    BY DEF Init
  <2>2. StillToCome = <<>>
    BY <2>1 DEF StillToCome
  <2>3. Given = <<>>
    BY <2>1 DEF Given
  <2>4. AsSeen(StillToCome) = <<>> /\ AsSeen(Given) = <<>>
    BY <2>2, <2>3, SeenNothing
  <2> QED BY <2>1, <2>4 DEF IsCursor!Init
<1>2. CInv /\ Aligned(query) /\ Aligned(query)' /\ [Next]_vars => CInv'
  <2> SUFFICES ASSUME CInv, Aligned(query), Aligned(query)', [Next]_vars PROVE CInv'
    OBVIOUS
  <2>1. ASSUME NEW q \in Queries, Begin(q) PROVE CInv'
    <3>1. Aligned(q)
      BY <2>1 DEF Begin
    <3> QED BY <2>1, <3>1, BeginCursor
  <2> QED BY <2>1, TurnCursor, OtherCursor DEF Next
<1>3. CInv /\ Aligned(query) /\ Aligned(query)' /\ [Next]_vars
        => [IsCursor!Next]_<<AsSeen(StillToCome), AsSeen(Given), status>>
  BY CursorStep
<1> QED BY <1>1, <1>2, <1>3, PTL DEF Spec, CursorSpec, IsCursor!Spec
===============================================================================
