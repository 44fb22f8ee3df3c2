------------------------------ MODULE FileProofs ------------------------------
(***************************************************************************)
(* Proofs about the two parts that handle whole files: Partitions, for     *)
(* every number of ids, keys and partitions, and EncryptPipe, for files of *)
(* every size.  The two share no state.                                    *)
(***************************************************************************)
EXTENDS Partitions, EncryptPipe, NumberLemmas, TLAPS, SequenceTheorems
-----------------------------------------------------------------------------
(***************************************************************************)
(* Partitions: sorting.                                                    *)
(***************************************************************************)
Ordered(t) == \A i, j \in DOMAIN t : i < j => t[i] <= t[j]
Sortable(n) == \A s \in [1..n -> Ids] : \E p \in Bijection(1..n, 1..n) :
                 Ordered([i \in 1..n |-> s[p[i]]])

\* One more element: the greatest goes last, and what was last takes its place.
LEMMA SortOneMore ==
  ASSUME NEW n \in Nat, Sortable(n)
  PROVE  Sortable(n + 1)
<1> SUFFICES ASSUME NEW s \in [1..(n + 1) -> Ids]
             PROVE  \E p \in Bijection(1..(n + 1), 1..(n + 1)) :
                      Ordered([i \in 1..(n + 1) |-> s[p[i]]])
  BY DEF Sortable
<1>1. PICK m \in 1..(n + 1) : \A i \in 1..(n + 1) : s[i] <= s[m]
  <2> DEFINE E == {s[i] : i \in 1..(n + 1)}
  <2>1. E \in SUBSET Nat /\ MaxId \in Nat /\ \A k \in E : k <= MaxId
    BY BoundsAssumption DEF Ids
  <2>2. s[n + 1] \in E
    OBVIOUS
  <2>3. PICK k \in E : \A l \in E : l <= k
    <3> HIDE DEF E
    <3> QED BY <2>1, <2>2, GreatestNumber
  <2>4. \A i \in 1..(n + 1) : s[i] \in E
    OBVIOUS
  <2> QED BY <2>3, <2>4
<1> DEFINE q == [i \in 1..(n + 1) |-> IF i = m THEN n + 1 ELSE IF i = n + 1 THEN m ELSE i]
           u == [i \in 1..n |-> s[q[i]]]
<1>2. u \in [1..n -> Ids]
  OBVIOUS
<1>3. PICK r \in Bijection(1..n, 1..n) : Ordered([i \in 1..n |-> u[r[i]]])
  BY <1>2 DEF Sortable
<1>4. /\ r \in [1..n -> 1..n]
      /\ \A i, j \in 1..n : r[i] = r[j] => i = j
      /\ \A k \in 1..n : \E i \in 1..n : r[i] = k
  BY DEF Bijection, Injection, Surjection, IsInjective
<1> DEFINE p == [i \in 1..(n + 1) |-> IF i = n + 1 THEN m ELSE q[r[i]]]
<1>10. \A i \in 1..n : q[i] = IF i = m THEN n + 1 ELSE i
  OBVIOUS
<1>11. p[n + 1] = m /\ \A i \in 1..n : p[i] = q[r[i]]
  OBVIOUS
<1>12. \A i \in 1..n : p[i] = IF r[i] = m THEN n + 1 ELSE r[i]
  <2> HIDE DEF p, q
  <2> QED BY <1>4, <1>10, <1>11
<1>5. p \in [1..(n + 1) -> 1..(n + 1)]
  <2>1. ASSUME NEW i \in 1..(n + 1) PROVE p[i] \in 1..(n + 1)
    <3> HIDE DEF p, q
    <3>1. CASE i = n + 1
      BY <1>11, <3>1
    <3>2. CASE i \in 1..n
      <4>1. r[i] \in 1..n /\ p[i] = IF r[i] = m THEN n + 1 ELSE r[i]
        BY <1>4, <1>12, <3>2
      <4> QED BY <4>1
    <3> QED BY <3>1, <3>2
  <2> QED BY <2>1
<1>6. \A i, j \in 1..(n + 1) : p[i] = p[j] => i = j
  <2> HIDE DEF p, q
  <2>4. \A i \in 1..n : r[i] \in 1..n
    BY <1>4
  <2>1. ASSUME NEW i \in 1..n PROVE p[i] # m
    <3>1. p[i] = IF r[i] = m THEN n + 1 ELSE r[i]
      BY <1>12
    <3> QED BY <2>4, <3>1
  <2>2. ASSUME NEW i \in 1..n, NEW j \in 1..n, p[i] = p[j] PROVE i = j
    <3>1. /\ p[i] = IF r[i] = m THEN n + 1 ELSE r[i]
          /\ p[j] = IF r[j] = m THEN n + 1 ELSE r[j]
      BY <1>12
    <3>3. r[i] \in 1..n /\ r[j] \in 1..n
      BY <2>4
    <3>4. /\ r[i] = m => p[i] = n + 1
          /\ r[i] # m => p[i] = r[i]
          /\ r[j] = m => p[j] = n + 1
          /\ r[j] # m => p[j] = r[j]
      BY <3>1
    <3>2. r[i] = r[j]
      <4> HIDE <3>1
      <4>1. n + 1 \notin 1..n
        OBVIOUS
      <4> QED BY <2>2, <3>3, <3>4, <4>1
    <3> QED BY <1>4, <3>2
  <2>3. \A i \in 1..(n + 1) : i \in 1..n \/ i = n + 1
    OBVIOUS
  <2> QED BY <1>11, <2>1, <2>2, <2>3
<1>7. ASSUME NEW k \in 1..(n + 1) PROVE \E i \in 1..(n + 1) : p[i] = k
  <2> HIDE DEF p, q
  <2>1. CASE k = m
    BY <1>11, <2>1
  <2>2. CASE k # m
    <3> DEFINE l == IF k = n + 1 THEN m ELSE k
    <3>1. l \in 1..n
      BY <2>2
    <3>2. PICK i \in 1..n : r[i] = l
      BY <1>4, <3>1
    <3>3. p[i] = k
      BY <1>12, <2>2, <3>2
    <3> QED BY <3>3
  <2> QED BY <2>1, <2>2
<1>8. p \in Bijection(1..(n + 1), 1..(n + 1))
  BY <1>5, <1>6, <1>7 DEF Bijection, Injection, Surjection, IsInjective
<1>9. Ordered([i \in 1..(n + 1) |-> s[p[i]]])
  <2>1. \A i, j \in 1..n : i < j => s[q[r[i]]] <= s[q[r[j]]]
    BY <1>3, <1>4 DEF Ordered
  <2>2. \A i \in 1..n : p[i] = q[r[i]] /\ p[n + 1] = m /\ q[r[i]] \in 1..(n + 1)
    <3> HIDE DEF p, q
    <3> QED BY <1>5, <1>11
  <2> HIDE DEF p, q, u
  <2> QED BY <1>1, <2>1, <2>2 DEF Ordered
<1> QED BY <1>8, <1>9

LEMMA SortExists ==
  ASSUME NEW n \in Nat
  PROVE  Sortable(n)
<1> DEFINE S == {i \in Nat : Sortable(i)}
<1>1. 0 \in S
  <2>1. <<>> \in Bijection(1..0, 1..0)
    BY DEF Bijection, Injection, Surjection, IsInjective
  <2> QED BY <2>1 DEF Sortable, Ordered
<1>2. \A i \in Nat : i \in S => i + 1 \in S
  BY SortOneMore
<1>3. Nat \subseteq S
  <2> HIDE DEF S
  <2> QED BY <1>1, <1>2, Induction
<1> QED BY <1>3

\* The sorted keys are the keys, in order.
LEMMA SortedKeys ==
  ASSUME NEW n \in Nat, NEW s \in [1..n -> Ids]
  PROVE  /\ Sorted(s) \in [1..n -> Ids]
         /\ Elements(Sorted(s)) = Elements(s)
         /\ \A i, j \in 1..n : i <= j => Sorted(s)[i] <= Sorted(s)[j]
<1> DEFINE t == Sorted(s)
<1>1. \E x \in Reorderings(s) : \A i, j \in DOMAIN s : i < j => x[i] <= x[j]
  <2>1. PICK p \in Bijection(1..n, 1..n) : Ordered([i \in 1..n |-> s[p[i]]])
    BY SortExists DEF Sortable
  <2> QED BY <2>1 DEF Reorderings, Ordered
<1>2. t \in Reorderings(s) /\ \A i, j \in DOMAIN s : i < j => t[i] <= t[j]
  BY <1>1 DEF Sorted
<1>3. PICK p \in Bijection(1..n, 1..n) : t = [i \in 1..n |-> s[p[i]]]
  BY <1>2 DEF Reorderings
<1>4. p \in [1..n -> 1..n] /\ \A k \in 1..n : \E i \in 1..n : p[i] = k
  BY DEF Bijection, Injection, Surjection
<1> HIDE DEF t
<1>5. t \in [1..n -> Ids]
  BY <1>3, <1>4
<1>6. Elements(t) = Elements(s)
  BY <1>3, <1>4 DEF Elements
<1>7. \A i, j \in 1..n : i <= j => t[i] <= t[j]
  BY <1>2, <1>5 DEF Ids
<1> QED BY <1>5, <1>6, <1>7 DEF t
-----------------------------------------------------------------------------
(***************************************************************************)
(* Partitions: cutting.                                                    *)
(***************************************************************************)

\* Every chunk has a key, and every key is in a chunk.
LEMMA Chunks ==
  ASSUME NEW total \in Nat, NEW parts \in 1..total
  PROVE  /\ \A i \in 1..parts : /\ ChunkStart(i, total, parts) \in 1..total
                                 /\ ChunkEnd(i, total, parts) \in 1..total
         /\ \A k \in 1..total : \E i \in 1..parts :
              ChunkStart(i, total, parts) <= k /\ k <= ChunkEnd(i, total, parts)
<1> DEFINE c == total \div parts
<1>1. c \in Nat /\ c >= 1 /\ parts * c <= total /\ total >= 1
  OBVIOUS
<1>2. \A i \in 1..parts : /\ ChunkStart(i, total, parts) = (i - 1) * c + 1
                          /\ ChunkEnd(i, total, parts) = IF i = parts THEN total ELSE i * c
  BY DEF ChunkStart, ChunkEnd
<1> HIDE DEF c
<1>3. ASSUME NEW i \in 1..parts
      PROVE  /\ (i - 1) * c \in Nat /\ i * c \in Nat /\ i * c = (i - 1) * c + c
             /\ i * c <= parts * c
  BY <1>1
<1>4. ASSUME NEW i \in 1..parts
      PROVE  /\ ChunkStart(i, total, parts) \in 1..total
             /\ ChunkEnd(i, total, parts) \in 1..total
  <2> DEFINE x == (i - 1) * c
             y == i * c
  <2>1. x \in Nat /\ y \in Nat /\ y = x + c /\ y <= total
    BY <1>1, <1>3
  <2>2. /\ ChunkStart(i, total, parts) = x + 1
        /\ ChunkEnd(i, total, parts) = IF i = parts THEN total ELSE y
    BY <1>2
  <2> HIDE DEF x, y
  <2> QED BY <1>1, <2>1, <2>2
<1>5. ASSUME NEW k \in 1..total
      PROVE  \E i \in 1..parts : ChunkStart(i, total, parts) <= k /\ k <= ChunkEnd(i, total, parts)
  <2> DEFINE D == {i \in 1..parts : k <= ChunkEnd(i, total, parts)}
  <2>1. parts \in D /\ D \in SUBSET Nat
    BY <1>2
  <2>2. PICK i \in D : \A j \in D : i <= j
    <3> HIDE DEF D
    <3> QED BY <2>1, LeastNumber
  <2>3. ChunkStart(i, total, parts) <= k
    <3>1. CASE i = 1
      <4>1. (i - 1) * c = 0
        BY <1>1, <3>1
      <4> QED BY <1>2, <4>1
    <3>2. CASE i # 1
      <4>1. i - 1 \in 1..parts /\ i - 1 # parts
        BY <3>2
      <4>2. i - 1 \notin D
        BY <2>2
      <4>3. ChunkEnd(i - 1, total, parts) < k
        BY <1>4, <4>1, <4>2
      <4>4. ChunkEnd(i - 1, total, parts) = (i - 1) * c
        BY <1>2, <4>1
      <4>5. ChunkStart(i, total, parts) = (i - 1) * c + 1
        BY <1>2
      <4>6. (i - 1) * c \in Nat
        BY <1>3
      <4> HIDE DEF D
      <4> QED BY <4>3, <4>4, <4>5, <4>6
    <3> QED BY <3>1, <3>2
  <2> QED BY <2>3
<1> QED BY <1>4, <1>5
-----------------------------------------------------------------------------
(***************************************************************************)
(* Partitions: the inductive invariant.                                    *)
(***************************************************************************)
RangeType == [part : Nat, min : Ids, max : Ids]

TypeOK ==
  /\ input \in Inputs /\ keys \in Inputs
  /\ \E n \in Nat : ranges \in [1..n -> RangeType]
  /\ files \in [Parts -> (SUBSET Ids) \cup {NoFile}]
  /\ at \in Parts \cup {0} /\ goal \in Parts \cup {0}
  /\ asked \in Ids /\ answer \in {"none", "found", "absent", "error"}

\* The ranges, once there are any, have a place for every key.
RangesOK ==
  /\ Elements(keys) = Elements(input)
  /\ \A i \in Parts : ranges[i].part = i
  /\ ranges # <<>> =>
       \A id \in Elements(input) : InSomeRange(id)

\* A file has the keys whose partition it is: the writer's GetPartition.
FilesOK ==
  /\ \A p \in Parts : files[p] # NoFile =>
       files[p] = {k \in Elements(input) : GetPartition(k) = p}
  /\ at # 0 => files[at] # NoFile

\* A goal is the partition of the id that is looked for, and nothing is said yet.
GoalOK == goal # 0 => /\ answer = "none"
                      /\ goal = GetPartition(asked) /\ at # 0

IInv == TypeOK /\ RangesOK /\ FilesOK /\ GoalOK /\ AnswersAreRight
-----------------------------------------------------------------------------
(***************************************************************************)
(* Partitions: CreatePartitions.                                           *)
(***************************************************************************)

\* The loops of GetPartition and CheckPartition stop at the first range that fits.
LEMMA FirstRange ==
  ASSUME TypeOK, NEW id \in Ids, \E i \in Parts : Contains(ranges[i], id)
  PROVE  FirstWith(id) \in Parts
<1> DEFINE D == {i \in Parts : Contains(ranges[i], id)}
<1>1. PICK n \in Nat : Parts = 1..n
  BY DEF TypeOK, Parts
<1>2. D \in SUBSET Nat /\ D # {}
  BY <1>1
<1>3. PICK i \in D : \A j \in D : i <= j
  <2> HIDE DEF D
  <2> QED BY <1>2, LeastNumber
<1>4. \A j \in 1..(i - 1) : ~Contains(ranges[j], id)
  BY <1>1, <1>3
<1> QED BY <1>3, <1>4 DEF FirstWith

\* The partition of an id is a part where a range has it, and 0 where none has.
LEMMA PartitionOf ==
  ASSUME TypeOK, RangesOK, NEW id \in Ids
  PROVE  /\ (\E i \in Parts : Contains(ranges[i], id)) =>
              GetPartition(id) = FirstWith(id) /\ GetPartition(id) \in Parts
         /\ ~(\E i \in Parts : Contains(ranges[i], id)) => GetPartition(id) = 0
BY FirstRange DEF RangesOK, GetPartition

\* The ranges that CreatePartitions makes have a place for every key.
LEMMA RangesCover ==
  ASSUME NEW n \in Nat, NEW s \in [1..n -> Ids], NEW parts \in 1..n,
         \A i, j \in 1..n : i <= j => s[i] <= s[j],
         ranges' = Ranges(s, parts)
  PROVE  /\ ranges' \in [1..parts -> RangeType]
         /\ \A i \in 1..parts : ranges'[i].part = i
         /\ \A id \in Elements(s) : InSomeRange(id)'
<1>1. Len(s) = n
  OBVIOUS
<1>2. /\ ranges' = [i \in 1..parts |-> [part |-> i, min |-> s[ChunkStart(i, n, parts)],
                                                  max |-> s[ChunkEnd(i, n, parts)]]]
      /\ ranges' \in [1..parts -> RangeType]
  <2>1. \A i \in 1..parts : s[ChunkStart(i, n, parts)] \in Ids /\ s[ChunkEnd(i, n, parts)] \in Ids
    BY Chunks
  <2>2. ranges' = [i \in 1..parts |-> [part |-> i, min |-> s[ChunkStart(i, n, parts)],
                                                   max |-> s[ChunkEnd(i, n, parts)]]]
    BY <1>1 DEF Ranges
  <2> QED BY <2>1, <2>2 DEF RangeType
<1>3. /\ Parts' = 1..parts /\ Len(ranges') = parts
      /\ \A i \in 1..parts : /\ ranges'[i].part = i
                             /\ ranges'[i].min = s[ChunkStart(i, n, parts)]
                             /\ ranges'[i].max = s[ChunkEnd(i, n, parts)]
  BY <1>2 DEF Parts
<1>4. ASSUME NEW id \in Elements(s) PROVE InSomeRange(id)'
  <2>1. PICK k \in 1..n : s[k] = id
    BY DEF Elements
  <2>2. PICK i \in 1..parts : ChunkStart(i, n, parts) <= k /\ k <= ChunkEnd(i, n, parts)
    BY Chunks
  <2>3. s[ChunkStart(i, n, parts)] <= id /\ id <= s[ChunkEnd(i, n, parts)]
    BY <2>1, <2>2, Chunks
  <2>4. ChunkStart(1, n, parts) = 1 /\ ChunkEnd(parts, n, parts) = n
    BY Chunks DEF ChunkStart, ChunkEnd
  <2>5. ranges'[1].min <= id /\ id <= ranges'[parts].max
    BY <1>3, <2>1, <2>4
  <2>6. id \in Ids /\ ranges'[1].min \in Ids /\ ranges'[parts].max \in Ids
    BY <1>2, <2>1 DEF RangeType
  <2> QED BY <1>3, <2>2, <2>3, <2>5, <2>6 DEF InSomeRange, OutOfBounds, Contains, Ids
<1> QED BY <1>2, <1>3, <1>4
-----------------------------------------------------------------------------
(***************************************************************************)
(* Partitions: the steps.                                                  *)
(***************************************************************************)

LEMMA InitInvariant == Init => IInv
<1> SUFFICES ASSUME Init PROVE IInv
  OBVIOUS
<1> USE BoundsAssumption DEF Init
<1>1. ranges \in [1..0 -> RangeType] /\ files \in [Parts -> (SUBSET Ids) \cup {NoFile}]
  BY DEF Parts
<1>2. TypeOK
  BY <1>1 DEF TypeOK, Ids
<1>3. Parts = {}
  BY DEF Parts
<1> QED BY <1>2, <1>3 DEF IInv, RangesOK, FilesOK, GoalOK, AnswersAreRight

LEMMA CreatePartitionsStep ==
  ASSUME IInv, NEW parts \in 0..MaxParts, CreatePartitions(parts)
  PROVE  IInv'
<1> USE BoundsAssumption DEF IInv, CreatePartitions
<1>1. Parts = {} /\ at = 0 /\ goal = 0
  BY DEF TypeOK, Parts, GoalOK
<1>2. PICK n \in 0..MaxKeys : keys \in [1..n -> Ids]
  BY DEF TypeOK, Inputs
<1>3. Len(keys) = n
  BY <1>2
<1>4. CASE parts <= 0 \/ Len(keys) < parts
  <2>1. UNCHANGED <<input, keys, ranges, at, asked, goal, answer>>
    BY <1>4
  <2>2. Parts' = {} /\ files' = [p \in {} |-> NoFile]
    BY <1>1, <2>1 DEF Parts
  <2>3. files' \in [Parts' -> (SUBSET Ids) \cup {NoFile}]
    BY <2>2
  <2>4. TypeOK'
    BY <1>1, <2>1, <2>3 DEF TypeOK
  <2> QED BY <1>1, <2>1, <2>2, <2>4 DEF RangesOK, FilesOK, GoalOK, AnswersAreRight
<1>5. CASE ~(parts <= 0 \/ Len(keys) < parts)
  <2>1. parts \in 1..n /\ keys' = Sorted(keys) /\ ranges' = Ranges(Sorted(keys), parts)
    BY <1>3, <1>5
  <2>2. /\ keys' \in [1..n -> Ids] /\ Elements(keys') = Elements(keys)
        /\ \A i, j \in 1..n : i <= j => keys'[i] <= keys'[j]
    BY <1>2, <2>1, SortedKeys
  <2>3. /\ ranges' \in [1..parts -> RangeType]
        /\ \A i \in 1..parts : ranges'[i].part = i
        /\ \A id \in Elements(keys') : InSomeRange(id)'
    BY <2>1, <2>2, RangesCover
  <2>4. Parts' = 1..parts /\ files' = [p \in 1..parts |-> NoFile]
    BY <2>3 DEF Parts
  <2>5. UNCHANGED <<input, at, asked, goal, answer>>
    OBVIOUS
  <2> HIDE DEF CreatePartitions
  <2>6. TypeOK'
    <3>1. keys' \in Inputs
      BY <2>2 DEF Inputs
    <3>2. \E m \in Nat : ranges' \in [1..m -> RangeType]
      BY <2>1, <2>3
    <3>3. files' \in [Parts' -> (SUBSET Ids) \cup {NoFile}]
      BY <2>4
    <3> QED BY <1>1, <2>5, <3>1, <3>2, <3>3 DEF TypeOK
  <2>7. RangesOK'
    BY <2>2, <2>3, <2>4, <2>5 DEF RangesOK
  <2>8. FilesOK' /\ GoalOK' /\ AnswersAreRight'
    BY <1>1, <2>4, <2>5 DEF FilesOK, GoalOK, AnswersAreRight
  <2> QED BY <2>6, <2>7, <2>8
<1> QED BY <1>4, <1>5

\* Nothing that the partition of an id depends on.
LEMMA RangesStay ==
  ASSUME UNCHANGED <<input, keys, ranges>>
  PROVE  /\ Parts' = Parts
         /\ \A id : InSomeRange(id)' = InSomeRange(id) /\ GetPartition(id)' = GetPartition(id)
         /\ RangesOK => RangesOK'
<1>1. Parts' = Parts
  BY DEF Parts
<1>2. \A id : InSomeRange(id)' = InSomeRange(id)
  BY <1>1 DEF InSomeRange, OutOfBounds, Contains
<1>3. \A id : GetPartition(id)' = GetPartition(id)
  BY <1>1 DEF GetPartition, FirstWith, Contains
<1> QED BY <1>1, <1>2, <1>3 DEF RangesOK

LEMMA WriteFileStep ==
  ASSUME IInv, NEW p \in 1..MaxParts, WriteFile(p)
  PROVE  IInv'
<1> USE DEF IInv
<1>1. UNCHANGED <<input, keys, ranges, at, asked, goal, answer>> /\ p \in Parts
  BY DEF WriteFile
<1>2. /\ files' = [files EXCEPT ![p] = {k \in Elements(input) : GetPartition(k) = p}]
      /\ files[p] = NoFile
  BY DEF WriteFile, RangesOK
<1>3. Elements(input) \subseteq Ids
  BY DEF TypeOK, Inputs, Elements
<1>4. TypeOK'
  <2>1. files' \in [Parts -> (SUBSET Ids) \cup {NoFile}]
    BY <1>2, <1>3 DEF TypeOK
  <2> QED BY <1>1, <2>1, RangesStay DEF TypeOK
<1>5. {k \in Elements(input) : GetPartition(k) = p} # NoFile
  BY <1>3, BoundsAssumption DEF NoFile, Ids
<1>6. FilesOK'
  BY <1>1, <1>2, <1>5, RangesStay DEF FilesOK, TypeOK
<1> QED BY <1>1, <1>4, <1>6, RangesStay DEF GoalOK, AnswersAreRight

LEMMA OpenStep ==
  ASSUME IInv, NEW p \in 1..MaxParts, Open(p)
  PROVE  IInv'
<1> USE DEF IInv
<1>1. /\ UNCHANGED <<input, keys, ranges, files, asked, goal, answer>>
      /\ p \in Parts /\ at' = p /\ files[p] # NoFile /\ at = 0
  BY DEF Open
<1>2. TypeOK'
  BY <1>1, RangesStay DEF TypeOK
<1>3. goal = 0
  BY <1>1 DEF GoalOK
<1> QED BY <1>1, <1>2, <1>3, RangesStay DEF FilesOK, GoalOK, AnswersAreRight

LEMMA CheckPartitionStep ==
  ASSUME IInv, NEW id \in Ids, CheckPartition(id)
  PROVE  IInv'
<1> USE DEF IInv
<1>1. UNCHANGED <<input, keys, ranges, files, at>> /\ asked' = id /\ at # 0 /\ goal = 0
  BY DEF CheckPartition
<1>2. CASE InSomeRange(id)
  <2>1. /\ GetPartition(id) = ranges[FirstWith(id)].part
        /\ GetPartition(id) \in Parts
    BY <1>2, PartitionOf DEF InSomeRange, GetPartition
  <2>2. goal' = GetPartition(id) /\ answer' = "none"
    BY <1>2, <2>1 DEF CheckPartition
  <2>3. TypeOK'
    BY <1>1, <2>1, <2>2, RangesStay DEF TypeOK
  <2> QED BY <1>1, <2>2, <2>3, RangesStay DEF FilesOK, GoalOK, AnswersAreRight
<1>3. CASE ~InSomeRange(id)
  <2>1. goal' = goal /\ answer' = "absent"
    BY <1>3 DEF CheckPartition
  <2>2. TypeOK'
    BY <1>1, <2>1, RangesStay DEF TypeOK
  <2>3. ranges # <<>>
    BY <1>1 DEF TypeOK, Parts
  <2>4. id \notin Elements(input)
    BY <1>3, <2>3 DEF RangesOK
  <2> QED BY <1>1, <2>1, <2>2, <2>4, RangesStay DEF FilesOK, GoalOK, AnswersAreRight
<1> QED BY <1>2, <1>3

LEMMA FollowStep ==
  ASSUME IInv, Follow
  PROVE  IInv'
<1> USE DEF IInv
<1>1. UNCHANGED <<input, keys, ranges, files, asked>> /\ goal # 0
  BY DEF Follow
<1>2. \/ files[goal] # NoFile /\ at' = goal /\ UNCHANGED <<goal, answer>>
      \/ at' = 0 /\ goal' = 0 /\ answer' = "error"
  BY DEF Follow
<1>3. TypeOK'
  BY <1>1, <1>2, RangesStay DEF TypeOK
<1> QED BY <1>1, <1>2, <1>3, RangesStay DEF FilesOK, GoalOK, AnswersAreRight

LEMMA FindStep ==
  ASSUME IInv, Find
  PROVE  IInv'
<1> USE DEF IInv
<1>1. /\ UNCHANGED <<input, keys, ranges, files, at, asked>>
      /\ goal # 0 /\ goal = at /\ goal' = 0
      /\ answer' = IF asked \in files[at] THEN "found" ELSE "absent"
  BY DEF Find
<1>2. files[at] = {k \in Elements(input) : GetPartition(k) = at}
  BY <1>1 DEF FilesOK, TypeOK
<1>3. GetPartition(asked) = at
  BY <1>1 DEF GoalOK
<1>4. answer' = IF asked \in Elements(input) THEN "found" ELSE "absent"
  BY <1>1, <1>2, <1>3
<1>5. TypeOK'
  BY <1>1, RangesStay DEF TypeOK
<1> QED BY <1>1, <1>4, <1>5, RangesStay DEF FilesOK, GoalOK, AnswersAreRight

LEMMA CloseStep ==
  ASSUME IInv, Close
  PROVE  IInv'
<1> USE DEF IInv
<1>1. UNCHANGED <<input, keys, ranges, files, asked, goal>> /\ at' = 0 /\ answer' = "none"
      /\ goal = 0
  BY DEF Close
<1>2. TypeOK'
  BY <1>1, RangesStay DEF TypeOK
<1> QED BY <1>1, <1>2, RangesStay DEF FilesOK, GoalOK, AnswersAreRight

LEMMA NextInvariant == IInv /\ [Next]_vars => IInv'
<1> SUFFICES ASSUME IInv, [Next]_vars PROVE IInv'
  OBVIOUS
<1>1. CASE \E n \in 0..MaxParts : CreatePartitions(n)
  BY <1>1, CreatePartitionsStep
<1>2. CASE \E p \in 1..MaxParts : WriteFile(p) \/ Open(p)
  BY <1>2, WriteFileStep, OpenStep
<1>3. CASE \E id \in Ids : CheckPartition(id)
  BY <1>3, CheckPartitionStep
<1>4. CASE Follow
  BY <1>4, FollowStep
<1>5. CASE Find
  BY <1>5, FindStep
<1>6. CASE Close
  BY <1>6, CloseStep
<1>7. CASE UNCHANGED vars
  BY <1>7, RangesStay DEF vars, IInv, TypeOK, FilesOK, GoalOK, AnswersAreRight
<1> QED BY <1>1, <1>2, <1>3, <1>4, <1>5, <1>6, <1>7 DEF Next

THEOREM Invariance == Spec => []IInv
<1>1. Init => IInv
  BY InitInvariant
<1>2. IInv /\ [Next]_vars => IInv'
  BY NextInvariant
<1> QED BY <1>1, <1>2, PTL DEF Spec

\* What a client concludes about an id from the partition files is right, from
\* whatever file it starts and however many of them the writer has written.
THEOREM Answers == Spec => []AnswersAreRight
<1>1. IInv => AnswersAreRight
  BY DEF IInv
<1> QED BY <1>1, Invariance, PTL

\* No key is in two files, and when all are written every key is in one.
THEOREM FilesDivide == Spec => []FilesDivideKeys
<1>1. IInv => FilesDivideKeys
  <2> SUFFICES ASSUME IInv PROVE FilesDivideKeys
    OBVIOUS
  <2> DEFINE written == {p \in DOMAIN files : files[p] # NoFile}
  <2>1. DOMAIN files = Parts
    BY DEF IInv, TypeOK
  <2>2. ASSUME NEW p \in written, NEW q \in written, p # q PROVE files[p] \cap files[q] = {}
    BY <2>1, <2>2 DEF IInv, FilesOK
  <2>3. ASSUME written = Parts, ranges # <<>>
        PROVE  UNION {files[p] : p \in Parts} = Elements(input)
    <3>1. \A p \in Parts : files[p] = {k \in Elements(input) : GetPartition(k) = p}
      BY <2>1, <2>3 DEF IInv, FilesOK
    <3>2. ASSUME NEW k \in Elements(input) PROVE \E p \in Parts : k \in files[p]
      <4>1. k \in Ids
        BY DEF IInv, TypeOK, Inputs, Elements
      <4>2. GetPartition(k) \in Parts
        BY <2>3, <4>1, PartitionOf DEF IInv, RangesOK, InSomeRange
      <4> QED BY <3>1, <4>2
    <3> QED BY <3>1, <3>2
  <2> QED BY <2>2, <2>3 DEF FilesDivideKeys
<1> QED BY <1>1, Invariance, PTL
-----------------------------------------------------------------------------
(***************************************************************************)
(* EncryptPipe: the inductive invariant.                                   *)
(***************************************************************************)
Steps == {"none", "stat", "open", "copy", "tarclose", "gzipclose", "pipeclose", "done"}

PipeTypeOK ==
  /\ size \in 0..MaxChunks /\ statSize \in 0..MaxChunks /\ sent \in Nat
  /\ changed \in BOOLEAN /\ salted \in BOOLEAN
  /\ producer \in Steps
  /\ pipe \in Pieces
  /\ closed \in {"no", "eof", "error"}
  /\ encrypt \in {"start", "running", "failed", "nil", "crashed"}
  /\ archive \in Seq(Pieces)
  /\ decrypt \in {"idle", "copying", "next", "failed", "nil"}
  /\ output \in Seq(Nat)

\* The i-th piece of the stream, of a file of which `sent` chunks were there.
Piece(i) ==
  IF i = 1 THEN Header(statSize)
  ELSE IF i <= sent + 1 THEN Chunk(i - 1)
  ELSE IF i = sent + 2 /\ sent = statSize THEN TarEnd
  ELSE GzipEnd
\* How many pieces there are, with the end of the tar, and with the end of all.
Tarred == sent + 1 + IF sent = statSize THEN 1 ELSE 0
Complete == Tarred + 1
\* How many the goroutine has written.
Produced ==
  IF producer \in {"none", "stat"} THEN 0
  ELSE IF producer \in {"open", "copy", "tarclose"} THEN sent + 1
  ELSE IF producer = "gzipclose" THEN Tarred
  ELSE Complete
Taken == Len(archive) + IF pipe = None THEN 0 ELSE 1

\* The archive is the beginning of the stream, and so is what is in the pipe
\* for an EncryptDB that reads it; one that failed has dropped a piece.
StreamOK ==
  /\ \A i \in 1..Len(archive) : archive[i] = Piece(i)
  /\ encrypt = "running" /\ pipe # None => pipe = Piece(Len(archive) + 1)
  /\ Taken <= Produced
  /\ producer \in {"none", "stat", "open"} => sent = 0
  /\ sent <= statSize

\* While EncryptDB reads the pipe, all that the goroutine has written is there,
\* unless the goroutine has given up.
NothingLost ==
  encrypt \in {"start", "running", "nil"} /\ closed # "error" => Taken = Produced

\* Behind the copy the goroutine has read all that there was.
Ended == producer \in {"tarclose", "gzipclose", "pipeclose"} \/ closed = "eof"
CopiedAll ==
  /\ closed # "no" <=> producer = "done"
  /\ producer \notin {"none", "stat"} /\ closed # "error" /\ ~changed => statSize = size
  /\ Ended => sent = statSize \/ (changed /\ sent >= size)
  /\ changed => producer # "stat" /\ encrypt # "start"
  /\ producer = "none" => encrypt \in {"start", "failed"}
  /\ encrypt = "start" => producer = "none"

NilOK == encrypt = "nil" => pipe = None /\ closed = "eof"

\* DecryptDB has written the first chunks of the file that was packed.
DecryptOK ==
  /\ decrypt # "idle" => encrypt \in {"nil", "failed", "crashed"}
  /\ decrypt \in {"copying", "next", "nil"} =>
       /\ Len(archive) >= 1
       /\ \A i \in 1..Len(output) : output[i] = i
  /\ decrypt \in {"next", "nil"} => Len(output) = statSize

PipeInv == PipeTypeOK /\ StreamOK /\ NothingLost /\ CopiedAll /\ NilOK /\ DecryptOK
-----------------------------------------------------------------------------
(***************************************************************************)
(* EncryptPipe: the goroutine.                                             *)
(***************************************************************************)
USE DEF Header, Chunk, TarEnd, GzipEnd, None

LEMMA PiecesDiffer ==
  /\ None \in Pieces /\ TarEnd \in Pieces /\ GzipEnd \in Pieces
  /\ \A n \in 0..MaxChunks : Header(n) \in Pieces
  /\ \A i \in 1..MaxChunks : Chunk(i) \in Pieces
  /\ \A i \in Nat : Piece(i) # None
BY DEF Pieces, Piece

LEMMA StatStep ==
  ASSUME PipeInv, Producer, Stat
  PROVE  PipeInv'
<1> USE ChunksAssumption DEF PipeInv, Producer, Stat, At, Write, Fail, file, reading
<1>1. PipeTypeOK'
  BY PiecesDiffer DEF PipeTypeOK, Steps
<1>2. StreamOK'
  BY DEF PipeTypeOK, StreamOK, Steps, Taken, Produced, Tarred, Complete, Piece
<1>3. NothingLost'
  BY DEF PipeTypeOK, StreamOK, NothingLost, Taken, Produced, Tarred, Complete
<1>4. CopiedAll'
  BY DEF PipeTypeOK, CopiedAll, Ended, Steps
<1>5. NilOK' /\ DecryptOK'
  BY DEF NilOK, DecryptOK, StreamOK, PipeTypeOK, Taken, Produced, CopiedAll
<1> QED BY <1>1, <1>2, <1>3, <1>4, <1>5

LEMMA OpenInputStep ==
  ASSUME PipeInv, Producer, OpenInput
  PROVE  PipeInv'
<1> USE ChunksAssumption DEF PipeInv, Producer, OpenInput, At, Fail, file, reading
<1>1. PipeTypeOK'
  BY DEF PipeTypeOK, Steps
<1>2. StreamOK'
  <2>1. \A i \in 1..Len(archive) : Piece(i)' = Piece(i)
    BY DEF Piece
  <2>2. Taken' <= Produced'
    BY DEF PipeTypeOK, StreamOK, Taken, Produced, Tarred, Complete
  <2> QED BY <2>1, <2>2 DEF PipeTypeOK, StreamOK
<1>3. NothingLost'
  BY DEF PipeTypeOK, StreamOK, NothingLost, Taken, Produced, Tarred, Complete
<1>4. CopiedAll'
  BY DEF PipeTypeOK, CopiedAll, Ended, Steps
<1>5. NilOK' /\ DecryptOK'
  BY DEF NilOK, DecryptOK, CopiedAll
<1> QED BY <1>1, <1>2, <1>3, <1>4, <1>5

\* Pieces that are written stay what they are when one more chunk is read.
LEMMA PieceStays ==
  ASSUME sent \in Nat, statSize' = statSize, sent' \in {sent, sent + 1},
         NEW i \in 1..(sent + 1)
  PROVE  Piece(i)' = Piece(i)
<1>1. CASE sent' = sent
  BY <1>1 DEF Piece
<1>2. CASE sent' = sent + 1
  <2>1. i <= sent + 1 /\ i <= (sent + 1) + 1
    OBVIOUS
  <2> QED BY <1>2, <2>1 DEF Piece
<1> QED BY <1>1, <1>2

LEMMA CopyStep ==
  ASSUME PipeInv, Producer, Copy
  PROVE  PipeInv'
<1> USE ChunksAssumption DEF PipeInv, Producer, Copy, At, Write, Fail, file, reading
<1>1. PipeTypeOK'
  BY PiecesDiffer DEF PipeTypeOK, Steps
<1>2. StreamOK'
  <2>1. \A i \in 1..Len(archive) : Piece(i)' = Piece(i)
    <3>1. statSize' = statSize /\ sent' \in {sent, sent + 1}
      OBVIOUS
    <3>2. Len(archive) <= sent + 1 /\ sent \in Nat
      BY DEF PipeTypeOK, StreamOK, Taken, Produced
    <3> QED BY <3>1, <3>2, PieceStays
  <2>2. encrypt' = "running" /\ pipe' # None => pipe' = Piece(Len(archive) + 1)'
    BY DEF PipeTypeOK, StreamOK, NothingLost, CopiedAll, Taken, Produced, Piece
  <2>3. Taken' <= Produced'
    BY DEF PipeTypeOK, StreamOK, Taken, Produced, Tarred, Complete
  <2>4. sent' <= statSize' /\ producer' \notin {"none", "stat", "open"}
    BY DEF PipeTypeOK, StreamOK
  <2> QED BY <2>1, <2>2, <2>3, <2>4 DEF PipeTypeOK, StreamOK
<1>3. NothingLost'
  BY DEF PipeTypeOK, StreamOK, NothingLost, Steps, Taken, Produced, Tarred, Complete
<1>4. CopiedAll'
  BY DEF PipeTypeOK, StreamOK, CopiedAll, Ended, Steps
<1>5. NilOK' /\ DecryptOK'
  BY DEF NilOK, DecryptOK, CopiedAll
<1> QED BY <1>1, <1>2, <1>3, <1>4, <1>5

LEMMA CloseTarStep ==
  ASSUME PipeInv, Producer, CloseTar
  PROVE  PipeInv'
<1> USE ChunksAssumption DEF PipeInv, Producer, CloseTar, At, Write, file, reading
<1>1. PipeTypeOK'
  BY PiecesDiffer DEF PipeTypeOK, Steps
<1>2. StreamOK'
  BY DEF PipeTypeOK, StreamOK, NothingLost, CopiedAll, Steps, Taken, Produced, Tarred, Complete, Piece
<1>3. NothingLost'
  BY DEF PipeTypeOK, StreamOK, NothingLost, Steps, Taken, Produced, Tarred, Complete
<1>4. CopiedAll'
  BY DEF PipeTypeOK, CopiedAll, Ended, Steps
<1>5. NilOK' /\ DecryptOK'
  BY DEF NilOK, DecryptOK, CopiedAll
<1> QED BY <1>1, <1>2, <1>3, <1>4, <1>5

LEMMA CloseGzipStep ==
  ASSUME PipeInv, Producer, CloseGzip
  PROVE  PipeInv'
<1> USE ChunksAssumption DEF PipeInv, Producer, CloseGzip, At, Write, file, reading
<1>1. PipeTypeOK'
  BY PiecesDiffer DEF PipeTypeOK, Steps
<1>2. StreamOK'
  BY DEF PipeTypeOK, StreamOK, NothingLost, CopiedAll, Steps, Taken, Produced, Tarred, Complete, Piece
<1>3. NothingLost'
  BY DEF PipeTypeOK, StreamOK, NothingLost, Steps, Taken, Produced, Tarred, Complete
<1>4. CopiedAll'
  BY DEF PipeTypeOK, CopiedAll, Ended, Steps
<1>5. NilOK' /\ DecryptOK'
  BY DEF NilOK, DecryptOK, CopiedAll
<1> QED BY <1>1, <1>2, <1>3, <1>4, <1>5

LEMMA ClosePipeStep ==
  ASSUME PipeInv, Producer, ClosePipe
  PROVE  PipeInv'
<1> USE ChunksAssumption DEF PipeInv, Producer, ClosePipe, At, file, reading
<1>1. PipeTypeOK'
  BY DEF PipeTypeOK, Steps
<1>2. StreamOK'
  <2>1. \A i \in 1..Len(archive) : Piece(i)' = Piece(i)
    BY DEF Piece
  <2>2. Taken' <= Produced'
    BY DEF PipeTypeOK, StreamOK, Taken, Produced, Tarred, Complete
  <2> QED BY <2>1, <2>2 DEF PipeTypeOK, StreamOK
<1>3. NothingLost'
  BY DEF PipeTypeOK, CopiedAll, NothingLost, Taken, Produced, Tarred, Complete
<1>4. CopiedAll'
  BY DEF PipeTypeOK, CopiedAll, Ended, Steps
<1>5. NilOK' /\ DecryptOK'
  BY DEF NilOK, DecryptOK, CopiedAll
<1> QED BY <1>1, <1>2, <1>3, <1>4, <1>5

LEMMA ProducerStep ==
  ASSUME PipeInv, Producer
  PROVE  PipeInv'
BY StatStep, OpenInputStep, CopyStep, CloseTarStep, CloseGzipStep, ClosePipeStep DEF Producer
-----------------------------------------------------------------------------
(***************************************************************************)
(* EncryptDB, and what happens around it.                                  *)
(***************************************************************************)
LEMMA StartStep ==
  ASSUME PipeInv, Start
  PROVE  PipeInv'
<1> USE DEF PipeInv, Start, file, reading
<1>1. PipeTypeOK'
  BY DEF PipeTypeOK, Steps
<1>2. StreamOK' /\ NothingLost'
  BY DEF PipeTypeOK, StreamOK, NothingLost, CopiedAll, Steps, Taken, Produced, Tarred, Complete, Piece
<1>3. CopiedAll'
  BY DEF PipeTypeOK, CopiedAll, Ended, Steps
<1>4. NilOK' /\ DecryptOK'
  BY DEF NilOK, DecryptOK, CopiedAll
<1> QED BY <1>1, <1>2, <1>3, <1>4

\* The piece in the pipe is the next one of the archive.
LEMMA TransferStep ==
  ASSUME PipeInv, Transfer
  PROVE  PipeInv'
<1> USE DEF PipeInv, Transfer, file, reading, pack, goroutine
<1>1. CASE archive' = Append(archive, pipe) /\ UNCHANGED encrypt
  <2>1. /\ archive' \in Seq(Pieces) /\ Len(archive') = Len(archive) + 1
        /\ archive'[Len(archive) + 1] = pipe
        /\ \A i \in 1..Len(archive) : archive'[i] = archive[i]
    BY <1>1 DEF PipeTypeOK
  <2>2. PipeTypeOK'
    BY <1>1, <2>1, PiecesDiffer DEF PipeTypeOK, Steps
  <2>3. StreamOK'
    <3>1. \A i \in 1..Len(archive') : Piece(i)' = Piece(i)
      BY DEF Piece
    <3>2. \A i \in 1..Len(archive') : archive'[i] = Piece(i)
      BY <2>1 DEF PipeTypeOK, StreamOK
    <3> QED BY <2>1, <3>1, <3>2 DEF PipeTypeOK, StreamOK, Taken, Produced, Tarred, Complete
  <2>4. NothingLost'
    BY <1>1, <2>1 DEF PipeTypeOK, NothingLost, Taken, Produced, Tarred, Complete
  <2>5. CopiedAll' /\ NilOK' /\ DecryptOK'
    BY <1>1, <2>1 DEF CopiedAll, Ended, NilOK, DecryptOK
  <2> QED BY <2>2, <2>3, <2>4, <2>5
<1>2. CASE encrypt' = "failed" /\ UNCHANGED archive
  <2>1. PipeTypeOK'
    BY <1>2, PiecesDiffer DEF PipeTypeOK, Steps
  <2>2. StreamOK' /\ NothingLost'
    BY <1>2 DEF PipeTypeOK, StreamOK, NothingLost, Taken, Produced, Tarred, Complete, Piece
  <2>3. CopiedAll' /\ NilOK' /\ DecryptOK'
    BY <1>2 DEF CopiedAll, Ended, NilOK, DecryptOK
  <2> QED BY <2>1, <2>2, <2>3
<1> QED BY <1>1, <1>2

LEMMA ReturnStep ==
  ASSUME PipeInv, Return
  PROVE  PipeInv'
<1> USE DEF PipeInv, Return, file, reading, pack, goroutine
<1>1. PipeTypeOK'
  BY DEF PipeTypeOK, Steps
<1>2. StreamOK' /\ NothingLost'
  BY DEF PipeTypeOK, StreamOK, NothingLost, Taken, Produced, Tarred, Complete, Piece
<1>3. CopiedAll' /\ NilOK' /\ DecryptOK'
  BY DEF PipeTypeOK, CopiedAll, Ended, NilOK, DecryptOK
<1> QED BY <1>1, <1>2, <1>3

LEMMA ResizeStep ==
  ASSUME PipeInv, Resize
  PROVE  PipeInv'
<1> USE DEF PipeInv, Resize, Running, reading, pack, goroutine
<1>1. PipeTypeOK'
  BY DEF PipeTypeOK, Steps
<1>2. StreamOK' /\ NothingLost'
  BY DEF PipeTypeOK, StreamOK, NothingLost, Taken, Produced, Tarred, Complete, Piece
<1>3. CopiedAll' /\ NilOK' /\ DecryptOK'
  BY DEF PipeTypeOK, CopiedAll, Ended, NilOK, DecryptOK
<1> QED BY <1>1, <1>2, <1>3

LEMMA CrashStep ==
  ASSUME PipeInv, Crash
  PROVE  PipeInv'
<1> USE DEF PipeInv, Crash, file, reading, pack, goroutine
<1>1. PipeTypeOK'
  BY DEF PipeTypeOK, Steps
<1>2. StreamOK' /\ NothingLost'
  BY DEF PipeTypeOK, StreamOK, NothingLost, Taken, Produced, Tarred, Complete, Piece
<1>3. CopiedAll' /\ NilOK' /\ DecryptOK'
  BY DEF PipeTypeOK, CopiedAll, Ended, NilOK, DecryptOK
<1> QED BY <1>1, <1>2, <1>3
-----------------------------------------------------------------------------
(***************************************************************************)
(* DecryptDB.                                                              *)
(***************************************************************************)

\* A DecryptDB step leaves everything else as it was.
LEMMA OnlyReading ==
  ASSUME PipeInv, PipeTypeOK', DecryptOK',
         UNCHANGED <<file, pack, pipe, encrypt, archive, salted, key>>
  PROVE  PipeInv'
<1> USE DEF PipeInv, file, pack, goroutine
<1>1. StreamOK' /\ NothingLost'
  BY DEF StreamOK, NothingLost, Taken, Produced, Tarred, Complete, Piece
<1>2. CopiedAll' /\ NilOK'
  BY DEF CopiedAll, Ended, NilOK
<1> QED BY <1>1, <1>2

LEMMA BeginDecryptStep ==
  ASSUME PipeInv, NEW p \in Passwords, BeginDecrypt(p)
  PROVE  PipeInv'
<1>1. PipeTypeOK'
  <2>1. output' \in Seq(Nat)
    BY EmptySeq DEF PipeInv, PipeTypeOK, BeginDecrypt, DecryptFails
  <2> QED BY <2>1 DEF PipeInv, PipeTypeOK, BeginDecrypt, DecryptFails, file, pack, goroutine
<1>2. DecryptOK'
  BY DEF PipeInv, PipeTypeOK, DecryptOK, BeginDecrypt, DecryptFails, Has
<1> QED BY <1>1, <1>2, OnlyReading DEF BeginDecrypt

\* The next chunk of the archive is the next chunk of the file.
LEMMA CopyOutStep ==
  ASSUME PipeInv, Decrypt, decrypt = "copying", CopyOut
  PROVE  PipeInv'
<1> USE DEF PipeInv
<1>1. archive[1].n = statSize
  <2>1. archive[1] = Piece(1)
    BY DEF DecryptOK, StreamOK, PipeTypeOK
  <2> QED BY <2>1 DEF Piece
<1>2. CASE output' = Append(output, archive[Next1].n) /\ UNCHANGED decrypt
            /\ Has(Next1) /\ archive[Next1].kind = "chunk"
  <2>1. archive[Next1] = Piece(Next1) /\ Next1 = Len(output) + 2 /\ Len(output) \in Nat
    BY <1>2 DEF StreamOK, PipeTypeOK, Has, Next1
  <2>2. archive[Next1].n = Len(output) + 1
    BY <1>2, <2>1 DEF Piece, PipeTypeOK
  <2>3. /\ output' \in Seq(Nat) /\ Len(output') = Len(output) + 1
        /\ \A i \in 1..Len(output') :
             output'[i] = IF i = Len(output) + 1 THEN Len(output) + 1 ELSE output[i]
    BY <1>2, <2>1, <2>2 DEF PipeTypeOK
  <2>4. PipeTypeOK'
    BY <1>2, <2>3 DEF PipeTypeOK, Decrypt, file, pack, goroutine
  <2>5. DecryptOK'
    BY <1>2, <2>1, <2>3 DEF DecryptOK, Decrypt
  <2> QED BY <2>4, <2>5, OnlyReading DEF Decrypt
<1>3. CASE output' = output /\ (decrypt' = "failed" \/ (decrypt' = "next" /\ Len(output) = statSize))
  <2>1. PipeTypeOK'
    BY <1>3 DEF PipeTypeOK, Decrypt, file, pack, goroutine
  <2>2. DecryptOK'
    BY <1>3 DEF DecryptOK, Decrypt, pack, goroutine
  <2> QED BY <2>1, <2>2, OnlyReading DEF Decrypt
<1>4. \/ /\ output' = Append(output, archive[Next1].n) /\ UNCHANGED decrypt
         /\ Has(Next1) /\ archive[Next1].kind = "chunk"
      \/ output' = output /\ (decrypt' = "failed" \/ (decrypt' = "next" /\ Len(output) = statSize))
  BY <1>1 DEF CopyOut, DecryptFails
<1> QED BY <1>2, <1>3, <1>4

LEMMA DecryptStep ==
  ASSUME PipeInv, Decrypt
  PROVE  PipeInv'
<1>1. CASE decrypt = "copying" /\ CopyOut
  BY <1>1, CopyOutStep
<1>2. CASE decrypt = "next" /\ NextEntry
  <2>1. PipeTypeOK'
    BY <1>2 DEF PipeInv, PipeTypeOK, Decrypt, NextEntry, file, pack, goroutine
  <2>2. DecryptOK'
    BY <1>2 DEF PipeInv, DecryptOK, Decrypt, NextEntry, pack, goroutine
  <2> QED BY <2>1, <2>2, OnlyReading DEF Decrypt
<1> QED BY <1>1, <1>2 DEF Decrypt
-----------------------------------------------------------------------------
(***************************************************************************)
(* Theorems.                                                               *)
(***************************************************************************)
LEMMA PipeInitInvariant == PipeInit => PipeInv
<1> SUFFICES ASSUME PipeInit PROVE PipeInv
  OBVIOUS
<1>1. PipeTypeOK
  <2>1. archive \in Seq(Pieces) /\ output \in Seq(Nat) /\ pipe \in Pieces
    BY EmptySeq, PiecesDiffer DEF PipeInit
  <2>2. /\ size \in 0..MaxChunks /\ statSize \in 0..MaxChunks /\ sent \in Nat
        /\ producer \in Steps /\ closed = "no" /\ encrypt = "start" /\ decrypt = "idle"
    BY ChunksAssumption DEF PipeInit, Steps
  <2>3. changed \in BOOLEAN /\ salted \in BOOLEAN
    BY DEF PipeInit
  <2> QED BY <2>1, <2>2, <2>3 DEF PipeTypeOK
<1>2. StreamOK /\ NothingLost
  BY ChunksAssumption DEF PipeInit, StreamOK, NothingLost, Taken, Produced
<1>3. CopiedAll /\ NilOK /\ DecryptOK
  BY DEF PipeInit, CopiedAll, Ended, NilOK, DecryptOK
<1> QED BY <1>1, <1>2, <1>3 DEF PipeInv

LEMMA PipeNextInvariant == PipeInv /\ [PipeNext]_pipeVars => PipeInv'
<1> SUFFICES ASSUME PipeInv, [PipeNext]_pipeVars PROVE PipeInv'
  OBVIOUS
<1>1. CASE PipeNext
  BY <1>1, ProducerStep, StartStep, TransferStep, ReturnStep, ResizeStep, CrashStep,
     BeginDecryptStep, DecryptStep DEF PipeNext
<1>2. CASE UNCHANGED pipeVars
  <2>1. PipeTypeOK' /\ DecryptOK'
    BY <1>2 DEF PipeInv, PipeTypeOK, DecryptOK, pipeVars, file, pack, goroutine, reading
  <2> QED BY <1>2, <2>1, OnlyReading DEF pipeVars
<1> QED BY <1>1, <1>2

\* The inductive invariant holds in every reachable state.
THEOREM PipeInvariance == PipeSpec => []PipeInv
BY PipeInitInvariant, PipeNextInvariant, PTL DEF PipeSpec

\* An EncryptDB that returns nil has written the whole stream of the file,
\* wherever its goroutine may fail, but for a file that became shorter after
\* Stat (tw.Close, whose error is dropped).
THEOREM NilIsWhole == PipeSpec => []NilMeansWhole
<1>1. PipeInv => NilMeansWhole
  <2> SUFFICES ASSUME PipeInv, encrypt = "nil", ~(changed /\ size < statSize)
               PROVE  archive = Whole(statSize)
    BY DEF NilMeansWhole
  <2> USE ChunksAssumption DEF PipeInv, PipeTypeOK
  <2>1. pipe = None /\ closed = "eof" /\ producer = "done"
    BY DEF NilOK, CopiedAll
  <2>2. sent = statSize
    BY <2>1 DEF CopiedAll, Ended, StreamOK
  <2>3. Len(archive) = statSize + 3
    BY <2>1, <2>2 DEF NothingLost, Taken, Produced, Complete, Tarred
  <2> DEFINE whole == Whole(statSize)
             chunks == [i \in 1..statSize |-> Chunk(i)]
  <2>4. /\ <<Header(statSize)>> \in Seq(Pieces) /\ chunks \in Seq(Pieces)
        /\ <<TarEnd, GzipEnd>> \in Seq(Pieces) /\ Len(chunks) = statSize
    BY PiecesDiffer
  <2>5. /\ whole \in Seq(Pieces) /\ Len(whole) = statSize + 3
        /\ \A i \in 1..(statSize + 3) : whole[i] = Piece(i)
    BY <2>2, <2>4 DEF Whole, Piece
  <2>6. \A i \in 1..(statSize + 3) : archive[i] = Piece(i)
    BY <2>3 DEF StreamOK
  <2> QED BY <2>3, <2>5, <2>6, SeqEqual
<1> QED BY <1>1, PipeInvariance, PTL

\* A DecryptDB that returns nil has written the chunks of the file that was
\* packed, all of them and in their order, whatever became of the archive.
THEOREM NilIsInput == PipeSpec => []DecryptNilIsInput
<1>1. PipeInv => DecryptNilIsInput
  <2> SUFFICES ASSUME PipeInv, decrypt = "nil" PROVE output = [i \in 1..statSize |-> i]
    BY DEF DecryptNilIsInput
  <2>1. output = [i \in 1..Len(output) |-> output[i]]
    BY DEF PipeInv, PipeTypeOK
  <2> QED BY <2>1 DEF PipeInv, DecryptOK
<1> QED BY <1>1, PipeInvariance, PTL
=============================================================================
