---------------------------- MODULE NumberLemmas ----------------------------
(***************************************************************************)
(* Facts about natural numbers and finite sequences of them that the other *)
(* proofs share.  Induction is over a set of numbers, not over an operator.*)
(***************************************************************************)
EXTENDS Digits, FiniteSets, TLAPS, FiniteSetTheorems, WellFoundedInduction

\* A non-empty set of natural numbers has a least element.
LEMMA LeastNumber ==
  ASSUME NEW S \in SUBSET Nat, S # {}
  PROVE  \E n \in S : \A i \in S : n <= i
<1> DEFINE T == {1..n : n \in S}
<1>1. T # {} /\ T \subseteq FiniteSubsetsOf(Nat)
  <2>1. \A n \in S : IsFiniteSet(1..n)
    BY FS_Interval
  <2>2. \A n \in S : 1..n \in SUBSET Nat
    OBVIOUS
  <2>3. \A n \in S : 1..n \in FiniteSubsetsOf(Nat)
    BY <2>1, <2>2 DEF FiniteSubsetsOf
  <2>4. \A n \in S : 1..n \in T
    OBVIOUS
  <2>5. T # {}
    BY <2>4
  <2> QED BY <2>3, <2>5
<1>2. PICK x \in T : \A y \in T : ~ (<<y, x>> \in StrictSubsetOrdering(Nat))
  <2> HIDE DEF T
  <2> QED BY <1>1, WFMin, FS_StrictSubsetOrderingWellFounded
<1>3. PICK n \in S : x = 1..n
  OBVIOUS
<1>4. ASSUME NEW i \in S, i < n PROVE FALSE
  <2>1. 1..i \in T /\ 1..i \subseteq x /\ n \in x /\ n \notin 1..i
    BY <1>3, <1>4
  <2>2. <<1..i, x>> \in StrictSubsetOrdering(Nat)
    BY <1>3, <2>1 DEF StrictSubsetOrdering
  <2> QED BY <1>2, <2>1, <2>2
<1> QED BY <1>4

\* One that has a bound has a greatest.
LEMMA GreatestNumber ==
  ASSUME NEW S \in SUBSET Nat, S # {}, NEW b \in Nat, \A i \in S : i <= b
  PROVE  \E n \in S : \A i \in S : i <= n
<1> DEFINE T == {b - i : i \in S}
<1>1. T \in SUBSET Nat /\ T # {}
  <2>1. \A i \in S : b - i \in Nat
    OBVIOUS
  <2>2. \A i \in S : b - i \in T
    OBVIOUS
  <2> QED BY <2>1, <2>2
<1>2. PICK m \in T : \A j \in T : m <= j
  BY <1>1, LeastNumber
<1>3. PICK n \in S : m = b - n
  OBVIOUS
<1>4. ASSUME NEW i \in S PROVE i <= n
  <2>1. b - i \in T
    OBVIOUS
  <2> QED BY <1>2, <1>3, <2>1
<1> QED BY <1>4

\* A set that has 0, and with each number its successor, has every number.
LEMMA Induction ==
  ASSUME NEW S, 0 \in S, \A n \in Nat : n \in S => n + 1 \in S
  PROVE  Nat \subseteq S
<1> SUFFICES ASSUME NEW m \in Nat, m \notin S PROVE FALSE
  OBVIOUS
<1> DEFINE D == {n \in Nat : n \notin S}
<1>1. D \in SUBSET Nat /\ D # {}
  OBVIOUS
<1>2. PICK n \in D : \A i \in D : n <= i
  BY <1>1, LeastNumber
<1>3. n # 0 /\ n - 1 \in Nat
  OBVIOUS
<1>4. n - 1 \in S
  BY <1>2, <1>3
<1> QED BY <1>3, <1>4
-----------------------------------------------------------------------------
(***************************************************************************)
(* Horner adds digit after digit.                                          *)
(***************************************************************************)
Sums(base, first, s, n, f) ==
  f = [i \in 0..n |-> IF i = 0 THEN first ELSE base * f[i - 1] + s[i]]

LEMMA SumsExist ==
  ASSUME NEW base \in Int, NEW first \in Int, NEW s, NEW m \in Nat, s \in [1..m -> Int]
  PROVE  \E f \in [0..m -> Int] : Sums(base, first, s, m, f)
<1> DEFINE S == {n \in Nat : n <= m => \E f \in [0..n -> Int] : Sums(base, first, s, n, f)}
<1>1. 0 \in S
  <2>1. [i \in 0..0 |-> first] \in [0..0 -> Int] /\ Sums(base, first, s, 0, [i \in 0..0 |-> first])
    BY DEF Sums
  <2> QED BY <2>1
<1>2. ASSUME NEW n \in Nat, n \in S PROVE n + 1 \in S
  <2> SUFFICES ASSUME n + 1 <= m
               PROVE  \E g \in [0..(n + 1) -> Int] : Sums(base, first, s, n + 1, g)
    OBVIOUS
  <2>1. PICK f \in [0..n -> Int] : Sums(base, first, s, n, f)
    BY <1>2
  <2> DEFINE g == [i \in 0..(n + 1) |-> IF i = n + 1 THEN base * f[n] + s[n + 1] ELSE f[i]]
  <2>2. g \in [0..(n + 1) -> Int]
    <3>1. base * f[n] + s[n + 1] \in Int
      OBVIOUS
    <3> QED BY <3>1
  <2>3. \A i \in 0..(n + 1) : g[i] = IF i = 0 THEN first ELSE base * g[i - 1] + s[i]
    <3>1. f[0] = first /\ \A i \in 1..n : f[i] = base * f[i - 1] + s[i]
      BY <2>1 DEF Sums
    <3>2. g[n + 1] = base * f[n] + s[n + 1] /\ \A i \in 0..n : g[i] = f[i]
      OBVIOUS
    <3> HIDE DEF g
    <3>3. ASSUME NEW i \in 0..(n + 1)
          PROVE  g[i] = IF i = 0 THEN first ELSE base * g[i - 1] + s[i]
      <4>1. CASE i = n + 1
        <5>1. i - 1 \in 0..n /\ i - 1 = n /\ i # 0
          BY <4>1
        <5> QED BY <3>2, <4>1, <5>1
      <4>2. CASE i = 0
        BY <3>1, <3>2, <4>2
      <4>3. CASE i \in 1..n
        <5>1. i - 1 \in 0..n /\ i \in 0..n /\ i # 0
          BY <4>3
        <5> QED BY <3>1, <3>2, <4>3, <5>1
      <4> QED BY <4>1, <4>2, <4>3
    <3> QED BY <3>3
  <2>4. Sums(base, first, s, n + 1, g)
    <3> DEFINE h == [i \in 0..(n + 1) |-> IF i = 0 THEN first ELSE base * g[i - 1] + s[i]]
    <3>1. DOMAIN g = 0..(n + 1) /\ g = [i \in 0..(n + 1) |-> g[i]]
      OBVIOUS
    <3> HIDE DEF g
    <3>2. g = h
      BY <2>3, <3>1
    <3> QED BY <3>2 DEF Sums
  <2> QED BY <2>2, <2>4
<1>3. m \in S
  <2> HIDE DEF S
  <2> QED BY <1>1, <1>2, Induction
<1> QED BY <1>3

\* Horner adds digit after digit: f has the sums.
Run(base, first, n, s, f) ==
  /\ f \in [0..n -> Int]
  /\ f[0] = first /\ Horner(base, first, s) = f[n]
  /\ \A i \in 1..n : f[i] = base * f[i - 1] + s[i]

LEMMA HornerSums ==
  ASSUME NEW base \in Int, NEW first \in Int, NEW n \in Nat, NEW s \in [1..n -> Int]
  PROVE  \E f : Run(base, first, n, s, f)
<1> DEFINE f == CHOOSE f : Sums(base, first, s, n, f)
<1>1. Len(s) = n
  OBVIOUS
<1>2. Horner(base, first, s) = f[n]
  BY <1>1 DEF Horner, Sums
<1>3. Sums(base, first, s, n, f)
  BY SumsExist
<1> HIDE DEF f
<1>4. f[0] = first /\ \A i \in 1..n : f[i] = base * f[i - 1] + s[i]
  BY <1>3 DEF Sums
<1>5. f \in [0..n -> Int]
  <2> DEFINE S == {i \in Nat : i <= n => f[i] \in Int}
  <2>1. 0 \in S
    BY <1>4
  <2>2. ASSUME NEW i \in Nat, i \in S PROVE i + 1 \in S
    <3> SUFFICES ASSUME i + 1 <= n PROVE f[i + 1] \in Int
      OBVIOUS
    <3>1. f[i] \in Int /\ i + 1 \in 1..n /\ (i + 1) - 1 = i
      BY <2>2
    <3>2. f[i + 1] = base * f[i] + s[i + 1]
      BY <1>4, <3>1
    <3> QED BY <3>1, <3>2
  <2>3. \A i \in 0..n : f[i] \in Int
    <3>1. Nat \subseteq S
      <4> HIDE DEF S
      <4> QED BY <2>1, <2>2, Induction
    <3> QED BY <3>1
  <2>4. f = [i \in 0..n |-> f[i]]
    BY <1>3 DEF Sums
  <2> QED BY <2>3, <2>4
<1> QED BY <1>2, <1>4, <1>5 DEF Run

LEMMA HornerEmpty ==
  ASSUME NEW base \in Int, NEW first \in Int, NEW s \in [1..0 -> Int]
  PROVE  Horner(base, first, s) = first
<1> DEFINE n == 0
<1>1. n \in Nat /\ s \in [1..n -> Int]
  OBVIOUS
<1>2. n = 0
  OBVIOUS
<1> HIDE DEF n
<1>3. PICK f : Run(base, first, n, s, f)
  BY <1>1, HornerSums
<1> QED BY <1>2, <1>3 DEF Run

\* One digit more.
LEMMA HornerAppend ==
  ASSUME NEW base \in Int, NEW first \in Int, NEW n \in Nat,
         NEW s \in [1..n -> Int], NEW t \in [1..(n + 1) -> Int], \A i \in 1..n : t[i] = s[i]
  PROVE  /\ Horner(base, first, s) \in Int
         /\ Horner(base, first, t) = base * Horner(base, first, s) + t[n + 1]
<1>1. PICK f : Run(base, first, n, s, f)
  BY HornerSums
<1>2. PICK g : Run(base, first, n + 1, t, g)
  <2> DEFINE m == n + 1
  <2>1. m \in Nat /\ t \in [1..m -> Int]
    OBVIOUS
  <2> HIDE DEF m
  <2>2. \E g : Run(base, first, m, t, g)
    BY <2>1, HornerSums
  <2> QED BY <2>2 DEF m
<1> USE DEF Run
<1> DEFINE S == {i \in Nat : i <= n => g[i] = f[i]}
<1>3. 0 \in S
  BY <1>1, <1>2
<1>4. ASSUME NEW i \in Nat, i \in S PROVE i + 1 \in S
  <2> SUFFICES ASSUME i + 1 <= n PROVE g[i + 1] = f[i + 1]
    OBVIOUS
  <2>1. g[i] = f[i] /\ i + 1 \in 1..n /\ i + 1 \in 1..(n + 1) /\ (i + 1) - 1 = i
    BY <1>4
  <2>2. g[i + 1] = base * g[i] + t[i + 1] /\ f[i + 1] = base * f[i] + s[i + 1]
    BY <1>1, <1>2, <2>1
  <2> QED BY <2>1, <2>2
<1>5. n \in S
  <2> HIDE DEF S
  <2> QED BY <1>3, <1>4, Induction
<1>6. n + 1 \in 1..(n + 1) /\ (n + 1) - 1 = n
  OBVIOUS
<1>7. g[n + 1] = base * g[n] + t[n + 1]
  BY <1>2, <1>6
<1> QED BY <1>1, <1>2, <1>5, <1>7

\* The powers of two.
LEMMA PowersOfTwo ==
  /\ Power2(0) = 1
  /\ \A k \in Nat : Power2(k) \in Nat /\ Power2(k) > 0 /\ Power2(k + 1) = 2 * Power2(k)
<1>1. Power2(0) = 1
  <2> DEFINE s == [i \in 1..0 |-> 0]
  <2>1. s \in [1..0 -> Int]
    OBVIOUS
  <2>2. Power2(0) = Horner(2, 1, s)
    BY DEF Power2
  <2>3. 2 \in Int /\ 1 \in Int
    OBVIOUS
  <2> HIDE DEF s
  <2>5. \A base \in Int, first \in Int : Horner(base, first, s) = first
    BY <2>1, HornerEmpty
  <2>4. Horner(2, 1, s) = 1
    BY <2>3, <2>5, Zenon
  <2> QED BY <2>2, <2>4
<1>2. ASSUME NEW k \in Nat PROVE Power2(k) \in Int /\ Power2(k + 1) = 2 * Power2(k)
  <2> DEFINE s == [i \in 1..k |-> 0]
             t == [i \in 1..(k + 1) |-> 0]
  <2>1. s \in [1..k -> Int] /\ t \in [1..(k + 1) -> Int] /\ (\A i \in 1..k : t[i] = s[i]) /\ t[k + 1] = 0
    OBVIOUS
  <2> HIDE DEF s, t
  <2>4. \A base \in Int, first \in Int :
          /\ Horner(base, first, s) \in Int
          /\ Horner(base, first, t) = base * Horner(base, first, s) + t[k + 1]
    BY <2>1, HornerAppend
  <2>5. 2 \in Int /\ 1 \in Int
    OBVIOUS
  <2>2. Horner(2, 1, s) \in Int /\ Horner(2, 1, t) = 2 * Horner(2, 1, s) + t[k + 1]
    BY <2>4, <2>5, Zenon
  <2>3. Power2(k) = Horner(2, 1, s) /\ Power2(k + 1) = Horner(2, 1, t)
    BY DEF Power2, s, t
  <2> QED BY <2>1, <2>2, <2>3
<1> DEFINE S == {k \in Nat : Power2(k) > 0}
<1>3. Nat \subseteq S
  <2>1. 0 \in S
    BY <1>1
  <2>2. ASSUME NEW k \in Nat, k \in S PROVE k + 1 \in S
    BY <1>2, <2>2
  <2> HIDE DEF S
  <2> QED BY <2>1, <2>2, Induction
<1> QED BY <1>1, <1>2, <1>3
=============================================================================
