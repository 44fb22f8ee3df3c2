----------------------------- MODULE WireProofs -----------------------------
(***************************************************************************)
(* Proofs about Codec and Wire, for values of every type and size, at      *)
(* every offset, as many as the section has room for.                      *)
(***************************************************************************)
EXTENDS Wire, NumberLemmas, TLAPS
-----------------------------------------------------------------------------
(***************************************************************************)
(* Digits and bytes.                                                       *)
(***************************************************************************)
LEMMA Powers ==
  /\ Power256(0) = 1
  /\ \A k \in Nat : Power256(k) \in Nat /\ Power256(k) > 0 /\ Power256(k + 1) = 256 * Power256(k)
<1>1. Power256(0) = 1
  <2> DEFINE s == [i \in 1..0 |-> 0]
  <2>1. s \in [1..0 -> Int]
    OBVIOUS
  <2>2. Power256(0) = Horner(256, 1, s)
    BY DEF Power256
  <2>3. 256 \in Int /\ 1 \in Int
    OBVIOUS
  <2> HIDE DEF s
  <2>5. \A base \in Int, first \in Int : Horner(base, first, s) = first
    BY <2>1, HornerEmpty
  <2>4. Horner(256, 1, s) = 1
    BY <2>3, <2>5, Zenon
  <2> QED BY <2>2, <2>4
<1>2. ASSUME NEW k \in Nat PROVE Power256(k) \in Int /\ Power256(k + 1) = 256 * Power256(k)
  <2> DEFINE s == [i \in 1..k |-> 0]
             t == [i \in 1..(k + 1) |-> 0]
  <2>1. s \in [1..k -> Int] /\ t \in [1..(k + 1) -> Int] /\ (\A i \in 1..k : t[i] = s[i]) /\ t[k + 1] = 0
    OBVIOUS
  <2> HIDE DEF s, t
  <2>4. \A base \in Int, first \in Int :
          /\ Horner(base, first, s) \in Int
          /\ Horner(base, first, t) = base * Horner(base, first, s) + t[k + 1]
    BY <2>1, HornerAppend
  <2>5. 256 \in Int /\ 1 \in Int
    OBVIOUS
  <2>2. Horner(256, 1, s) \in Int /\ Horner(256, 1, t) = 256 * Horner(256, 1, s) + t[k + 1]
    BY <2>4, <2>5, Zenon
  <2>3. Power256(k) = Horner(256, 1, s) /\ Power256(k + 1) = Horner(256, 1, t)
    BY DEF Power256, s, t
  <2> QED BY <2>1, <2>2, <2>3
<1> DEFINE S == {k \in Nat : Power256(k) > 0}
<1>3. Nat \subseteq S
  <2>1. 0 \in S
    BY <1>1
  <2>2. ASSUME NEW k \in Nat, k \in S PROVE k + 1 \in S
    BY <1>2, <2>2
  <2> HIDE DEF S
  <2> QED BY <2>1, <2>2, Induction
<1> QED BY <1>1, <1>2, <1>3

\* Shifting by eight bits more.
LEMMA ShiftByte ==
  ASSUME NEW n \in Int, NEW P \in Nat, P > 0
  PROVE  n \div (256 * P) = (n \div P) \div 256
<1> DEFINE q == n \div P
           r == n % P
           u == q \div 256
           v == q % 256
<1>1. q \in Int /\ r \in 0..(P - 1) /\ n = P * q + r
  OBVIOUS
<1>2. u \in Int /\ v \in 0..255 /\ q = 256 * u + v
  OBVIOUS
<1> HIDE DEF q, r, u, v
<1>3. n = (256 * P) * u + (P * v + r)
  BY <1>1, <1>2
<1>4. P * v + r \in 0..(256 * P - 1)
  BY <1>1, <1>2
<1>5. \A x \in Int, y \in Int : y \in 0..(256 * P - 1) => ((256 * P) * x + y) \div (256 * P) = x
  OBVIOUS
<1> QED BY <1>2, <1>3, <1>4, <1>5 DEF u, q

\* BigEndian, and what FromBytes makes of it: a number is its low bytes behind
\* the high part, which decides the sign.
LEMMA BytesOfNumber ==
  ASSUME NEW n \in Int, NEW k \in Nat
  PROVE  /\ BigEndian(n, k) \in [1..k -> Byte]
         /\ Len(BigEndian(n, k)) = k
         /\ FromBytes(n \div Power256(k), BigEndian(n, k)) = n
<1> DEFINE b == BigEndian(n, k)
           p(i) == Power256(i)
<1>1. \A i \in Nat : p(i) \in Nat /\ p(i) > 0 /\ p(i + 1) = 256 * p(i)
  BY Powers
<1>2. \A i \in Nat : n \div p(i) \in Int
  <2> HIDE DEF p
  <2> QED BY <1>1
<1>3. b = [i \in 1..k |-> (n \div p(k - i)) % 256]
  BY DEF BigEndian
<1>4. \A i \in 1..k : (n \div p(k - i)) % 256 \in Byte
  <2> HIDE DEF p
  <2> SUFFICES ASSUME NEW i \in 1..k PROVE (n \div p(k - i)) % 256 \in Byte
    OBVIOUS
  <2>1. n \div p(k - i) \in Int
    BY <1>2
  <2> QED BY <2>1 DEF Byte
<1> HIDE DEF b, p
<1>5. b \in [1..k -> Byte] /\ b \in [1..k -> Int]
  <2>1. b \in [1..k -> Byte]
    BY <1>3, <1>4
  <2>2. Byte \subseteq Int
    BY DEF Byte
  <2> QED BY <2>1, <2>2
<1>6. PICK f : Run(256, n \div p(k), k, b, f)
  <2>1. 256 \in Int /\ n \div p(k) \in Int
    BY <1>2
  <2> QED BY <1>5, <2>1, HornerSums, Zenon
<1> DEFINE S == {i \in Nat : i <= k => f[i] = n \div p(k - i)}
<1>7. 0 \in S
  BY <1>6 DEF Run
<1>8. ASSUME NEW i \in Nat, i \in S PROVE i + 1 \in S
  <2> SUFFICES ASSUME i + 1 <= k PROVE f[i + 1] = n \div p(k - (i + 1))
    OBVIOUS
  <2> DEFINE j == k - (i + 1)
  <2>1. j \in Nat /\ j + 1 = k - i /\ i + 1 \in 1..k /\ (i + 1) - 1 = i
    OBVIOUS
  <2>2. f[i] = n \div p(j + 1)
    BY <1>8, <2>1
  <2>3. f[i + 1] = 256 * f[i] + b[i + 1]
    BY <1>6, <2>1 DEF Run
  <2>4. b[i + 1] = (n \div p(j)) % 256
    BY <1>3, <2>1
  <2>5. n \div p(j + 1) = (n \div p(j)) \div 256
    BY <1>1, <2>1, ShiftByte
  <2>6. n \div p(j) \in Int
    BY <1>2, <2>1
  <2> HIDE DEF j
  <2>7. f[i + 1] = n \div p(j)
    BY <2>2, <2>3, <2>4, <2>5, <2>6
  <2> QED BY <2>7 DEF j
<1>9. f[k] = n \div p(0)
  <2>1. k \in S
    <3> HIDE DEF S
    <3> QED BY <1>7, <1>8, Induction
  <2>2. k - k = 0
    OBVIOUS
  <2> QED BY <2>1, <2>2
<1>10. n \div p(0) = n
  BY Powers DEF p
<1>11. FromBytes(n \div p(k), b) = n
  BY <1>6, <1>9, <1>10 DEF Run, FromBytes
<1>12. Len(b) = k
  BY <1>5
<1> QED BY <1>5, <1>11, <1>12 DEF b, p

LEMMA SmallPowers ==
  /\ Power256(0) = 1 /\ Power256(1) = 256 /\ Power256(2) = 65536
  /\ Power256(3) = 16777216 /\ Power256(4) = 256 * 16777216
<1>1. Power256(0) = 1
  BY Powers
<1>2. Power256(0 + 1) = 256 * Power256(0)
  BY Powers
<1>3. Power256(1 + 1) = 256 * Power256(1)
  BY Powers
<1>4. Power256(2 + 1) = 256 * Power256(2)
  BY Powers
<1>5. Power256(3 + 1) = 256 * Power256(3)
  BY Powers
<1> QED BY <1>1, <1>2, <1>3, <1>4, <1>5

\* No bytes say what comes before them.
LEMMA NoBytes == FromBytes(0, <<>>) = 0
<1>1. <<>> \in [1..0 -> Int]
  OBVIOUS
<1>2. \A base \in Int, first \in Int : Horner(base, first, <<>>) = first
  BY <1>1, HornerEmpty
<1>3. 256 \in Int /\ 0 \in Int
  OBVIOUS
<1>4. Horner(256, 0, <<>>) = 0
  BY <1>2, <1>3, Zenon
<1> QED BY <1>4 DEF FromBytes
-----------------------------------------------------------------------------
(***************************************************************************)
(* Headers.                                                                *)
(***************************************************************************)
Types == PayloadTypes \cup Numbers \cup {TypeBool}
TypeNumbers == 1..13

LEMMA Sizes ==
  SizeSmall = 29 /\ SizeMedium = 285 /\ SizeLarge = 65821 /\ SizeMax = 16843037
BY DEF SizeSmall, SizeMedium, SizeLarge, SizeMax

ExtraLength(bits) == IF bits < 29 THEN 0 ELSE bits - 28
SizeBase(bits) == IF bits = 29 THEN 29 ELSE IF bits = 30 THEN 285
                  ELSE IF bits = 31 THEN 65821 ELSE bits

LEMMA SizeFieldReads ==
  ASSUME NEW size \in Nat, size < SizeMax
  PROVE  /\ SizeField(size).bits \in 0..31
         /\ SizeField(size).extra \in [1..ExtraLength(SizeField(size).bits) -> Byte]
         /\ SizeBase(SizeField(size).bits) + FromBytes(0, SizeField(size).extra) = size
<1>1. CASE size < SizeSmall
  <2>1. SizeField(size) = [bits |-> size, extra |-> <<>>]
    BY <1>1, Sizes DEF SizeField
  <2>2. <<>> \in [1..0 -> Byte]
    OBVIOUS
  <2> QED BY <1>1, <2>1, <2>2, NoBytes, Sizes DEF ExtraLength, SizeBase
<1>2. CASE size >= SizeSmall /\ size < SizeMedium
  <2>1. SizeField(size) = [bits |-> 29, extra |-> BigEndian(size - SizeSmall, 1)]
    BY <1>2, Sizes DEF SizeField
  <2>2. (size - SizeSmall) \div Power256(1) = 0 /\ size - SizeSmall \in Int
    BY <1>2, Sizes, SmallPowers
  <2>3. /\ BigEndian(size - SizeSmall, 1) \in [1..1 -> Byte]
        /\ FromBytes((size - SizeSmall) \div Power256(1), BigEndian(size - SizeSmall, 1)) = size - SizeSmall
    BY <2>2, BytesOfNumber
  <2> QED BY <2>1, <2>2, <2>3, Sizes DEF ExtraLength, SizeBase
<1>3. CASE size >= SizeMedium /\ size < SizeLarge
  <2>1. SizeField(size) = [bits |-> 30, extra |-> BigEndian(size - SizeMedium, 2)]
    BY <1>3, Sizes DEF SizeField
  <2>2. (size - SizeMedium) \div Power256(2) = 0 /\ size - SizeMedium \in Int
    BY <1>3, Sizes, SmallPowers
  <2>3. /\ BigEndian(size - SizeMedium, 2) \in [1..2 -> Byte]
        /\ FromBytes((size - SizeMedium) \div Power256(2), BigEndian(size - SizeMedium, 2)) = size - SizeMedium
    BY <2>2, BytesOfNumber
  <2> QED BY <2>1, <2>2, <2>3, Sizes DEF ExtraLength, SizeBase
<1>4. CASE size >= SizeLarge
  <2>1. SizeField(size) = [bits |-> 31, extra |-> BigEndian(size - SizeLarge, 3)]
    BY <1>4, Sizes DEF SizeField
  <2>2. (size - SizeLarge) \div Power256(3) = 0 /\ size - SizeLarge \in Int
    BY <1>4, Sizes, SmallPowers
  <2>3. /\ BigEndian(size - SizeLarge, 3) \in [1..3 -> Byte]
        /\ FromBytes((size - SizeLarge) \div Power256(3), BigEndian(size - SizeLarge, 3)) = size - SizeLarge
    BY <2>2, BytesOfNumber
  <2> QED BY <2>1, <2>2, <2>3, Sizes DEF ExtraLength, SizeBase
<1> QED BY <1>1, <1>2, <1>3, <1>4, Sizes

Bits(size) == SizeField(size).bits
Extra(size) == SizeField(size).extra
ExtraSize(size) == ExtraLength(Bits(size))

LEMMA BitsExtra ==
  ASSUME NEW size \in Nat, size < SizeMax
  PROVE  /\ Bits(size) \in 0..31 /\ ExtraSize(size) \in 0..3
         /\ Extra(size) \in [1..ExtraSize(size) -> Byte]
         /\ Extra(size) \in Seq(Byte) /\ Len(Extra(size)) = ExtraSize(size)
         /\ SizeBase(Bits(size)) + FromBytes(0, Extra(size)) = size
<1>1. /\ Bits(size) \in 0..31
      /\ Extra(size) \in [1..ExtraSize(size) -> Byte]
      /\ SizeBase(Bits(size)) + FromBytes(0, Extra(size)) = size
  BY SizeFieldReads DEF Bits, Extra, ExtraSize
<1>2. \A b \in 0..31 : ExtraLength(b) \in 0..3
  BY DEF ExtraLength
<1>3. ExtraSize(size) \in 0..3
  BY <1>1, <1>2 DEF ExtraSize
<1>4. \A k \in Nat : \A e \in [1..k -> Byte] : e \in Seq(Byte) /\ Len(e) = k
  OBVIOUS
<1>5. Extra(size) \in Seq(Byte) /\ Len(Extra(size)) = ExtraSize(size)
  BY <1>1, <1>3, <1>4
<1> QED BY <1>1, <1>3, <1>5

\* A header is one byte, or two, and then those of a large size.
TypeLength(type) == IF type < 8 THEN 1 ELSE 2

LEMMA HeaderBytes ==
  ASSUME NEW type \in TypeNumbers, NEW size \in Nat, size < SizeMax
  PROVE  /\ Header(type, size) \in Seq(Byte)
         /\ Len(Header(type, size)) = TypeLength(type) + ExtraSize(size)
         /\ type < 8 => Header(type, size)[1] = 32 * type + Bits(size)
         /\ type >= 8 => Header(type, size)[1] = Bits(size) /\ Header(type, size)[2] = type - 7
         /\ \A i \in 1..ExtraSize(size) :
              Header(type, size)[TypeLength(type) + i] = Extra(size)[i]
<1> DEFINE b == Bits(size)
           e == Extra(size)
           k == ExtraSize(size)
<1>1. b \in 0..31 /\ k \in 0..3 /\ e \in Seq(Byte) /\ Len(e) = k /\ type \in 1..13
  BY BitsExtra DEF TypeNumbers
<1>2. Header(type, size) = (IF type < 8 THEN <<32 * type + b>> ELSE <<b, type - 7>>) \o e
  BY DEF Header, Bits, Extra
<1> HIDE DEF b, e, k
<1>3. CASE type < 8
  <2>1. Header(type, size) = <<32 * type + b>> \o e
    BY <1>2, <1>3
  <2>2. 32 * type + b \in Byte
    BY <1>1, <1>3 DEF Byte
  <2>3. <<32 * type + b>> \in Seq(Byte)
    BY <2>2
  <2> QED BY <1>1, <1>3, <2>1, <2>2, <2>3 DEF TypeLength, b, e, k
<1>4. CASE type >= 8
  <2>1. Header(type, size) = <<b, type - 7>> \o e
    BY <1>1, <1>2, <1>4
  <2>2. b \in Byte /\ type - 7 \in Byte
    BY <1>1, <1>4 DEF Byte
  <2>3. <<b, type - 7>> \in Seq(Byte)
    BY <2>2
  <2> QED BY <1>1, <1>4, <2>1, <2>2, <2>3 DEF TypeLength, b, e, k
<1> QED BY <1>1, <1>3, <1>4
-----------------------------------------------------------------------------
(***************************************************************************)
(* Reading bytes that stand in the section.                                *)
(***************************************************************************)
Holds(o, s) == \A i \in 1..Len(s) : o + i - 1 \in DOMAIN byte /\ byte[o + i - 1] = s[i]

LEMMA HoldsReads ==
  ASSUME NEW o \in Nat, NEW s \in Seq(Byte), Holds(o, s)
  PROVE  /\ \A i \in 1..Len(s) : At(o + i - 1) = s[i]
         /\ \A k \in Nat : \A c \in 0..Len(s), b \in [1..k -> Byte] :
              c + k <= Len(s) /\ (\A i \in 1..k : s[c + i] = b[i]) => BytesAt(o + c, k) = b
<1>1. \A i \in 1..Len(s) : At(o + i - 1) = s[i]
  BY DEF Holds, At
<1>2. ASSUME NEW k \in Nat, NEW c \in 0..Len(s), NEW b \in [1..k -> Byte],
             c + k <= Len(s), \A i \in 1..k : s[c + i] = b[i]
      PROVE  BytesAt(o + c, k) = b
  <2>1. ASSUME NEW i \in 1..k PROVE At(o + c + i - 1) = b[i]
    <3>1. c + i \in 1..Len(s) /\ o + (c + i) - 1 = o + c + i - 1
      BY <1>2
    <3> QED BY <1>1, <1>2, <3>1
  <2> QED BY <2>1 DEF BytesAt
<1> QED BY <1>1, <1>2

\* A header reads as it was written.
LEMMA HeaderReads ==
  ASSUME NEW o \in Nat, NEW type \in TypeNumbers, NEW size \in Nat, size < SizeMax,
         NEW s \in Seq(Byte), Holds(o, s), Len(s) >= Len(Header(type, size)),
         \A i \in 1..Len(Header(type, size)) : s[i] = Header(type, size)[i]
  PROVE  Ctrl(o) = [type |-> type, size |-> size, next |-> o + Len(Header(type, size))]
<1> DEFINE h == Header(type, size)
           b == Bits(size)
           e == Extra(size)
           k == ExtraSize(size)
           l == TypeLength(type)
<1>1. /\ b \in 0..31 /\ k \in 0..3 /\ e \in [1..k -> Byte] /\ type \in 1..13
      /\ SizeBase(b) + FromBytes(0, e) = size
      /\ k = IF b < 29 THEN 0 ELSE b - 28
  BY BitsExtra DEF TypeNumbers, ExtraSize, ExtraLength
<1>2. /\ Len(h) = l + k
      /\ type < 8 => h[1] = 32 * type + b
      /\ type >= 8 => h[1] = b /\ h[2] = type - 7
      /\ \A i \in 1..k : h[l + i] = e[i]
  BY HeaderBytes
<1>3. l \in 1..2 /\ (type < 8 => l = 1) /\ (type >= 8 => l = 2)
  BY <1>1 DEF TypeLength
<1> HIDE DEF h, b, e, k, l
<1>4. At(o) = h[1] /\ (type >= 8 => At(o + 1) = h[2])
  <2>1. \A i \in 1..Len(s) : At(o + i - 1) = s[i]
    BY HoldsReads
  <2>2. 1 \in 1..Len(s) /\ 1 \in 1..Len(h) /\ o + 1 - 1 = o
    BY <1>1, <1>2, <1>3 DEF h
  <2>3. type >= 8 => 2 \in 1..Len(s) /\ 2 \in 1..Len(h) /\ o + 2 - 1 = o + 1
    BY <1>1, <1>2, <1>3 DEF h
  <2> QED BY <2>1, <2>2, <2>3 DEF h
<1>5. BytesAt(o + l, k) = e
  <2>1. \A i \in 1..k : s[l + i] = e[i]
    <3> SUFFICES ASSUME NEW i \in 1..k PROVE s[l + i] = e[i]
      OBVIOUS
    <3>1. l + i \in 1..Len(h)
      BY <1>1, <1>2, <1>3
    <3> QED BY <1>2, <3>1 DEF h
  <2>2. l \in 0..Len(s) /\ l + k <= Len(s)
    BY <1>1, <1>2, <1>3 DEF h
  <2>3. k \in Nat
    BY <1>1
  <2>4. \A c \in 0..Len(s), d \in [1..k -> Byte] :
          c + k <= Len(s) /\ (\A i \in 1..k : s[c + i] = d[i]) => BytesAt(o + c, k) = d
    BY <2>3, HoldsReads
  <2> QED BY <1>1, <2>1, <2>2, <2>4
<1>6. /\ At(o) \div 32 = IF type < 8 THEN type ELSE 0
      /\ At(o) % 32 = b
      /\ type >= 8 => At(o + 1) + 7 = type
  <2>1. CASE type < 8
    <3>1. At(o) = 32 * type + b
      BY <1>2, <1>4, <2>1
    <3>2. \A x \in 1..7, y \in 0..31 : (32 * x + y) \div 32 = x /\ (32 * x + y) % 32 = y
      OBVIOUS
    <3>3. type \in 1..7
      BY <1>1, <2>1
    <3>4. (32 * type + b) \div 32 = type /\ (32 * type + b) % 32 = b
      BY <1>1, <3>2, <3>3
    <3>5. ~(type >= 8)
      BY <3>3
    <3> QED BY <2>1, <3>1, <3>4, <3>5
  <2>2. CASE type >= 8
    <3>1. At(o) = b /\ At(o + 1) = type - 7
      BY <1>2, <1>4, <2>2
    <3>2. \A y \in 0..31 : y \div 32 = 0 /\ y % 32 = y
      OBVIOUS
    <3> QED BY <1>1, <2>2, <3>1, <3>2
  <2> QED BY <1>1, <2>1, <2>2
<1>7. Ctrl(o) = [type |-> type, size |-> SizeBase(b) + FromBytes(0, BytesAt(o + l, k)),
                 next |-> o + l + k]
  <2>1. CASE type < 8
    <3>1. At(o) \div 32 # 0 /\ At(o) \div 32 = type /\ l = 1
      BY <1>1, <1>3, <1>6, <2>1
    <3> QED BY <1>1, <1>6, <3>1 DEF Ctrl, SizeBase
  <2>2. CASE type >= 8
    <3>1. At(o) \div 32 = 0 /\ At(o + 1) + 7 = type /\ l = 2
      BY <1>1, <1>3, <1>6, <2>2
    <3> QED BY <1>1, <1>6, <3>1 DEF Ctrl, SizeBase
  <2> QED BY <1>1, <2>1, <2>2
<1>8. o + l + k = o + Len(h)
  BY <1>1, <1>2, <1>3
<1> QED BY <1>1, <1>5, <1>7, <1>8 DEF h
-----------------------------------------------------------------------------
(***************************************************************************)
(* Pointers.                                                               *)
(***************************************************************************)

LEMMA RefSizes ==
  RefSize0 = 2048 /\ RefSize1 = 526336 /\ RefSize2 = 134744064
BY DEF RefSize0, RefSize1, RefSize2

\* The number that the bytes of a pointer make, and where it counts from.
RefValue(ref) == IF RefSize(ref) = 1 THEN ref - RefSize0
                 ELSE IF RefSize(ref) = 2 THEN ref - RefSize1 ELSE ref
RefHigh(ref) == IF RefSize(ref) = 3 THEN 0
                ELSE (RefValue(ref) \div Power256(RefSize(ref) + 1)) % 8

LEMMA RefParts ==
  ASSUME NEW ref \in Nat, ref \div Power256(4) = 0
  PROVE  /\ RefSize(ref) \in 0..3 /\ RefHigh(ref) \in 0..7 /\ RefValue(ref) \in Nat
         /\ RefValue(ref) \div Power256(RefSize(ref) + 1) = RefHigh(ref)
         /\ Ref(ref) = <<32 + 8 * RefSize(ref) + RefHigh(ref)>>
                          \o BigEndian(RefValue(ref), RefSize(ref) + 1)
<1>1. CASE ref < RefSize0
  <2>1. RefSize(ref) = 0
    BY <1>1 DEF RefSize
  <2>2. ref \div 256 \in 0..7
    BY <1>1, RefSizes
  <2>3. RefValue(ref) = ref /\ RefHigh(ref) = ref \div 256
    BY <2>1, <2>2, SmallPowers DEF RefValue, RefHigh
  <2> QED BY <2>1, <2>2, <2>3, SmallPowers DEF Ref, RefValue, RefHigh, TypePointer
<1>2. CASE ref >= RefSize0 /\ ref < RefSize1
  <2>1. RefSize(ref) = 1
    BY <1>2, RefSizes DEF RefSize
  <2>2. (ref - RefSize0) \div 65536 \in 0..7 /\ ref - RefSize0 \in Nat
    BY <1>2, RefSizes
  <2>3. RefValue(ref) = ref - RefSize0 /\ RefHigh(ref) = (ref - RefSize0) \div 65536
    BY <2>1, <2>2, SmallPowers DEF RefValue, RefHigh
  <2> QED BY <2>1, <2>2, <2>3, SmallPowers DEF Ref, RefValue, RefHigh, TypePointer
<1>3. CASE ref >= RefSize1 /\ ref < RefSize2
  <2>1. RefSize(ref) = 2
    BY <1>3, RefSizes DEF RefSize
  <2>2. (ref - RefSize1) \div 16777216 \in 0..7 /\ ref - RefSize1 \in Nat
    BY <1>3, RefSizes
  <2>3. RefValue(ref) = ref - RefSize1 /\ RefHigh(ref) = (ref - RefSize1) \div 16777216
    BY <2>1, <2>2, SmallPowers DEF RefValue, RefHigh
  <2> QED BY <2>1, <2>2, <2>3, SmallPowers DEF Ref, RefValue, RefHigh, TypePointer
<1>4. CASE ref >= RefSize2
  <2>1. RefSize(ref) = 3
    BY <1>4, RefSizes DEF RefSize
  <2>2. RefValue(ref) = ref /\ RefHigh(ref) = 0
    BY <2>1 DEF RefValue, RefHigh
  <2> QED BY <2>1, <2>2, SmallPowers DEF Ref, RefValue, RefHigh, TypePointer
<1> QED BY <1>1, <1>2, <1>3, <1>4, RefSizes

LEMMA RefBytes ==
  ASSUME NEW ref \in Nat, ref \div Power256(4) = 0
  PROVE  /\ Ref(ref) \in Seq(Byte) /\ Len(Ref(ref)) = RefLength(ref)
         /\ RefLength(ref) = RefSize(ref) + 2
         /\ Ref(ref)[1] = 32 + 8 * RefSize(ref) + RefHigh(ref)
         /\ \A i \in 1..(RefSize(ref) + 1) :
              Ref(ref)[1 + i] = BigEndian(RefValue(ref), RefSize(ref) + 1)[i]
<1> DEFINE n == RefSize(ref) + 1
           b == BigEndian(RefValue(ref), n)
           c == 32 + 8 * RefSize(ref) + RefHigh(ref)
<1>0. /\ RefSize(ref) \in 0..3 /\ RefHigh(ref) \in 0..7 /\ RefValue(ref) \in Nat
      /\ RefValue(ref) \div Power256(RefSize(ref) + 1) = RefHigh(ref)
      /\ Ref(ref) = <<32 + 8 * RefSize(ref) + RefHigh(ref)>>
                          \o BigEndian(RefValue(ref), RefSize(ref) + 1)
  BY RefParts
<1>1. RefSize(ref) \in 0..3 /\ RefHigh(ref) \in 0..7 /\ RefValue(ref) \in Nat /\ n \in 1..4
  BY <1>0
<1>2. b \in [1..n -> Byte]
  <2>1. n \in Nat /\ RefValue(ref) \in Int
    BY <1>1
  <2> HIDE DEF n
  <2> QED BY <2>1, BytesOfNumber
<1>3. c \in Byte /\ Ref(ref) = <<c>> \o b
  <2>1. c \in Byte
    BY <1>1 DEF Byte
  <2>2. Ref(ref) = <<c>> \o b
    BY <1>0
  <2> QED BY <2>1, <2>2
<1> HIDE DEF b, c
<1>4. b \in Seq(Byte) /\ Len(b) = n /\ <<c>> \in Seq(Byte)
  <2>1. n \in Nat
    BY <1>1
  <2> HIDE DEF n
  <2>2. b \in Seq(Byte) /\ Len(b) = n
    BY <1>2, <2>1
  <2>3. <<c>> \in Seq(Byte)
    BY <1>3
  <2> QED BY <2>2, <2>3
<1>5. RefLength(ref) = RefSize(ref) + 2
  BY DEF RefLength
<1> QED BY <1>1, <1>3, <1>4, <1>5 DEF b, c

\* A pointer reads as the offset it was made for.
LEMMA RefReads ==
  ASSUME NEW o \in Nat, NEW ref \in Nat, ref \div Power256(4) = 0, Holds(o, Ref(ref))
  PROVE  /\ Ctrl(o).type = TypePointer
         /\ PointerAt(Ctrl(o).size, Ctrl(o).next) = [ref |-> ref, next |-> o + RefLength(ref)]
<1> DEFINE s == RefSize(ref)
           g == RefHigh(ref)
           v == RefValue(ref)
           b == BigEndian(v, s + 1)
           bits == 8 * s + g
<1>1. /\ s \in 0..3 /\ g \in 0..7 /\ v \in Nat
      /\ v \div Power256(s + 1) = g
  BY RefParts
<1>2. b \in [1..(s + 1) -> Byte] /\ FromBytes(g, b) = v
  <2> DEFINE k == s + 1
  <2>1. k \in Nat /\ v \in Int /\ v \div Power256(k) = g
    BY <1>1
  <2> HIDE DEF k, v, g
  <2>2. /\ BigEndian(v, k) \in [1..k -> Byte]
        /\ FromBytes(v \div Power256(k), BigEndian(v, k)) = v
    BY <2>1, BytesOfNumber
  <2> QED BY <2>1, <2>2 DEF k
<1>3. /\ Ref(ref) \in Seq(Byte) /\ Len(Ref(ref)) = s + 2 /\ RefLength(ref) = s + 2
      /\ Ref(ref)[1] = 32 + bits
      /\ \A i \in 1..(s + 1) : Ref(ref)[1 + i] = b[i]
  <2> HIDE DEF g, v
  <2>1. /\ Ref(ref) \in Seq(Byte) /\ Len(Ref(ref)) = RefLength(ref)
        /\ RefLength(ref) = s + 2
        /\ Ref(ref)[1] = 32 + 8 * s + g
        /\ \A i \in 1..(s + 1) : Ref(ref)[1 + i] = BigEndian(v, s + 1)[i]
    BY RefBytes DEF g, v
  <2>2. 32 + 8 * s + g = 32 + bits
    BY <1>1
  <2> QED BY <2>1, <2>2
<1>4. s = 3 => g = 0
  BY DEF RefHigh
<1>5. v = IF s = 1 THEN ref - RefSize0 ELSE IF s = 2 THEN ref - RefSize1 ELSE ref
  BY DEF RefValue
<1> HIDE DEF s, g, v, b
<1>6. bits \in 0..28 /\ At(o) = 32 + bits
  <2>1. \A i \in 1..Len(Ref(ref)) : At(o + i - 1) = Ref(ref)[i]
    BY <1>3, HoldsReads
  <2>2. 1 \in 1..Len(Ref(ref)) /\ o + 1 - 1 = o
    BY <1>1, <1>3
  <2>3. bits \in 0..28
    BY <1>1, <1>4
  <2> QED BY <1>3, <2>1, <2>2, <2>3
<1>7. BytesAt(o + 1, s + 1) = b
  <2>1. s + 1 \in Nat /\ 1 \in 0..Len(Ref(ref)) /\ 1 + (s + 1) <= Len(Ref(ref))
    BY <1>1, <1>3
  <2>2. \A c \in 0..Len(Ref(ref)), d \in [1..(s + 1) -> Byte] :
          c + (s + 1) <= Len(Ref(ref)) /\ (\A i \in 1..(s + 1) : Ref(ref)[c + i] = d[i]) =>
            BytesAt(o + c, s + 1) = d
    BY <1>3, <2>1, HoldsReads
  <2> QED BY <1>2, <1>3, <2>1, <2>2
<1>8. Ctrl(o).type = TypePointer /\ Ctrl(o).size = bits + FromBytes(0, BytesAt(o + 1, 0))
      /\ Ctrl(o).next = o + 1
  <2>1. At(o) \div 32 = 1 /\ At(o) % 32 = bits
    BY <1>6
  <2> HIDE DEF bits
  <2> QED BY <1>6, <2>1 DEF Ctrl, TypePointer
<1>9. Ctrl(o).size = bits
  <2>1. BytesAt(o + 1, 0) = <<>>
    BY DEF BytesAt
  <2>2. FromBytes(0, BytesAt(o + 1, 0)) = 0
    BY <2>1, NoBytes
  <2> HIDE DEF bits
  <2> QED BY <1>6, <1>8, <2>2
<1>10. (bits \div 8) % 4 = s /\ bits % 8 = g
  BY <1>1
<1>11. PointerAt(bits, o + 1) =
         [ref |-> (IF s = 1 THEN 2048 ELSE IF s = 2 THEN 526336 ELSE 0)
                    + FromBytes(IF s = 3 THEN 0 ELSE g, BytesAt(o + 1, s + 1)),
          next |-> o + 1 + (s + 1)]
  <2> HIDE DEF bits
  <2> QED BY <1>1, <1>10 DEF PointerAt
<1>12. FromBytes(IF s = 3 THEN 0 ELSE g, BytesAt(o + 1, s + 1)) = v
  BY <1>2, <1>4, <1>7
<1>13. (IF s = 1 THEN 2048 ELSE IF s = 2 THEN 526336 ELSE 0) + v = ref
  BY <1>1, <1>5, RefSizes
<1>14. o + 1 + (s + 1) = o + RefLength(ref)
  BY <1>1, <1>3
<1> QED BY <1>8, <1>9, <1>11, <1>12, <1>13, <1>14
-----------------------------------------------------------------------------
(***************************************************************************)
(* Values.                                                                 *)
(***************************************************************************)
Good == {item \in Items : ~SizeTooLarge(item.size)}

\* A positive number has a first byte that is not zero, and as many as NumberSize
\* says.
LEMMA NumberBytes ==
  ASSUME NEW n \in Nat, n > 0, NEW w \in 1..16,
         \E k \in 1..w : n \div Power256(k - 1) \in 0..255
  PROVE  /\ NumberSize(n) \in 1..16
         /\ n \div Power256(NumberSize(n) - 1) \in 1..255
         /\ n \div Power256(NumberSize(n)) = 0
<1> DEFINE D == {k \in 1..w : n \div Power256(k - 1) \in 0..255}
<1>1. D # {} /\ D \in SUBSET Nat
  <2>1. PICK k \in 1..w : n \div Power256(k - 1) \in 0..255
    OBVIOUS
  <2>2. k \in D
    BY <2>1
  <2>3. D \subseteq Nat
    OBVIOUS
  <2> HIDE DEF D
  <2> QED BY <2>2, <2>3
<1>2. PICK k \in D : \A l \in D : k <= l
  <2> HIDE DEF D
  <2> QED BY <1>1, LeastNumber
<1>3. \A i \in 1..16 : /\ n \div Power256(i) = (n \div Power256(i - 1)) \div 256
                        /\ n \div Power256(i - 1) \in Int
  <2> SUFFICES ASSUME NEW i \in 1..16
               PROVE  /\ n \div Power256(i) = (n \div Power256(i - 1)) \div 256
                      /\ n \div Power256(i - 1) \in Int
    OBVIOUS
  <2> DEFINE j == i - 1
  <2>1. j \in Nat /\ j + 1 = i
    OBVIOUS
  <2> HIDE DEF j
  <2>2. Power256(j) \in Nat /\ Power256(j) > 0 /\ Power256(j + 1) = 256 * Power256(j)
    BY <2>1, Powers
  <2>3. n \div (256 * Power256(j)) = (n \div Power256(j)) \div 256
    BY <2>2, ShiftByte
  <2>4. n \div Power256(j) \in Int
    BY <2>2
  <2> QED BY <2>1, <2>2, <2>3, <2>4 DEF j
<1>4. n \div Power256(k - 1) \in 1..255
  <2>1. CASE k = 1
    <3>1. n \div Power256(k - 1) = n
      BY <2>1, SmallPowers
    <3> QED BY <1>2, <3>1
  <2>2. CASE k # 1
    <3> DEFINE l == k - 1
    <3>1. l \in 1..w /\ l \in 1..16 /\ l \notin D
      BY <1>2, <2>2
    <3>2. n \div Power256(l - 1) \notin 0..255 /\ n \div Power256(l - 1) \in Int
      BY <1>3, <3>1
    <3>3. n \div Power256(l) = (n \div Power256(l - 1)) \div 256 /\ n \div Power256(l) \in 0..255
      BY <1>2, <1>3, <3>1
    <3> HIDE DEF l
    <3>4. n \div Power256(l) \in 1..255
      BY <3>2, <3>3
    <3> QED BY <3>4 DEF l
  <2> QED BY <2>1, <2>2
<1>5. k \in 1..16
  BY <1>2
<1>6. NumberSize(n) = CHOOSE i \in 1..16 : n \div Power256(i - 1) \in 1..255
  <2>1. ~(n < 0) /\ n # 0
    OBVIOUS
  <2> QED BY <2>1, Zenon DEF NumberSize
<1> DEFINE m == NumberSize(n)
<1>7. m \in 1..16 /\ n \div Power256(m - 1) \in 1..255
  BY <1>4, <1>5, <1>6
<1> HIDE DEF m
<1>8. n \div Power256(m) = 0
  <2> DEFINE x == n \div Power256(m - 1)
  <2>1. n \div Power256(m) = x \div 256 /\ x \in 1..255
    BY <1>3, <1>7
  <2>2. \A y \in 1..255 : y \div 256 = 0
    OBVIOUS
  <2> HIDE DEF x
  <2> QED BY <2>1, <2>2
<1> QED BY <1>7, <1>8 DEF m

\* What a good item is: of the number types, the bytes that it takes.
LEMMA GoodItem ==
  ASSUME NEW item \in Good
  PROVE  /\ item = [type |-> item.type, size |-> item.size, n |-> item.n, holds |-> item.holds]
         /\ item.type \in Types /\ item.size \in Nat /\ item.size < SizeMax
         /\ item.type \notin Numbers => item.n = 0
         /\ item.type = TypeBool => item.holds = "bool"
         /\ item.type \in Numbers =>
              /\ item.n \in Int /\ item.holds = "number"
              /\ item.size = NumberSize(item.n) /\ HasWidth(item.n, item.type)
<1> USE DEF Types, PayloadTypes, Numbers, TypeBool, TypeString, TypeBytes, TypeFloat32,
        TypeFloat64, TypeUint16, TypeUint32, TypeInt32, TypeUint64, TypeUint128
<1>1. item.size < SizeMax \/ item.size \notin Nat
  BY Sizes DEF Good, SizeTooLarge
<1>2. CASE \E p \in Payloads : item = Payload(p)
  BY <1>1, <1>2, WireAssumption DEF Payload
<1>3. CASE \E i \in Ints : item = Integer(i)
  <2>1. PICK i \in Ints : item = Integer(i)
    BY <1>3
  <2>2. /\ item.type = i.type /\ item.n = i.n /\ item.size = NumberSize(i.n)
        /\ item.holds = "number"
        /\ item = [type |-> item.type, size |-> item.size, n |-> item.n, holds |-> item.holds]
    BY <2>1 DEF Integer
  <2>3. i.type \in Numbers /\ i.n \in Int /\ HasWidth(i.n, i.type)
    BY WireAssumption
  <2>4. NumberSize(i.n) \in Nat
    <3>1. CASE i.n <= 0
      BY <2>3, <3>1 DEF NumberSize
    <3>2. CASE i.n > 0
      <4>1. \E w \in 1..16 : \E k \in 1..w : i.n \div Power256(k - 1) \in 0..255
        <5>1. CASE i.type = TypeInt32
          <6>1. i.n \div Power256(4 - 1) \in 0..255
            BY <2>3, <3>2, <5>1, SmallPowers DEF HasWidth
          <6> DEFINE w == 4
          <6>2. w \in 1..16 /\ w \in 1..w /\ i.n \div Power256(w - 1) \in 0..255
            BY <6>1
          <6> HIDE DEF w
          <6> QED BY <6>2
        <5>2. CASE i.type # TypeInt32
          <6>1. Width[i.type] \in 1..16
            BY <2>3 DEF Width
          <6> QED BY <2>3, <5>2, <6>1 DEF HasWidth
        <5> QED BY <5>1, <5>2
      <4>2. i.n \in Nat /\ i.n > 0
        BY <2>3, <3>2
      <4> DEFINE n == i.n
      <4> HIDE DEF n
      <4>3. NumberSize(n) \in 1..16
        BY <4>1, <4>2, NumberBytes DEF n
      <4> QED BY <4>3 DEF n
    <3> QED BY <2>3, <3>1, <3>2
  <2> HIDE DEF Types, PayloadTypes, Numbers
  <2> QED BY <1>1, <2>2, <2>3, <2>4 DEF Types, Numbers
<1>4. CASE item = Bool(0) \/ item = Bool(1)
  BY <1>4, Sizes DEF Bool
<1> QED BY <1>2, <1>3, <1>4 DEF Good, Items

\* What stands before the bytes of a number: nothing, or the sign.
LEMMA NumberPrefix ==
  ASSUME NEW item \in Good, item.type \in Numbers
  PROVE  /\ item.size \in 0..16 /\ item.n \in Int
         /\ item.n \div Power256(item.size) =
              IF item.type = TypeInt32 /\ item.size = 4 /\ BigEndian(item.n, 4)[1] >= 128
              THEN -1 ELSE 0
<1> DEFINE n == item.n
<1>1. /\ n \in Int /\ item.size = NumberSize(n) /\ HasWidth(n, item.type)
  BY GoodItem
<1>2. BigEndian(n, 4)[1] = (n \div Power256(3)) % 256
  BY DEF BigEndian
<1>3. n \div Power256(4) = (n \div Power256(3)) \div 256 /\ n \div Power256(3) \in Int
  <2>1. Power256(3) = 16777216 /\ Power256(4) = 256 * Power256(3)
    BY SmallPowers
  <2>2. Power256(3) \in Nat /\ Power256(3) > 0
    BY <2>1
  <2> HIDE DEF n
  <2>3. n \div (256 * Power256(3)) = (n \div Power256(3)) \div 256
    BY <1>1, <2>2, ShiftByte
  <2> QED BY <1>1, <2>1, <2>2, <2>3
<1>4. CASE n < 0
  <2>1. item.size = 4
    BY <1>1, <1>4 DEF NumberSize
  <2>2. item.type = TypeInt32
    <3>1. ASSUME NEW k \in Nat, n \div Power256(k) \in 0..255 PROVE FALSE
      <4>1. Power256(k) \in Nat /\ Power256(k) > 0
        BY Powers
      <4>2. \A q \in Nat : q > 0 => n \div q < 0
        BY <1>1, <1>4
      <4> QED BY <3>1, <4>1, <4>2
    <3>2. ASSUME item.type # TypeInt32 PROVE FALSE
      <4>1. PICK k \in 1..Width[item.type] : n \div Power256(k - 1) \in 0..255
        BY <1>1, <3>2 DEF HasWidth
      <4>2. k - 1 \in Nat
        OBVIOUS
      <4> QED BY <3>1, <4>1, <4>2
    <3> QED BY <3>2
  <2>3. n \div Power256(3) \in (-128)..(-1)
    <3>1. n \div Power256(3) \in (-128)..127
      BY <1>1, <2>2 DEF HasWidth
    <3>2. n \div Power256(3) < 0
      BY <1>1, <1>4, SmallPowers
    <3> QED BY <3>1, <3>2
  <2>4. \A x \in (-128)..(-1) : x % 256 >= 128 /\ x \div 256 = -1
    OBVIOUS
  <2> HIDE DEF n
  <2> QED BY <1>1, <1>2, <1>3, <2>1, <2>2, <2>3, <2>4 DEF n
<1>5. CASE n = 0
  <2>1. item.size = 0
    BY <1>1, <1>5 DEF NumberSize
  <2>2. n \div Power256(0) = 0
    BY <1>5, SmallPowers
  <2> QED BY <1>1, <2>1, <2>2
<1>6. CASE n > 0
  <2>1. \E w \in 1..16 : \E k \in 1..w : n \div Power256(k - 1) \in 0..255
    <3>1. CASE item.type = TypeInt32
      <4>1. n \div Power256(4 - 1) \in 0..255
        BY <1>1, <1>6, <3>1, SmallPowers DEF HasWidth
      <4> DEFINE w == 4
      <4>2. w \in 1..16 /\ w \in 1..w /\ n \div Power256(w - 1) \in 0..255
        BY <4>1
      <4> HIDE DEF w
      <4> QED BY <4>2
    <3>2. CASE item.type # TypeInt32
      <4>1. Width[item.type] \in 1..16
        BY DEF Width, Numbers
      <4> QED BY <1>1, <3>2, <4>1 DEF HasWidth
    <3> QED BY <3>1, <3>2
  <2>2. /\ NumberSize(n) \in 1..16
        /\ n \div Power256(NumberSize(n)) = 0
    <3>1. n \in Nat /\ n > 0
      BY <1>1, <1>6
    <3> HIDE DEF n
    <3> QED BY <2>1, <3>1, NumberBytes
  <2>3. item.type = TypeInt32 => BigEndian(n, 4)[1] < 128
    <3>1. \A x \in 0..127 : x % 256 < 128
      OBVIOUS
    <3>2. item.type = TypeInt32 => n \div Power256(3) \in 0..127
      BY <1>1, <1>6, SmallPowers DEF HasWidth
    <3> QED BY <1>2, <3>1, <3>2
  <2>4. ~(item.type = TypeInt32 /\ item.size = 4 /\ BigEndian(n, 4)[1] >= 128)
    <3>1. BigEndian(n, 4)[1] \in Int
      <4> HIDE DEF n
      <4> QED BY <1>2, <1>3
    <3> QED BY <2>3, <3>1
  <2> QED BY <1>1, <2>2, <2>4
<1> QED BY <1>1, <1>4, <1>5, <1>6

LEMMA NumberReads ==
  ASSUME NEW item \in Good, item.type \in Numbers, NEW o \in Nat,
         BytesAt(o, item.size) = BigEndian(item.n, item.size)
  PROVE  /\ item.type = TypeInt32 => SignedAt(item.size, o) = item.n
         /\ item.type # TypeInt32 => UnsignedAt(item.size, o) = item.n
<1> DEFINE n == item.n
           k == item.size
<1>1. k \in 0..16 /\ n \in Int
  BY NumberPrefix
<1>2. n \div Power256(k) = IF item.type = TypeInt32 /\ k = 4 /\ BigEndian(n, 4)[1] >= 128
                           THEN -1 ELSE 0
  BY NumberPrefix
<1>3. FromBytes(n \div Power256(k), BigEndian(n, k)) = n
  <2>1. k \in Nat
    BY <1>1
  <2> HIDE DEF n, k
  <2> QED BY <1>1, <2>1, BytesOfNumber
<1>4. k = 4 => At(o) = BigEndian(n, 4)[1]
  <2> SUFFICES ASSUME k = 4 PROVE At(o) = BigEndian(n, 4)[1]
    OBVIOUS
  <2>1. BytesAt(o, 4)[1] = At(o + 1 - 1) /\ o + 1 - 1 = o
    BY DEF BytesAt
  <2> QED BY <2>1
<1>5. BytesAt(o, k) = BigEndian(n, k)
  OBVIOUS
<1> HIDE DEF n, k
<1>6. ASSUME item.type = TypeInt32 PROVE SignedAt(k, o) = n
  <2>1. (IF k = 4 /\ At(o) >= 128 THEN -1 ELSE 0) = n \div Power256(k)
    BY <1>2, <1>4, <1>6
  <2> QED BY <1>3, <1>5, <2>1 DEF SignedAt
<1>7. ASSUME item.type # TypeInt32 PROVE UnsignedAt(k, o) = n
  <2>1. n \div Power256(k) = 0
    BY <1>2, <1>7
  <2> QED BY <1>3, <1>5, <2>1 DEF UnsignedAt
<1> QED BY <1>6, <1>7 DEF n, k

\* The bytes of a value: its header, and those of a number.
NumberLength(item) == IF item.type \in Numbers THEN item.size ELSE 0

LEMMA ItemBytes ==
  ASSUME NEW item \in Good
  PROVE  /\ Bytes(item) \in Seq(Byte)
         /\ Header(item.type, item.size) \in Seq(Byte)
         /\ Len(Header(item.type, item.size)) \in 1..5
         /\ Len(Bytes(item)) = Len(Header(item.type, item.size)) + NumberLength(item)
         /\ \A i \in 1..Len(Header(item.type, item.size)) :
              Bytes(item)[i] = Header(item.type, item.size)[i]
         /\ item.type \in Numbers => \A i \in 1..item.size :
              Bytes(item)[Len(Header(item.type, item.size)) + i] = BigEndian(item.n, item.size)[i]
<1> DEFINE h == Header(item.type, item.size)
           b == IF item.type \in Numbers THEN BigEndian(item.n, item.size) ELSE <<>>
           k == NumberLength(item)
<1>1. item.type \in TypeNumbers /\ item.size \in Nat /\ item.size < SizeMax
  <2>1. item.type \in Types /\ item.size \in Nat /\ item.size < SizeMax
    BY GoodItem
  <2> QED BY <2>1 DEF Types, TypeNumbers, PayloadTypes, Numbers, TypeBool, TypeString, TypeBytes,
         TypeFloat32, TypeFloat64, TypeUint16, TypeUint32, TypeInt32, TypeUint64, TypeUint128
<1>2. h \in Seq(Byte) /\ Len(h) = TypeLength(item.type) + ExtraSize(item.size)
  BY <1>1, HeaderBytes
<1>3. TypeLength(item.type) \in 1..2 /\ ExtraSize(item.size) \in 0..3
  BY <1>1, BitsExtra DEF TypeLength
<1>4. b \in Seq(Byte) /\ Len(b) = k /\ k \in Nat
  <2>1. CASE item.type \in Numbers
    <3>1. item.size \in Nat /\ item.n \in Int
      BY <2>1, NumberPrefix
    <3>2. /\ BigEndian(item.n, item.size) \in [1..item.size -> Byte]
          /\ Len(BigEndian(item.n, item.size)) = item.size
      BY <3>1, BytesOfNumber
    <3> QED BY <2>1, <3>1, <3>2 DEF NumberLength
  <2>2. CASE item.type \notin Numbers
    BY <2>2 DEF NumberLength
  <2> QED BY <2>1, <2>2
<1>5. Bytes(item) = h \o b
  BY DEF Bytes
<1>6. item.type \in Numbers => b = BigEndian(item.n, item.size) /\ k = item.size
  BY DEF NumberLength
<1> HIDE DEF h, b, k
<1>7. /\ Bytes(item) \in Seq(Byte) /\ Len(Bytes(item)) = Len(h) + k /\ Len(h) \in 1..5
      /\ \A i \in 1..Len(h) : Bytes(item)[i] = h[i]
      /\ \A i \in 1..k : Bytes(item)[Len(h) + i] = b[i]
  <2>1. \A c \in Seq(Byte), d \in Seq(Byte) :
          /\ c \o d \in Seq(Byte) /\ Len(c \o d) = Len(c) + Len(d)
          /\ \A i \in 1..Len(c) : (c \o d)[i] = c[i]
          /\ \A i \in 1..Len(d) : (c \o d)[Len(c) + i] = d[i]
    OBVIOUS
  <2>2. Len(h) \in 1..5
    BY <1>2, <1>3
  <2> QED BY <1>2, <1>4, <1>5, <2>1, <2>2
<1> QED BY <1>2, <1>6, <1>7 DEF h, k

\* A whole value is at most SizeMax + 4 bytes long.
LEMMA ItemLength ==
  ASSUME NEW item \in Good
  PROVE  /\ Len(Bytes(item)) \in Nat /\ Len(Bytes(item)) > 0
         /\ Length(item) \in Nat
         /\ Length(item) >= Len(Bytes(item)) /\ Length(item) <= SizeMax + 5
         /\ Length(item) = Len(Header(item.type, item.size))
                             + IF item.type = TypeBool THEN 0 ELSE item.size
         /\ HasPayload(item) => Len(Bytes(item)) = Len(Header(item.type, item.size))
<1>1. item.size \in Nat /\ item.size < SizeMax /\ item.type \in Types
  BY GoodItem
<1>2. /\ Len(Header(item.type, item.size)) \in 1..5
      /\ Len(Bytes(item)) = Len(Header(item.type, item.size)) + NumberLength(item)
  BY ItemBytes
<1>3. \/ item.type \in Numbers /\ ~HasPayload(item) /\ item.type # TypeBool
      \/ item.type \notin Numbers /\ HasPayload(item) /\ item.type # TypeBool
      \/ item.type \notin Numbers /\ ~HasPayload(item) /\ item.type = TypeBool
  BY <1>1 DEF HasPayload, Types, PayloadTypes, Numbers, TypeBool, TypeString, TypeBytes,
     TypeFloat32, TypeFloat64, TypeUint16, TypeUint32, TypeInt32, TypeUint64, TypeUint128
<1> DEFINE h == Len(Header(item.type, item.size))
           b == Len(Bytes(item))
<1>4. h \in 1..5 /\ b = h + NumberLength(item) /\ Length(item) = b + IF HasPayload(item) THEN item.size ELSE 0
  BY <1>2 DEF Length
<1>5. NumberLength(item) = IF item.type \in Numbers THEN item.size ELSE 0
  BY DEF NumberLength
<1> DEFINE l == Length(item)
           M == SizeMax
<1>6. M \in Nat
  BY Sizes
<1> HIDE DEF h, b, l, M
<1>7. /\ b \in Nat /\ b > 0 /\ l \in Nat /\ l >= b /\ l <= M + 5
      /\ l = h + IF item.type = TypeBool THEN 0 ELSE item.size
      /\ HasPayload(item) => b = h
  <2>1. item.size \in Nat /\ item.size < M
    BY <1>1 DEF M
  <2>2. l = b + IF HasPayload(item) THEN item.size ELSE 0
    BY <1>4 DEF l
  <2> QED BY <1>3, <1>4, <1>5, <1>6, <2>1, <2>2
<1> QED BY <1>7 DEF h, b, l, M

\* Where a value stands whole.
WholeAt(o, item) ==
  /\ Holds(o, Bytes(item))
  /\ HasPayload(item) => /\ o + Len(Bytes(item)) \in DOMAIN payload
                         /\ payload[o + Len(Bytes(item))] = item.holds

\* A value that stands whole reads back, and its length leads behind it.
LEMMA WholeReads ==
  ASSUME NEW item \in Good, NEW o \in Nat, WholeAt(o, item)
  PROVE  /\ Ctrl(o).type # TypePointer
         /\ Decode(o) = item /\ NextOffset(o) = o + Length(item)
<1> DEFINE h == Header(item.type, item.size)
<1>1. /\ item = [type |-> item.type, size |-> item.size, n |-> item.n, holds |-> item.holds]
      /\ item.type \in Types /\ item.size \in Nat /\ item.size < SizeMax
      /\ item.type \notin Numbers => item.n = 0
      /\ item.type = TypeBool => item.holds = "bool"
      /\ item.type \in Numbers => item.holds = "number"
  BY GoodItem
<1>2. item.type \in TypeNumbers /\ item.type # TypePointer
  BY <1>1 DEF Types, TypeNumbers, PayloadTypes, Numbers, TypeBool, TypeString, TypeBytes,
     TypeFloat32, TypeFloat64, TypeUint16, TypeUint32, TypeInt32, TypeUint64, TypeUint128,
     TypePointer
<1>3. /\ Bytes(item) \in Seq(Byte) /\ Len(h) \in 1..5
      /\ Len(Bytes(item)) = Len(h) + NumberLength(item)
      /\ \A i \in 1..Len(h) : Bytes(item)[i] = h[i]
      /\ item.type \in Numbers =>
           \A i \in 1..item.size : Bytes(item)[Len(h) + i] = BigEndian(item.n, item.size)[i]
  BY ItemBytes
<1>4. Holds(o, Bytes(item))
  BY DEF WholeAt
<1>5. Ctrl(o) = [type |-> item.type, size |-> item.size, next |-> o + Len(h)]
  <2>1. Len(Bytes(item)) >= Len(h)
    BY <1>1, <1>3 DEF NumberLength
  <2> QED BY <1>1, <1>2, <1>3, <1>4, <2>1, HeaderReads
<1>6. Target(o) = o
  BY <1>2, <1>5 DEF Target
<1>7. item.type \in Numbers =>
        /\ item.type = TypeInt32 => SignedAt(item.size, o + Len(h)) = item.n
        /\ item.type # TypeInt32 => UnsignedAt(item.size, o + Len(h)) = item.n
  <2> SUFFICES ASSUME item.type \in Numbers
               PROVE  /\ item.type = TypeInt32 => SignedAt(item.size, o + Len(h)) = item.n
                      /\ item.type # TypeInt32 => UnsignedAt(item.size, o + Len(h)) = item.n
    OBVIOUS
  <2> DEFINE d == o + Len(h)
  <2>1. item.n \in Int /\ item.size \in Nat
    BY NumberPrefix
  <2>2. BigEndian(item.n, item.size) \in [1..item.size -> Byte]
    BY <2>1, BytesOfNumber
  <2>3. \A c \in 0..Len(Bytes(item)), b \in [1..item.size -> Byte] :
          /\ c + item.size <= Len(Bytes(item))
          /\ \A i \in 1..item.size : Bytes(item)[c + i] = b[i]
          => BytesAt(o + c, item.size) = b
    BY <1>3, <1>4, <2>1, HoldsReads
  <2>4. Len(h) \in 0..Len(Bytes(item)) /\ Len(h) + item.size <= Len(Bytes(item))
    BY <1>3, <2>1 DEF NumberLength
  <2>5. BytesAt(d, item.size) = BigEndian(item.n, item.size)
    BY <1>3, <2>2, <2>3, <2>4
  <2>6. d \in Nat
    BY <1>3
  <2> HIDE DEF d
  <2>7. /\ item.type = TypeInt32 => SignedAt(item.size, d) = item.n
        /\ item.type # TypeInt32 => UnsignedAt(item.size, d) = item.n
    BY <2>5, <2>6, NumberReads
  <2> QED BY <2>7 DEF d
<1>8. HasPayload(item) =>
        o + Len(h) \in DOMAIN payload /\ payload[o + Len(h)] = item.holds
  BY ItemLength DEF WholeAt
<1>9. \/ item.type \in Numbers
      \/ item.type \notin Numbers /\ HasPayload(item) /\ item.type # TypeBool
      \/ item.type \notin Numbers /\ item.type = TypeBool
  BY <1>1 DEF HasPayload, Types
<1>10. TypeInt32 \in Numbers /\ TypeBool \notin Numbers
  BY DEF Numbers, TypeBool, TypeUint16, TypeUint32, TypeInt32, TypeUint64, TypeUint128
<1>11. Length(item) = Len(h) + IF item.type = TypeBool THEN 0 ELSE item.size
  BY ItemLength
<1> HIDE DEF h
<1>12. NextOffset(o) = o + Length(item)
  BY <1>1, <1>2, <1>3, <1>5, <1>11 DEF NextOffset
<1>13. Decode(o) = item
  <2>1. Decode(o).type = item.type /\ Decode(o).size = item.size
    BY <1>5, <1>6 DEF Decode
  <2>2. Decode(o).n = item.n
    BY <1>1, <1>5, <1>6, <1>7, <1>10 DEF Decode
  <2>3. Decode(o).holds = item.holds
    BY <1>1, <1>5, <1>6, <1>8, <1>9, <1>10 DEF Decode
  <2>4. Decode(o) = [type |-> Decode(o).type, size |-> Decode(o).size,
                     n |-> Decode(o).n, holds |-> Decode(o).holds]
    BY DEF Decode
  <2> QED BY <1>1, <2>1, <2>2, <2>3, <2>4
<1> QED BY <1>2, <1>5, <1>12, <1>13
-----------------------------------------------------------------------------
(***************************************************************************)
(* The inductive invariant: every known value stands whole where its       *)
(* position says, every write is the value itself or a pointer to where it *)
(* stands, and each ends where the next begins.                            *)
(***************************************************************************)
TypeOK ==
  /\ start \in Starts /\ length \in Nat
  /\ log \in Seq([item : Good, at : Nat]) /\ Len(log) <= MaxWrites
  /\ length <= start + Len(log) * (SizeMax + 5)
  /\ \A o \in DOMAIN byte : o \in Nat /\ o < length
  /\ \A o \in DOMAIN payload : o \in Nat /\ o <= length

KnownAt(item) ==
  /\ item \in Good /\ positions[item].ref \in Nat
  /\ positions[item].ref + Length(item) <= length
  /\ positions[item].length = Length(item)
  /\ WholeAt(positions[item].ref, item)
PositionsOK == \A item \in DOMAIN positions : KnownAt(item)

PointsTo(o, item, end) ==
  /\ item \in DOMAIN positions
  /\ Holds(o, Ref(positions[item].ref))
  /\ end = o + RefLength(positions[item].ref)
StandsAt(o, item, end) ==
  (WholeAt(o, item) /\ end = o + Length(item)) \/ PointsTo(o, item, end)
End(i) == IF i = Len(log) THEN length ELSE log[i + 1].at
LogOK == \A i \in DOMAIN log : StandsAt(log[i].at, log[i].item, End(i))

IInv == TypeOK /\ PositionsOK /\ LogOK /\ PointersSave

\* There is room: what a pointer points to fits its 32 bits.
LEMMA RefFits ==
  ASSUME TypeOK, NEW ref \in Nat, ref <= length
  PROVE  ref \div Power256(4) = 0
<1> DEFINE K == SizeMax + 5
           P == Power256(3)
<1>1. K \in Nat /\ P = 16777216 /\ Power256(4) = 256 * P
  BY Sizes, SmallPowers
<1>2. start \in Nat /\ MaxWrites \in Nat /\ Len(log) \in Nat /\ Len(log) <= MaxWrites
      /\ length \in Nat /\ length <= start + Len(log) * K
      /\ (start + MaxWrites * K) \div P <= 255
  BY WireAssumption DEF TypeOK
<1>3. P \in Nat /\ P > 0
  BY <1>1
<1> HIDE DEF K, P
<1>4. Len(log) * K <= MaxWrites * K
  BY <1>1, <1>2
<1>5. MaxWrites * K \in Nat /\ Len(log) * K \in Nat
  BY <1>1, <1>2
<1> DEFINE B == start + MaxWrites * K
<1>6. B \in Nat /\ ref <= B /\ B \div P <= 255
  BY <1>2, <1>4, <1>5
<1> HIDE DEF B
<1>7. B < 256 * P
  BY <1>3, <1>6
<1>8. \A x \in Nat, y \in Nat : x < y => x \div y = 0
  OBVIOUS
<1>9. 256 * P \in Nat /\ ref < 256 * P
  BY <1>3, <1>6, <1>7
<1> QED BY <1>1, <1>8, <1>9

\* What Put adds stands at the end, and nothing before it changes.
LEMMA PutStands ==
  ASSUME TypeOK, NEW bytes \in Seq(Byte), byte' = Put(bytes), NEW m, m = length
  PROVE  /\ DOMAIN byte' = DOMAIN byte \cup length..(length + Len(bytes) - 1)
         /\ \A o \in DOMAIN byte : byte'[o] = byte[o]
         /\ Holds(m, bytes)'
<1>0. length \in Nat /\ Len(bytes) \in Nat /\ \A o \in DOMAIN byte : o \in Nat /\ o < length
  BY DEF TypeOK
<1>1. DOMAIN byte' = DOMAIN byte \cup length..(length + Len(bytes) - 1)
  BY DEF Put
<1>2. \A o \in DOMAIN byte : byte'[o] = byte[o]
  BY <1>0 DEF Put
<1>3. ASSUME NEW i \in 1..Len(bytes)
      PROVE  length + i - 1 \in DOMAIN byte' /\ byte'[length + i - 1] = bytes[i]
  <2> DEFINE o == length + i - 1
  <2>1. o \in length..(length + Len(bytes) - 1) /\ o >= length /\ o - length + 1 = i
    BY <1>0
  <2>2. byte'[o] = IF o >= length THEN bytes[o - length + 1] ELSE byte[o]
    BY <1>1, <2>1 DEF Put
  <2> HIDE DEF o
  <2>3. o \in DOMAIN byte' /\ byte'[o] = bytes[i]
    BY <1>1, <2>1, <2>2
  <2> QED BY <2>3 DEF o
<1> QED BY <1>1, <1>2, <1>3 DEF Holds

\* What is known and written stays so.
LEMMA Kept ==
  ASSUME TypeOK,
         \A o \in DOMAIN byte : o \in DOMAIN byte' /\ byte'[o] = byte[o],
         \A o \in DOMAIN payload : o \in DOMAIN payload' /\ payload'[o] = payload[o],
         \A i \in DOMAIN positions : i \in DOMAIN positions' /\ positions'[i] = positions[i],
         length' \in Nat, length' >= length
  PROVE  /\ \A o, s : Holds(o, s) => Holds(o, s)'
         /\ \A o, item : WholeAt(o, item) => WholeAt(o, item)'
         /\ \A item \in DOMAIN positions : KnownAt(item) => KnownAt(item)'
         /\ \A o, item, e : StandsAt(o, item, e) => StandsAt(o, item, e)'
<1>1. ASSUME NEW o, NEW s, Holds(o, s) PROVE Holds(o, s)'
  BY <1>1 DEF Holds
<1>2. ASSUME NEW o, NEW item, WholeAt(o, item) PROVE WholeAt(o, item)'
  <2>1. Holds(o, Bytes(item))'
    BY <1>1, <1>2 DEF WholeAt
  <2>2. HasPayload(item) => /\ o + Len(Bytes(item)) \in DOMAIN payload'
                            /\ payload'[o + Len(Bytes(item))] = item.holds
    BY <1>2 DEF WholeAt
  <2> QED BY <2>1, <2>2 DEF WholeAt
<1>3. ASSUME NEW item \in DOMAIN positions, KnownAt(item) PROVE KnownAt(item)'
  <2>1. PICK r \in Nat : r = positions[item].ref
    BY <1>3 DEF KnownAt
  <2>2. WholeAt(r, item)'
    BY <1>2, <1>3, <2>1 DEF KnownAt
  <2>3. r = positions'[item].ref /\ positions'[item].length = Length(item) /\ item \in Good
        /\ r + Length(item) <= length /\ Length(item) \in Nat
    BY <1>3, <2>1, ItemLength DEF KnownAt
  <2>4. r + Length(item) <= length'
    BY <2>3 DEF TypeOK
  <2> QED BY <2>2, <2>3, <2>4 DEF KnownAt
<1>4. ASSUME NEW o, NEW item, NEW e, StandsAt(o, item, e) PROVE StandsAt(o, item, e)'
  <2>1. CASE WholeAt(o, item) /\ e = o + Length(item)
    BY <1>2, <2>1 DEF StandsAt
  <2>2. CASE PointsTo(o, item, e)
    <3>1. PICK r : r = positions[item].ref
      OBVIOUS
    <3>2. Holds(o, Ref(r))'
      BY <1>1, <2>2, <3>1 DEF PointsTo
    <3>3. item \in DOMAIN positions' /\ r = positions'[item].ref /\ e = o + RefLength(r)
      BY <2>2, <3>1 DEF PointsTo
    <3> QED BY <3>2, <3>3 DEF PointsTo, StandsAt
  <2> QED BY <1>4, <2>1, <2>2 DEF StandsAt
<1> QED BY <1>1, <1>2, <1>3, <1>4

\* One write more, no longer than the whole value.
Written(item, m, added) ==
  /\ item \in Good /\ m = length /\ added \in Nat /\ added <= Length(item)
  /\ Len(log) < MaxWrites /\ start' = start
  /\ length' = length + added
  /\ log' = Append(log, [item |-> item, at |-> length])

LEMMA LogGrows ==
  ASSUME TypeOK, NEW item, NEW m, NEW added, Written(item, m, added)
  PROVE  /\ start' \in Starts /\ length' \in Nat /\ length' >= length
         /\ log' \in Seq([item : Good, at : Nat]) /\ Len(log') <= MaxWrites
         /\ length' <= start' + Len(log') * (SizeMax + 5)
         /\ Len(log') = Len(log) + 1 /\ DOMAIN log' = DOMAIN log \cup {Len(log) + 1}
         /\ log'[Len(log) + 1] = [item |-> item, at |-> m]
         /\ \A i \in DOMAIN log : log'[i] = log[i]
<1> USE DEF Written
<1>1. /\ log \in Seq([item : Good, at : Nat]) /\ length \in Nat /\ start \in Starts
      /\ length <= start + Len(log) * (SizeMax + 5)
  BY DEF TypeOK
<1>2. [item |-> item, at |-> length] \in [item : Good, at : Nat]
  BY <1>1
<1> DEFINE e == [item |-> item, at |-> length]
<1>3. e \in [item : Good, at : Nat] /\ log' = Append(log, e)
  BY <1>2
<1> HIDE DEF e
<1>4. /\ log' \in Seq([item : Good, at : Nat])
      /\ Len(log') = Len(log) + 1 /\ DOMAIN log' = DOMAIN log \cup {Len(log) + 1}
      /\ log'[Len(log) + 1] = e
      /\ \A i \in DOMAIN log : log'[i] = log[i]
  BY <1>1, <1>3
<1> DEFINE K == SizeMax + 5
           n == Len(log)
<1>5. K \in Nat /\ n \in Nat /\ start \in Nat
  BY <1>1, Sizes, WireAssumption
<1>6. Length(item) \in Nat /\ Length(item) <= K
  BY ItemLength
<1>7. length' \in Nat /\ length' >= length /\ length' <= length + K
  BY <1>1, <1>5, <1>6
<1> HIDE DEF K, n
<1>8. (n + 1) * K = n * K + K /\ n * K \in Int
  BY <1>5
<1>9. length' <= start + (n + 1) * K
  BY <1>1, <1>5, <1>7, <1>8 DEF n, K
<1>10. Len(log') <= MaxWrites
  BY <1>1, <1>4, WireAssumption
<1> QED BY <1>1, <1>4, <1>7, <1>9, <1>10 DEF e, n, K

LEMMA LogStands ==
  ASSUME TypeOK, LogOK, NEW item, NEW m, NEW added, Written(item, m, added),
         \A o, i, e : StandsAt(o, i, e) => StandsAt(o, i, e)',
         NEW e, e = m + added, StandsAt(m, item, e)'
  PROVE  LogOK'
<1>1. /\ Len(log') = Len(log) + 1 /\ DOMAIN log' = DOMAIN log \cup {Len(log) + 1}
      /\ log'[Len(log) + 1] = [item |-> item, at |-> m]
      /\ \A i \in DOMAIN log : log'[i] = log[i]
  BY LogGrows
<1>2. Len(log) \in Nat /\ DOMAIN log = 1..Len(log)
  BY DEF TypeOK
<1>3. m = length /\ length' = length + added
  BY DEF Written
<1>4. ASSUME NEW i \in DOMAIN log PROVE StandsAt(log[i].at, log[i].item, End(i))'
  <2>1. End(i)' = End(i)
    <3>1. CASE i = Len(log)
      <4>1. i # Len(log') /\ log'[i + 1].at = m
        <5>1. log'[i + 1] = [item |-> item, at |-> m]
          BY <1>1, <3>1
        <5>2. i # Len(log')
          <6>1. \A x \in Nat : x # x + 1
            OBVIOUS
          <6> QED BY <1>1, <1>2, <3>1, <6>1, Zenon
        <5> QED BY <5>1, <5>2
      <4> QED BY <1>3, <3>1, <4>1 DEF End
    <3>2. CASE i # Len(log)
      <4>1. i + 1 \in DOMAIN log /\ i # Len(log')
        BY <1>1, <1>2, <3>2
      <4> QED BY <1>1, <3>2, <4>1 DEF End
    <3> QED BY <3>1, <3>2
  <2>2. PICK o, j, d : o = log[i].at /\ j = log[i].item /\ d = End(i)
    OBVIOUS
  <2>3. StandsAt(o, j, d)'
    BY <2>2 DEF LogOK
  <2>4. o = log'[i].at /\ j = log'[i].item /\ d = End(i)'
    BY <1>1, <2>1, <2>2
  <2> QED BY <2>3, <2>4
<1>5. ASSUME NEW i, i = Len(log) + 1 PROVE StandsAt(log[i].at, log[i].item, End(i))'
  <2>1. m = log'[i].at /\ item = log'[i].item
    BY <1>1, <1>5
  <2>2. End(i)' = e
    BY <1>1, <1>3, <1>5 DEF End
  <2> QED BY <2>1, <2>2
<1> QED BY <1>1, <1>4, <1>5 DEF LogOK

LEMMA LogSaves ==
  ASSUME TypeOK, PointersSave, NEW item, NEW m, NEW added, Written(item, m, added)
  PROVE  PointersSave'
<1> DEFINE n == Len(log)
           s == [i \in DOMAIN log |-> Length(log[i].item)]
           t == [i \in DOMAIN log' |-> Length(log'[i].item)]
<1>1. /\ Len(log') = n + 1 /\ DOMAIN log' = DOMAIN log \cup {n + 1}
      /\ log'[n + 1] = [item |-> item, at |-> m]
      /\ \A i \in DOMAIN log : log'[i] = log[i]
  BY LogGrows
<1>2. /\ n \in Nat /\ DOMAIN log = 1..n /\ DOMAIN log' = 1..(n + 1)
      /\ \A i \in 1..n : log[i].item \in Good
      /\ length \in Nat /\ start \in Nat
  <2>1. /\ log \in Seq([item : Good, at : Nat]) /\ length \in Nat /\ start \in Nat
    BY WireAssumption DEF TypeOK
  <2>2. n \in Nat /\ DOMAIN log = 1..n /\ \A i \in 1..n : log[i] \in [item : Good, at : Nat]
    <3> DEFINE R == [item : Good, at : Nat]
    <3>1. log \in Seq(R)
      BY <2>1
    <3> HIDE DEF R
    <3>2. Len(log) \in Nat /\ DOMAIN log = 1..Len(log) /\ \A i \in 1..Len(log) : log[i] \in R
      BY <3>1
    <3> QED BY <3>2 DEF R
  <2>3. DOMAIN log' = 1..(n + 1)
    <3>1. 1..(n + 1) = 1..n \cup {n + 1}
      BY <2>2
    <3> QED BY <1>1, <2>2, <3>1
  <2> QED BY <2>1, <2>2, <2>3
<1>3. item \in Good /\ start' = start /\ added \in Nat /\ length' = length + added
      /\ added <= Length(item) /\ Length(item) \in Nat
  BY ItemLength DEF Written
<1>4. s \in [1..n -> Int] /\ t \in [1..(n + 1) -> Int] /\ (\A i \in 1..n : t[i] = s[i])
      /\ t[n + 1] = Length(item)
  <2>1. \A i \in 1..n : Length(log[i].item) \in Int
    BY <1>2, ItemLength
  <2>2. \A i \in 1..(n + 1) : i \in 1..n \/ i = n + 1
    BY <1>2
  <2> HIDE DEF n
  <2> QED BY <1>1, <1>2, <1>3, <2>1, <2>2
<1>5. length - start <= Horner(1, 0, s) /\ (PointersSave' <=> length' - start' <= Horner(1, 0, t))
  BY DEF PointersSave
<1> HIDE DEF n, s, t
<1>6. \A base \in Int, first \in Int :
        /\ Horner(base, first, s) \in Int
        /\ Horner(base, first, t) = base * Horner(base, first, s) + t[n + 1]
  BY <1>2, <1>4, HornerAppend
<1>7. 1 \in Int /\ 0 \in Int
  OBVIOUS
<1>8. Horner(1, 0, s) \in Int /\ Horner(1, 0, t) = 1 * Horner(1, 0, s) + t[n + 1]
  BY <1>6, <1>7, Zenon
<1> QED BY <1>2, <1>3, <1>4, <1>5, <1>8

LEMMA PointerStep ==
  ASSUME IInv, NEW item \in Good, Len(log) < MaxWrites, WorthIt(item), WritePointer(item),
         log' = Append(log, [item |-> item, at |-> length]), start' = start
  PROVE  IInv'
<1> USE DEF IInv
<1>1. PICK r : r = positions[item].ref
  OBVIOUS
<1>2. PICK m : m = length
  OBVIOUS
<1>3. /\ item \in DOMAIN positions /\ KnownAt(item) /\ r \in Nat /\ m \in Nat
      /\ r + Length(item) <= m /\ Length(item) > RefLength(r) /\ Length(item) \in Nat
  <2>1. item \in DOMAIN positions /\ positions[item].length > RefLength(r)
    BY <1>1 DEF WorthIt, Known
  <2>2. KnownAt(item)
    BY <2>1 DEF PositionsOK
  <2> QED BY <1>1, <1>2, <2>1, <2>2, ItemLength DEF KnownAt, TypeOK
<1>4. r \div Power256(4) = 0
  <2>1. r <= length
    BY <1>2, <1>3
  <2> QED BY <1>3, <2>1, RefFits
<1>5. Ref(r) \in Seq(Byte) /\ Len(Ref(r)) = RefLength(r) /\ RefLength(r) \in Nat
  <2>1. /\ Ref(r) \in Seq(Byte) /\ Len(Ref(r)) = RefLength(r)
    BY <1>3, <1>4, RefBytes
  <2> QED BY <2>1
<1>6. /\ byte' = Put(Ref(r)) /\ length' = length + RefLength(r)
      /\ payload' = payload /\ positions' = positions
  BY <1>1, <1>5 DEF WritePointer
<1>7. /\ DOMAIN byte' = DOMAIN byte \cup length..(length + Len(Ref(r)) - 1)
      /\ \A o \in DOMAIN byte : byte'[o] = byte[o]
      /\ Holds(m, Ref(r))'
  BY <1>2, <1>5, <1>6, PutStands
<1>8. Written(item, m, RefLength(r))
  BY <1>2, <1>3, <1>5, <1>6 DEF Written
<1>9. /\ start' \in Starts /\ length' \in Nat /\ length' >= length
      /\ log' \in Seq([item : Good, at : Nat]) /\ Len(log') <= MaxWrites
      /\ length' <= start' + Len(log') * (SizeMax + 5)
  BY <1>8, LogGrows
<1>10. /\ \A i \in DOMAIN positions : KnownAt(i) => KnownAt(i)'
       /\ \A o, i, e : StandsAt(o, i, e) => StandsAt(o, i, e)'
  BY <1>6, <1>7, <1>9, Kept
<1>11. PICK e : e = m + RefLength(r)
  OBVIOUS
<1>12. StandsAt(m, item, e)'
  <2>1. item \in DOMAIN positions' /\ r = positions'[item].ref
    BY <1>1, <1>3, <1>6
  <2> QED BY <1>7, <1>11, <2>1 DEF StandsAt, PointsTo
<1>13. LogOK'
  BY <1>8, <1>10, <1>11, <1>12, LogStands
<1>14. PointersSave'
  BY <1>8, LogSaves
<1>15. PositionsOK'
  BY <1>6, <1>10 DEF PositionsOK
<1>16. TypeOK'
  <2>1. \A o \in DOMAIN byte' : o \in Nat /\ o < length'
    BY <1>2, <1>3, <1>5, <1>6, <1>7 DEF TypeOK
  <2>2. \A o \in DOMAIN payload' : o \in Nat /\ o <= length'
    BY <1>2, <1>3, <1>6, <1>9 DEF TypeOK
  <2> QED BY <1>9, <2>1, <2>2 DEF TypeOK
<1> QED BY <1>13, <1>14, <1>15, <1>16

LEMMA WholeStep ==
  ASSUME IInv, NEW item \in Good, Len(log) < MaxWrites, WriteWhole(item),
         log' = Append(log, [item |-> item, at |-> length]), start' = start
  PROVE  IInv'
<1> USE DEF IInv
<1>1. PICK m : m = length
  OBVIOUS
<1>2. m \in Nat /\ Length(item) \in Nat /\ Len(Bytes(item)) \in Nat /\ Len(Bytes(item)) > 0
      /\ Length(item) >= Len(Bytes(item)) /\ Bytes(item) \in Seq(Byte)
  BY <1>1, ItemLength, ItemBytes DEF TypeOK
<1>3. /\ byte' = Put(Bytes(item)) /\ length' = length + Length(item)
      /\ payload' = IF HasPayload(item)
                    THEN [o \in DOMAIN payload \cup {length + Len(Bytes(item))} |->
                            IF o = length + Len(Bytes(item)) THEN item.holds ELSE payload[o]]
                    ELSE payload
      /\ positions' = IF Known(item) THEN positions
                      ELSE [i \in DOMAIN positions \cup {item} |->
                              IF i = item THEN [ref |-> length, length |-> Length(item)]
                                          ELSE positions[i]]
  BY DEF WriteWhole
<1>4. /\ DOMAIN byte' = DOMAIN byte \cup length..(length + Len(Bytes(item)) - 1)
      /\ \A o \in DOMAIN byte : byte'[o] = byte[o]
      /\ Holds(m, Bytes(item))'
  BY <1>1, <1>2, <1>3, PutStands
<1>5. Written(item, m, Length(item))
  BY <1>1, <1>2, <1>3 DEF Written
<1>6. /\ start' \in Starts /\ length' \in Nat /\ length' >= length
      /\ log' \in Seq([item : Good, at : Nat]) /\ Len(log') <= MaxWrites
      /\ length' <= start' + Len(log') * (SizeMax + 5)
  BY <1>5, LogGrows
<1>7. \A o \in DOMAIN payload : o \in DOMAIN payload' /\ payload'[o] = payload[o]
  <2>1. length + Len(Bytes(item)) \notin DOMAIN payload
    BY <1>1, <1>2 DEF TypeOK
  <2> QED BY <1>3, <2>1
<1>8. \A i \in DOMAIN positions : i \in DOMAIN positions' /\ positions'[i] = positions[i]
  BY <1>3 DEF Known
<1>9. /\ \A i \in DOMAIN positions : KnownAt(i) => KnownAt(i)'
      /\ \A o, i, e : StandsAt(o, i, e) => StandsAt(o, i, e)'
  BY <1>4, <1>6, <1>7, <1>8, Kept
<1>10. WholeAt(m, item)'
  <2>1. HasPayload(item) => /\ m + Len(Bytes(item)) \in DOMAIN payload'
                            /\ payload'[m + Len(Bytes(item))] = item.holds
    BY <1>1, <1>3
  <2> QED BY <1>4, <2>1 DEF WholeAt
<1>11. PICK e : e = m + Length(item)
  OBVIOUS
<1>12. StandsAt(m, item, e)'
  BY <1>10, <1>11 DEF StandsAt
<1>13. LogOK'
  BY <1>5, <1>9, <1>11, <1>12, LogStands
<1>14. PointersSave'
  BY <1>5, LogSaves
<1>15. PositionsOK'
  <2>1. ASSUME NEW i \in DOMAIN positions PROVE KnownAt(i)'
    BY <1>9 DEF PositionsOK
  <2>2. ASSUME item \notin DOMAIN positions PROVE KnownAt(item)'
    <3>1. positions'[item] = [ref |-> m, length |-> Length(item)]
      BY <1>1, <1>3, <2>2 DEF Known
    <3>2. m + Length(item) <= length'
      BY <1>1, <1>2, <1>3
    <3>3. m = positions'[item].ref /\ positions'[item].length = Length(item)
      BY <3>1
    <3> QED BY <1>2, <1>10, <3>2, <3>3 DEF KnownAt
  <2>3. DOMAIN positions' \subseteq DOMAIN positions \cup {item}
    BY <1>3
  <2> QED BY <2>1, <2>2, <2>3 DEF PositionsOK
<1>16. TypeOK'
  <2>1. \A o \in DOMAIN byte' : o \in Nat /\ o < length'
    BY <1>1, <1>2, <1>3, <1>4 DEF TypeOK
  <2>2. \A o \in DOMAIN payload' : o \in Nat /\ o <= length'
    BY <1>1, <1>2, <1>3, <1>6 DEF TypeOK
  <2> QED BY <1>6, <2>1, <2>2 DEF TypeOK
<1> QED BY <1>13, <1>14, <1>15, <1>16

\* In every reachable state the known values stand where they are said to, and
\* so does all that was written.
THEOREM Invariance == Spec => []IInv
<1>1. Init => IInv
  <2> SUFFICES ASSUME Init PROVE IInv
    OBVIOUS
  <2>1. DOMAIN log = {} /\ Len(log) = 0 /\ DOMAIN positions = {} /\ DOMAIN byte = {}
        /\ DOMAIN payload = {} /\ log \in Seq([item : Good, at : Nat])
    BY DEF Init
  <2>2. start \in Nat /\ MaxWrites \in Nat
    BY WireAssumption DEF Init
  <2>3. 0 * (SizeMax + 5) = 0
    BY Sizes
  <2>4. TypeOK
    BY <2>1, <2>2, <2>3 DEF TypeOK, Init
  <2>5. PositionsOK /\ LogOK
    BY <2>1 DEF PositionsOK, LogOK
  <2>6. PointersSave
    <3> DEFINE s == [i \in DOMAIN log |-> Length(log[i].item)]
    <3>1. s \in [1..0 -> Int]
      BY <2>1
    <3> HIDE DEF s
    <3>2. \A base \in Int, first \in Int : Horner(base, first, s) = first
      BY <3>1, HornerEmpty
    <3>3. 1 \in Int /\ 0 \in Int
      OBVIOUS
    <3>4. Horner(1, 0, s) = 0
      BY <3>2, <3>3, Zenon
    <3>5. length - start <= 0
      BY <2>2 DEF Init
    <3> QED BY <3>4, <3>5 DEF PointersSave, s
  <2> QED BY <2>4, <2>5, <2>6 DEF IInv
<1>2. IInv /\ [Next]_vars => IInv'
  <2> SUFFICES ASSUME IInv, [Next]_vars PROVE IInv'
    OBVIOUS
  <2>1. ASSUME NEW item \in Items, WriteOrRef(item) PROVE IInv'
    <3>1. item \in Good
      BY <2>1 DEF WriteOrRef, Good
    <3>2. CASE WorthIt(item)
      BY <2>1, <3>1, <3>2, PointerStep DEF WriteOrRef
    <3>3. CASE ~WorthIt(item)
      BY <2>1, <3>1, <3>3, WholeStep DEF WriteOrRef
    <3> QED BY <3>2, <3>3
  <2>2. ASSUME UNCHANGED vars PROVE IInv'
    BY <2>2 DEF vars, IInv, TypeOK, PositionsOK, KnownAt, WholeAt, Holds, LogOK, StandsAt,
       PointsTo, End, PointersSave
  <2>3. ASSUME NEW item \in Items, WriteFails(item) PROVE IInv'
    BY <2>2, <2>3 DEF WriteFails
  <2> QED BY <2>1, <2>2, <2>3 DEF Next
<1> QED BY <1>1, <1>2, PTL DEF Spec

\* The reader decodes every value that the writer wrote, and every pointer to
\* one, of whatever width, to what was written, and steps from each to the next.
LEMMA EntryReads ==
  ASSUME IInv, NEW i \in DOMAIN log
  PROVE  Decode(log[i].at) = log[i].item /\ NextOffset(log[i].at) = End(i)
<1> USE DEF IInv
<1>1. PICK o, item, e : o = log[i].at /\ item = log[i].item /\ e = End(i)
  OBVIOUS
<1>2. o \in Nat /\ item \in Good
  <2> DEFINE R == [item : Good, at : Nat]
  <2>1. log \in Seq(R)
    BY DEF TypeOK
  <2> HIDE DEF R
  <2>2. log[i] \in R
    BY <2>1
  <2> QED BY <1>1, <2>2 DEF R
<1>3. StandsAt(o, item, e)
  BY <1>1 DEF LogOK
<1>4. CASE WholeAt(o, item) /\ e = o + Length(item)
  BY <1>1, <1>2, <1>4, WholeReads
<1>5. CASE PointsTo(o, item, e)
  <2>1. PICK r : r = positions[item].ref
    OBVIOUS
  <2>2. /\ r \in Nat /\ WholeAt(r, item) /\ r <= length
        /\ Holds(o, Ref(r)) /\ e = o + RefLength(r)
    <3>1. KnownAt(item)
      BY <1>5 DEF PointsTo, PositionsOK
    <3>2. r \in Nat /\ WholeAt(r, item) /\ r + Length(item) <= length
      BY <2>1, <3>1 DEF KnownAt
    <3>3. r <= length
      BY <1>2, <3>2, ItemLength DEF TypeOK
    <3>4. Holds(o, Ref(r)) /\ e = o + RefLength(r)
      BY <1>5, <2>1 DEF PointsTo
    <3> QED BY <3>2, <3>3, <3>4
  <2>3. r \div Power256(4) = 0
    BY <2>2, RefFits
  <2>4. /\ Ctrl(o).type = TypePointer
        /\ PointerAt(Ctrl(o).size, Ctrl(o).next) = [ref |-> r, next |-> o + RefLength(r)]
    BY <1>2, <2>2, <2>3, RefReads
  <2>5. Target(o) = r
    BY <2>4 DEF Target
  <2>6. Ctrl(r).type # TypePointer /\ Decode(r) = item
    BY <1>2, <2>2, WholeReads
  <2>7. Decode(o) = Decode(r)
    <3>1. Target(r) = r
      BY <2>6 DEF Target
    <3> QED BY <2>5, <3>1 DEF Decode
  <2>8. NextOffset(o) = e
    <3>1. NextOffset(o) = PointerAt(Ctrl(o).size, Ctrl(o).next).next
      BY <2>4 DEF NextOffset, TypePointer, TypeBool
    <3>2. PointerAt(Ctrl(o).size, Ctrl(o).next).next = o + RefLength(r)
      BY <2>4
    <3> QED BY <2>2, <3>1, <3>2
  <2> QED BY <1>1, <2>6, <2>7, <2>8
<1> QED BY <1>3, <1>4, <1>5 DEF StandsAt

\* dataSerializer.WriteOrRef and dataDecoder.decode agree: every value, and every
\* pointer of whatever width, decodes to what was written, at every offset.
THEOREM Reads == Spec => []ReadsBack
<1>1. IInv => ReadsBack
  BY EntryReads DEF ReadsBack
<1> QED BY <1>1, Invariance, PTL

\* nextValueOffset steps from each value to the next, and to the end.
THEOREM Steps == Spec => []StepsOver
<1>1. IInv => StepsOver
  BY EntryReads DEF StepsOver, End
<1> QED BY <1>1, Invariance, PTL

\* A pointer is only written where it is shorter than the value.
THEOREM Saves == Spec => []PointersSave
<1>1. IInv => PointersSave
  BY DEF IInv
<1> QED BY <1>1, Invariance, PTL
=============================================================================
