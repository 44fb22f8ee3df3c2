--------------------------- MODULE DataSectionProofs ---------------------------
(***************************************************************************)
(* Proofs about DataSection: that pointers lead to values and not to other *)
(* pointers, that what was written stands whole, and that a map or slice   *)
(* with parts stands only once.                                            *)
(***************************************************************************)
EXTENDS DataSection, NumberLemmas, TLAPS, SequenceTheorems
-----------------------------------------------------------------------------
(***************************************************************************)
(* The invariants.                                                         *)
(***************************************************************************)
CellRecords == {Cell(t) : t \in DataItems} \cup {Pointer(r) : r \in Nat}
AllKeys == {KeyOf(t) : t \in DataItems}
CallRecords == [value : DataItems, key : AllKeys, known : BOOLEAN, starts : Seq(Nat), length : Nat]

TypeOK ==
  /\ buf \in Seq(CellRecords)
  /\ positions \in [DOMAIN positions -> [ref : Nat, length : Nat]]
  /\ DOMAIN positions \subseteq AllKeys
  /\ calls \in Seq(CallRecords)
  /\ offsets \in [DOMAIN offsets -> Nat] /\ DOMAIN offsets \subseteq DataItems
  /\ stands \in [DOMAIN stands -> [value : DataItems, starts : Seq(Nat)]]
  /\ DOMAIN stands \subseteq DOMAIN buf

\* A call of Serialize has written its header and some parts, one behind the other.
PartsWritten(c) ==
  \A i \in 1..(Len(c.starts) - 1) : /\ Stands(c.starts[i], c.value.items[i])
                                    /\ c.starts[i + 1] = End(c.starts[i])
CallStands(c) ==
  /\ Len(c.starts) \in 1..(Len(c.value.items) + 1)
  /\ RefOf(c) \in DOMAIN buf \ DOMAIN stands /\ buf[RefOf(c)] = Cell(c.value)
  /\ c.key = KeyOf(c.value)
  /\ c.length >= CellLength(c.value) + Len(c.starts) - 1
  /\ PartsWritten(c)
Open(c) == \E n \in DOMAIN calls : calls[n] = c
CallsStand == \A c \in CallRecords : Open(c) => CallStands(c)

\* Each call but the innermost waits for the next one, which writes a part of it.
NextStart(c) == c.starts[Len(c.starts)]
Waits(c, d) ==
  /\ Len(c.starts) <= Len(c.value.items)
  /\ d.value = c.value.items[Len(c.starts)] /\ NextStart(c) = RefOf(d)
Nested(cs) ==
  /\ \A n \in 1..(Len(cs) - 1) : Waits(cs[n], cs[n + 1])
  /\ \A m, n \in 1..Len(cs) : m < n => /\ Depth(cs[n].value) < Depth(cs[m].value)
                                       /\ RefOf(cs[m]) < RefOf(cs[n])
CallsNest == Nested(calls) /\ (calls # <<>> => NextStart(Top) = Len(buf) + 1)

\* What has a position stands there itself.
PositionStands(h) ==
  LET r == positions[h].ref
  IN  /\ r \in DOMAIN stands /\ ~IsPointer(r) /\ KeyOf(stands[r].value) = h
      /\ stands[r].value.items # <<>> => positions[h].length > PointerLength
PositionsStand == \A h \in DOMAIN positions : PositionStands(h)

StandsRight(o) ==
  IF IsPointer(o) THEN Stands(buf[o].size, stands[o].value) /\ End(o) = o + 1
  ELSE StandsWhole(o, stands[o].value, stands[o].starts)
AllStandRight == \A o \in DOMAIN stands : StandsRight(o)
OffsetsStand == \A t \in DOMAIN offsets : Stands(offsets[t], t) /\ ~IsPointer(offsets[t])

Layout == /\ TypeOK /\ PointersAreDirect /\ CallsStand /\ CallsNest
          /\ PositionsStand /\ AllStandRight /\ OffsetsStand

\* What is remembered of a call: that its value had a short position, or none.
CallKnows(c) ==
  IF c.known THEN c.key \in DOMAIN positions /\ positions[c.key].length <= PointerLength
  ELSE c.key \notin DOMAIN positions
CallsKnow == \A c \in CallRecords : Open(c) => CallKnows(c)

\* A value with parts that stands somewhere itself has its position there.
FullAt(o) == o \in DOMAIN stands /\ ~IsPointer(o) /\ stands[o].value.items # <<>>
OnlyOnce ==
  \A o \in DOMAIN stands :
    FullAt(o) => /\ KeyOf(stands[o].value) \in DOMAIN positions
                 /\ positions[KeyOf(stands[o].value)].ref = o

\* Every cell is that of a value that stands, or of one that is being written; and
\* every value is a part of one that has an offset, or will get one.
Covered == \A o \in DOMAIN buf : o \in DOMAIN stands \/ \E n \in DOMAIN calls : RefOf(calls[n]) = o
IsPartOfSome(t) ==
  \/ \E v \in DOMAIN offsets : t \in AllParts(v)
  \/ calls # <<>> /\ t \in AllParts(calls[1].value)
AllArePartsOfSome ==
  /\ \A o \in DOMAIN stands : IsPartOfSome(stands[o].value)
  /\ \A n \in DOMAIN calls : calls[n].value \in AllParts(calls[1].value)

Sharing == CallsKnow /\ OnlyOnce /\ Covered /\ AllArePartsOfSome
-----------------------------------------------------------------------------
(***************************************************************************)
(* Values and their keys.                                                  *)
(***************************************************************************)

\* The hash of a value does not depend on what was hashed before.
LEMMA HashedKey ==
  \A hb, t : Hashed(hb, t).digest = KeyOf(t)
BY DEF Hashed, KeyOf

LEMMA SumIsWhole ==
  ASSUME NEW S, NEW p \in Seq(S)
  PROVE  LET sum == Sum(DigestWrite(NewDigest, p))
         IN  /\ sum[1] = SubSeq(p, 1, WholeBlocks(p))
             /\ sum[2] = SubSeq(p, WholeBlocks(p) + 1, Len(p))
             /\ sum[3] = Len(p)
<1>1. <<>> \o p = p
  OBVIOUS
<1>2. NewDigest.tail = <<>> /\ NewDigest.h1 = <<>> /\ NewDigest.clen = 0
  BY DEF NewDigest
<1>3. <<>> \o SubSeq(p, 1, WholeBlocks(p)) = SubSeq(p, 1, WholeBlocks(p))
  <2>1. WholeBlocks(p) \in 0..Len(p)
    BY DEF WholeBlocks, BlockSize
  <2>2. SubSeq(p, 1, WholeBlocks(p)) \in Seq(S)
    BY <2>1
  <2> QED BY <2>2
<1>4. Bmix(<<>>, p).h1 = SubSeq(p, 1, WholeBlocks(p)) /\ Bmix(<<>>, p).tail = SubSeq(p, WholeBlocks(p) + 1, Len(p))
  BY <1>3 DEF Bmix
<1>5. DigestWrite(NewDigest, p) = [clen |-> Len(p), tail |-> Bmix(<<>>, p).tail, h1 |-> Bmix(<<>>, p).h1]
  BY <1>1, <1>2 DEF DigestWrite
<1> QED BY <1>4, <1>5 DEF Sum

\* Two values of one key are the same.
LEMMA KeysTell ==
  ASSUME NEW t \in DataItems, NEW u \in DataItems, KeyOf(t) = KeyOf(u)
  PROVE  t = u
<1> DEFINE S == {Cell(v) : v \in DataItems}
           p == CellsOf(t)
           q == CellsOf(u)
<1>1. p \in Seq(S) /\ q \in Seq(S)
  BY CellsAssumption
<1>2. Sum(DigestWrite(NewDigest, p)) = Sum(DigestWrite(NewDigest, q))
  BY DEF KeyOf, Hashed
<1>6. (p = q) => (t = u)
  BY CellsAssumption
<1> HIDE DEF S, p, q
<1>3. /\ Len(p) = Len(q) /\ SubSeq(p, 1, WholeBlocks(p)) = SubSeq(q, 1, WholeBlocks(q))
      /\ SubSeq(p, WholeBlocks(p) + 1, Len(p)) = SubSeq(q, WholeBlocks(q) + 1, Len(q))
  BY <1>1, <1>2, SumIsWhole
<1> DEFINE w == WholeBlocks(p)
           n == Len(p)
<1>4. w \in 0..n /\ w = WholeBlocks(q) /\ n \in Nat /\ n = Len(q)
  BY <1>1, <1>3 DEF WholeBlocks, BlockSize
<1> HIDE DEF w, n
<1>5. \A i \in 1..n : p[i] = q[i]
  <2> SUFFICES ASSUME NEW i \in 1..n PROVE p[i] = q[i]
    OBVIOUS
  <2>1. CASE i <= w
    <3>1. SubSeq(p, 1, w)[i] = p[i] /\ SubSeq(q, 1, w)[i] = q[i]
      BY <1>1, <1>4, <2>1 DEF n
    <3> QED BY <1>3, <1>4, <3>1 DEF w
  <2>2. CASE i > w
    <3>1. i - w \in 1..(n - w)
      BY <1>4, <2>2
    <3>2. SubSeq(p, w + 1, n)[i - w] = p[i] /\ SubSeq(q, w + 1, n)[i - w] = q[i]
      BY <1>1, <1>4, <3>1 DEF n
    <3> QED BY <1>3, <1>4, <3>2 DEF w, n
  <2> QED BY <1>4, <2>1, <2>2
<1>7. p = q
  BY <1>1, <1>4, <1>5, SeqEqual DEF n
<1> QED BY <1>6, <1>7

\* The parts of a value are values, less deep.
LEMMA PartsAreValues ==
  ASSUME NEW t \in DataItems
  PROVE  /\ t.items \in Seq(DataItems) /\ Len(t.items) \in Nat
         /\ \A i \in 1..Len(t.items) : t.items[i] \in DataItems /\ Depth(t.items[i]) < Depth(t)
         /\ Depth(t) \in Nat /\ KeyOf(t) \in AllKeys
         /\ CellLength(t) \in Nat /\ CellLength(t) > 0
         /\ Cell(t) \in CellRecords /\ Cell(t).type # "pointer"
<1>1. /\ t \in [type : STRING, text : STRING, num : Int, items : Seq(DataItems)]
      /\ t.type # "pointer" /\ Depth(t) \in Nat /\ CellLength(t) \in Nat \ {0}
      /\ \A i \in DOMAIN t.items : Depth(t.items[i]) < Depth(t)
  BY DataItemsAssumption
<1>2. Cell(t) \in CellRecords
  BY DEF CellRecords
<1>3. Cell(t) \in CellRecords /\ Cell(t).type = t.type
  BY <1>2 DEF Cell
<1> QED BY <1>1, <1>3 DEF AllKeys
-----------------------------------------------------------------------------
(***************************************************************************)
(* What stands stays.                                                      *)
(***************************************************************************)
Grows ==
  /\ \A o \in DOMAIN stands : o \in DOMAIN stands' /\ stands'[o] = stands[o]
  /\ \A o \in DOMAIN buf : o \in DOMAIN buf' /\ buf'[o] = buf[o]

LEMMA StandsStays ==
  ASSUME Grows, NEW o, NEW t, Stands(o, t)
  PROVE  Stands(o, t)' /\ End(o)' = End(o)
BY DEF Grows, Stands, End

LEMMA PointerStays ==
  ASSUME Grows, NEW o \in DOMAIN buf
  PROVE  IsPointer(o)' <=> IsPointer(o)
BY DEF Grows, IsPointer

LEMMA StandsRightStays ==
  ASSUME TypeOK, Grows, NEW o \in DOMAIN stands, StandsRight(o)
  PROVE  StandsRight(o)'
<1>1. o \in DOMAIN buf /\ o \in DOMAIN stands'
  BY DEF TypeOK, Grows
<1>2. buf'[o] = buf[o] /\ stands'[o] = stands[o] /\ End(o)' = End(o)
  BY <1>1 DEF Grows, End
<1>3. CASE IsPointer(o)
  <2>1. Stands(buf[o].size, stands[o].value)' /\ End(o) = o + 1
    <3> DEFINE p == buf[o].size
               t == stands[o].value
    <3>1. Stands(p, t) /\ End(o) = o + 1
      BY <1>3 DEF StandsRight
    <3>2. p \in DOMAIN stands /\ stands[p].value = t
      BY <3>1 DEF Stands
    <3>3. p \in DOMAIN stands' /\ stands'[p].value = t
      BY <3>2 DEF Grows
    <3> QED BY <1>2, <3>1, <3>3 DEF Stands
  <2> QED BY <1>1, <1>2, <1>3, <2>1, PointerStays DEF StandsRight, Stands
<1>4. CASE ~IsPointer(o)
  <2> PICK t, starts : t = stands[o].value /\ starts = stands[o].starts
    OBVIOUS
  <2>1. StandsWhole(o, t, starts)
    BY <1>4 DEF StandsRight
  <2>2. \A i \in DOMAIN t.items : /\ Stands(starts[i], t.items[i])'
                                  /\ starts[i + 1] = End(starts[i])'
    BY <2>1, StandsStays DEF StandsWhole
  <2>3. StandsWhole(o, t, starts)'
    BY <1>2, <2>1, <2>2 DEF StandsWhole
  <2>4. ~IsPointer(o)' /\ t = stands'[o].value /\ starts = stands'[o].starts
    BY <1>1, <1>2, <1>4, PointerStays
  <2> QED BY <2>3, <2>4 DEF StandsRight
<1> QED BY <1>3, <1>4

LEMMA PositionStays ==
  ASSUME TypeOK, Grows, NEW h \in DOMAIN positions, PositionStands(h),
         h \in DOMAIN positions', positions'[h] = positions[h]
  PROVE  PositionStands(h)'
<1> PICK r : r = positions[h].ref
  OBVIOUS
<1>1. r \in DOMAIN stands /\ r \in DOMAIN buf /\ ~IsPointer(r)
  BY DEF PositionStands, TypeOK
<1>2. r \in DOMAIN stands' /\ stands'[r] = stands[r] /\ ~IsPointer(r)'
  BY <1>1, PointerStays DEF Grows
<1> QED BY <1>2 DEF PositionStands

\* A call that waits, and one that goes on behind a part.
LEMMA CallStays ==
  ASSUME TypeOK, Grows, NEW c \in CallRecords, CallStands(c), RefOf(c) \notin DOMAIN stands'
  PROVE  CallStands(c)'
<1>1. RefOf(c) \in DOMAIN buf /\ buf[RefOf(c)] = Cell(c.value)
  BY DEF CallStands
<1>2. RefOf(c) \in DOMAIN buf' /\ buf'[RefOf(c)] = Cell(c.value)
  BY <1>1 DEF Grows
<1>3. PartsWritten(c)'
  BY StandsStays DEF CallStands, PartsWritten
<1> QED BY <1>2, <1>3 DEF CallStands, RefOf

GoneOn(c, end, length) == [c EXCEPT !.starts = Append(@, end), !.length = @ + length]

LEMMA CallGoesOn ==
  ASSUME TypeOK, Grows, NEW c \in CallRecords, NEW d \in CallRecords,
         CallStands(c), RefOf(c) \notin DOMAIN stands', Len(c.starts) <= Len(c.value.items),
         NEW end \in Nat, NEW length \in Nat, length > 0,
         d = GoneOn(c, end, length),
         Stands(NextStart(c), c.value.items[Len(c.starts)])', end = End(NextStart(c))'
  PROVE  /\ CallStands(d)' /\ RefOf(d) = RefOf(c) /\ NextStart(d) = end
         /\ Len(d.starts) = Len(c.starts) + 1 /\ d.value = c.value
<1>1. CallStands(c)'
  BY CallStays
<1>2. c.starts \in Seq(Nat) /\ Len(c.starts) \in Nat /\ c.value \in DataItems /\ c.length \in Nat
  BY DEF CallRecords
<1>3. /\ d.value = c.value /\ d.key = c.key /\ d.starts = Append(c.starts, end)
      /\ d.length = c.length + length
  BY DEF CallRecords, GoneOn
<1>4. /\ Len(d.starts) = Len(c.starts) + 1 /\ d.starts[Len(c.starts) + 1] = end
      /\ \A i \in 1..Len(c.starts) : d.starts[i] = c.starts[i]
  BY <1>2, <1>3
<1>5. Len(c.starts) >= 1
  BY <1>2 DEF CallStands
<1>6. RefOf(d) = RefOf(c)
  <2>1. 1 \in 1..Len(c.starts)
    BY <1>2, <1>5
  <2>2. d.starts[1] = c.starts[1]
    BY <1>4, <2>1
  <2> QED BY <2>2 DEF RefOf
<1>7. PartsWritten(d)'
  <2> SUFFICES ASSUME NEW i \in 1..Len(c.starts)
               PROVE  /\ Stands(d.starts[i], c.value.items[i])'
                      /\ d.starts[i + 1] = End(d.starts[i])'
    <3>1. 1..(Len(d.starts) - 1) = 1..Len(c.starts)
      BY <1>2, <1>4
    <3> QED BY <1>3, <3>1 DEF PartsWritten
  <2>1. CASE i < Len(c.starts)
    <3>1. i \in 1..(Len(c.starts) - 1) /\ i + 1 \in 1..Len(c.starts)
      BY <1>2, <2>1
    <3>2. Stands(c.starts[i], c.value.items[i])' /\ c.starts[i + 1] = End(c.starts[i])'
      BY <1>1, <3>1 DEF CallStands, PartsWritten
    <3>3. d.starts[i] = c.starts[i] /\ d.starts[i + 1] = c.starts[i + 1]
      BY <1>4, <3>1
    <3> QED BY <3>2, <3>3
  <2>2. CASE i = Len(c.starts)
    BY <1>4, <2>2 DEF NextStart
  <2> QED BY <1>2, <2>1, <2>2
<1>8. CellLength(c.value) \in Nat /\ Len(c.value.items) \in Nat
  BY <1>2, PartsAreValues
<1>9. Len(d.starts) \in 1..(Len(d.value.items) + 1)
  BY <1>2, <1>3, <1>4, <1>5, <1>8
<1>10. d.length >= CellLength(d.value) + Len(d.starts) - 1
  <2>1. c.length >= CellLength(c.value) + Len(c.starts) - 1
    BY DEF CallStands
  <2> QED BY <1>2, <1>3, <1>4, <1>8, <2>1
<1>11. /\ RefOf(c) \in DOMAIN buf' /\ RefOf(c) \notin DOMAIN stands'
       /\ buf'[RefOf(c)] = Cell(c.value) /\ c.key = KeyOf(c.value)
  BY <1>1 DEF CallStands, RefOf
<1>12. CallStands(d)'
  BY <1>3, <1>6, <1>7, <1>9, <1>10, <1>11 DEF CallStands, RefOf
<1> QED BY <1>3, <1>4, <1>6, <1>12 DEF NextStart
-----------------------------------------------------------------------------
(***************************************************************************)
(* The stack of calls.                                                     *)
(***************************************************************************)
LEMMA Resumed ==
  ASSUME NEW cs \in Seq(CallRecords), NEW end \in Nat, NEW length \in Nat,
         NEW r, r = Resume(cs, end, length)
  PROVE  /\ r \in Seq(CallRecords) /\ Len(r) = Len(cs)
         /\ \A n \in 1..(Len(cs) - 1) : r[n] = cs[n]
         /\ cs = <<>> => r = <<>>
         /\ cs # <<>> => r[Len(cs)] = GoneOn(cs[Len(cs)], end, length)
<1>1. DOMAIN cs = 1..Len(cs) /\ Len(cs) \in Nat
  OBVIOUS
<1>2. ASSUME NEW n \in 1..Len(cs) PROVE r[n] \in CallRecords
  <2>1. cs[n] \in CallRecords
    OBVIOUS
  <2>2. Append(cs[n].starts, end) \in Seq(Nat) /\ cs[n].length + length \in Nat
    BY <2>1 DEF CallRecords
  <2>3. [cs[n] EXCEPT !.starts = Append(@, end), !.length = @ + length] \in CallRecords
    BY <2>1, <2>2 DEF CallRecords
  <2>4. CASE n < Len(cs)
    BY <1>1, <2>1, <2>4 DEF Resume
  <2>5. CASE ~(n < Len(cs))
    BY <1>1, <2>3, <2>5 DEF Resume
  <2> QED BY <2>4, <2>5
<1>3. DOMAIN r = 1..Len(cs)
  BY <1>1 DEF Resume
<1>6. r = [n \in DOMAIN cs |-> r[n]]
  BY DEF Resume
<1> HIDE DEF CallRecords
<1>4. r \in Seq(CallRecords) /\ Len(r) = Len(cs)
  <2>1. r \in [1..Len(cs) -> CallRecords]
    BY <1>1, <1>2, <1>6
  <2> QED BY <1>1, <2>1, SeqDef, LenProperties
<1>5. /\ \A n \in 1..(Len(cs) - 1) : r[n] = cs[n]
      /\ cs # <<>> => r[Len(cs)] = GoneOn(cs[Len(cs)], end, length)
  <2>1. \A n \in 1..(Len(cs) - 1) : n \in DOMAIN cs /\ n < Len(cs)
    BY <1>1
  <2>2. cs # <<>> => Len(cs) \in DOMAIN cs /\ ~(Len(cs) < Len(cs))
    BY <1>1
  <2> QED BY <2>1, <2>2 DEF Resume, GoneOn
<1>7. cs = <<>> => r = <<>>
  BY <1>4
<1> QED BY <1>4, <1>5, <1>7

LEMMA ResumedNests ==
  ASSUME NEW cs \in Seq(CallRecords), Nested(cs), cs # <<>>,
         \A n \in 1..Len(cs) : Len(cs[n].starts) >= 1,
         NEW end \in Nat, NEW length \in Nat,
         NEW r, r = Resume(cs, end, length)
  PROVE  /\ Nested(r)
         /\ \A n \in 1..Len(cs) : /\ RefOf(r[n]) = RefOf(cs[n]) /\ r[n].value = cs[n].value
                                  /\ r[n].key = cs[n].key /\ r[n].known = cs[n].known
<1>1. /\ r \in Seq(CallRecords) /\ Len(r) = Len(cs) /\ Len(cs) \in Nat /\ Len(cs) > 0
      /\ \A n \in 1..(Len(cs) - 1) : r[n] = cs[n]
      /\ r[Len(cs)] = GoneOn(cs[Len(cs)], end, length)
  <2>1. Len(cs) \in Nat /\ Len(cs) > 0
    OBVIOUS
  <2> HIDE DEF CallRecords
  <2>2. r \in Seq(CallRecords)
    BY Resumed
  <2>3. Len(r) = Len(cs)
    BY Resumed
  <2>4. \A n \in 1..(Len(cs) - 1) : r[n] = cs[n]
    BY Resumed
  <2>5. r[Len(cs)] = GoneOn(cs[Len(cs)], end, length)
    BY Resumed
  <2> QED BY <2>1, <2>2, <2>3, <2>4, <2>5
<1>2. /\ RefOf(r[Len(cs)]) = RefOf(cs[Len(cs)]) /\ r[Len(cs)].value = cs[Len(cs)].value
      /\ r[Len(cs)].key = cs[Len(cs)].key /\ r[Len(cs)].known = cs[Len(cs)].known
  <2>1. cs[Len(cs)] \in CallRecords /\ Len(cs[Len(cs)].starts) >= 1
    BY <1>1
  <2>2. cs[Len(cs)].starts \in Seq(Nat)
    BY <2>1 DEF CallRecords
  <2>3. /\ r[Len(cs)].starts = Append(cs[Len(cs)].starts, end)
        /\ r[Len(cs)].value = cs[Len(cs)].value
        /\ r[Len(cs)].key = cs[Len(cs)].key /\ r[Len(cs)].known = cs[Len(cs)].known
    BY <1>1, <2>1 DEF CallRecords, GoneOn
  <2>4. r[Len(cs)].starts[1] = cs[Len(cs)].starts[1]
    BY <2>1, <2>2, <2>3
  <2> QED BY <2>3, <2>4 DEF RefOf
<1>3. ASSUME NEW n \in 1..Len(cs)
      PROVE  /\ RefOf(r[n]) = RefOf(cs[n]) /\ r[n].value = cs[n].value
             /\ r[n].key = cs[n].key /\ r[n].known = cs[n].known
  <2>1. CASE n = Len(cs)
    BY <1>2, <2>1
  <2>2. CASE n # Len(cs)
    <3>1. n \in 1..(Len(cs) - 1)
      BY <1>1, <2>2
    <3> QED BY <1>1, <3>1
  <2> QED BY <2>1, <2>2
<1>4. ASSUME NEW n \in 1..(Len(cs) - 1) PROVE Waits(r[n], r[n + 1])
  <2>1. n + 1 \in 1..Len(cs) /\ r[n] = cs[n] /\ Waits(cs[n], cs[n + 1])
    BY <1>1 DEF Nested
  <2> QED BY <1>3, <2>1 DEF Waits
<1> QED BY <1>1, <1>3, <1>4 DEF Nested

Started(cs) == \A n \in 1..Len(cs) : Len(cs[n].starts) >= 1
SameCalls(r, cs) ==
  \A n \in 1..Len(cs) : /\ RefOf(r[n]) = RefOf(cs[n]) /\ r[n].value = cs[n].value
                        /\ r[n].key = cs[n].key /\ r[n].known = cs[n].known

LEMMA ResumedSame ==
  ASSUME NEW cs \in Seq(CallRecords), Nested(cs), Started(cs),
         NEW end \in Nat, NEW length \in Nat,
         NEW r, r = Resume(cs, end, length)
  PROVE  SameCalls(r, cs)
<1>1. CASE cs = <<>>
  <2>1. Len(cs) = 0
    BY <1>1
  <2> QED BY <2>1 DEF SameCalls
<1>2. CASE cs # <<>>
  BY <1>2, ResumedNests DEF Started, SameCalls
<1> QED BY <1>1, <1>2

LEMMA FrontNests ==
  ASSUME NEW cs \in Seq(CallRecords), Nested(cs), cs # <<>>,
         NEW front, front = SubSeq(cs, 1, Len(cs) - 1)
  PROVE  /\ front \in Seq(CallRecords) /\ Len(front) = Len(cs) - 1
         /\ \A n \in 1..(Len(cs) - 1) : front[n] = cs[n]
         /\ Nested(front)
<1>1. /\ front \in Seq(CallRecords) /\ Len(front) = Len(cs) - 1
      /\ \A n \in 1..(Len(cs) - 1) : front[n] = cs[n]
  <2> HIDE DEF CallRecords
  <2>1. Len(cs) \in Nat /\ Len(cs) > 0
    OBVIOUS
  <2>2. Len(cs) - 1 \in 0..Len(cs) /\ Len(cs) - 1 \in Nat
    BY <2>1
  <2> DEFINE k == Len(cs) - 1
  <2> HIDE DEF k
  <2>3. k \in 0..Len(cs) /\ k \in Nat /\ front = SubSeq(cs, 1, k)
    BY <2>2 DEF k
  <2>4. front = [i \in 1..k |-> cs[i]]
    BY <2>1, <2>3
  <2>5. \A i \in 1..k : cs[i] \in CallRecords
    BY <2>1, <2>3
  <2>6. front \in [1..k -> CallRecords]
    BY <2>4, <2>5
  <2>7. front \in Seq(CallRecords) /\ Len(front) = k
    BY <2>3, <2>6, SeqDef, LenProperties
  <2> QED BY <2>4, <2>7 DEF k
<1>2. Nested(front)
  <2> HIDE DEF CallRecords
  <2>1. Len(cs) \in Nat /\ Len(cs) > 0
    OBVIOUS
  <2>2. \A n \in 1..(Len(front) - 1) : Waits(front[n], front[n + 1])
    BY <1>1, <2>1 DEF Nested
  <2>3. \A m, n \in 1..Len(front) : m < n =>
           Depth(front[n].value) < Depth(front[m].value) /\ RefOf(front[m]) < RefOf(front[n])
    <3> SUFFICES ASSUME NEW m \in 1..Len(front), NEW n \in 1..Len(front), m < n
                 PROVE  Depth(front[n].value) < Depth(front[m].value) /\ RefOf(front[m]) < RefOf(front[n])
      OBVIOUS
    <3>1. m \in 1..(Len(cs) - 1) /\ n \in 1..(Len(cs) - 1) /\ m \in 1..Len(cs) /\ n \in 1..Len(cs)
      BY <1>1, <2>1
    <3> QED BY <1>1, <3>1 DEF Nested
  <2> QED BY <2>2, <2>3 DEF Nested
<1> QED BY <1>1, <1>2

LEMMA PushNests ==
  ASSUME NEW cs \in Seq(CallRecords), Nested(cs), NEW d \in CallRecords,
         cs # <<>> => /\ Waits(cs[Len(cs)], d) /\ Depth(d.value) < Depth(cs[Len(cs)].value)
                      /\ RefOf(cs[Len(cs)]) < RefOf(d),
         \A n \in 1..Len(cs) : RefOf(cs[n]) \in Int /\ Depth(cs[n].value) \in Int,
         RefOf(d) \in Int, Depth(d.value) \in Int,
         NEW r, r = Append(cs, d)
  PROVE  /\ r \in Seq(CallRecords) /\ Len(r) = Len(cs) + 1 /\ r[Len(r)] = d
         /\ \A n \in 1..Len(cs) : r[n] = cs[n]
         /\ Nested(r)
<1>1. /\ r \in Seq(CallRecords) /\ Len(r) = Len(cs) + 1 /\ r[Len(r)] = d /\ Len(cs) \in Nat
      /\ \A n \in 1..Len(cs) : r[n] = cs[n]
  OBVIOUS
<1>2. (Len(cs) > 0) => (cs # <<>>)
  OBVIOUS
<1>3. ASSUME NEW n \in 1..Len(cs) PROVE Waits(r[n], r[n + 1])
  <2>1. CASE n < Len(cs)
    <3>1. n \in 1..(Len(cs) - 1) /\ n + 1 \in 1..Len(cs)
      BY <1>1, <2>1
    <3> QED BY <1>1, <3>1 DEF Nested
  <2>2. CASE n = Len(cs)
    BY <1>1, <1>2, <2>2
  <2> QED BY <1>1, <2>1, <2>2
<1>4. ASSUME NEW m \in 1..Len(r), NEW n \in 1..Len(r), m < n
      PROVE  Depth(r[n].value) < Depth(r[m].value) /\ RefOf(r[m]) < RefOf(r[n])
  <2>1. CASE n <= Len(cs)
    BY <1>1, <1>4, <2>1 DEF Nested
  <2>2. CASE n > Len(cs)
    <3>4. n = Len(cs) + 1 /\ m \in 1..Len(cs) /\ Len(cs) > 0
      BY <1>1, <1>4, <2>2
    <3>1. n = Len(cs) + 1 /\ m \in 1..Len(cs) /\ Len(cs) > 0 /\ r[n] = d /\ r[m] = cs[m]
      BY <1>1, <3>4
    <3>2. CASE m = Len(cs)
      BY <1>2, <3>1, <3>2
    <3>3. CASE m < Len(cs)
      <4>1. /\ Depth(cs[Len(cs)].value) < Depth(cs[m].value)
            /\ RefOf(cs[m]) < RefOf(cs[Len(cs)])
        BY <1>1, <3>1, <3>3 DEF Nested
      <4>2. Depth(cs[m].value) \in Int /\ Depth(cs[Len(cs)].value) \in Int
            /\ RefOf(cs[m]) \in Int /\ RefOf(cs[Len(cs)]) \in Int
        BY <3>1
      <4> QED BY <1>2, <3>1, <4>1, <4>2
    <3> QED BY <1>1, <3>1, <3>2, <3>3
  <2> QED BY <1>1, <2>1, <2>2
<1> QED BY <1>1, <1>3, <1>4 DEF Nested

LEMMA CallersGoOn ==
  ASSUME TypeOK, Grows, NEW cs \in Seq(CallRecords), Nested(cs),
         \A n \in 1..Len(cs) : CallStands(cs[n]) /\ RefOf(cs[n]) \notin DOMAIN stands',
         NEW end \in Nat, end = Len(buf') + 1, NEW length \in Nat, length > 0,
         cs # <<>> => /\ Len(cs[Len(cs)].starts) <= Len(cs[Len(cs)].value.items)
                      /\ Stands(NextStart(cs[Len(cs)]),
                                cs[Len(cs)].value.items[Len(cs[Len(cs)].starts)])'
                      /\ end = End(NextStart(cs[Len(cs)]))',
         calls' = Resume(cs, end, length)
  PROVE  CallsStand' /\ CallsNest' /\ calls' \in Seq(CallRecords)
<1> PICK r : r = calls'
  OBVIOUS
<1>1. r = Resume(cs, end, length)
  OBVIOUS
<1>2. r \in Seq(CallRecords)
  BY <1>1, Resumed
<1>3. Len(r) = Len(cs) /\ Len(cs) \in Nat
  BY <1>1, Resumed
<1>4. CASE cs = <<>>
  <2>1. r = <<>>
    BY <1>1, <1>4, Resumed
  <2>2. Len(r) = 0 /\ DOMAIN calls' = {} /\ calls' = <<>>
    BY <2>1
  <2>3. Nested(calls)'
    BY <2>1, <2>2 DEF Nested
  <2> QED BY <1>2, <2>2, <2>3 DEF CallsStand, CallsNest, Open
<1>5. CASE cs # <<>>
  <2>1. Len(cs) > 0 /\ Len(cs) \in 1..Len(cs)
    BY <1>3, <1>5
  <2> PICK c \in CallRecords : c = cs[Len(cs)]
    BY <2>1
  <2> PICK d : d = r[Len(cs)]
    OBVIOUS
  <2>2. d \in CallRecords /\ d = GoneOn(c, end, length)
    <3>1. d \in CallRecords
      BY <1>2, <1>3, <2>1
    <3>2. d = GoneOn(cs[Len(cs)], end, length)
      BY <1>1, <1>5, Resumed
    <3> QED BY <3>1, <3>2
  <2>3. CallStands(c) /\ RefOf(c) \notin DOMAIN stands'
    BY <2>1
  <2>4. /\ Len(c.starts) <= Len(c.value.items)
        /\ Stands(NextStart(c), c.value.items[Len(c.starts)])'
        /\ end = End(NextStart(c))'
    BY <1>5
  <2>5. CallStands(d)' /\ NextStart(d) = end
    BY <2>2, <2>3, <2>4, CallGoesOn
  <2>6. \A n \in 1..(Len(cs) - 1) : r[n] = cs[n]
    BY <1>1, Resumed
  <2>7. ASSUME NEW n \in 1..Len(r) PROVE CallStands(r[n])'
    <3>1. CASE n = Len(cs)
      BY <2>5, <3>1
    <3>2. CASE n # Len(cs)
      <4>1. n \in 1..(Len(cs) - 1) /\ n \in 1..Len(cs)
        BY <1>3, <3>2
      <4>2. r[n] = cs[n] /\ cs[n] \in CallRecords
        BY <2>6, <4>1
      <4> PICK e \in CallRecords : e = cs[n]
        BY <4>2
      <4>3. CallStands(e) /\ RefOf(e) \notin DOMAIN stands'
        BY <4>1
      <4>4. CallStands(e)'
        BY <4>3, CallStays
      <4> QED BY <4>2, <4>4
    <3> QED BY <3>1, <3>2
  <2>8. CallsStand'
    <3> SUFFICES ASSUME NEW e \in CallRecords, Open(e)' PROVE CallStands(e)'
      BY DEF CallsStand
    <3>1. PICK n \in DOMAIN calls' : calls'[n] = e
      BY DEF Open
    <3>2. n \in 1..Len(r) /\ r[n] = e
      BY <1>2, <3>1
    <3> QED BY <2>7, <3>2
  <2>9. Nested(r)
    <3>1. \A n \in 1..Len(cs) : Len(cs[n].starts) >= 1
      <4> SUFFICES ASSUME NEW n \in 1..Len(cs) PROVE Len(cs[n].starts) >= 1
        OBVIOUS
      <4>1. CallStands(cs[n]) /\ cs[n] \in CallRecords
        OBVIOUS
      <4>2. Len(cs[n].starts) \in 1..(Len(cs[n].value.items) + 1)
        BY <4>1 DEF CallStands
      <4> QED BY <4>2
    <3> QED BY <1>1, <1>5, <3>1, ResumedNests
  <2>10. Top' = d
    BY <1>3 DEF Top
  <2>11. NextStart(Top)' = Len(buf)' + 1
    BY <2>5, <2>10 DEF NextStart
  <2> QED BY <1>2, <2>8, <2>9, <2>11 DEF CallsNest
<1> QED BY <1>4, <1>5
-----------------------------------------------------------------------------
(***************************************************************************)
(* What a step does to the buffer and to what stands in it.                *)
(***************************************************************************)
LEMMA BufferGrows ==
  ASSUME TypeOK, NEW cell \in CellRecords, buf' = Append(buf, cell)
  PROVE  /\ buf' \in Seq(CellRecords) /\ Len(buf) \in Nat /\ Len(buf') = Len(buf) + 1
         /\ DOMAIN buf = 1..Len(buf) /\ DOMAIN buf' = 1..(Len(buf) + 1)
         /\ buf'[Len(buf) + 1] = cell
         /\ \A o \in DOMAIN buf : o \in DOMAIN buf' /\ buf'[o] = buf[o]
<1>1. buf \in Seq(CellRecords)
  BY DEF TypeOK
<1> HIDE DEF CellRecords
<1> QED BY <1>1

Standing == [value : DataItems, starts : Seq(Nat)]

LEMMA StandsGrow ==
  ASSUME TypeOK, NEW o, NEW t \in DataItems, NEW starts \in Seq(Nat),
         o \notin DOMAIN stands, stands' = Written(o, t, starts)
  PROVE  /\ DOMAIN stands' = DOMAIN stands \cup {o}
         /\ \A p \in DOMAIN stands : stands'[p] = stands[p]
         /\ stands'[o] = [value |-> t, starts |-> starts]
         /\ stands' \in [DOMAIN stands' -> Standing]
<1> DEFINE here == [value |-> t, starts |-> starts]
<1>1. here \in Standing
  BY DEF Standing
<1>2. stands \in [DOMAIN stands -> Standing]
  BY DEF TypeOK, Standing
<1> HIDE DEF here, Standing
<1>3. stands' = [p \in DOMAIN stands \cup {o} |-> IF p = o THEN here ELSE stands[p]]
  BY DEF Written, here
<1>4. DOMAIN stands' = DOMAIN stands \cup {o}
  BY <1>3
<1>5. \A p \in DOMAIN stands \cup {o} : stands'[p] \in Standing
  BY <1>1, <1>2, <1>3
<1> QED BY <1>1, <1>3, <1>4, <1>5 DEF here

LEMMA OldStays ==
  ASSUME Layout, Grows
  PROVE  /\ \A h \in DOMAIN positions :
              h \in DOMAIN positions' /\ positions'[h] = positions[h] => PositionStands(h)'
         /\ \A o \in DOMAIN stands : StandsRight(o)'
         /\ \A o, t : Stands(o, t) /\ ~IsPointer(o) => Stands(o, t)' /\ ~IsPointer(o)'
<1>1. ASSUME NEW h \in DOMAIN positions, h \in DOMAIN positions', positions'[h] = positions[h]
      PROVE  PositionStands(h)'
  BY <1>1, PositionStays DEF Layout, PositionsStand
<1>2. ASSUME NEW o \in DOMAIN stands PROVE StandsRight(o)'
  BY StandsRightStays DEF Layout, AllStandRight
<1>3. ASSUME NEW o, NEW t, Stands(o, t), ~IsPointer(o) PROVE Stands(o, t)' /\ ~IsPointer(o)'
  <2>1. o \in DOMAIN buf
    BY <1>3 DEF Layout, TypeOK, Stands
  <2> QED BY <1>3, <2>1, StandsStays, PointerStays
<1> QED BY <1>1, <1>2, <1>3

LEMMA NewCellIsDirect ==
  ASSUME TypeOK, PointersAreDirect, NEW cell \in CellRecords, buf' = Append(buf, cell),
         cell.type = "pointer" => cell.size \in DOMAIN buf /\ ~IsPointer(cell.size)
  PROVE  PointersAreDirect'
<1>1. /\ Len(buf) \in Nat /\ DOMAIN buf = 1..Len(buf) /\ DOMAIN buf' = 1..(Len(buf) + 1)
      /\ buf'[Len(buf) + 1] = cell /\ \A o \in DOMAIN buf : buf'[o] = buf[o]
  BY BufferGrows
<1> SUFFICES ASSUME NEW o \in DOMAIN buf', IsPointer(o)'
             PROVE  buf'[o].size \in 1..(o - 1) /\ ~IsPointer(buf[o].size)'
  BY DEF PointersAreDirect
<1>2. CASE o \in DOMAIN buf
  <2>1. buf'[o] = buf[o] /\ IsPointer(o)
    BY <1>1, <1>2 DEF IsPointer
  <2> PICK r : r = buf[o].size
    OBVIOUS
  <2>2. r \in 1..(o - 1) /\ ~IsPointer(r)
    BY <1>2, <2>1 DEF PointersAreDirect
  <2>3. r \in DOMAIN buf
    BY <1>1, <1>2, <2>2
  <2>4. ~IsPointer(r)'
    BY <1>1, <2>2, <2>3 DEF IsPointer
  <2> QED BY <2>1, <2>2, <2>4
<1>3. CASE o = Len(buf) + 1
  <2>1. cell.type = "pointer"
    BY <1>1, <1>3 DEF IsPointer
  <2> PICK r : r = cell.size
    OBVIOUS
  <2>2. r \in DOMAIN buf /\ ~IsPointer(r)
    BY <2>1
  <2>3. ~IsPointer(r)' /\ r \in 1..(o - 1)
    BY <1>1, <1>3, <2>2 DEF IsPointer
  <2> QED BY <1>1, <1>3, <2>3
<1> QED BY <1>1, <1>2, <1>3
-----------------------------------------------------------------------------
(***************************************************************************)
(* The steps keep the layout.                                              *)
(***************************************************************************)

\* The innermost call, and the part that it comes to.
LEMMA TopFacts ==
  ASSUME Layout, calls # <<>>
  PROVE  /\ calls \in Seq(CallRecords) /\ Len(calls) \in Nat /\ Len(calls) > 0
         /\ Top \in CallRecords /\ Open(Top) /\ CallStands(Top)
         /\ Top.value \in DataItems /\ Top.starts \in Seq(Nat) /\ Len(Top.starts) \in Nat
         /\ Len(Top.starts) >= 1 /\ NextStart(Top) = Len(buf) + 1
         /\ HasPart => Part \in DataItems /\ Depth(Part) < Depth(Top.value)
<1>1. calls \in Seq(CallRecords) /\ Len(calls) \in Nat /\ Len(calls) > 0
  BY DEF Layout, TypeOK
<1>2. Top \in CallRecords /\ Open(Top)
  BY <1>1 DEF Top, Open
<1> PICK c \in CallRecords : c = Top
  BY <1>2
<1>3. CallStands(c)
  BY <1>2 DEF Layout, CallsStand
<1>4. /\ c.value \in DataItems /\ c.starts \in Seq(Nat) /\ Len(c.starts) \in Nat
  BY DEF CallRecords
<1>5. Len(c.starts) >= 1
  BY <1>3, <1>4 DEF CallStands
<1>6. NextStart(c) = Len(buf) + 1
  BY DEF Layout, CallsNest
<1>7. ASSUME HasPart PROVE Part \in DataItems /\ Depth(Part) < Depth(c.value)
  <2>1. Len(c.starts) \in 1..Len(c.value.items)
    BY <1>4, <1>5, <1>7, PartsAreValues DEF HasPart
  <2> QED BY <1>4, <2>1, PartsAreValues DEF Part
<1> QED BY <1>1, <1>2, <1>3, <1>4, <1>5, <1>6, <1>7

LEMMA OpenStands ==
  ASSUME Layout, NEW n \in 1..Len(calls)
  PROVE  /\ calls[n] \in CallRecords /\ CallStands(calls[n])
         /\ RefOf(calls[n]) \in DOMAIN buf \ DOMAIN stands /\ Depth(calls[n].value) \in Nat
<1>1. calls \in Seq(CallRecords)
  BY DEF Layout, TypeOK
<1> PICK c \in CallRecords : c = calls[n]
  BY <1>1
<1>2. Open(c)
  BY <1>1 DEF Open
<1>3. CallStands(c)
  BY <1>2 DEF Layout, CallsStand
<1>4. c.value \in DataItems
  BY DEF CallRecords
<1> QED BY <1>3, <1>4, PartsAreValues DEF CallStands

LEMMA SerializeKeeps ==
  ASSUME Layout, NEW t \in DataItems, NEW known \in BOOLEAN, Serialize(t, KeyOf(t), known),
         UNCHANGED <<positions, stands, offsets>>,
         calls # <<>> => HasPart /\ t = Part
  PROVE  Layout'
<1>1. TypeOK /\ Cell(t) \in CellRecords /\ Cell(t).type # "pointer" /\ CellLength(t) \in Nat
  BY PartsAreValues DEF Layout
<1>2. buf' = Append(buf, Cell(t))
  BY DEF Serialize
<1>3. /\ buf' \in Seq(CellRecords) /\ Len(buf) \in Nat /\ Len(buf') = Len(buf) + 1
      /\ DOMAIN buf = 1..Len(buf) /\ DOMAIN buf' = 1..(Len(buf) + 1)
      /\ buf'[Len(buf) + 1] = Cell(t)
      /\ \A o \in DOMAIN buf : o \in DOMAIN buf' /\ buf'[o] = buf[o]
  BY <1>1, <1>2, BufferGrows
<1>4. Grows
  BY <1>3 DEF Grows
<1> PICK d : d = Call(t, KeyOf(t), known)
  OBVIOUS
<1> PICK cs : cs = calls
  OBVIOUS
<1>5. /\ d.value = t /\ d.key = KeyOf(t) /\ d.starts = <<Len(buf) + 2>> /\ d.length = CellLength(t)
      /\ d \in CallRecords
  <2>1. KeyOf(t) \in AllKeys /\ <<Len(buf) + 2>> \in Seq(Nat)
    BY <1>3, PartsAreValues
  <2> QED BY <1>1, <2>1 DEF Call, CallRecords
<1>6. RefOf(d) = Len(buf) + 1 /\ NextStart(d) = Len(buf) + 2 /\ Len(d.starts) = 1
  BY <1>3, <1>5 DEF RefOf, NextStart
<1>7. CallStands(d)'
  <2>1. RefOf(d) \in DOMAIN buf' /\ RefOf(d) \notin DOMAIN stands' /\ buf'[RefOf(d)] = Cell(d.value)
    BY <1>1, <1>3, <1>5, <1>6 DEF TypeOK
  <2>2. Len(d.value.items) \in Nat
    BY <1>5, PartsAreValues
  <2>3. PartsWritten(d)'
    BY <1>6 DEF PartsWritten
  <2> QED BY <1>1, <1>5, <1>6, <2>1, <2>2, <2>3 DEF CallStands, RefOf
<1>8. /\ cs \in Seq(CallRecords) /\ Nested(cs)
      /\ \A n \in 1..Len(cs) : /\ cs[n] \in CallRecords /\ CallStands(cs[n])
                               /\ RefOf(cs[n]) \in DOMAIN buf \ DOMAIN stands
                               /\ Depth(cs[n].value) \in Nat
  BY OpenStands DEF Layout, TypeOK, CallsNest
<1>9. cs # <<>> => /\ Waits(cs[Len(cs)], d) /\ Depth(d.value) < Depth(cs[Len(cs)].value)
                   /\ RefOf(cs[Len(cs)]) < RefOf(d)
  <2> SUFFICES ASSUME cs # <<>>
               PROVE  /\ Waits(Top, d) /\ Depth(d.value) < Depth(Top.value)
                      /\ RefOf(Top) < RefOf(d)
    BY DEF Top
  <2>1. /\ HasPart /\ t = Part /\ Depth(Part) < Depth(Top.value)
        /\ NextStart(Top) = Len(buf) + 1 /\ Len(calls) \in 1..Len(calls)
    BY TopFacts
  <2>2. Waits(Top, d)
    BY <1>5, <1>6, <2>1 DEF Waits, HasPart, Part
  <2>3. RefOf(Top) \in DOMAIN buf
    BY <1>8, <2>1 DEF Top
  <2> QED BY <1>3, <1>5, <1>6, <2>1, <2>2, <2>3
<1> PICK r : r = calls'
  OBVIOUS
<1>10. r = Append(cs, d)
  BY DEF Serialize
<1>11. /\ r \in Seq(CallRecords) /\ Len(r) = Len(cs) + 1 /\ r[Len(r)] = d
       /\ \A n \in 1..Len(cs) : r[n] = cs[n]
       /\ Nested(r)
  <2>1. \A n \in 1..Len(cs) : RefOf(cs[n]) \in Int /\ Depth(cs[n].value) \in Int
    <3> SUFFICES ASSUME NEW n \in 1..Len(cs) PROVE RefOf(cs[n]) \in Int /\ Depth(cs[n].value) \in Int
      OBVIOUS
    <3>1. RefOf(cs[n]) \in DOMAIN buf /\ Depth(cs[n].value) \in Nat
      BY <1>8
    <3> QED BY <1>3, <3>1
  <2>2. RefOf(d) \in Int /\ Depth(d.value) \in Int
    BY <1>3, <1>5, <1>6, PartsAreValues
  <2>3. Nested(cs) /\ cs \in Seq(CallRecords)
    BY <1>8
  <2>4. Nested(r)
    BY <1>5, <1>9, <1>10, <2>1, <2>2, <2>3, PushNests
  <2>5. r \in Seq(CallRecords) /\ Len(r) = Len(cs) + 1
    BY <1>5, <1>10, <2>3
  <2>6. r[Len(r)] = d /\ \A n \in 1..Len(cs) : r[n] = cs[n]
    BY <1>5, <1>10, <2>3
  <2> QED BY <2>4, <2>5, <2>6
<1>12. CallsNest'
  <2>1. Top' = d
    BY <1>11 DEF Top
  <2>2. NextStart(Top)' = Len(buf) + 2
    BY <1>6, <2>1 DEF NextStart
  <2> QED BY <1>3, <1>11, <2>2 DEF CallsNest
<1>13. CallsStand'
  <2> SUFFICES ASSUME NEW e \in CallRecords, Open(e)' PROVE CallStands(e)'
    BY DEF CallsStand
  <2>1. PICK n \in 1..Len(r) : r[n] = e
    BY <1>11 DEF Open
  <2>2. CASE n \in 1..Len(cs)
    <3>1. e = cs[n] /\ CallStands(e) /\ RefOf(e) \notin DOMAIN stands'
      BY <1>8, <1>11, <2>1, <2>2
    <3> QED BY <1>1, <1>4, <3>1, CallStays
  <2>3. CASE n \notin 1..Len(cs)
    <3>1. n = Len(r)
      BY <1>8, <1>11, <2>3
    <3> QED BY <1>7, <1>11, <2>1, <3>1
  <2> QED BY <2>2, <2>3
<1>14. TypeOK'
  BY <1>1, <1>3, <1>11 DEF TypeOK
<1>15. PointersAreDirect'
  BY <1>1, <1>2, NewCellIsDirect DEF Layout
<1>16. PositionsStand'
  BY <1>4, OldStays DEF PositionsStand
<1>17. AllStandRight'
  <2>1. \A o \in DOMAIN stands : StandsRight(o)'
    BY <1>4, OldStays
  <2> QED BY <2>1 DEF AllStandRight
<1>18. OffsetsStand'
  BY <1>4, OldStays DEF Layout, OffsetsStand
<1> QED BY <1>12, <1>13, <1>14, <1>15, <1>16, <1>17, <1>18 DEF Layout

LEMMA WritePointerKeeps ==
  ASSUME Layout, NEW t \in DataItems, calls # <<>>, HasPart, t = Part,
         WorthIt(KeyOf(t)), WritePointer(t, KeyOf(t)), UNCHANGED offsets
  PROVE  Layout'
<1> PICK o : o = Len(buf) + 1
  OBVIOUS
<1> PICK p : p = positions[KeyOf(t)].ref
  OBVIOUS
<1>1. TypeOK /\ KeyOf(t) \in DOMAIN positions
  BY DEF Layout, WorthIt, Known
<1>2. Stands(p, t) /\ ~IsPointer(p) /\ p \in DOMAIN buf /\ p \in Nat
  <2>1. p \in DOMAIN stands /\ ~IsPointer(p) /\ KeyOf(stands[p].value) = KeyOf(t)
    BY <1>1 DEF Layout, PositionsStand, PositionStands
  <2>2. stands[p].value \in DataItems /\ p \in DOMAIN buf /\ p \in Nat
    BY <1>1, <2>1 DEF TypeOK
  <2>3. stands[p].value = t
    BY <2>1, <2>2, KeysTell
  <2> QED BY <2>1, <2>2, <2>3 DEF Stands
<1>3. /\ buf' = Append(buf, Pointer(p)) /\ Pointer(p) \in CellRecords
      /\ Pointer(p).type = "pointer" /\ Pointer(p).size = p
  <2>1. buf' = Append(buf, Pointer(p))
    BY DEF WritePointer
  <2>2. Pointer(p).type = "pointer" /\ Pointer(p).size = p
    BY DEF Pointer
  <2>4. Pointer(p) \in CellRecords
    BY <1>2 DEF CellRecords
  <2> QED BY <2>1, <2>2, <2>4
<1>4. /\ buf' \in Seq(CellRecords) /\ Len(buf) \in Nat /\ Len(buf') = Len(buf) + 1
      /\ DOMAIN buf = 1..Len(buf) /\ DOMAIN buf' = 1..(Len(buf) + 1)
      /\ buf'[o] = Pointer(p)
      /\ \A q \in DOMAIN buf : q \in DOMAIN buf' /\ buf'[q] = buf[q]
  BY <1>1, <1>3, BufferGrows
<1>5. o \notin DOMAIN stands /\ o \in Nat /\ o + 1 = Len(buf) + 2
  BY <1>1, <1>4 DEF TypeOK
<1> PICK starts : starts = <<Len(buf) + 2>>
  OBVIOUS
<1>6. starts \in Seq(Nat) /\ Len(starts) = 1 /\ starts[1] = o + 1
  BY <1>4
<1>7. /\ DOMAIN stands' = DOMAIN stands \cup {o}
      /\ \A q \in DOMAIN stands : stands'[q] = stands[q]
      /\ stands'[o] = [value |-> t, starts |-> starts]
      /\ stands' \in [DOMAIN stands' -> Standing]
  <2>1. stands' = Written(o, t, starts)
    BY DEF WritePointer
  <2> QED BY <1>1, <1>5, <1>6, <2>1, StandsGrow
<1>8. Grows
  BY <1>4, <1>7 DEF Grows
<1>9. Stands(o, t)' /\ End(o)' = o + 1
  BY <1>6, <1>7 DEF Stands, End
<1>10. StandsRight(o)'
  <2>1. IsPointer(o)' /\ buf'[o].size = p /\ stands'[o].value = t
    BY <1>3, <1>4, <1>7 DEF IsPointer
  <2>2. Stands(p, t)'
    BY <1>2, <1>8, StandsStays
  <2> QED BY <1>9, <2>1, <2>2 DEF StandsRight
<1>11. CallsStand' /\ CallsNest' /\ calls' \in Seq(CallRecords)
  <2> PICK cs : cs = calls
    OBVIOUS
  <2>1. /\ cs \in Seq(CallRecords) /\ Nested(cs)
        /\ \A n \in 1..Len(cs) : CallStands(cs[n]) /\ RefOf(cs[n]) \notin DOMAIN stands'
    <3>1. cs \in Seq(CallRecords) /\ Nested(cs)
      BY DEF Layout, TypeOK, CallsNest
    <3> SUFFICES ASSUME NEW n \in 1..Len(cs)
                 PROVE  CallStands(cs[n]) /\ RefOf(cs[n]) \notin DOMAIN stands'
      BY <3>1
    <3>2. CallStands(cs[n]) /\ RefOf(cs[n]) \in DOMAIN buf \ DOMAIN stands
      BY OpenStands
    <3>3. RefOf(cs[n]) # o
      BY <1>4, <3>2
    <3> QED BY <1>7, <3>2, <3>3
  <2> PICK end : end = Len(buf) + 2
    OBVIOUS
  <2>2. end \in Nat /\ end = Len(buf') + 1 /\ PointerLength \in Nat /\ PointerLength > 0
    BY <1>4 DEF PointerLength
  <2>3. /\ Len(cs[Len(cs)].starts) <= Len(cs[Len(cs)].value.items)
        /\ t = cs[Len(cs)].value.items[Len(cs[Len(cs)].starts)]
    BY DEF HasPart, Part, Top
  <2>4. NextStart(cs[Len(cs)]) = o
    BY TopFacts DEF Top
  <2>5. Stands(NextStart(cs[Len(cs)]), cs[Len(cs)].value.items[Len(cs[Len(cs)].starts)])'
    BY <1>9, <2>3, <2>4
  <2>6. end = End(NextStart(cs[Len(cs)]))'
    BY <1>5, <1>9, <2>4 DEF End
  <2>7. calls' = Resume(cs, end, PointerLength)
    BY DEF WritePointer
  <2> QED BY <1>1, <1>8, <2>1, <2>2, <2>3, <2>5, <2>6, <2>7, CallersGoOn
<1>12. TypeOK'
  <2>1. DOMAIN stands' \subseteq DOMAIN buf'
    BY <1>1, <1>4, <1>7 DEF TypeOK
  <2>2. positions' = positions /\ offsets' = offsets
    BY DEF WritePointer
  <2> QED BY <1>1, <1>4, <1>7, <1>11, <2>1, <2>2 DEF TypeOK, Standing
<1>13. PointersAreDirect'
  BY <1>1, <1>2, <1>3, NewCellIsDirect DEF Layout
<1>14. PositionsStand'
  BY <1>8, OldStays DEF PositionsStand, WritePointer
<1>15. AllStandRight'
  <2>1. \A q \in DOMAIN stands : StandsRight(q)'
    BY <1>8, OldStays
  <2> QED BY <1>7, <1>10, <2>1 DEF AllStandRight
<1>16. OffsetsStand'
  BY <1>8, OldStays DEF Layout, OffsetsStand
<1> QED BY <1>11, <1>12, <1>13, <1>14, <1>15, <1>16 DEF Layout

LEMMA EvenNumber ==
  ASSUME NEW n \in Nat, n > 0, n % 2 = 0
  PROVE  n >= 2
OBVIOUS

LEMMA LastOfRange ==
  ASSUME NEW k \in Nat, NEW m, m \in 1..(k + 1), m > k
  PROVE  m = k + 1
OBVIOUS

\* A map or slice with parts takes more bytes than a pointer.
LEMMA FullIsLong ==
  ASSUME NEW t \in DataItems, t.items # <<>>
  PROVE  CellLength(t) + Len(t.items) > PointerLength
<1>1. /\ t.type \in Containers /\ t.items \in Seq(DataItems)
      /\ t.type = "map" => Len(t.items) % 2 = 0
  BY DataItemsAssumption
<1>2. Len(t.items) \in Nat /\ Len(t.items) > 0
  BY <1>1
<1>3. CASE t.type = "map"
  <2> PICK n \in Nat : n = Len(t.items)
    BY <1>2
  <2>3. n > 0 /\ n % 2 = 0
    BY <1>1, <1>2, <1>3
  <2>1. Len(t.items) >= 2
    BY <2>3, EvenNumber
  <2>2. CellLength(t) = 1
    BY <1>3 DEF CellLength, HeaderLength, NumberTypes, UnsignedTypes, FloatTypes
  <2> QED BY <1>2, <2>1, <2>2 DEF PointerLength
<1>4. CASE t.type = "slice"
  <2>1. CellLength(t) = 2
    BY <1>4 DEF CellLength, HeaderLength, NumberTypes, UnsignedTypes, FloatTypes
  <2> QED BY <1>2, <2>1 DEF PointerLength
<1> QED BY <1>1, <1>3, <1>4 DEF Containers

\* A call that is over: its value stands where its header is, in full.
LEMMA CallEnds ==
  ASSUME Layout, NEW c \in CallRecords, CallStands(c), Len(c.starts) > Len(c.value.items),
         buf' = buf, stands' = Written(RefOf(c), c.value, c.starts)
  PROVE  /\ Grows /\ DOMAIN stands' = DOMAIN stands \cup {RefOf(c)}
         /\ stands' \in [DOMAIN stands' -> Standing]
         /\ Stands(RefOf(c), c.value)' /\ StandsRight(RefOf(c))' /\ ~IsPointer(RefOf(c))'
         /\ End(RefOf(c))' = NextStart(c) /\ RefOf(c) \in Nat
         /\ c.value.items # <<>> => c.length > PointerLength
         /\ c.length > 0
<1> PICK o : o = RefOf(c)
  OBVIOUS
<1> PICK t \in DataItems, starts \in Seq(Nat) : t = c.value /\ starts = c.starts
  BY DEF CallRecords
<1>1. /\ TypeOK /\ Len(t.items) \in Nat /\ Len(starts) \in Nat /\ c.length \in Nat
      /\ CellLength(t) \in Nat /\ CellLength(t) > 0 /\ Cell(t).type # "pointer"
      /\ buf \in Seq(CellRecords)
  BY PartsAreValues DEF Layout, TypeOK, CallRecords
<1>2. /\ Len(starts) = Len(t.items) + 1 /\ o \in DOMAIN buf /\ o \notin DOMAIN stands
      /\ buf[o] = Cell(t) /\ c.length >= CellLength(t) + Len(t.items)
  <2>1. /\ Len(starts) \in 1..(Len(t.items) + 1) /\ Len(starts) > Len(t.items)
        /\ o \in DOMAIN buf \ DOMAIN stands /\ buf[o] = Cell(t)
        /\ c.length >= CellLength(t) + Len(starts) - 1
    BY DEF CallStands
  <2>2. Len(starts) = Len(t.items) + 1
    <3> PICK k, m : k \in Nat /\ k = Len(t.items) /\ m = Len(starts)
      BY <1>1
    <3>1. m \in 1..(k + 1) /\ m > k
      BY <2>1
    <3> QED BY <3>1, LastOfRange
  <2> QED BY <1>1, <2>1, <2>2
<1>3. starts[1] = o + 1 /\ o \in Nat
  <2>1. starts[1] \in Nat /\ o = starts[1] - 1
    BY <1>1, <1>2 DEF RefOf
  <2> QED BY <1>1, <1>2, <2>1
<1>4. /\ DOMAIN stands' = DOMAIN stands \cup {o}
      /\ \A p \in DOMAIN stands : stands'[p] = stands[p]
      /\ stands'[o] = [value |-> t, starts |-> starts]
      /\ stands' \in [DOMAIN stands' -> Standing]
  BY <1>1, <1>2, StandsGrow
<1>5. Grows
  BY <1>4 DEF Grows
<1>6. Stands(o, t)' /\ End(o)' = NextStart(c)
  BY <1>4 DEF Stands, End, NextStart
<1>7. ~IsPointer(o)'
  BY <1>1, <1>2 DEF IsPointer
<1>8. StandsRight(o)'
  <2>1. \A i \in 1..Len(t.items) : Stands(starts[i], t.items[i])' /\ starts[i + 1] = End(starts[i])'
    <3>1. \A i \in 1..Len(t.items) : Stands(starts[i], t.items[i]) /\ starts[i + 1] = End(starts[i])
      BY <1>1, <1>2 DEF CallStands, PartsWritten
    <3> QED BY <1>5, <3>1, StandsStays
  <2>2. DOMAIN t.items = 1..Len(t.items)
    BY PartsAreValues
  <2>3. StandsWhole(o, t, starts)'
    BY <1>2, <1>3, <2>1, <2>2 DEF StandsWhole
  <2> QED BY <1>4, <1>7, <2>3 DEF StandsRight
<1>9. t.items # <<>> => c.length > PointerLength
  BY <1>1, <1>2, FullIsLong DEF PointerLength
<1> QED BY <1>1, <1>2, <1>3, <1>4, <1>5, <1>6, <1>7, <1>8, <1>9

LEMMA ReturnKeeps ==
  ASSUME Layout, Return
  PROVE  Layout'
<1> PICK c : c = Top
  OBVIOUS
<1> PICK o : o = RefOf(c)
  OBVIOUS
<1> PICK cs : cs = SubSeq(calls, 1, Len(calls) - 1)
  OBVIOUS
<1>1. /\ TypeOK /\ calls # <<>> /\ calls \in Seq(CallRecords) /\ Len(calls) \in Nat /\ Len(calls) > 0
      /\ c \in CallRecords /\ CallStands(c) /\ NextStart(c) = Len(buf) + 1
      /\ Len(c.starts) \in Nat
  BY TopFacts DEF Layout, Return
<1>2. Len(c.starts) > Len(c.value.items)
  <2>1. Len(c.value.items) \in Nat
    BY <1>1, PartsAreValues DEF CallRecords
  <2> QED BY <1>1, <2>1 DEF Return, HasPart
<1>3. buf' = buf /\ stands' = Written(RefOf(c), c.value, c.starts)
  BY DEF Return, RefOf
<1>4. /\ Grows /\ DOMAIN stands' = DOMAIN stands \cup {o}
      /\ stands' \in [DOMAIN stands' -> Standing]
      /\ Stands(o, c.value)' /\ StandsRight(o)' /\ ~IsPointer(o)'
      /\ End(o)' = Len(buf) + 1 /\ o \in Nat
      /\ c.value.items # <<>> => c.length > PointerLength
      /\ c.length > 0
  BY <1>1, <1>2, <1>3, CallEnds
<1>5. o \in DOMAIN buf /\ c.key = KeyOf(c.value) /\ c.value \in DataItems /\ c.length \in Nat
      /\ c.key \in AllKeys
  BY <1>1 DEF CallStands, CallRecords
<1>6. CallsStand' /\ CallsNest' /\ calls' \in Seq(CallRecords)
  <2>1. Nested(calls) /\ calls \in Seq(CallRecords)
    BY <1>1 DEF Layout, CallsNest
  <2> PICK whole : whole = calls
    OBVIOUS
  <2>2. /\ cs \in Seq(CallRecords) /\ Len(cs) = Len(calls) - 1 /\ Nested(cs)
        /\ \A n \in 1..(Len(calls) - 1) : cs[n] = calls[n]
    <3>1. Nested(whole) /\ whole \in Seq(CallRecords) /\ whole # <<>> /\ cs = SubSeq(whole, 1, Len(whole) - 1)
      BY <1>1, <2>1
    <3>2. Nested(cs)
      BY <3>1, FrontNests
    <3>3. cs \in Seq(CallRecords) /\ Len(cs) = Len(whole) - 1
      BY <3>1, FrontNests
    <3>4. \A n \in 1..(Len(whole) - 1) : cs[n] = whole[n]
      BY <3>1, FrontNests
    <3> QED BY <3>2, <3>3, <3>4
  <2>3. ASSUME NEW n \in 1..Len(cs)
        PROVE  CallStands(cs[n]) /\ RefOf(cs[n]) \notin DOMAIN stands'
    <3>1. n \in 1..Len(calls) /\ n < Len(calls) /\ Len(calls) \in 1..Len(calls) /\ cs[n] = calls[n]
      BY <1>1, <2>2
    <3>2. CallStands(calls[n]) /\ RefOf(calls[n]) \in DOMAIN buf \ DOMAIN stands
      BY <3>1, OpenStands
    <3>3. RefOf(calls[n]) < RefOf(calls[Len(calls)])
      BY <2>1, <3>1 DEF Nested
    <3>4. RefOf(calls[Len(calls)]) = o
      BY DEF Top
    <3>5. RefOf(calls[n]) # o
      <4>1. RefOf(calls[n]) \in Int
        BY <1>1, <3>2 DEF TypeOK
      <4> QED BY <1>4, <3>3, <3>4, <4>1
    <3> QED BY <1>4, <3>1, <3>2, <3>5
  <2> PICK end : end = Len(buf) + 1
    OBVIOUS
  <2>4. end \in Nat /\ end = Len(buf') + 1
    BY <1>1, <1>3 DEF TypeOK
  <2>5. ASSUME cs # <<>>
        PROVE  /\ Len(cs[Len(cs)].starts) <= Len(cs[Len(cs)].value.items)
               /\ Stands(NextStart(cs[Len(cs)]),
                         cs[Len(cs)].value.items[Len(cs[Len(cs)].starts)])'
               /\ end = End(NextStart(cs[Len(cs)]))'
    <3>1. Len(cs) \in 1..(Len(calls) - 1) /\ Len(cs) + 1 = Len(calls)
      BY <1>1, <2>2, <2>5
    <3>2. cs[Len(cs)] = calls[Len(cs)] /\ Waits(calls[Len(cs)], calls[Len(cs) + 1])
      BY <2>1, <2>2, <3>1 DEF Nested
    <3>3. Waits(cs[Len(cs)], c)
      BY <3>1, <3>2 DEF Top
    <3>4. /\ Len(cs[Len(cs)].starts) <= Len(cs[Len(cs)].value.items)
          /\ cs[Len(cs)].value.items[Len(cs[Len(cs)].starts)] = c.value
          /\ NextStart(cs[Len(cs)]) = o
      BY <3>3 DEF Waits
    <3>5. end = End(NextStart(cs[Len(cs)]))'
      BY <1>4, <3>4 DEF End
    <3> QED BY <1>4, <3>4, <3>5
  <2>6. calls' = Resume(cs, end, c.length)
    BY DEF Return
  <2> QED BY <1>1, <1>4, <1>5, <2>2, <2>3, <2>4, <2>5, <2>6, CallersGoOn
<1>7. /\ positions' \in [DOMAIN positions' -> [ref : Nat, length : Nat]]
      /\ DOMAIN positions' \subseteq AllKeys /\ PositionsStand'
  <2>1. CASE c.known
    <3>1. positions' = positions
      BY <2>1 DEF Return
    <3> QED BY <1>1, <1>4, <3>1, OldStays DEF TypeOK, PositionsStand
  <2>2. CASE ~c.known
    <3> PICK here : here = [ref |-> o, length |-> c.length]
      OBVIOUS
    <3>1. positions' = [h \in DOMAIN positions \cup {c.key} |-> IF h = c.key THEN here ELSE positions[h]]
      BY <2>2 DEF Return, Remember
    <3>2. here \in [ref : Nat, length : Nat] /\ here.ref = o /\ here.length = c.length
      BY <1>4, <1>5
    <3>3. \A h \in DOMAIN positions : positions[h] \in [ref : Nat, length : Nat]
      BY <1>1 DEF TypeOK
    <3> DEFINE R == [ref : Nat, length : Nat]
    <3> HIDE DEF R
    <3>4. positions' \in [DOMAIN positions' -> R] /\ DOMAIN positions' = DOMAIN positions \cup {c.key}
      <4>1. here \in R /\ \A h \in DOMAIN positions : positions[h] \in R
        BY <3>2, <3>3 DEF R
      <4> QED BY <3>1, <4>1
    <3>5. ASSUME NEW h \in DOMAIN positions' PROVE PositionStands(h)'
      <4>1. CASE h = c.key
        <5>1. positions'[h].ref = o /\ positions'[h].length = c.length
          BY <3>1, <3>2, <4>1
        <5>2. o \in DOMAIN stands' /\ stands'[o].value = c.value
          BY <1>4 DEF Stands
        <5> QED BY <1>4, <1>5, <4>1, <5>1, <5>2 DEF PositionStands
      <4>2. CASE h # c.key
        <5>1. h \in DOMAIN positions /\ positions'[h] = positions[h]
          BY <3>1, <3>4, <4>2
        <5> QED BY <1>4, <5>1, OldStays
      <4> QED BY <4>1, <4>2
    <3> QED BY <1>1, <1>5, <3>4, <3>5 DEF TypeOK, PositionsStand, R
  <2> QED BY <2>1, <2>2
<1>8. /\ offsets' \in [DOMAIN offsets' -> Nat] /\ DOMAIN offsets' \subseteq DataItems
      /\ OffsetsStand'
  <2>1. CASE Len(calls) = 1
    <3>1. offsets' = [v \in DOMAIN offsets \cup {c.value} |-> IF v = c.value THEN o ELSE offsets[v]]
      BY <2>1 DEF Return, SetOffset
    <3>2. ASSUME NEW v \in DOMAIN offsets' PROVE Stands(offsets[v], v)' /\ ~IsPointer(offsets[v])'
      <4>1. CASE v = c.value
        BY <1>4, <3>1, <4>1
      <4>2. CASE v # c.value
        <5> PICK p : p = offsets[v]
          OBVIOUS
        <5>1. v \in DOMAIN offsets /\ offsets'[v] = p
          BY <3>1, <4>2
        <5>2. Stands(p, v) /\ ~IsPointer(p)
          BY <5>1 DEF Layout, OffsetsStand
        <5>3. Stands(p, v)' /\ ~IsPointer(p)'
          BY <1>4, <5>2, OldStays
        <5> QED BY <5>1, <5>3
      <4> QED BY <4>1, <4>2
    <3>3. OffsetsStand'
      BY <3>2 DEF OffsetsStand
    <3> QED BY <1>1, <1>4, <1>5, <3>1, <3>3 DEF TypeOK
  <2>2. CASE Len(calls) # 1
    <3>1. offsets' = offsets
      BY <2>2 DEF Return
    <3> QED BY <1>1, <1>4, <3>1, OldStays DEF TypeOK, Layout, OffsetsStand
  <2> QED BY <2>1, <2>2
<1>9. TypeOK'
  <2>1. DOMAIN stands' \subseteq DOMAIN buf'
    BY <1>1, <1>3, <1>4, <1>5 DEF TypeOK
  <2> QED BY <1>1, <1>3, <1>4, <1>6, <1>7, <1>8, <2>1 DEF TypeOK, Standing
<1>10. PointersAreDirect'
  BY <1>3 DEF Layout, PointersAreDirect, IsPointer
<1>11. AllStandRight'
  <2>1. \A q \in DOMAIN stands : StandsRight(q)'
    BY <1>4, OldStays
  <2> QED BY <1>4, <2>1 DEF AllStandRight
<1> QED BY <1>6, <1>7, <1>8, <1>9, <1>10, <1>11 DEF Layout

LEMMA WithRefKeeps ==
  ASSUME Layout, calls = <<>>, NEW t \in DataItems, WriteWithRef(t)
  PROVE  Layout'
<1>1. CASE ~Known(KeyOf(t)) /\ Serialize(t, KeyOf(t), FALSE) /\ UNCHANGED offsets
  <2>1. UNCHANGED <<positions, stands, offsets>>
    BY <1>1 DEF WriteWithRef
  <2> QED BY <1>1, <2>1, SerializeKeeps
<1>2. CASE /\ Known(KeyOf(t)) /\ offsets' = SetOffset(t, positions[KeyOf(t)].ref)
           /\ UNCHANGED <<buf, calls>>
  <2> PICK p : p = positions[KeyOf(t)].ref
    OBVIOUS
  <2>1. UNCHANGED <<buf, calls, positions, stands>> /\ TypeOK
    BY <1>2 DEF WriteWithRef, Layout
  <2>2. KeyOf(t) \in DOMAIN positions
    BY <1>2 DEF Known
  <2>3. p \in DOMAIN stands /\ ~IsPointer(p) /\ KeyOf(stands[p].value) = KeyOf(t) /\ p \in Nat
    BY <2>1, <2>2 DEF Layout, PositionsStand, PositionStands, TypeOK
  <2>4. stands[p].value = t
    <3>1. stands[p].value \in DataItems
      BY <2>1, <2>3 DEF TypeOK
    <3> QED BY <2>3, <3>1, KeysTell
  <2>5. offsets' = [v \in DOMAIN offsets \cup {t} |-> IF v = t THEN p ELSE offsets[v]]
    BY <1>2 DEF SetOffset
  <2>6. OffsetsStand'
    <3>1. \A v \in DOMAIN offsets' : Stands(offsets'[v], v) /\ ~IsPointer(offsets'[v])
      BY <2>3, <2>4, <2>5 DEF Layout, OffsetsStand, Stands
    <3> QED BY <2>1, <3>1 DEF OffsetsStand, Stands, IsPointer
  <2>7. TypeOK'
    BY <2>1, <2>3, <2>5 DEF TypeOK
  <2>8. PointersAreDirect'
    BY <2>1 DEF Layout, PointersAreDirect, IsPointer
  <2>9. CallsStand' /\ CallsNest'
    BY <2>1 DEF Layout, CallsStand, CallStands, PartsWritten, Open, CallsNest, Top, Stands, End
  <2>10. PositionsStand' /\ AllStandRight'
    BY <2>1 DEF Layout, PositionsStand, PositionStands, IsPointer, AllStandRight, StandsRight, Stands,
                End, StandsWhole
  <2> QED BY <2>6, <2>7, <2>8, <2>9, <2>10 DEF Layout
<1> QED BY <1>1, <1>2 DEF WriteWithRef

LEMMA UnchangedKeeps ==
  ASSUME Layout, UNCHANGED <<buf, positions, calls, offsets, stands>>
  PROVE  Layout'
BY DEF Layout, TypeOK, PointersAreDirect, CallsStand, CallStands, PartsWritten, Open, CallsNest, Top,
       Stands, End, PositionsStand, PositionStands, IsPointer, AllStandRight, StandsRight,
       StandsWhole, OffsetsStand

LEMMA WritePartKeeps ==
  ASSUME Layout, WritePart
  PROVE  Layout'
<1> PICK t : t = Part
  OBVIOUS
<1>1. calls # <<>> /\ HasPart /\ t \in DataItems /\ UNCHANGED offsets
  BY TopFacts DEF WritePart
<1>2. hashBuffer'.digest = KeyOf(t)
  BY HashedKey DEF WritePart
<1>3. WriteOrRef(t, KeyOf(t))
  BY <1>2 DEF WritePart
<1>4. CASE WorthIt(KeyOf(t)) /\ WritePointer(t, KeyOf(t))
  BY <1>1, <1>4, WritePointerKeeps
<1>5. CASE /\ ~WorthIt(KeyOf(t)) /\ Serialize(t, KeyOf(t), Known(KeyOf(t)))
           /\ UNCHANGED <<positions, stands>>
  <2>3. Known(KeyOf(t)) \in BOOLEAN
    BY DEF Known
  <2> PICK known \in BOOLEAN : known = Known(KeyOf(t))
    BY <2>3, Zenon
  <2>1. Serialize(t, KeyOf(t), known)
    BY <1>5
  <2>2. UNCHANGED <<positions, stands, offsets>>
    BY <1>1, <1>5
  <2> QED BY <1>1, <2>1, <2>2, SerializeKeeps
<1> QED BY <1>3, <1>4, <1>5 DEF WriteOrRef

LEMMA WriteKeeps ==
  ASSUME Layout, NEW t \in Items, Write(t) \/ WriteFiltered(t)
  PROVE  Layout'
<1>1. t \in DataItems /\ Rest(t) \in DataItems \cup {NilItem, Panicked}
  BY ItemsAssumption
<1>2. CASE Write(t)
  BY <1>1, <1>2, WithRefKeeps DEF Write
<1>3. CASE WriteFiltered(t)
  <2>1. CASE WriteNothing(t)
    BY <2>1, UnchangedKeeps DEF WriteNothing
  <2>2. CASE WriteRest(t)
    <3> PICK u : u = Rest(t)
      OBVIOUS
    <3>1. u \in DataItems /\ WriteWithRef(u) /\ calls = <<>>
      BY <1>1, <1>3, <2>2 DEF WriteRest, WriteFiltered
    <3> QED BY <3>1, WithRefKeeps
  <2> QED BY <1>3, <2>1, <2>2 DEF WriteFiltered
<1> QED BY <1>2, <1>3

LEMMA LayoutAtFirst ==
  ASSUME Init
  PROVE  Layout
<1>1. /\ buf = <<>> /\ positions = <<>> /\ calls = <<>> /\ offsets = <<>> /\ stands = <<>>
      /\ DOMAIN buf = {} /\ DOMAIN positions = {} /\ DOMAIN calls = {} /\ DOMAIN offsets = {}
      /\ DOMAIN stands = {} /\ Len(calls) = 0
  BY DEF Init
<1>2. TypeOK
  BY <1>1 DEF TypeOK
<1>3. Nested(calls)
  BY <1>1 DEF Nested
<1> QED BY <1>1, <1>2, <1>3 DEF Layout, PointersAreDirect, CallsStand, Open, CallsNest,
              PositionsStand, AllStandRight, OffsetsStand

LEMMA StepKeepsLayout ==
  ASSUME Layout, [Next]_vars
  PROVE  Layout'
<1>1. CASE \E t \in Items : Write(t) \/ WriteFiltered(t)
  BY <1>1, WriteKeeps
<1>2. CASE WritePart
  BY <1>2, WritePartKeeps
<1>3. CASE Return
  BY <1>3, ReturnKeeps
<1>4. CASE UNCHANGED vars
  BY <1>4, UnchangedKeeps DEF vars
<1> QED BY <1>1, <1>2, <1>3, <1>4 DEF Next
-----------------------------------------------------------------------------
(***************************************************************************)
(* The parts of a value, and theirs.                                       *)
(***************************************************************************)
PartsOfParts(t) ==
  /\ AllParts(t) \subseteq DataItems
  /\ \A p \in AllParts(t) : \A i \in 1..Len(p.items) : p.items[i] \in AllParts(t)

LEMMA AllPartsOf ==
  ASSUME NEW t \in DataItems
  PROVE  /\ t \in AllParts(t) /\ DOMAIN t.items = 1..Len(t.items)
         /\ \A i \in 1..Len(t.items) : AllParts(t.items[i]) \subseteq AllParts(t)
         /\ \A p \in AllParts(t) : p = t \/ \E i \in 1..Len(t.items) : p \in AllParts(t.items[i])
<1>1. AllParts(t) = {t} \cup UNION {AllParts(t.items[i]) : i \in DOMAIN t.items}
  BY DataItemsAssumption
<1>2. DOMAIN t.items = 1..Len(t.items)
  BY PartsAreValues
<1> QED BY <1>1, <1>2

LEMMA PartsHaveParts ==
  ASSUME NEW t \in DataItems
  PROVE  PartsOfParts(t)
<1> DEFINE S == {n \in Nat : \A u \in DataItems : Depth(u) < n => PartsOfParts(u)}
<1>1. 0 \in S
  BY PartsAreValues
<1>2. ASSUME NEW n \in Nat, n \in S PROVE n + 1 \in S
  <2> SUFFICES ASSUME NEW u \in DataItems, Depth(u) < n + 1 PROVE PartsOfParts(u)
    OBVIOUS
  <2>1. \A i \in 1..Len(u.items) : u.items[i] \in DataItems /\ PartsOfParts(u.items[i])
    <3> SUFFICES ASSUME NEW i \in 1..Len(u.items)
                 PROVE  u.items[i] \in DataItems /\ PartsOfParts(u.items[i])
      OBVIOUS
    <3>1. u.items[i] \in DataItems /\ Depth(u.items[i]) < Depth(u)
      BY PartsAreValues
    <3>2. Depth(u.items[i]) < n
      <4>1. Depth(u) \in Nat /\ Depth(u.items[i]) \in Nat
        BY <3>1, PartsAreValues
      <4> QED BY <3>1, <4>1
    <3> QED BY <1>2, <3>1, <3>2
  <2>2. ASSUME NEW p \in AllParts(u)
        PROVE  p \in DataItems /\ \A i \in 1..Len(p.items) : p.items[i] \in AllParts(u)
    <3>1. CASE p = u
      <4>1. \A i \in 1..Len(u.items) : u.items[i] \in AllParts(u.items[i])
        BY <2>1, AllPartsOf
      <4> QED BY <3>1, <4>1, AllPartsOf
    <3>2. CASE p # u
      <4>1. PICK j \in 1..Len(u.items) : p \in AllParts(u.items[j])
        BY <3>2, AllPartsOf
      <4>2. p \in DataItems /\ \A i \in 1..Len(p.items) : p.items[i] \in AllParts(u.items[j])
        BY <2>1, <4>1 DEF PartsOfParts
      <4>3. AllParts(u.items[j]) \subseteq AllParts(u)
        BY AllPartsOf
      <4> QED BY <4>2, <4>3
    <3> QED BY <3>1, <3>2
  <2> QED BY <2>2 DEF PartsOfParts
<1>3. Nat \subseteq S
  <2> HIDE DEF S
  <2> QED BY <1>1, <1>2, Induction
<1>4. Depth(t) \in Nat /\ Depth(t) + 1 \in S /\ Depth(t) < Depth(t) + 1
  <2>1. Depth(t) \in Nat
    BY PartsAreValues
  <2> HIDE DEF S
  <2> QED BY <1>3, <2>1
<1> QED BY <1>4
-----------------------------------------------------------------------------
(***************************************************************************)
(* The steps keep the sharing.                                             *)
(***************************************************************************)
LEMMA OnlyOnceStays ==
  ASSUME Layout, OnlyOnce, Grows, UNCHANGED positions
  PROVE  \A o \in DOMAIN stands : FullAt(o)' => /\ KeyOf(stands[o].value)' \in DOMAIN positions'
                                                /\ positions'[KeyOf(stands[o].value)'].ref = o
<1> SUFFICES ASSUME NEW o \in DOMAIN stands, FullAt(o)'
             PROVE  /\ KeyOf(stands'[o].value) \in DOMAIN positions'
                    /\ positions'[KeyOf(stands'[o].value)].ref = o
  BY Zenon
<1>1. o \in DOMAIN buf /\ stands'[o] = stands[o]
  BY DEF Grows, Layout, TypeOK
<1>2. FullAt(o)
  BY <1>1, PointerStays DEF FullAt
<1> QED BY <1>1, <1>2 DEF OnlyOnce

LEMMA OpenKnows ==
  ASSUME Layout, Sharing, NEW n \in 1..Len(calls)
  PROVE  /\ calls[n] \in CallRecords /\ CallKnows(calls[n]) /\ calls[n].key = KeyOf(calls[n].value)
         /\ calls[n].value \in DataItems /\ calls[n].value \in AllParts(calls[1].value)
         /\ calls[1].value \in DataItems
<1>1. calls \in Seq(CallRecords) /\ 1 \in 1..Len(calls)
  BY DEF Layout, TypeOK
<1>2. calls[n] \in CallRecords /\ calls[1] \in CallRecords
  BY <1>1
<1> PICK c \in CallRecords : c = calls[n]
  BY <1>2
<1>3. Open(c)
  BY <1>1 DEF Open
<1>4. CallKnows(c) /\ CallStands(c)
  BY <1>3 DEF Sharing, CallsKnow, Layout, CallsStand
<1>5. c.value \in AllParts(calls[1].value)
  BY <1>1 DEF Sharing, AllArePartsOfSome
<1>6. calls[1].value \in DataItems /\ c.value \in DataItems
  BY <1>2 DEF CallRecords
<1> QED BY <1>4, <1>5, <1>6 DEF CallStands

LEMMA SerializeShares ==
  ASSUME Layout, Sharing, NEW t \in DataItems, NEW known \in BOOLEAN,
         Serialize(t, KeyOf(t), known),
         UNCHANGED <<positions, stands, offsets>>,
         calls # <<>> => HasPart /\ t = Part,
         known = Known(KeyOf(t)), ~WorthIt(KeyOf(t))
  PROVE  Sharing'
<1>1. TypeOK /\ calls \in Seq(CallRecords) /\ Len(calls) \in Nat
  BY DEF Layout, TypeOK
<1>2. /\ buf' \in Seq(CellRecords) /\ Len(buf) \in Nat
      /\ DOMAIN buf = 1..Len(buf) /\ DOMAIN buf' = 1..(Len(buf) + 1)
      /\ \A o \in DOMAIN buf : o \in DOMAIN buf' /\ buf'[o] = buf[o]
  BY <1>1, PartsAreValues, BufferGrows DEF Serialize
<1>3. Grows
  BY <1>2 DEF Grows
<1> PICK d : d = Call(t, KeyOf(t), known)
  OBVIOUS
<1>4. d.value = t /\ d.key = KeyOf(t) /\ (d.known <=> known) /\ RefOf(d) = Len(buf) + 1
  BY <1>2 DEF Call, RefOf
<1>5. /\ DOMAIN calls' = 1..(Len(calls) + 1) /\ calls'[Len(calls) + 1] = d
      /\ \A n \in 1..Len(calls) : calls'[n] = calls[n]
      /\ Len(calls) > 0 <=> calls # <<>>
      /\ calls' # <<>>
  BY <1>1 DEF Serialize
<1>6. CallsKnow'
  <2> SUFFICES ASSUME NEW e \in CallRecords, Open(e)' PROVE CallKnows(e)'
    BY DEF CallsKnow
  <2>1. PICK n \in 1..(Len(calls) + 1) : calls'[n] = e
    BY <1>5 DEF Open
  <2>2. CallKnows(e)
    <3>1. CASE n \in 1..Len(calls)
      BY <1>5, <2>1, <3>1, OpenKnows
    <3>2. CASE n = Len(calls) + 1
      <4>1. e = d
        BY <1>5, <2>1, <3>2
      <4>2. CASE known
        <5>1. KeyOf(t) \in DOMAIN positions /\ ~(positions[KeyOf(t)].length > PointerLength)
          BY <4>2 DEF Known, WorthIt
        <5>2. positions[KeyOf(t)].length \in Nat
          BY <1>1, <5>1 DEF TypeOK
        <5>3. positions[KeyOf(t)].length <= PointerLength
          BY <5>1, <5>2 DEF PointerLength
        <5>4. e.key = KeyOf(t) /\ e.known
          BY <1>4, <4>1, <4>2
        <5> QED BY <5>1, <5>3, <5>4 DEF CallKnows
      <4>3. CASE ~known
        <5>1. KeyOf(t) \notin DOMAIN positions
          BY <4>3 DEF Known
        <5> QED BY <1>4, <4>1, <4>3, <5>1 DEF CallKnows
      <4> QED BY <4>2, <4>3
    <3> QED BY <1>1, <3>1, <3>2
  <2> QED BY <2>2 DEF CallKnows
<1>7. OnlyOnce'
  BY <1>3, OnlyOnceStays DEF Sharing, OnlyOnce
<1>8. Covered'
  <2> SUFFICES ASSUME NEW o \in DOMAIN buf', o \notin DOMAIN stands'
               PROVE  \E n \in DOMAIN calls' : RefOf(calls'[n]) = o
    BY DEF Covered, RefOf
  <2>1. CASE o \in DOMAIN buf
    <3>1. PICK n \in DOMAIN calls : RefOf(calls[n]) = o
      BY <2>1 DEF Sharing, Covered
    <3>2. n \in 1..Len(calls) /\ n \in DOMAIN calls' /\ calls'[n] = calls[n]
      BY <1>1, <1>5, <3>1
    <3> QED BY <3>1, <3>2
  <2>2. CASE o = Len(buf) + 1
    <3>1. Len(calls) + 1 \in DOMAIN calls'
      BY <1>1, <1>5
    <3> QED BY <1>4, <1>5, <2>2, <3>1
  <2> QED BY <1>2, <2>1, <2>2
<1>9. AllArePartsOfSome'
  <2>1. CASE calls = <<>>
    <3>1. Len(calls) = 0 /\ DOMAIN calls' = {1} /\ calls'[1] = d
      BY <1>5, <2>1
    <3>2. \A o \in DOMAIN stands' : IsPartOfSome(stands[o].value)'
      BY <2>1 DEF Sharing, AllArePartsOfSome, IsPartOfSome
    <3>3. d.value \in AllParts(d.value)
      BY <1>4, AllPartsOf
    <3> QED BY <3>1, <3>2, <3>3 DEF AllArePartsOfSome
  <2>2. CASE calls # <<>>
    <3>1. 1 \in 1..Len(calls) /\ calls'[1] = calls[1] /\ Len(calls) \in 1..Len(calls)
      BY <1>1, <1>5, <2>2
    <3>2. \A o \in DOMAIN stands' : IsPartOfSome(stands[o].value)'
      BY <1>5, <2>2, <3>1 DEF Sharing, AllArePartsOfSome, IsPartOfSome
    <3>3. t \in AllParts(calls[1].value)
      <4>1. Top.value \in AllParts(calls[1].value) /\ calls[1].value \in DataItems
        BY <3>1, OpenKnows DEF Top
      <4>2. Len(Top.starts) \in 1..Len(Top.value.items) /\ t = Top.value.items[Len(Top.starts)]
        <5>1. Len(Top.value.items) \in Nat
          BY <2>2, TopFacts, PartsAreValues
        <5> QED BY <2>2, <5>1, TopFacts DEF HasPart, Part
      <4> QED BY <4>1, <4>2, PartsHaveParts DEF PartsOfParts
    <3>4. \A n \in 1..(Len(calls) + 1) : calls'[n].value \in AllParts(calls'[1].value)
      <4> SUFFICES ASSUME NEW n \in 1..(Len(calls) + 1)
                   PROVE  calls'[n].value \in AllParts(calls[1].value)
        BY <3>1
      <4>1. CASE n \in 1..Len(calls)
        BY <1>5, <4>1, OpenKnows
      <4>2. CASE n = Len(calls) + 1
        BY <1>4, <1>5, <3>3, <4>2
      <4> QED BY <1>1, <4>1, <4>2
    <3> QED BY <1>5, <3>2, <3>4 DEF AllArePartsOfSome
  <2> QED BY <2>1, <2>2
<1> QED BY <1>6, <1>7, <1>8, <1>9 DEF Sharing

LEMMA WritePointerShares ==
  ASSUME Layout, Sharing, NEW t \in DataItems, calls # <<>>, HasPart, t = Part,
         WritePointer(t, KeyOf(t)), UNCHANGED offsets, Layout'
  PROVE  Sharing'
<1> PICK o : o = Len(buf) + 1
  OBVIOUS
<1> PICK p : p = positions[KeyOf(t)].ref
  OBVIOUS
<1>1. TypeOK /\ calls \in Seq(CallRecords) /\ Len(calls) \in Nat /\ buf \in Seq(CellRecords)
      /\ Len(calls) > 0 /\ positions' = positions
  BY DEF Layout, TypeOK, WritePointer
<1>2. /\ DOMAIN buf = 1..Len(buf) /\ DOMAIN buf' = 1..(Len(buf) + 1) /\ Len(buf) \in Nat
      /\ \A q \in DOMAIN buf : q \in DOMAIN buf' /\ buf'[q] = buf[q]
      /\ buf'[o] = Pointer(p)
  <2> HIDE DEF CellRecords
  <2>1. buf' = Append(buf, Pointer(p))
    BY DEF WritePointer
  <2> QED BY <1>1, <2>1
<1>3. o \notin DOMAIN stands
  BY <1>1, <1>2 DEF TypeOK
<1>4. /\ DOMAIN stands' = DOMAIN stands \cup {o} /\ stands'[o].value = t
      /\ \A q \in DOMAIN stands : stands'[q] = stands[q]
  BY <1>3 DEF WritePointer, Written
<1>5. Grows
  BY <1>2, <1>4 DEF Grows
<1> PICK cs : cs = calls
  OBVIOUS
<1> PICK r : r = calls'
  OBVIOUS
<1>6. /\ r \in Seq(CallRecords) /\ Len(r) = Len(cs) /\ DOMAIN r = 1..Len(cs) /\ r # <<>>
      /\ \A n \in 1..Len(cs) : /\ RefOf(r[n]) = RefOf(cs[n]) /\ r[n].value = cs[n].value
                               /\ r[n].key = cs[n].key /\ r[n].known = cs[n].known
  <2> PICK end, length : end = Len(buf) + 2 /\ length = PointerLength
    OBVIOUS
  <2>1. end \in Nat /\ length \in Nat /\ r = Resume(cs, end, length)
    BY <1>2 DEF WritePointer, PointerLength
  <2>2. cs \in Seq(CallRecords) /\ Nested(cs) /\ cs # <<>>
    BY <1>1 DEF Layout, CallsNest
  <2>3. \A n \in 1..Len(cs) : Len(cs[n].starts) >= 1
    <3> SUFFICES ASSUME NEW n \in 1..Len(cs) PROVE Len(cs[n].starts) >= 1
      OBVIOUS
    <3>1. Len(cs[n].starts) \in 1..(Len(cs[n].value.items) + 1)
      BY OpenStands DEF CallStands
    <3> QED BY <3>1
  <2>4. r \in Seq(CallRecords)
    BY <2>1, <2>2, Resumed
  <2>5. Len(r) = Len(cs)
    BY <2>1, <2>2, Resumed
  <2>6. \A n \in 1..Len(cs) : /\ RefOf(r[n]) = RefOf(cs[n]) /\ r[n].value = cs[n].value
                              /\ r[n].key = cs[n].key /\ r[n].known = cs[n].known
    BY <2>1, <2>2, <2>3, ResumedNests
  <2>7. DOMAIN r = 1..Len(cs) /\ r # <<>>
    BY <1>1, <2>4, <2>5
  <2> QED BY <2>4, <2>5, <2>6, <2>7
<1>7. CallsKnow'
  <2> SUFFICES ASSUME NEW e \in CallRecords, Open(e)' PROVE CallKnows(e)'
    BY DEF CallsKnow
  <2>1. PICK n \in 1..Len(cs) : r[n] = e
    BY <1>6 DEF Open
  <2>2. CallKnows(cs[n]) /\ e.key = cs[n].key /\ e.known = cs[n].known
    BY <1>6, <2>1, OpenKnows
  <2> QED BY <1>1, <2>2 DEF CallKnows
<1>8. OnlyOnce'
  <2>1. ~FullAt(o)'
    <3>1. Pointer(p).type = "pointer"
      BY DEF Pointer
    <3> QED BY <1>2, <3>1 DEF FullAt, IsPointer
  <2> QED BY <1>1, <1>4, <1>5, <2>1, OnlyOnceStays DEF Sharing, OnlyOnce
<1>9. Covered'
  <2> SUFFICES ASSUME NEW q \in DOMAIN buf', q \notin DOMAIN stands'
               PROVE  \E n \in DOMAIN calls' : RefOf(calls'[n]) = q
    BY DEF Covered, RefOf
  <2>1. q \in DOMAIN buf /\ q \notin DOMAIN stands
    BY <1>2, <1>4
  <2>2. PICK n \in DOMAIN calls : RefOf(calls[n]) = q
    BY <2>1 DEF Sharing, Covered
  <2>3. n \in 1..Len(cs)
    BY <1>1
  <2> QED BY <1>6, <2>2, <2>3
<1>10. AllArePartsOfSome'
  <2>1. 1 \in 1..Len(cs) /\ r[1].value = cs[1].value /\ Len(calls) \in 1..Len(calls)
    BY <1>1, <1>6
  <2>2. \A n \in DOMAIN calls' : calls'[n].value \in AllParts(calls'[1].value)
    BY <1>6, <2>1, OpenKnows
  <2>3. t \in AllParts(calls[1].value)
    <3>1. Top.value \in AllParts(calls[1].value) /\ calls[1].value \in DataItems
      BY <2>1, OpenKnows DEF Top
    <3>2. Len(Top.starts) \in 1..Len(Top.value.items) /\ t = Top.value.items[Len(Top.starts)]
      <4>1. Len(Top.value.items) \in Nat
        BY TopFacts, PartsAreValues
      <4> QED BY <4>1, TopFacts DEF HasPart, Part
    <3> QED BY <3>1, <3>2, PartsHaveParts DEF PartsOfParts
  <2>4. \A q \in DOMAIN stands' : IsPartOfSome(stands[q].value)'
    <3> SUFFICES ASSUME NEW q \in DOMAIN stands' PROVE IsPartOfSome(stands[q].value)'
      OBVIOUS
    <3>1. CASE q = o
      BY <1>4, <1>6, <2>1, <2>3, <3>1 DEF IsPartOfSome
    <3>2. CASE q \in DOMAIN stands
      <4>1. IsPartOfSome(stands[q].value) /\ stands'[q] = stands[q]
        BY <1>4, <3>2 DEF Sharing, AllArePartsOfSome
      <4> QED BY <1>6, <2>1, <4>1 DEF IsPartOfSome
    <3> QED BY <1>4, <3>1, <3>2
  <2> QED BY <2>2, <2>4 DEF AllArePartsOfSome
<1> QED BY <1>7, <1>8, <1>9, <1>10 DEF Sharing

LEMMA ReturnShares ==
  ASSUME Layout, Sharing, Return
  PROVE  Sharing'
<1> PICK c : c = Top
  OBVIOUS
<1> PICK o : o = RefOf(c)
  OBVIOUS
<1> PICK whole : whole = calls
  OBVIOUS
<1> PICK r : r = calls'
  OBVIOUS
<1>1. /\ TypeOK /\ calls # <<>> /\ whole \in Seq(CallRecords) /\ Len(whole) \in Nat /\ Len(whole) > 0
      /\ DOMAIN whole = 1..Len(whole) /\ c = whole[Len(whole)]
      /\ Nested(whole) /\ whole # <<>> /\ c \in CallRecords /\ CallStands(c)
      /\ Len(c.starts) \in Nat
  BY TopFacts DEF Layout, Return, CallsNest, Top
<1>2. /\ c.value \in DataItems /\ c.key = KeyOf(c.value) /\ o \in DOMAIN buf \ DOMAIN stands
      /\ CallKnows(c) /\ c.value \in AllParts(whole[1].value) /\ whole[1].value \in DataItems
      /\ c.length \in Nat
  BY <1>1, OpenKnows DEF CallStands, CallRecords
<1>3. Len(c.starts) > Len(c.value.items)
  <2>1. Len(c.value.items) \in Nat
    BY <1>2, PartsAreValues
  <2> QED BY <1>1, <2>1 DEF Return, HasPart
<1>4. buf' = buf /\ stands' = Written(RefOf(c), c.value, c.starts)
  BY DEF Return, RefOf
<1>5. /\ Grows /\ DOMAIN stands' = DOMAIN stands \cup {o}
      /\ c.value.items # <<>> => c.length > PointerLength
      /\ stands'[o].value = c.value
  BY <1>1, <1>3, <1>4, CallEnds DEF Stands
<1>6. \A q \in DOMAIN stands : stands'[q] = stands[q]
  BY <1>5 DEF Grows
<1>7. /\ r \in Seq(CallRecords) /\ Len(r) = Len(whole) - 1 /\ DOMAIN r = 1..(Len(whole) - 1)
      /\ \A n \in 1..(Len(whole) - 1) :
           /\ RefOf(r[n]) = RefOf(whole[n]) /\ r[n].value = whole[n].value
           /\ r[n].key = whole[n].key /\ r[n].known = whole[n].known
  <2>1. \E cs \in Seq(CallRecords), end \in Nat, length \in Nat :
          /\ r = Resume(cs, end, length) /\ Len(cs) = Len(whole) - 1 /\ Nested(cs)
          /\ \A n \in 1..(Len(whole) - 1) : cs[n] = whole[n]
    <3> PICK cs : cs = SubSeq(whole, 1, Len(whole) - 1)
      OBVIOUS
    <3>1. Len(buf) + 1 \in Nat
      BY <1>1 DEF TypeOK
    <3>2. calls' = Resume(SubSeq(calls, 1, Len(calls) - 1), Len(buf) + 1, Top.length)
      BY DEF Return
    <3>3. cs \in Seq(CallRecords)
      BY <1>1, FrontNests
    <3>4. Len(cs) = Len(whole) - 1
      BY <1>1, FrontNests
    <3>5. \A n \in 1..(Len(whole) - 1) : cs[n] = whole[n]
      BY <1>1, FrontNests
    <3>6. Nested(cs)
      BY <1>1, FrontNests
    <3>7. r = Resume(cs, Len(buf) + 1, c.length)
      BY <3>2
    <3> QED BY <1>2, <3>1, <3>3, <3>4, <3>5, <3>6, <3>7
  <2> PICK cs \in Seq(CallRecords), end \in Nat, length \in Nat :
          /\ r = Resume(cs, end, length) /\ Len(cs) = Len(whole) - 1 /\ Nested(cs)
          /\ \A n \in 1..(Len(whole) - 1) : cs[n] = whole[n]
    BY <2>1
  <2>6. r \in Seq(CallRecords)
    BY Resumed
  <2>7. Len(r) = Len(cs)
    BY Resumed
  <2>8. Started(cs)
    <3> SUFFICES ASSUME NEW n \in 1..Len(cs) PROVE Len(cs[n].starts) >= 1
      BY DEF Started
    <3>1. n \in 1..Len(calls) /\ cs[n] = calls[n]
      BY <1>1
    <3>2. Len(calls[n].starts) \in 1..(Len(calls[n].value.items) + 1)
      BY <3>1, OpenStands DEF CallStands
    <3> QED BY <3>1, <3>2
  <2>9. SameCalls(r, cs)
    BY <2>8, ResumedSame
  <2>10. DOMAIN r = 1..Len(cs)
    BY <2>6, <2>7
  <2>11. \A n \in 1..(Len(whole) - 1) :
           /\ RefOf(r[n]) = RefOf(whole[n]) /\ r[n].value = whole[n].value
           /\ r[n].key = whole[n].key /\ r[n].known = whole[n].known
    BY <2>9 DEF SameCalls
  <2> QED BY <2>6, <2>7, <2>10, <2>11
<1>8. IF c.known THEN positions' = positions
      ELSE /\ DOMAIN positions' = DOMAIN positions \cup {c.key}
           /\ positions'[c.key].ref = o
           /\ \A h \in DOMAIN positions : h # c.key => positions'[h] = positions[h]
           /\ c.key \notin DOMAIN positions
  BY <1>2 DEF Return, Remember, CallKnows
<1>9. CallsKnow'
  <2> SUFFICES ASSUME NEW e \in CallRecords, Open(e)' PROVE CallKnows(e)'
    BY DEF CallsKnow
  <2>1. PICK n \in 1..(Len(whole) - 1) : r[n] = e
    BY <1>7 DEF Open
  <2>2. n \in 1..Len(whole) /\ n < Len(whole) /\ Len(whole) \in 1..Len(whole)
    BY <1>1
  <2>3. /\ CallKnows(whole[n]) /\ e.key = whole[n].key /\ e.known = whole[n].known
        /\ e.key = KeyOf(whole[n].value) /\ whole[n].value \in DataItems
    BY <1>7, <2>1, <2>2, OpenKnows
  <2>4. CallKnows(e)
    BY <2>3 DEF CallKnows
  <2>5. e.key # c.key
    <3>1. Depth(c.value) < Depth(whole[n].value)
      BY <1>1, <2>2 DEF Nested
    <3>2. Depth(c.value) \in Nat
      BY <1>2, PartsAreValues
    <3>3. c.value # whole[n].value
      BY <3>1, <3>2
    <3> QED BY <1>2, <2>3, <3>3, KeysTell
  <2> QED BY <1>8, <2>4, <2>5 DEF CallKnows
<1>10. OnlyOnce'
  <2> SUFFICES ASSUME NEW q \in DOMAIN stands', FullAt(q)'
               PROVE  /\ KeyOf(stands'[q].value) \in DOMAIN positions'
                      /\ positions'[KeyOf(stands'[q].value)].ref = q
    BY DEF OnlyOnce
  <2>1. CASE q = o
    <3>1. c.value.items # <<>> /\ KeyOf(stands'[q].value) = c.key
      BY <1>2, <1>5, <2>1 DEF FullAt
    <3>2. ~c.known
      <4> SUFFICES ASSUME c.known PROVE FALSE
        OBVIOUS
      <4>1. c.key \in DOMAIN positions /\ positions[c.key].length <= PointerLength
        BY <1>2 DEF CallKnows
      <4> PICK p : p = positions[c.key].ref
        OBVIOUS
      <4>2. /\ p \in DOMAIN stands /\ KeyOf(stands[p].value) = c.key
            /\ stands[p].value.items # <<>> => positions[c.key].length > PointerLength
        BY <4>1 DEF Layout, PositionsStand, PositionStands
      <4>3. stands[p].value \in DataItems
        BY <1>1, <4>2 DEF TypeOK
      <4>4. stands[p].value = c.value
        BY <1>2, <4>2, <4>3, KeysTell
      <4>5. positions[c.key].length \in Nat /\ positions[c.key].length > PointerLength
        BY <1>1, <3>1, <4>1, <4>2, <4>4 DEF TypeOK
      <4> QED BY <4>1, <4>5 DEF PointerLength
    <3> QED BY <1>8, <2>1, <3>1, <3>2
  <2>2. CASE q # o
    <3>1. q \in DOMAIN stands /\ q \in DOMAIN buf /\ stands'[q] = stands[q]
      BY <1>1, <1>5, <1>6, <2>2 DEF TypeOK
    <3>2. FullAt(q)
      BY <1>5, <3>1, PointerStays DEF FullAt
    <3> PICK h : h = KeyOf(stands[q].value)
      OBVIOUS
    <3>3. h \in DOMAIN positions /\ positions[h].ref = q
      BY <3>1, <3>2 DEF Sharing, OnlyOnce
    <3>4. KeyOf(stands'[q].value) = h
      BY <3>1
    <3>5. h \in DOMAIN positions' /\ positions'[h] = positions[h]
      BY <1>8, <3>3
    <3> QED BY <3>3, <3>4, <3>5
  <2> QED BY <2>1, <2>2
<1>11. Covered'
  <2> SUFFICES ASSUME NEW q \in DOMAIN buf', q \notin DOMAIN stands'
               PROVE  \E n \in DOMAIN calls' : RefOf(calls'[n]) = q
    BY DEF Covered, RefOf
  <2>1. q \in DOMAIN buf /\ q \notin DOMAIN stands /\ q # o
    BY <1>4, <1>5
  <2>2. PICK n \in 1..Len(whole) : RefOf(whole[n]) = q
    BY <1>1, <2>1 DEF Sharing, Covered
  <2>3. n \in 1..(Len(whole) - 1)
    <3>1. n # Len(whole)
      BY <1>1, <2>1, <2>2
    <3> PICK k \in Nat : k = Len(whole)
      BY <1>1
    <3>2. n \in 1..k /\ n # k
      BY <2>2, <3>1
    <3> QED BY <3>2
  <2> QED BY <1>7, <2>2, <2>3
<1>12. AllArePartsOfSome'
  <2>1. \A n \in DOMAIN calls' : calls'[n].value \in AllParts(calls'[1].value)
    <3> SUFFICES ASSUME NEW n \in 1..(Len(whole) - 1) PROVE r[n].value \in AllParts(r[1].value)
      BY <1>7
    <3>1. n \in 1..Len(whole) /\ 1 \in 1..(Len(whole) - 1)
      BY <1>1
    <3> QED BY <1>7, <3>1, OpenKnows
  <2>2. ASSUME NEW t, IsPartOfSome(t) PROVE IsPartOfSome(t)'
    <3>1. CASE Len(whole) = 1
      <4>1. offsets' = [v \in DOMAIN offsets \cup {c.value} |-> IF v = c.value THEN o ELSE offsets[v]]
        BY <3>1 DEF Return, SetOffset
      <4>2. DOMAIN offsets' = DOMAIN offsets \cup {c.value} /\ whole[1] = c
        BY <1>1, <3>1, <4>1
      <4> QED BY <2>2, <4>2 DEF IsPartOfSome
    <3>2. CASE Len(whole) # 1
      <4>1. offsets' = offsets
        BY <3>2 DEF Return
      <4>2. 1 \in 1..(Len(whole) - 1)
        BY <1>1, <3>2
      <4>3. r[1].value = whole[1].value /\ r # <<>>
        BY <1>7, <4>2
      <4> QED BY <2>2, <4>1, <4>3 DEF IsPartOfSome
    <3> QED BY <3>1, <3>2
  <2>3. ASSUME NEW q \in DOMAIN stands' PROVE IsPartOfSome(stands[q].value)'
    <3> PICK t : t = stands'[q].value
      OBVIOUS
    <3>1. IsPartOfSome(t)
      <4>1. CASE q = o
        BY <1>1, <1>2, <1>5, <4>1 DEF IsPartOfSome
      <4>2. CASE q # o
        BY <1>5, <1>6, <4>2 DEF Sharing, AllArePartsOfSome
      <4> QED BY <4>1, <4>2
    <3>2. IsPartOfSome(t)'
      BY <2>2, <3>1
    <3> QED BY <3>2 DEF IsPartOfSome
  <2> QED BY <2>1, <2>3 DEF AllArePartsOfSome
<1> QED BY <1>9, <1>10, <1>11, <1>12 DEF Sharing

LEMMA UnchangedShares ==
  ASSUME Sharing, UNCHANGED <<buf, positions, calls, offsets, stands>>
  PROVE  Sharing'
BY DEF Sharing, CallsKnow, CallKnows, Open, OnlyOnce, FullAt, IsPointer, Covered, RefOf,
       AllArePartsOfSome, IsPartOfSome

LEMMA WithRefShares ==
  ASSUME Layout, Sharing, calls = <<>>, NEW t \in DataItems, WriteWithRef(t)
  PROVE  Sharing'
<1>1. CASE ~Known(KeyOf(t)) /\ Serialize(t, KeyOf(t), FALSE) /\ UNCHANGED offsets
  <2>1. UNCHANGED <<positions, stands, offsets>>
    BY <1>1 DEF WriteWithRef
  <2>2. Known(KeyOf(t)) = FALSE
    BY <1>1 DEF Known
  <2> PICK known \in BOOLEAN : known = FALSE
    OBVIOUS
  <2>3. Serialize(t, KeyOf(t), known) /\ known = Known(KeyOf(t)) /\ ~WorthIt(KeyOf(t))
    BY <1>1, <2>2 DEF WorthIt
  <2> QED BY <2>1, <2>3, SerializeShares
<1>2. CASE /\ Known(KeyOf(t)) /\ offsets' = SetOffset(t, positions[KeyOf(t)].ref)
           /\ UNCHANGED <<buf, calls>>
  <2>1. UNCHANGED <<buf, calls, positions, stands>>
    BY <1>2 DEF WriteWithRef
  <2>2. DOMAIN offsets \subseteq DOMAIN offsets'
    BY <1>2 DEF SetOffset
  <2>3. AllArePartsOfSome'
    BY <2>1, <2>2 DEF Sharing, AllArePartsOfSome, IsPartOfSome
  <2>4. CallsKnow' /\ OnlyOnce' /\ Covered'
    BY <2>1 DEF Sharing, CallsKnow, CallKnows, Open, OnlyOnce, FullAt, IsPointer, Covered, RefOf
  <2> QED BY <2>3, <2>4 DEF Sharing
<1> QED BY <1>1, <1>2 DEF WriteWithRef

LEMMA WritePartShares ==
  ASSUME Layout, Sharing, WritePart
  PROVE  Sharing'
<1> PICK t : t = Part
  OBVIOUS
<1>1. calls # <<>> /\ HasPart /\ t \in DataItems /\ UNCHANGED offsets
  BY TopFacts DEF WritePart
<1>2. hashBuffer'.digest = KeyOf(t)
  BY HashedKey DEF WritePart
<1>3. WriteOrRef(t, KeyOf(t))
  BY <1>2 DEF WritePart
<1>4. CASE WorthIt(KeyOf(t)) /\ WritePointer(t, KeyOf(t))
  BY <1>1, <1>4, WritePartKeeps, WritePointerShares
<1>5. CASE /\ ~WorthIt(KeyOf(t)) /\ Serialize(t, KeyOf(t), Known(KeyOf(t)))
           /\ UNCHANGED <<positions, stands>>
  <2>3. Known(KeyOf(t)) \in BOOLEAN
    BY DEF Known
  <2> PICK known \in BOOLEAN : known = Known(KeyOf(t))
    BY <2>3, Zenon
  <2>1. Serialize(t, KeyOf(t), known) /\ ~WorthIt(KeyOf(t))
    BY <1>5
  <2>2. UNCHANGED <<positions, stands, offsets>>
    BY <1>1, <1>5
  <2> QED BY <1>1, <2>1, <2>2, SerializeShares
<1> QED BY <1>3, <1>4, <1>5 DEF WriteOrRef

LEMMA WriteShares ==
  ASSUME Layout, Sharing, NEW t \in Items, Write(t) \/ WriteFiltered(t)
  PROVE  Sharing'
<1>1. t \in DataItems /\ Rest(t) \in DataItems \cup {NilItem, Panicked}
  BY ItemsAssumption
<1>2. CASE Write(t)
  BY <1>1, <1>2, WithRefShares DEF Write
<1>3. CASE WriteFiltered(t)
  <2>1. CASE WriteNothing(t)
    BY <2>1, UnchangedShares DEF WriteNothing
  <2>2. CASE WriteRest(t)
    <3> PICK u : u = Rest(t)
      OBVIOUS
    <3>1. u \in DataItems /\ WriteWithRef(u) /\ calls = <<>>
      BY <1>1, <1>3, <2>2 DEF WriteRest, WriteFiltered
    <3> QED BY <3>1, WithRefShares
  <2> QED BY <1>3, <2>1, <2>2 DEF WriteFiltered
<1> QED BY <1>2, <1>3

LEMMA SharingAtFirst ==
  ASSUME Init
  PROVE  Sharing
<1>1. /\ DOMAIN buf = {} /\ DOMAIN calls = {} /\ DOMAIN stands = {}
  BY DEF Init
<1> QED BY <1>1 DEF Sharing, CallsKnow, Open, OnlyOnce, Covered, AllArePartsOfSome

LEMMA StepKeepsSharing ==
  ASSUME Layout, Sharing, [Next]_vars
  PROVE  Sharing'
<1>1. CASE \E t \in Items : Write(t) \/ WriteFiltered(t)
  BY <1>1, WriteShares
<1>2. CASE WritePart
  BY <1>2, WritePartShares
<1>3. CASE Return
  BY <1>3, ReturnShares
<1>4. CASE UNCHANGED vars
  BY <1>4, UnchangedShares DEF vars
<1> QED BY <1>1, <1>2, <1>3, <1>4 DEF Next
-----------------------------------------------------------------------------
(***************************************************************************)
(* What the invariants say of the section.                                 *)
(***************************************************************************)

\* What stands anywhere stands itself somewhere: behind the pointer if there is one.
StandsItself(t) == \E q : Stands(q, t) /\ ~IsPointer(q)

LEMMA PointerFollowed ==
  ASSUME Layout, NEW o, NEW t, Stands(o, t)
  PROVE  StandsItself(t)
<1>1. o \in DOMAIN stands /\ stands[o].value = t /\ o \in DOMAIN buf
  BY DEF Stands, Layout, TypeOK
<1>2. CASE IsPointer(o)
  <2>1. Stands(buf[o].size, t)
    BY <1>1, <1>2 DEF Layout, AllStandRight, StandsRight
  <2>2. ~IsPointer(buf[o].size)
    BY <1>1, <1>2 DEF Layout, PointersAreDirect
  <2> QED BY <2>1, <2>2 DEF StandsItself
<1>3. CASE ~IsPointer(o)
  BY <1>3 DEF StandsItself
<1> QED BY <1>2, <1>3

LEMMA PartsStandThemselves ==
  ASSUME Layout, NEW t \in DataItems, StandsItself(t)
  PROVE  \A p \in AllParts(t) : StandsItself(p)
<1> DEFINE S == {n \in Nat : \A u \in DataItems :
                   Depth(u) < n /\ StandsItself(u) => \A p \in AllParts(u) : StandsItself(p)}
<1>1. 0 \in S
  BY PartsAreValues
<1>2. ASSUME NEW n \in Nat, n \in S PROVE n + 1 \in S
  <2> SUFFICES ASSUME NEW u \in DataItems, Depth(u) < n + 1, StandsItself(u), NEW p \in AllParts(u)
               PROVE  StandsItself(p)
    OBVIOUS
  <2>1. CASE p = u
    BY <2>1
  <2>2. CASE p # u
    <3>1. PICK i \in 1..Len(u.items) : p \in AllParts(u.items[i])
      BY <2>2, AllPartsOf
    <3> PICK v : v = u.items[i]
      OBVIOUS
    <3>2. v \in DataItems /\ Depth(v) < Depth(u) /\ i \in DOMAIN u.items
      BY PartsAreValues, AllPartsOf
    <3>3. PICK q : Stands(q, u) /\ ~IsPointer(q)
      BY DEF StandsItself
    <3> PICK starts : starts = stands[q].starts
      OBVIOUS
    <3>4. StandsWhole(q, u, starts)
      BY <3>3 DEF Layout, AllStandRight, StandsRight, Stands
    <3>5. Stands(starts[i], v)
      BY <3>2, <3>4 DEF StandsWhole
    <3>6. StandsItself(v)
      BY <3>5, PointerFollowed
    <3>7. Depth(v) < n
      <4>1. Depth(v) \in Nat /\ Depth(u) \in Nat
        BY <3>2, PartsAreValues
      <4> QED BY <3>2, <4>1
    <3> QED BY <1>2, <3>1, <3>2, <3>6, <3>7
  <2> QED BY <2>1, <2>2
<1>3. Nat \subseteq S
  <2> HIDE DEF S
  <2> QED BY <1>1, <1>2, Induction
<1>4. Depth(t) \in Nat /\ Depth(t) + 1 \in S /\ Depth(t) < Depth(t) + 1
  <2>1. Depth(t) \in Nat
    BY PartsAreValues
  <2> HIDE DEF S
  <2> QED BY <1>3, <2>1
<1> QED BY <1>4

\* A cell is that of a map or slice with parts if its value has parts.
LEMMA Half ==
  ASSUME NEW n \in Nat, n % 2 = 0
  PROVE  (n \div 2 > 0) <=> (n > 0)
OBVIOUS

LEMMA FullCell ==
  ASSUME NEW t \in DataItems
  PROVE  (Cell(t).type \in Containers /\ Cell(t).size > 0) <=> t.items # <<>>
<1>1. /\ t.items \in Seq(DataItems) /\ Len(t.items) \in Nat
      /\ t.type = "map" => Len(t.items) % 2 = 0
      /\ t.type \notin Containers => t.items = <<>>
  BY PartsAreValues, DataItemsAssumption
<1>2. (Len(t.items) > 0) <=> (t.items # <<>>)
  BY <1>1
<1>3. Cell(t).type = t.type /\ Cell(t).size = SizeOf(t)
  BY DEF Cell
<1>4. CASE t.type = "map"
  <2>1. SizeOf(t) = Len(t.items) \div 2 /\ t.type \in Containers
    BY <1>4 DEF SizeOf, Containers
  <2>2. Len(t.items) \in Nat /\ Len(t.items) % 2 = 0
    BY <1>1, <1>4
  <2>3. (Len(t.items) \div 2 > 0) <=> (Len(t.items) > 0)
    BY <2>2, Half
  <2> QED BY <1>2, <1>3, <2>1, <2>3
<1>5. CASE t.type # "map"
  <2>1. SizeOf(t) = Len(t.items)
    BY <1>5 DEF SizeOf
  <2> QED BY <1>1, <1>2, <1>3, <2>1
<1> QED BY <1>4, <1>5

\* With no call under way, the maps and slices with parts stand each for itself.
LEMMA ContainersStand ==
  ASSUME Layout, Sharing, calls = <<>>
  PROVE  \A o \in DOMAIN buf : o \in FullContainers <=> FullAt(o)
<1> SUFFICES ASSUME NEW o \in DOMAIN buf PROVE o \in FullContainers <=> FullAt(o)
  OBVIOUS
<1>1. DOMAIN calls = {}
  OBVIOUS
<1>2. o \in DOMAIN stands /\ stands[o].value \in DataItems
  BY <1>1 DEF Sharing, Covered, Layout, TypeOK
<1>3. CASE IsPointer(o)
  <2>1. "pointer" \notin Containers
    BY DEF Containers
  <2> QED BY <1>3, <2>1 DEF IsPointer, FullContainers, FullAt
<1>4. CASE ~IsPointer(o)
  <2>1. buf[o] = Cell(stands[o].value)
    BY <1>2, <1>4 DEF Layout, AllStandRight, StandsRight, StandsWhole
  <2> QED BY <1>2, <1>4, <2>1, FullCell DEF FullContainers, FullAt
<1> QED BY <1>3, <1>4

LEMMA PartsStandOnce ==
  ASSUME Layout, Sharing, calls = <<>>
  PROVE  [o \in FullContainers |-> stands[o].value] \in Bijection(FullContainers, FullParts)
<1> DEFINE f == [o \in FullContainers |-> stands[o].value]
<1>1. \A o \in FullContainers : FullAt(o)
  BY ContainersStand DEF FullContainers
<1>2. ASSUME NEW o \in FullContainers PROVE stands[o].value \in FullParts
  <2>1. o \in DOMAIN stands /\ stands[o].value.items # <<>>
    BY <1>1 DEF FullAt
  <2>2. IsPartOfSome(stands[o].value)
    BY <2>1 DEF Sharing, AllArePartsOfSome
  <2> QED BY <2>1, <2>2 DEF FullParts, IsPartOfSome
<1>3. f \in [FullContainers -> FullParts]
  BY <1>2
<1>4. ASSUME NEW a \in FullContainers, NEW b \in FullContainers, f[a] = f[b] PROVE a = b
  <2>1. FullAt(a) /\ FullAt(b) /\ stands[a].value = stands[b].value
    BY <1>1, <1>4
  <2>2. /\ positions[KeyOf(stands[a].value)].ref = a
        /\ positions[KeyOf(stands[b].value)].ref = b
    BY <2>1 DEF Sharing, OnlyOnce, FullAt
  <2> QED BY <2>1, <2>2
<1>5. ASSUME NEW p \in FullParts PROVE \E o \in FullContainers : f[o] = p
  <2>1. PICK v \in DOMAIN offsets : p \in AllParts(v) /\ p.items # <<>>
    BY DEF FullParts
  <2>2. v \in DataItems /\ StandsItself(v)
    BY DEF Layout, TypeOK, OffsetsStand, StandsItself
  <2>3. PICK q : Stands(q, p) /\ ~IsPointer(q)
    BY <2>1, <2>2, PartsStandThemselves DEF StandsItself
  <2>4. FullAt(q) /\ q \in DOMAIN buf
    BY <2>1, <2>3 DEF FullAt, Stands, Layout, TypeOK
  <2>5. q \in FullContainers
    BY <2>4, ContainersStand
  <2> QED BY <2>3, <2>5 DEF Stands
<1>6. f \in Injection(FullContainers, FullParts)
  <2> HIDE DEF f
  <2> QED BY <1>3, <1>4 DEF Injection, IsInjective
<1>7. f \in Surjection(FullContainers, FullParts)
  <2> HIDE DEF f
  <2> QED BY <1>3, <1>5 DEF Surjection
<1> QED BY <1>6, <1>7 DEF Bijection

LEMMA LayoutShares ==
  ASSUME Layout, Sharing
  PROVE  Shares
<1> SUFFICES ASSUME calls = <<>> PROVE Cardinality(FullContainers) = Cardinality(FullParts)
  BY DEF Shares
<1>1. ExistsBijection(FullContainers, FullParts)
  BY PartsStandOnce DEF ExistsBijection
<1>2. IsFiniteSet(FullContainers)
  <2>1. DOMAIN buf = 1..Len(buf) /\ Len(buf) \in Int
    <3>1. buf \in Seq(CellRecords)
      BY DEF Layout, TypeOK
    <3> HIDE DEF CellRecords
    <3> QED BY <3>1
  <2>2. IsFiniteSet(DOMAIN buf)
    BY <2>1, FS_Interval
  <2>3. FullContainers \in SUBSET DOMAIN buf
    BY DEF FullContainers
  <2> QED BY <2>2, <2>3, FS_Subset
<1> QED BY <1>1, <1>2, FS_Bijection

LEMMA LayoutPartsStand ==
  ASSUME Layout
  PROVE  PartsStand
BY DEF Layout, AllStandRight, StandsRight, OffsetsStand, PartsStand
-----------------------------------------------------------------------------
(***************************************************************************)
(* The theorems.                                                           *)
(***************************************************************************)

\* The inductive invariant: whatever is written, hashed and shared, and however
\* the calls of Serialize are nested, what stands in the section stays and what
\* is remembered of it is true (writer/core.go, the Serialize methods of
\* writer/pack.go).
THEOREM Invariance == Spec => [](Layout /\ Sharing)
<1>1. Init => Layout /\ Sharing
  BY LayoutAtFirst, SharingAtFirst
<1>2. Layout /\ Sharing /\ [Next]_vars => (Layout /\ Sharing)'
  BY StepKeepsLayout, StepKeepsSharing
<1> QED BY <1>1, <1>2, PTL DEF Spec

\* A pointer never leads forward, nor to another pointer: decodePath and the other
\* readers follow one pointer and look no further (writer/core.go:53).
THEOREM PointersLead == Spec => []PointersAreDirect
<1>1. Layout => PointersAreDirect
  BY DEF Layout
<1> QED BY <1>1, Invariance, PTL

\* Every value that was written stands whole at its offset, for good: each part
\* behind the one before it, itself or behind one pointer to a place where the same
\* value stands, also when its key came from a hash buffer that its parts used again
\* (writer/pack.go:444, writer/core.go:44).
THEOREM PartsStandThere == Spec => []PartsStand
<1>1. Layout => PartsStand
  BY LayoutPartsStand
<1> QED BY <1>1, Invariance, PTL

\* The bytes of a map or slice with parts are in the section only once, however
\* many values hold it and however they were nested when it was written: no
\* container is written again inside itself or beside itself (writer/core.go:44).
THEOREM SharesParts == Spec => []Shares
<1>1. Layout /\ Sharing => Shares
  BY LayoutShares
<1> QED BY <1>1, Invariance, PTL
=============================================================================
