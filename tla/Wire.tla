--------------------------------- MODULE Wire ---------------------------------
(***************************************************************************)
(* The data section byte by byte, for values without parts: what           *)
(* dataSerializer.WriteOrRef writes and what decode and nextValueOffset    *)
(* read.  Headers, numbers and pointers are bytes; what a text or a float  *)
(* holds is one payload, of any length, that stands at an offset.  The     *)
(* section is as long as it happens to be when the first value comes.      *)
(***************************************************************************)
EXTENDS Codec, FiniteSets

\* The numbers of each type.  (No power is larger than the number needs.)
Width == [t \in Numbers |-> CASE t = TypeUint16 -> 2 [] t = TypeUint64 -> 8
                              [] t = TypeUint128 -> 16 [] OTHER -> 4]
HasWidth(n, type) ==
  IF type = TypeInt32 THEN n \div Power256(3) \in (-128)..127
  ELSE \E k \in 1..Width[type] : n \div Power256(k - 1) \in 0..255

PayloadTypes == {TypeString, TypeBytes, TypeFloat32, TypeFloat64}

CONSTANTS
  Payloads,  \* [type, size, holds]: texts, byte strings and floats
  Ints,      \* [type, n]: numbers of the types that write them
  Starts,    \* how long the section may be before
  MaxWrites  \* bound: how many values are written

ASSUME WireAssumption ==
  /\ Starts \subseteq Nat /\ MaxWrites \in Nat
  /\ \A p \in Payloads : p.type \in PayloadTypes /\ p.size \in Nat
  /\ \A i \in Ints : i.type \in Numbers /\ i.n \in Int /\ HasWidth(i.n, i.type)
  /\ \A s \in Starts : (s + MaxWrites * (SizeMax + 5)) \div Power256(3) <= 255

VARIABLES
  start,     \* the length of the section before the first value
  length,    \* ds.Len()
  byte,      \* offset -> byte, for the bytes of headers, numbers and pointers
  payload,   \* offset -> what a text or a float holds
  positions, \* dataSerializer.positions
  log        \* the values written, and the offset of each (ghost)

vars == <<start, length, byte, payload, positions, log>>

Payload(p) == [type |-> p.type, size |-> p.size, n |-> 0, holds |-> p.holds]
Integer(i) == [type |-> i.type, size |-> NumberSize(i.n), n |-> i.n, holds |-> "number"]
Bool(b) == [type |-> TypeBool, size |-> b, n |-> 0, holds |-> "bool"]
Items == {Payload(p) : p \in Payloads} \cup {Integer(i) : i \in Ints}
           \cup {Bool(0), Bool(1)}

HasPayload(item) == item.type \in PayloadTypes

\* The bytes that Serialize writes, but for a payload, and the length with it.
Bytes(item) ==
  Header(item.type, item.size)
    \o IF item.type \in Numbers THEN BigEndian(item.n, item.size) ELSE <<>>
Length(item) == Len(Bytes(item)) + IF HasPayload(item) THEN item.size ELSE 0

Put(bytes) == [o \in DOMAIN byte \cup length..(length + Len(bytes) - 1) |->
                 IF o >= length THEN bytes[o - length + 1] ELSE byte[o]]

Init ==
  /\ start \in Starts
  /\ length = start
  /\ byte = <<>> /\ payload = <<>> /\ positions = <<>> /\ log = <<>>

Known(item) == item \in DOMAIN positions
WorthIt(item) == Known(item) /\ positions[item].length > RefLength(positions[item].ref)

WritePointer(item) ==
  LET bytes == Ref(positions[item].ref)
  IN  /\ byte' = Put(bytes)
      /\ length' = length + Len(bytes)
      /\ UNCHANGED <<payload, positions>>
WriteWhole(item) ==
  LET bytes == Bytes(item)
  IN  /\ byte' = Put(bytes)
      /\ length' = length + Length(item)
      /\ payload' = IF HasPayload(item)
                    THEN [o \in DOMAIN payload \cup {length + Len(bytes)} |->
                            IF o = length + Len(bytes) THEN item.holds ELSE payload[o]]
                    ELSE payload
      /\ positions' = IF Known(item) THEN positions
                      ELSE [i \in DOMAIN positions \cup {item} |->
                              IF i = item THEN [ref |-> length, length |-> Length(item)]
                                          ELSE positions[i]]

\* A size that no header can say makes the hash fail before a byte is written.
WriteFails(item) == SizeTooLarge(item.size) /\ UNCHANGED vars

WriteOrRef(item) ==
  /\ Len(log) < MaxWrites
  /\ ~SizeTooLarge(item.size)
  /\ IF WorthIt(item) THEN WritePointer(item) ELSE WriteWhole(item)
  /\ log' = Append(log, [item |-> item, at |-> length])
  /\ UNCHANGED start

Next == \E item \in Items : WriteOrRef(item) \/ WriteFails(item)
Spec == Init /\ [][Next]_vars
-----------------------------------------------------------------------------
(***************************************************************************)
(* Reading.  Where a payload or nothing stands, a byte could be anything.  *)
(***************************************************************************)
At(o) == IF o \in DOMAIN byte THEN byte[o] ELSE 255
BytesAt(o, k) == [i \in 1..k |-> At(o + i - 1)]

\* decodeCtrlData and sizeFromCtrlByte: type, size, and the offset behind them.
Ctrl(o) ==
  LET extended == At(o) \div 32 = 0
      type == IF extended THEN At(o + 1) + 7 ELSE At(o) \div 32
      bits == At(o) % 32
      next == IF extended THEN o + 2 ELSE o + 1
      k == IF bits < 29 THEN 0 ELSE bits - 28
      base == CASE bits = 29 -> 29 [] bits = 30 -> 285 [] bits = 31 -> 65821 [] OTHER -> bits
  IN  [type |-> type, size |-> base + FromBytes(0, BytesAt(next, k)), next |-> next + k]

\* decodePointer, for the size bits of a control byte and the offset behind it.
PointerAt(size, o) ==
  LET k == ((size \div 8) % 4) + 1
      prefix == IF k = 4 THEN 0 ELSE size % 8
      base == CASE k = 2 -> 2048 [] k = 3 -> 526336 [] OTHER -> 0
  IN  [ref |-> base + FromBytes(prefix, BytesAt(o, k)), next |-> o + k]

\* decodeInt: the shifts wrap in 32 bits, so the first of four bytes has the sign.
SignedAt(size, o) ==
  FromBytes(IF size = 4 /\ At(o) >= 128 THEN -1 ELSE 0, BytesAt(o, size))
UnsignedAt(size, o) == FromBytes(0, BytesAt(o, size))

\* decode of the value at o, behind at most one pointer.
Target(o) ==
  LET c == Ctrl(o)
  IN  IF c.type = TypePointer THEN PointerAt(c.size, c.next).ref ELSE o
Decode(o) ==
  LET c == Ctrl(Target(o))
  IN  [type |-> c.type, size |-> c.size,
       n |-> CASE c.type = TypeInt32 -> SignedAt(c.size, c.next)
               [] c.type \in Numbers \ {TypeInt32} -> UnsignedAt(c.size, c.next)
               [] OTHER -> 0,
       holds |-> CASE c.type \in Numbers -> "number"
                   [] c.type = TypeBool -> "bool"
                   [] OTHER -> IF c.next \in DOMAIN payload THEN payload[c.next] ELSE "none"]

NextOffset_BoolBytes(o) ==   \* mutant: the size of a bool taken for a length
  LET c == Ctrl(o)
  IN  IF c.type = TypePointer THEN PointerAt(c.size, c.next).next
      ELSE c.next + c.size
NextOffset(o) ==
  LET c == Ctrl(o)
  IN  CASE c.type = TypePointer -> PointerAt(c.size, c.next).next
        [] c.type = TypeBool -> c.next
        [] OTHER -> c.next + c.size
-----------------------------------------------------------------------------
(***************************************************************************)
(* Properties.                                                             *)
(***************************************************************************)

\* Every value, and every pointer to one, of whatever width, decodes to what
\* was written, wherever in the section it stands.
ReadsBack == \A i \in DOMAIN log : Decode(log[i].at) = log[i].item

\* nextValueOffset steps from each value to the next one, and from the last one
\* to the end: no size, no number and no pointer is a byte longer or shorter for
\* the reader than for the writer.
StepsOver ==
  \A i \in DOMAIN log :
    NextOffset(log[i].at) = IF i = Len(log) THEN length ELSE log[i + 1].at

\* Sharing never makes the section longer than writing every value whole.
PointersSave ==
  length - start <= Horner(1, 0, [i \in DOMAIN log |-> Length(log[i].item)])
=============================================================================
