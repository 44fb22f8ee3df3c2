-------------------------------- MODULE Values --------------------------------
(***************************************************************************)
(* The values that a tree holds: DataItem of writer/pack.go.               *)
(*                                                                         *)
(* The items of a map are its keys and values in turn, sorted by key.      *)
(***************************************************************************)
EXTENDS Integers, Sequences

Item(type, text, num, items) == [type |-> type, text |-> text, num |-> num, items |-> items]
Text(s) == Item("string", s, 0, <<>>)
Bytes(s) == Item("bytes", s, 0, <<>>)
Number(type, n) == Item(type, "", n, <<>>)
Bool(b) == Number("bool", IF b THEN 1 ELSE 0)
Map(items) == Item("map", "", 0, items)
Slice(items) == Item("slice", "", 0, items)
NilItem == Item("nil", "", 0, <<>>)   \* a DataItem that is nil

UnsignedTypes == {"uint16", "uint32", "uint64"}
FloatTypes == {"float32", "float64"}
NumberTypes == UnsignedTypes \cup FloatTypes \cup {"int32", "uint128", "bool"}
Containers == {"map", "slice"}

SizeOf(t) == IF t.type = "map" THEN Len(t.items) \div 2 ELSE Len(t.items)

\* The integers of Go, by width in bytes; a byte has only ByteBits bits here.
ByteBits == 2
Width == [int8 |-> 1, int16 |-> 2, int32 |-> 4, int64 |-> 8,
          uint8 |-> 1, uint16 |-> 2, uint32 |-> 4, uint64 |-> 8, uintptr |-> 8]
Wrap64 == 2 ^ (ByteBits * Width["uint64"])

\* Size() of a number: its bytes without leading zeros; all four of a negative one.
NumberSize(t) ==
  IF t.num < 0 THEN Width["int32"]
  ELSE CHOOSE k \in 0..8 : /\ t.num < 2 ^ (ByteBits * k)
                           /\ k > 0 => t.num >= 2 ^ (ByteBits * (k - 1))

\* What stands in a data section for a value: its header and its payload.
Cell(t) == [type |-> t.type, text |-> t.text, num |-> t.num, size |-> SizeOf(t)]

\* What the filter of InsertDefaultNull returns when reflect panics.
Panicked == Item("panic", "", 0, <<>>)
=============================================================================
