----------------------------- MODULE DataSection -----------------------------
(***************************************************************************)
(* The data section: how the writer lays values out in it, sharing equal   *)
(* parts by pointers (writer/core.go, the Serialize methods of             *)
(* writer/pack.go, hashBuffer of writer/storage.go).                       *)
(*                                                                         *)
(* The section is a sequence of cells, one for each header with the        *)
(* payload that follows it; an offset is a place in the sequence.  The     *)
(* bytes of a cell are in Wire.  Serialize and WriteOrRef call each other  *)
(* for every part of a value: calls is the stack of the Serialize calls    *)
(* under way, and an action goes on until the next of them begins or ends. *)
(***************************************************************************)
EXTENDS Values, Murmur3, FiniteSets

CONSTANTS
  DataItems,    \* all values: those of the tree, and their parts
  Items,        \* the values that are inserted
  CellsOf(_),   \* the cells of a value with all its parts, without pointers
  Rest(_),      \* what the filter of InsertDefaultNull leaves of a value
  AllParts(_),  \* the value and its parts, and theirs
  Depth(_),     \* how deep the parts of a value are nested
  MaxWrites     \* bound: how many values get an offset

\* Lengths in bytes: RefMarker.SerializedSize is 2 in the first 2048 bytes, and
\* a text here is shorter than 29.
PointerLength == 2
HeaderLength(t) == IF t.type \in {"int32", "uint64", "uint128", "slice", "bool", "float32"}
                   THEN 2 ELSE 1
CellLength(t) ==
  HeaderLength(t) + CASE t.type \in {"string", "bytes"} -> Len(t.text)
                      [] t.type = "float32" -> 4
                      [] t.type = "float64" -> 8
                      [] t.type \in NumberTypes \ (FloatTypes \cup {"bool"}) -> NumberSize(t)
                      [] OTHER -> 0

ASSUME ItemsAssumption ==
  /\ Items \subseteq DataItems /\ IsFiniteSet(Items) /\ MaxWrites \in Nat
  /\ \A t \in Items : Rest(t) \in DataItems \cup {NilItem, Panicked}

\* A value is a tree: maps and slices hold values, the others none.
ASSUME DataItemsAssumption ==
  \A t \in DataItems :
    /\ t \in [type : STRING, text : STRING, num : Int, items : Seq(DataItems)]
    /\ t.type # "pointer"
    /\ t.type = "map" => Len(t.items) % 2 = 0
    /\ t.type \notin Containers => t.items = <<>>
    /\ CellLength(t) \in Nat \ {0}
    /\ Depth(t) \in Nat
    /\ \A i \in DOMAIN t.items : Depth(t.items[i]) < Depth(t)
    /\ AllParts(t) = {t} \cup UNION {AllParts(t.items[i]) : i \in DOMAIN t.items}

\* The cells of a value spell it.  That they may meet in the 32 bits of a hash is
\* studied in BinaryTree.
ASSUME CellsAssumption ==
  /\ \A t \in DataItems : CellsOf(t) \in Seq({Cell(u) : u \in DataItems})
  /\ \A t, u \in DataItems : CellsOf(t) = CellsOf(u) => t = u

VARIABLES
  buf,        \* dataSerializer.Buffer
  positions,  \* dataSerializer.positions: hash -> [ref, length]
  hashBuffer, \* dataSerializer.hashBuffer: the running hash, and its last sum
  calls,      \* the calls of Serialize under way, the innermost at the end
  offsets,    \* value -> the offset that the tree's node got for it
  filtered,   \* value -> what was written of it behind the filter (ghost)
  tops,       \* the offsets at which writeWithRef serialized a value (ghost)
  stands      \* offset -> the value written there, and where its parts start (ghost)

vars == <<buf, positions, hashBuffer, calls, offsets, filtered, tops, stands>>

Pointer(ref) == [type |-> "pointer", text |-> "", num |-> 0, size |-> ref]
-----------------------------------------------------------------------------
(***************************************************************************)
(* The hash of a value: hashBuffer.Hash serializes all of it, without      *)
(* pointers, in one Write to the digest.                                   *)
(***************************************************************************)
Hashed_NoReset(hb, t) ==   \* mutant: the running hash is not reset
  LET hashed == DigestWrite(hb.hashed, CellsOf(t))
  IN  [hashed |-> hashed, digest |-> Sum(hashed)]
Hashed(hb, t) ==
  LET hashed == DigestWrite(NewDigest, CellsOf(t))
  IN  [hashed |-> hashed, digest |-> Sum(hashed)]
NewHashBuffer == [hashed |-> NewDigest, digest |-> <<>>]

\* The key that storage.add, with a hash buffer of its own, gave to a value.
KeyOf(t) == Hashed(NewHashBuffer, t).digest
-----------------------------------------------------------------------------
(***************************************************************************)
(* Calls of Serialize.                                                     *)
(***************************************************************************)

\* A call: its value with the key and whether that was known, where the parts
\* written so far start and the next one will, and the bytes so far.
Call(t, key, known) ==
  [value |-> t, key |-> key, known |-> known, starts |-> <<Len(buf) + 2>>,
   length |-> CellLength(t)]
Top == calls[Len(calls)]
HasPart == Len(Top.starts) <= Len(Top.value.items)
Part == Top.value.items[Len(Top.starts)]

\* The position of a value that is serialized: the length of the buffer before.
RefOf_Moved(call) == Len(buf)   \* mutant: the length after
RefOf(call) == call.starts[1] - 1

\* The header is written, and the parts are to come.
Serialize(t, key, known) ==
  /\ buf' = Append(buf, Cell(t))
  /\ calls' = Append(calls, Call(t, key, known))

\* The caller, if there is one, goes on behind a part that ends before offset end.
Resume(callers, end, length) ==
  [n \in DOMAIN callers |->
     IF n < Len(callers) THEN callers[n]
     ELSE [callers[n] EXCEPT !.starts = Append(@, end), !.length = @ + length]]

Remember_SharedKey(call) ==   \* mutant: the key is read from the shared hash buffer
  [h \in DOMAIN positions \cup {hashBuffer.digest} |->
     IF h = hashBuffer.digest THEN [ref |-> RefOf(call), length |-> call.length]
     ELSE positions[h]]
Remember(call) ==
  [h \in DOMAIN positions \cup {call.key} |->
     IF h = call.key THEN [ref |-> RefOf(call), length |-> call.length]
     ELSE positions[h]]

\* Something stands at o, its parts at starts; its end is the last of them.
Written(o, t, starts) ==
  [p \in DOMAIN stands \cup {o} |->
     IF p = o THEN [value |-> t, starts |-> starts] ELSE stands[p]]

\* RefMarker.Serialize of the position that a known value has.
WritePointer_Moves(t, key) ==   \* mutant: the pointer becomes the new position
  /\ buf' = Append(buf, Pointer(positions[key].ref))
  /\ positions' = [positions EXCEPT ![key].ref = Len(buf) + 1]
  /\ calls' = Resume(calls, Len(buf) + 2, PointerLength)
  /\ stands' = Written(Len(buf) + 1, t, <<Len(buf) + 2>>)
WritePointer(t, key) ==
  /\ buf' = Append(buf, Pointer(positions[key].ref))
  /\ calls' = Resume(calls, Len(buf) + 2, PointerLength)
  /\ stands' = Written(Len(buf) + 1, t, <<Len(buf) + 2>>)
  /\ UNCHANGED positions

\* WriteOrRef, up to its call of Serialize.
Known(key) == key \in DOMAIN positions
WorthIt(key) == Known(key) /\ positions[key].length > PointerLength
WriteOrRef(t, key) ==
  \/ WorthIt(key) /\ WritePointer(t, key)
  \/ ~WorthIt(key) /\ Serialize(t, key, Known(key)) /\ UNCHANGED <<positions, stands>>

\* The next part of a map or slice.  Its key is copied before the part is written:
\* the parts hash into the same buffer.
WritePart ==
  /\ calls # <<>> /\ HasPart
  /\ hashBuffer' = Hashed(hashBuffer, Part)
  /\ WriteOrRef(Part, hashBuffer'.digest)
  /\ UNCHANGED <<offsets, filtered, tops>>

\* Serialize returns to WriteOrRef, or to writeWithRef, which is done.
SetOffset(t, o) == [v \in DOMAIN offsets \cup {t} |-> IF v = t THEN o ELSE offsets[v]]
Return ==
  /\ calls # <<>> /\ ~HasPart
  /\ positions' = IF Top.known THEN positions ELSE Remember(Top)
  /\ stands' = Written(Top.starts[1] - 1, Top.value, Top.starts)
  /\ calls' = Resume(SubSeq(calls, 1, Len(calls) - 1), Len(buf) + 1, Top.length)
  /\ IF Len(calls) = 1
     THEN /\ offsets' = SetOffset(Top.value, RefOf(Top))
          /\ tops' = tops \cup {RefOf(Top)}
     ELSE UNCHANGED <<offsets, tops>>
  /\ UNCHANGED <<buf, hashBuffer, filtered>>
-----------------------------------------------------------------------------
(***************************************************************************)
(* The values of the tree.                                                 *)
(***************************************************************************)

\* writeWithRef, for the value of a leaf: it is never written as a pointer.
WriteWithRef(t) ==
  /\ \/ /\ Known(KeyOf(t))
        /\ offsets' = SetOffset(t, positions[KeyOf(t)].ref)
        /\ UNCHANGED <<buf, calls>>
     \/ ~Known(KeyOf(t)) /\ Serialize(t, KeyOf(t), FALSE) /\ UNCHANGED offsets
  /\ UNCHANGED <<positions, hashBuffer, tops, stands>>

HasRoom == Cardinality(DOMAIN offsets) + Cardinality(DOMAIN filtered) < MaxWrites

\* A value of Insert.
Write(t) == calls = <<>> /\ HasRoom /\ WriteWithRef(t) /\ UNCHANGED filtered

\* A value of InsertDefaultNull: nothing is left of it, the filter panics, or what
\* is left is written.
SetFiltered(t) ==
  filtered' = [v \in DOMAIN filtered \cup {t} |-> IF v = t THEN Rest(t) ELSE filtered[v]]
WriteNothing(t) ==
  /\ Rest(t) \in {NilItem, Panicked}
  /\ UNCHANGED <<buf, positions, hashBuffer, calls, offsets, tops, stands>>
WriteRest(t) == Rest(t) \notin {NilItem, Panicked} /\ WriteWithRef(Rest(t))
WriteFiltered(t) ==
  /\ calls = <<>> /\ HasRoom
  /\ WriteNothing(t) \/ WriteRest(t)
  /\ SetFiltered(t)

Init ==
  /\ buf = <<>> /\ positions = <<>> /\ hashBuffer = NewHashBuffer /\ calls = <<>>
  /\ offsets = <<>> /\ filtered = <<>> /\ tops = {} /\ stands = <<>>
Next == (\E t \in Items : Write(t) \/ WriteFiltered(t)) \/ WritePart \/ Return
Spec == Init /\ [][Next]_vars
-----------------------------------------------------------------------------
(***************************************************************************)
(* Properties of the layout.                                               *)
(***************************************************************************)
IsPointer(o) == buf[o].type = "pointer"

\* A pointer leads back, to a value that is no pointer: the reader may follow
\* one pointer and look no further, as decodePath does.
PointersAreDirect ==
  \A o \in DOMAIN buf : IsPointer(o) => buf[o].size \in 1..(o - 1) /\ ~IsPointer(buf[o].size)

\* A value that was written stands in the section whole, whatever was written and
\* hashed since: its header, and behind it its parts one after the other, each
\* standing there itself or behind one pointer to where the same value stands.
Stands(o, t) == o \in DOMAIN stands /\ stands[o].value = t
End(o) == stands[o].starts[Len(stands[o].starts)]
StandsWhole(o, t, starts) ==
  /\ buf[o] = Cell(t) /\ starts[1] = o + 1 /\ Len(starts) = Len(t.items) + 1
  /\ \A i \in DOMAIN t.items : /\ Stands(starts[i], t.items[i])
                               /\ starts[i + 1] = End(starts[i])
PartsStand ==
  /\ \A o \in DOMAIN stands :
       IF IsPointer(o) THEN Stands(buf[o].size, stands[o].value) /\ End(o) = o + 1
       ELSE StandsWhole(o, stands[o].value, stands[o].starts)
  /\ \A t \in DOMAIN offsets : Stands(offsets[t], t) /\ ~IsPointer(offsets[t])

\* A map or slice that has parts stands in full only once in a section, whatever
\* holds it and whatever was hashed between its two uses.
FullParts == UNION {{p \in AllParts(v) : p.items # <<>>} : v \in DOMAIN offsets}
FullContainers == {o \in DOMAIN buf : buf[o].type \in Containers /\ buf[o].size > 0}
Shares == calls = <<>> => Cardinality(FullContainers) = Cardinality(FullParts)
=============================================================================
