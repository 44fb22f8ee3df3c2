------------------------------- MODULE Decoding -------------------------------
(***************************************************************************)
(* Decoding of a data section (reader/unpack.go): into Go types and into   *)
(* interface values (decode), along a path (decodePath), as calls of a     *)
(* deserializer (decodeToDeserializer), and the verdict of Validate        *)
(* (reader/validate.go).                                                   *)
(*                                                                         *)
(* A Go type is [kind, names, parts]: parts holds the type of the elements *)
(* of a map or slice, that behind a pointer, or those of the fields of a   *)
(* struct; the name of an embedded field is "".  A decoded value is an     *)
(* item whose type is a kind, and an offset in place of a value one of     *)
(* type "offset"; pointers to it are not shown.                            *)
(***************************************************************************)
EXTENDS Walks

CONSTANTS
  Paths,     \* the paths that a client asks for
  MaxDepth,  \* maximumDataStructureDepth
  Types      \* the types that a client decodes into

ASSUME DecodingAssumption == MaxDepth \in Nat

Type(kind) == [kind |-> kind, names |-> <<>>, parts |-> <<>>]
AnyType == Type("any")
MapOf(elem) == [kind |-> "map", names |-> <<>>, parts |-> <<elem>>]
SliceOf(elem) == [kind |-> "slice", names |-> <<>>, parts |-> <<elem>>]
Struct(names, parts) == [kind |-> "struct", names |-> names, parts |-> parts]
PtrTo(type) == [kind |-> "ptr", names |-> <<>>, parts |-> <<type>>]

\* What a pointer, or a pointer to a pointer, leads to in the end.
RECURSIVE Indirect(_)
Indirect(type) == IF type.kind = "ptr" THEN Indirect(type.parts[1]) ELSE type

IntKinds == {"int8", "int16", "int32", "int64"}
UintKinds == {"uint8", "uint16", "uint32", "uint64", "uintptr"}
RangeOf(kind) == LET half == 2 ^ (ByteBits * Width[kind] - 1)
               IN  IF kind \in IntKinds THEN -half..(half - 1) ELSE 0..(2 * half - 1)

\* float32 holds the even numbers up to a limit here.
MaxFloat32 == 100
Rounded(kind, n) == IF kind = "float32" THEN 2 * (n \div 2) ELSE n

\* What a call returns: a value, and the offset behind it; an error ends the
\* decoding that it is part of.
Ok(value, next) == [err |-> "none", value |-> value, next |-> next]
Failed(err) == [err |-> err, value |-> NilItem, next |-> 0]
-----------------------------------------------------------------------------
(***************************************************************************)
(* Values without parts (the unmarshal functions).  Conversions between    *)
(* int64 and uint64 wrap.                                                  *)
(***************************************************************************)
ToInt64(n) == IF n >= Wrap64 \div 2 THEN n - Wrap64 ELSE n
ToUint64(n) == n % Wrap64

\* unmarshalUint and unmarshalInt32.
FitsOrFails(kind, n, next) ==
  IF n \in RangeOf(kind) THEN Ok(Number(kind, n), next) ELSE Failed("type")
Integer(t, kind, next) ==
  CASE kind \in IntKinds -> FitsOrFails(kind, ToInt64(t.num), next)
    [] kind \in UintKinds -> FitsOrFails(kind, ToUint64(t.num), next)
    [] kind = "any" -> Ok(Number(IF t.type = "int32" THEN "int" ELSE "uint64", t.num), next)
    [] OTHER -> Failed("type")

\* unmarshalFloat32 and unmarshalFloat64.
Float(t, kind, next) ==
  CASE kind = "any" -> Ok(Number(t.type, t.num), next)
    [] kind \in FloatTypes /\ (kind = "float32" => t.num <= MaxFloat32) ->
         Ok(Number(kind, Rounded(kind, t.num)), next)
    [] OTHER -> Failed("type")

\* unmarshalBool, Bytes, String, Uint128: their own kind only.
OwnKind(t) == IF t.type = "uint128" THEN "bigint" ELSE t.type
Same(t, kind, next) ==
  IF kind \in {"any", OwnKind(t)} THEN Ok(t, next) ELSE Failed("type")

Scalar(t, kind, next) ==
  CASE t.type \in UnsignedTypes \cup {"int32"} -> Integer(t, kind, next)
    [] t.type \in FloatTypes -> Float(t, kind, next)
    [] OTHER -> Same(t, kind, next)

Stored(o) == Item(buf[o].type, buf[o].text, buf[o].num, <<>>)
-----------------------------------------------------------------------------
(***************************************************************************)
(* decode and decodeFromType.  A container and a pointer cost one level of *)
(* depth each.                                                             *)
(***************************************************************************)
RECURSIVE Decode(_, _, _)
RECURSIVE DecodeEntries(_, _, _, _)
RECURSIVE DecodeElements(_, _, _, _)
RECURSIVE DecodeStruct(_, _, _)
RECURSIVE DecodeFields(_, _, _, _, _)

\* decodeMap: n entries from o on; the keys are no values of their own.
DecodeEntries(o, n, elem, depth) ==
  IF n = 0 THEN Ok(Map(<<>>), o)
  ELSE LET value == Decode(NextValue(o, 1), elem, depth)
           rest == DecodeEntries(value.next, n - 1, elem, depth)
       IN  CASE value.err # "none" -> value
             [] value.err = "none" /\ rest.err # "none" -> rest
             [] OTHER -> Ok(Map(<<Text(KeyText(o)), value.value>> \o rest.value.items), rest.next)

\* decodeSlice.
DecodeElements(o, n, elem, depth) ==
  IF n = 0 THEN Ok(Slice(<<>>), o)
  ELSE LET value == Decode(o, elem, depth)
           rest == DecodeElements(value.next, n - 1, elem, depth)
       IN  CASE value.err # "none" -> value
             [] value.err = "none" /\ rest.err # "none" -> rest
             [] OTHER -> Ok(Slice(<<value.value>> \o rest.value.items), rest.next)

\* unmarshalMap and unmarshalSlice.  A big.Int is a struct without fields to a map,
\* and a []byte a slice of uint8 to a slice.
Zero(type) == CASE type.kind = "bigint" -> Number("uint128", 0)
                [] type.kind = "struct" -> Item("struct", "", 0, [i \in DOMAIN type.parts |-> NilItem])
                [] OTHER -> NilItem
UnmarshalMap(o, type, depth) ==
  LET result == Indirect(type)
  IN  CASE result.kind \in {"struct", "bigint"} -> DecodeStruct(o, result, depth)
        [] result.kind = "map" -> DecodeEntries(o + 1, buf[o].size, result.parts[1], depth)
        [] result.kind = "any" -> DecodeEntries(o + 1, buf[o].size, AnyType, depth)
        [] OTHER -> Failed("type")
UnmarshalSlice(o, type, depth) ==
  CASE type.kind = "slice" -> DecodeElements(o + 1, buf[o].size, type.parts[1], depth)
    [] type.kind = "bytes" -> DecodeElements(o + 1, buf[o].size, Type("uint8"), depth)
    [] type.kind = "any" -> DecodeElements(o + 1, buf[o].size, AnyType, depth)
    [] OTHER -> Failed("type")

\* decodeStruct: the embedded structs first, each from the whole map; then the
\* entries, of which those that no field has are skipped.
FieldsNamed(type, name) == {i \in DOMAIN type.names : type.names[i] = name}
DecodeStruct(o, type, depth) ==
  LET embedded == [i \in FieldsNamed(type, "") |-> UnmarshalMap(o, type.parts[i], depth)]
      failed == {i \in DOMAIN embedded : embedded[i].err # "none"}
      filled == [i \in DOMAIN type.parts |->
                   IF i \in DOMAIN embedded THEN embedded[i].value ELSE NilItem]
      start == IF type.kind = "bigint" THEN Zero(type) ELSE Item("struct", "", 0, filled)
  IN  IF failed # {} THEN embedded[CHOOSE i \in failed : \A j \in failed : i <= j]
      ELSE DecodeFields(o + 1, buf[o].size, type, start, depth)
DecodeFields(o, n, type, sofar, depth) ==
  IF n = 0 THEN Ok(sofar, o)
  ELSE LET found == FieldsNamed(type, KeyText(o)) \ FieldsNamed(type, "")
           i == CHOOSE j \in found : TRUE
           value == Decode(NextValue(o, 1), type.parts[i], depth)
       IN  CASE found = {} -> DecodeFields(NextValue(o, 2), n - 1, type, sofar, depth)
             [] found # {} /\ value.err # "none" -> value
             [] OTHER -> DecodeFields(value.next, n - 1, type,
                                      [sofar EXCEPT !.items[i] = value.value], depth)

DecodeFromType(o, type, depth) ==
  LET result == Indirect(type)
      pointed == Decode(buf[o].size, result, depth)
  IN  CASE IsPointer(o) -> IF pointed.err = "none" THEN Ok(pointed.value, o + 1) ELSE pointed
        [] buf[o].type = "map" -> UnmarshalMap(o, result, depth)
        [] buf[o].type = "slice" -> UnmarshalSlice(o, result, depth)
        [] OTHER -> Scalar(Stored(o), result.kind, o + 1)
\* A uintptr that is a field or an element gets the offset itself: that of the
\* value, not of a pointer in the file.  Behind a Go pointer it is a number, unless
\* a pointer in the file stands there, which has stripped the Go pointer.
Decode(o, type, depth) ==
  CASE depth > MaxDepth -> Failed("depth")
    [] depth <= MaxDepth /\ type.kind = "uintptr" /\ ~IsPointer(o) ->
         Ok(Number("offset", o), NextValue(o, 1))
    [] OTHER -> DecodeFromType(o, type, depth + 1)

\* Result.Decode: the client passes a pointer to a variable of the type.
Into(o, type) == Decode(o, PtrTo(type), 0)

\* decodePath: "absent" leaves the result alone and is no error.
DecodePath(o, path, type) ==
  LET at == PathOffset(o, path)
  IN  CASE at = Absent -> Failed("absent")
        [] at = Mismatch -> Failed("mismatch")
        [] OTHER -> Decode(at, PtrTo(type), Len(path))
-----------------------------------------------------------------------------
(***************************************************************************)
(* decodeToDeserializer: the calls that a deserializer gets, which asks to *)
(* skip what stands at the offsets in skip.  A call is the cell it tells   *)
(* of, or CallEnd.                                                         *)
(***************************************************************************)
CallEnd == [type |-> "end", text |-> "", num |-> 0, size |-> 0]
RECURSIVE Calls(_, _, _)
RECURSIVE CallsOfParts(_, _, _, _)
CallsOfParts(o, n, skip, depth) ==
  IF n = 0 THEN Ok(<<>>, o)
  ELSE LET first == Calls(o, skip, depth)
           rest == CallsOfParts(first.next, n - 1, skip, depth)
       IN  CASE first.err # "none" -> first
             [] first.err = "none" /\ rest.err # "none" -> rest
             [] OTHER -> Ok(first.value \o rest.value, rest.next)
CallsAtTarget(o, skip, depth) ==
  LET pointed == Calls(buf[o].size, skip, depth)
  IN  IF pointed.err = "none" THEN Ok(pointed.value, o + 1) ELSE pointed
CallsOfType(o, skip, depth) ==
  LET parts == CallsOfParts(o + 1, Parts(o), skip, depth)
  IN  CASE IsPointer(o) -> CallsAtTarget(o, skip, depth)
        [] buf[o].type \in Containers ->
             IF parts.err = "none"
             THEN Ok(<<buf[o]>> \o parts.value \o <<CallEnd>>, parts.next) ELSE parts
        [] OTHER -> Ok(<<buf[o]>>, o + 1)
\* Where what is behind a value is not asked for (getNext is false), nobody uses it.
Calls_SkipsParts(o, skip, depth) ==   \* mutant: a skipped value is one cell
  CASE depth > MaxDepth -> Failed("depth")
    [] depth <= MaxDepth /\ o \in skip -> Ok(<<>>, o + 1)
    [] OTHER -> CallsOfType(o, skip, depth + 1)
Calls(o, skip, depth) ==
  CASE depth > MaxDepth -> Failed("depth")
    [] depth <= MaxDepth /\ o \in skip -> Ok(<<>>, NextValue(o, 1))
    [] OTHER -> CallsOfType(o, skip, depth + 1)

\* validateDataSection: the values from o on, each one pointed to by the tree.
RECURSIVE Accepts(_, _)
Accepts_Rest(o, pointed) ==   \* mutant: no check that offsets is empty at the end
  LET value == Decode(o, AnyType, 0)
  IN  IF o > Len(buf) THEN TRUE
      ELSE value.err = "none" /\ o \in pointed /\ Accepts(value.next, pointed \ {o})
Accepts(o, pointed) ==
  LET value == Decode(o, AnyType, 0)
  IN  IF o > Len(buf) THEN pointed = {}
      ELSE value.err = "none" /\ o \in pointed /\ Accepts(value.next, pointed \ {o})
-----------------------------------------------------------------------------
(***************************************************************************)
(* What decoding is for, without any file: Fit(t, type) is the set with    *)
(* the value of the type that stands for t, or empty if there is none.     *)
(***************************************************************************)
RECURSIVE Fit(_, _)

FitNumber(t, kind) ==
  CASE kind \in IntKinds \cup UintKinds /\ t.type \in UnsignedTypes \cup {"int32"} ->
         IF t.num \in RangeOf(kind) THEN {Number(kind, t.num)} ELSE {}
    [] kind \in FloatTypes /\ t.type \in FloatTypes ->
         IF kind = "float32" /\ t.num > MaxFloat32 THEN {}
         ELSE {Number(kind, Rounded(kind, t.num))}
    [] kind = "any" ->
         {CASE t.type \in UnsignedTypes -> Number("uint64", t.num)
            [] t.type = "int32" -> Number("int", t.num)
            [] OTHER -> t}
    [] OTHER -> IF kind = OwnKind(t) THEN {t} ELSE {}

\* All of the items i of the sequence fit: the values in their places.
All(t, types) ==
  LET fits == [i \in DOMAIN types |-> Fit(t.items[i], types[i])]
  IN  IF \E i \in DOMAIN fits : fits[i] = {} THEN {}
      ELSE {Item(t.type, "", 0, [i \in DOMAIN fits |-> CHOOSE v \in fits[i] : TRUE])}
FitElements(t, elem) ==
  All(t, [i \in DOMAIN t.items |->
            IF t.type = "map" /\ i % 2 = 1 THEN AnyType ELSE elem])

\* The item of each field: the whole map, the value of the key, or nil.
ValuesOf(t, name) == {t.items[2 * i] : i \in {j \in 1..SizeOf(t) : t.items[2 * j - 1] = Text(name)}}
FitStruct(t, type) ==
  LET present == {i \in DOMAIN type.names : type.names[i] = "" \/ ValuesOf(t, type.names[i]) # {}}
      field(i) == IF type.names[i] = "" THEN t ELSE CHOOSE v \in ValuesOf(t, type.names[i]) : TRUE
      fits == [i \in present |-> Fit(field(i), type.parts[i])]
  IN  IF \E i \in present : fits[i] = {} THEN {}
      ELSE {Item("struct", "", 0, [i \in DOMAIN type.parts |->
              IF i \in present THEN CHOOSE v \in fits[i] : TRUE ELSE NilItem])}

FitResult(t, type) ==
  CASE t.type = "map" /\ type.kind = "struct" -> FitStruct(t, type)
    [] t.type = "map" /\ type.kind = "bigint" -> {Zero(type)}
    [] t.type = "map" /\ type.kind = "map" -> FitElements(t, type.parts[1])
    [] t.type \in Containers /\ type.kind = "any" -> FitElements(t, AnyType)
    [] t.type = "slice" /\ type.kind = "slice" -> FitElements(t, type.parts[1])
    [] t.type = "slice" /\ type.kind = "bytes" -> FitElements(t, Type("uint8"))
    [] t.type \in Containers -> {}
    [] OTHER -> FitNumber(t, type.kind)
\* A uintptr gets the place of any value, if it is not behind a pointer.
Fit(t, type) == FitResult(t, IF type.kind = "uintptr" THEN AnyType ELSE Indirect(type))
FitInto(t, type) == Fit(t, PtrTo(type))

\* An integer that conversions between int64 and uint64 turn into another one.
Wraps(t) ==
  \E p \in PartsOf(t) :
    p.type \in UnsignedTypes \cup {"int32"} /\ p.num \notin 0..(Wrap64 \div 2 - 1)

\* A decoded value with what stands at each offset in it.
RECURSIVE Followed(_)
Followed(v) ==
  IF v.type = "offset" THEN Decode(v.num, AnyType, 0).value
  ELSE [v EXCEPT !.items = [i \in DOMAIN @ |-> Followed(@[i])]]

\* What an interface value gets.
Interface(t) == CHOOSE v \in Fit(t, AnyType) : TRUE

\* The part of a value that a path names, Nowhere if there is none, Astray if a
\* part on the way is not of the kind that the path takes it for.
Nowhere == Item("nowhere", "", 0, <<>>)
Astray == Item("astray", "", 0, <<>>)
PartOf(t, part) ==
  LET named == ValuesOf(t, part.key)
      i == IF part.index < 0 THEN Len(t.items) + part.index ELSE part.index
  IN  CASE t \in {Nowhere, Astray} -> t
        [] IsKey(part) /\ t.type = "map" ->
             IF named = {} THEN Nowhere ELSE CHOOSE v \in named : TRUE
        [] ~IsKey(part) /\ t.type = "slice" ->
             IF i \in 0..(Len(t.items) - 1) THEN t.items[i + 1] ELSE Nowhere
        [] OTHER -> Astray
Get(t, path) == FoldLeft(PartOf, t, path)

\* A value that no sharing can make too deep: each part of it costs a pointer more.
Shallow(t, more) == 2 * Nesting(t) + more <= MaxDepth

Readable(t) == Decode(offsets[t], AnyType, 0).err = "none"

\* What a deserializer is told of t if it skips the part omitted wherever it meets it.
RECURSIVE Spell(_, _)
Spell(t, omitted) ==
  IF t = omitted THEN <<>>
  ELSE <<Cell(t)>> \o FlattenSeq([i \in DOMAIN t.items |-> Spell(t.items[i], omitted)])
         \o IF t.type \in Containers THEN <<CallEnd>> ELSE <<>>
-----------------------------------------------------------------------------
(***************************************************************************)
(* Properties.                                                             *)
(***************************************************************************)

\* The section is read when nothing is being written any more.
Complete == calls = <<>>

\* Whatever was written before and after a value, and whatever parts of it
\* became pointers, it decodes to itself, or fails for its depth alone; and it
\* never fails for that if twice its nesting is within the limit.
RoundTrip ==
  Complete =>
    \A t \in DOMAIN offsets :
      LET result == Decode(offsets[t], AnyType, 0)
      IN  CASE result.err = "none" -> result.value = Interface(t)
            [] OTHER -> result.err = "depth" /\ ~Shallow(t, 0)

\* Result.DecodePath finds in the file what the path names in the value: keys
\* behind pointers, elements behind shared maps, indexes from the end.  It fails
\* where the path takes a part for what it is not, and is silent where it is short.
PathsDecode ==
  Complete =>
    \A t \in DOMAIN offsets, path \in Paths :
      LET result == DecodePath(offsets[t], path, AnyType)
          part == Get(t, path)
      IN  CASE part = Nowhere -> result.err = "absent"
            [] part = Astray -> result.err = "mismatch"
            [] result.err = "none" -> result.value = Interface(part)
            [] OTHER -> result.err = "depth" /\ ~Shallow(part, Len(path) + 1)

\* A Go type gets a value if each part that it has a place for fits, and then that
\* value, with unknown keys skipped, every embedded struct filled and pointers
\* allocated; the decoder is left behind the value, so that what follows it is read
\* right.  If it does not fit the client is told, unless the value holds an integer
\* that wraps (RefusesMisfits).  An offset that a uintptr gets is one at which the
\* value can be decoded, never that of a pointer.
DecodesIntoTypes ==
  Complete =>
    \A t \in DOMAIN offsets, type \in Types :
      LET result == Into(offsets[t], type)
          fits == FitInto(t, type)
      IN  Readable(t) =>
            IF fits = {} THEN result.err = "type" \/ Wraps(t)
            ELSE /\ result.err = "none" /\ Followed(result.value) \in fits
                 /\ result.next = NextValue(offsets[t], 1)

\* Said of TypeMismatchError, not done by the code: it is what a client gets when a
\* value of the file cannot be assigned to the type that it decodes into.
RefusesMisfits ==
  Complete =>
    \A t \in DOMAIN offsets, type \in Types :
      FitInto(t, type) = {} => Into(offsets[t], type).err # "none"

\* What a deserializer is told spells the value; and if it asks to skip the place
\* of a map or slice with parts, it misses that part, wherever in the value it
\* occurs, whole or behind a pointer, and nothing else.
CallsSpell ==
  Complete =>
    \A t \in DOMAIN offsets :
      \A p \in {NilItem} \cup {q \in PartsOf(t) : q.items # <<>>} :
        LET skip == IF p = NilItem THEN {} ELSE {positions[KeyOf(p)].ref}
            told == Calls(offsets[t], skip, 0)
        IN  IF told.err = "none" THEN told.value = Spell(t, p)
            ELSE told.err = "depth" /\ ~Shallow(t, 0)

\* InsertDefaultNull stores the full leaves of a value, each behind its keys, and
\* nothing empty; nothing at all if there is none; and it panics for nothing but an
\* int32 in the value, which reflect will not read as unsigned (FilterTakesAll).
FilterKeepsTheRest ==
  Complete =>
    \A t \in DOMAIN filtered :
      CASE filtered[t] = Panicked -> HasInt32(t)
        [] filtered[t] # Panicked /\ FullLeaves(t) = <<>> -> filtered[t] = NilItem
        [] OTHER ->
             /\ filtered[t] \in DOMAIN offsets /\ Leaves(filtered[t]) = FullLeaves(t)
             /\ \A p \in PartsOf(filtered[t]) : p.type \in Containers => p.items # <<>>

\* Said by the README, not done by the code: every type of value, Int32 among them,
\* can be a part of any other and be stored.
FilterTakesAll == \A t \in DOMAIN filtered : filtered[t] # Panicked

\* Validate accepts a section exactly when each value of the tree stands at its
\* top level and can be decoded: a value that was part of another one before makes
\* it complain.
ValidateVerdict ==
  Complete =>
    Accepts(1, Pointed) <=>
      /\ Pointed = tops
      /\ \A t \in DOMAIN offsets : Readable(t)
=============================================================================
