--------------------------------- MODULE Where ---------------------------------
(***************************************************************************)
(* What Where, WhereInSlice and WhereHas (reader/read.go) do with the      *)
(* value of one record: the walk along the path, and the comparison of     *)
(* what it leads to.  Their walk over the records is in Reader.            *)
(*                                                                         *)
(* A query is [op, path, mode, arg]; its argument is [kind, list, values]: *)
(* a Go value of the kind, or a list of them.                              *)
(***************************************************************************)
EXTENDS Decoding

CONSTANTS
  Queries,
  HasSubstring(_, _),  \* strings.HasSubstring
  Lower(_),        \* strings.ToLower
  Itoa(_)          \* strconv.Itoa
-----------------------------------------------------------------------------
(***************************************************************************)
(* makeComparePathFn.                                                      *)
(***************************************************************************)
Ordered == {"int64", "uint16", "uint32", "uint64"}
ModesOf(arg) ==
  CASE arg.list -> IF arg.kind \in {"string", "int64", "uint64"} THEN {"IN"} ELSE {}
    [] arg.kind = "string" -> {"=", "LIKE", "ILIKE"}
    [] arg.kind \in FloatTypes -> {"=", "<", ">"}
    [] arg.kind \in {"bool", "bytes"} -> {"="}
    [] arg.kind \in Ordered -> {"=", "!=", "<", ">"}
    [] arg.kind = "bigint" -> {"=", "!="}
    [] OTHER -> {}

Agrees(v, mode, arg) ==
  \/ mode \in {"=", "IN"} /\ v \in arg.values
  \/ mode = "!=" /\ v \notin arg.values
  \/ mode = "LIKE" /\ \E w \in arg.values : HasSubstring(v.text, w.text)
  \/ mode = "ILIKE" /\ \E w \in arg.values : HasSubstring(Lower(v.text), Lower(w.text))
  \/ mode = "<" /\ \E w \in arg.values : v.num < w.num
  \/ mode = ">" /\ \E w \in arg.values : v.num > w.num

\* The value is decoded into a variable of the argument's kind.
Compare(o, mode, arg) ==
  LET result == Into(o, Type(arg.kind))
  IN  result.err = "none" /\ Agrees(result.value, mode, arg)
-----------------------------------------------------------------------------
(***************************************************************************)
(* The walks.                                                              *)
(***************************************************************************)
Element(o, i) == NextValue(o + 1, i)
ValueOfEntry(o, i) == NextValue(o + 1, 2 * i + 1)

\* searchAllInSlice and searchAllInMap.
AllInSlice(o, q) ==
  /\ buf[o].type = "slice"
  /\ \E i \in 0..(buf[o].size - 1) : Compare(Element(o, i), q.mode, q.arg)
AllInMap_Keys(o, q) ==   \* mutant: the keys are compared, not the values
  /\ buf[o].type = "map"
  /\ \E i \in 0..(buf[o].size - 1) : Compare(Element(o, 2 * i), q.mode, q.arg)
AllInMap(o, q) ==
  /\ buf[o].type = "map"
  /\ \E i \in 0..(buf[o].size - 1) : Compare(ValueOfEntry(o, i), q.mode, q.arg)

Where(o, q) ==
  LET at == ResolvePath(o, q.path)
  IN  CASE q.path = <<>> -> FALSE
        [] q.path = <<[index |-> -1]>> -> AllInSlice(o, q)
        [] q.path = <<[key |-> "*"]>> -> AllInMap(o, q)
        [] OTHER -> at > 0 /\ Compare(at, q.mode, q.arg)

\* searchByPathWithSlices: -1 is any element of a slice, and an index in a map is
\* the key that is its decimal.
AsKey(part) == IF IsKey(part) THEN part ELSE [key |-> Itoa(part.index)]
RECURSIVE WithSlices(_, _, _)
WithSlices(o, path, q) ==
  LET part == Head(path)
      at == FindPart(o, IF buf[o].type = "map" THEN AsKey(part) ELSE part)
  IN  CASE path = <<>> -> Compare(o, q.mode, q.arg)
        [] path # <<>> /\ part = [index |-> -1] /\ buf[o].type = "slice" ->
             \E i \in 0..(buf[o].size - 1) : WithSlices(Element(o, i), Tail(path), q)
        [] OTHER -> at > 0 /\ WithSlices(at, Tail(path), q)

\* WhereHas compares the whole value, and only for being equal.
Finds(o, q) ==
  CASE q.op = "WhereHas" -> ~q.arg.list /\ Compare(o, "=", q.arg)
    [] q.mode \notin ModesOf(q.arg) -> FALSE
    [] q.op = "Where" -> Where(o, q)
    [] q.op = "WhereInSlice" -> WithSlices(o, q.path, q)
-----------------------------------------------------------------------------
(***************************************************************************)
(* What the queries are for, without any file: the parts of a value that a *)
(* path names, and a part that agrees with the argument.                   *)
(***************************************************************************)
AllItems(t) == {t.items[i] : i \in DOMAIN t.items}
AllValues(t) == {t.items[2 * i] : i \in 1..SizeOf(t)}

Step(t, part, op) ==
  CASE op = "WhereInSlice" /\ part = [index |-> -1] /\ t.type = "slice" -> AllItems(t)
    [] op = "WhereInSlice" /\ ~IsKey(part) /\ t.type = "map" -> {PartOf(t, AsKey(part))}
    [] ~IsKey(part) /\ part.index < 0 -> {}
    [] OTHER -> {PartOf(t, part)}
Named(t, q) ==
  CASE q.op = "WhereHas" -> {t} \cup IF t.type = "slice" THEN AllItems(t) ELSE {}
    [] q.op = "Where" /\ q.path = <<>> -> {}
    [] q.op = "Where" /\ q.path = <<[index |-> -1]>> ->
         IF t.type = "slice" THEN AllItems(t) ELSE {}
    [] q.op = "Where" /\ q.path = <<[key |-> "*"]>> ->
         IF t.type = "map" THEN AllValues(t) ELSE {}
    [] OTHER -> FoldLeft(LAMBDA parts, part : UNION {Step(t1, part, q.op) : t1 \in parts},
                         {t}, q.path) \ {Nowhere, Astray}

\* The README's modes: != goes with every argument that is compared at all.
Promised(q) ==
  IF q.op = "WhereHas" THEN ~q.arg.list
  ELSE \/ q.mode \in ModesOf(q.arg)
       \/ q.mode = "!=" /\ ~q.arg.list /\ ModesOf(q.arg) # {}
Meets(part, q) ==
  \E v \in FitInto(part, Type(q.arg.kind)) :
    Agrees(v, IF q.op = "WhereHas" THEN "=" ELSE q.mode, q.arg)
Satisfies(t, q) == Promised(q) /\ \E part \in Named(t, q) : Meets(part, q)

\* What the code does of it: the modes that it has, and the whole value for WhereHas.
Provided(t, q) == IF q.op = "WhereHas" THEN Meets(t, q) ELSE q.mode \in ModesOf(q.arg)

\* No map and no slice is a pointer where the value stands.
InOnePiece(o) ==
  \A i \in o..(NextValue(o, 1) - 1) : IsPointer(i) => buf[buf[i].size].type \notin Containers
-----------------------------------------------------------------------------
(***************************************************************************)
(* Properties.                                                             *)
(***************************************************************************)

\* A query finds a record only if a part of its value that the path names agrees
\* with the argument, or an integer in it wraps: the walk never compares a
\* neighbouring part.  And in the modes that it has it finds every such record whose
\* value stands in one piece.
WhereFinds ==
  Complete =>
    \A t \in DOMAIN offsets, q \in Queries :
      LET o == offsets[t]
      IN  Readable(t) =>
            /\ Finds(o, q) => Satisfies(t, q) \/ Wraps(t)
            /\ Satisfies(t, q) /\ Provided(t, q) /\ InOnePiece(o) => Finds(o, q)
-----------------------------------------------------------------------------
(***************************************************************************)
(* What the documents say, and the code does not do.                       *)
(***************************************************************************)

\* Where searches inside the values: it finds a record whenever the value at the
\* path agrees, behind a pointer too.
WhereIsComplete ==
  Complete =>
    \A t \in DOMAIN offsets, q \in Queries :
      q.op = "Where" /\ Provided(t, q) /\ Satisfies(t, q) => Finds(offsets[t], q)

\* A text can be compared by != too.
WhereTakesModes ==
  Complete =>
    \A t \in DOMAIN offsets, q \in Queries :
      LET o == offsets[t]
      IN  q.op = "Where" /\ Readable(t) /\ InOnePiece(o) /\ Satisfies(t, q) => Finds(o, q)

\* WhereHas finds a record that is a slice by one of its elements.
WhereHasLooksInside ==
  Complete =>
    \A t \in DOMAIN offsets, q \in Queries :
      q.op = "WhereHas" /\ Readable(t) /\ Satisfies(t, q) => Finds(offsets[t], q)

\* These, the errors for what does not fit and the filter for every type are
\* independent of each other.  No file breaks all five: one that does shows of each
\* that it does not hold.
OnePromiseStands ==
  \/ WhereIsComplete \/ WhereTakesModes \/ WhereHasLooksInside
  \/ RefusesMisfits \/ FilterTakesAll
=============================================================================
