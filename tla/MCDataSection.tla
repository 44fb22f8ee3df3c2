---------------------------- MODULE MCDataSection ----------------------------
(***************************************************************************)
(* Small instances of Decoding and Where for TLC.                          *)
(***************************************************************************)
EXTENDS Where

\* geo is a map that others share, as a whole and in parts; the numbers are at
\* the ends of their types; the last values hold empty parts.
Geo == Map(<<Text("lat"), Text("11.11")>>)
Deep == Slice(<<Slice(<<Slice(<<Geo>>), Text("b")>>)>>)
SomeItems == {
  Text("11.11"),
  Geo,
  Map(<<Text("a"), Text("b"), Text("geo"), Geo>>),
  Slice(<<Geo, Text("b"), Geo>>),
  Deep,
  Map(<<Text("a"), Number("uint64", Wrap64 - 1), Text("b"), Number("int32", -1)>>),
  Map(<<Text("a"), Number("uint16", 3), Text("b"), Number("float64", 7),
        Text("c"), Bool(TRUE), Text("lat"), Text("11.11"), Text("n"), Number("uint128", 5)>>),
  Map(<<Text("a"), Text(""), Text("geo"), Map(<<Text("lat"), Slice(<<>>)>>),
        Text("lat"), Text("11.11")>>),
  Slice(<<Map(<<Text("a"), Number("uint32", 0)>>), Bytes("")>>),
  Map(<<Text("1"), Text("11.11"), Text("geo"), Geo>>)}

\* What the filter leaves of them, and all their parts.
SomeRests == {Filter(t) : t \in SomeItems} \ {NilItem, Panicked}
SomeDataItems == UNION {PartsOf(t) : t \in SomeItems \cup SomeRests}

Key(s) == [key |-> s]
Index(i) == [index |-> i]
SomePaths == {
  <<Key("a")>>, <<Key("lat")>>, <<Key("geo"), Key("lat")>>,
  <<Index(0)>>, <<Index(2)>>, <<Index(-1)>>, <<Index(-4)>>,
  <<Index(2), Key("lat")>>, <<Index(-1), Index(0), Index(0), Key("lat")>>}

GeoStruct == Struct(<<"lat">>, <<PtrTo(Type("string"))>>)
SomeTypes == {
  Type("string"), Type("uintptr"), Type("bigint"), MapOf(AnyType), MapOf(Type("int8")),
  MapOf(Type("uint64")), MapOf(Type("uintptr")), SliceOf(AnyType), SliceOf(MapOf(Type("string"))),
  Struct(<<"geo", "">>, <<GeoStruct, Struct(<<"a", "b">>, <<AnyType, Type("float32")>>)>>),
  Struct(<<"c", "a", "n">>, <<Type("bool"), Type("int64"), Type("bigint")>>)}

Query(op, path, mode, arg) == [op |-> op, path |-> path, mode |-> mode, arg |-> arg]
Arg(kind, v) == [kind |-> kind, list |-> FALSE, values |-> {v}]
Among(kind, vs) == [kind |-> kind, list |-> TRUE, values |-> vs]
Lat == Arg("string", Text("11.11"))
Minus1 == Arg("int64", Number("int64", -1))
Big5 == Arg("bigint", Number("uint128", 5))
SomeQueries == {
  Query("Where", <<Key("lat")>>, "=", Lat), Query("Where", <<Key("geo"), Key("lat")>>, "=", Lat),
  Query("Where", <<Key("*")>>, "=", Lat), Query("Where", <<Index(-1)>>, "=", Arg("string", Text("b"))),
  Query("Where", <<Index(2), Key("lat")>>, "LIKE", Arg("string", Text("b"))),
  Query("Where", <<Key("a")>>, "ILIKE", Arg("string", Text("B"))),
  Query("Where", <<Key("a")>>, "<", Arg("int64", Number("int64", 4))),
  Query("Where", <<Key("b")>>, "=", Arg("uint64", Number("uint64", Wrap64 - 1))),
  Query("Where", <<Key("b")>>, ">", Arg("float32", Number("float32", 5))),
  Query("Where", <<Key("a")>>, "IN", Among("uint64", {Number("uint64", 3)})),
  Query("Where", <<Key("a")>>, "!=", Minus1), Query("Where", <<Key("a")>>, "!=", Lat),
  Query("Where", <<Key("n")>>, "=", Big5), Query("Where", <<Key("n")>>, "!=", Big5),
  Query("Where", <<>>, "=", Lat), Query("Where", <<Key("lat")>>, "IN", Lat),
  Query("WhereInSlice", <<Index(-1), Key("lat")>>, "=", Lat),
  Query("WhereInSlice", <<Index(-1), Index(-1), Index(0), Key("lat")>>, "=", Lat),
  Query("WhereInSlice", <<Index(0), Index(-1)>>, "=", Arg("string", Text("b"))),
  Query("WhereInSlice", <<Index(1)>>, "=", Lat),
  Query("WhereInSlice", <<Index(-2)>>, "!=", Lat),
  Query("WhereHas", <<>>, "", Lat), Query("WhereHas", <<>>, "", Arg("string", Text("b"))),
  Query("WhereHas", <<>>, "", Arg("bigint", Number("uint128", 0)))}

\* The texts of the instance: which contain which, in which case, and numerals.
SameText(s, t) == s = t
LowerB(s) == IF s = "B" THEN "b" ELSE s
Numeral(i) == IF i = 1 THEN "1" ELSE "none"
=============================================================================
