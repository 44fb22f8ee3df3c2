-------------------------------- MODULE Walks --------------------------------
(***************************************************************************)
(* How the reader walks through a data section without decoding:           *)
(* nextValueOffset, resolvePath, decodePath (reader/unpack.go, read.go).   *)
(***************************************************************************)
EXTENDS DataSection, ValueTrees

Target(o) == IF IsPointer(o) THEN buf[o].size ELSE o
Parts(o) == CASE buf[o].type = "map" -> 2 * buf[o].size
              [] buf[o].type = "slice" -> buf[o].size
              [] OTHER -> 0

\* nextValueOffset: the offset n values after o, nested ones with their parts.
RECURSIVE NextValue(_, _)
NextValue_KeysOnly(o, n) ==   \* mutant: a map has as many parts as keys
  IF n = 0 THEN o
  ELSE NextValue(o + 1, n - 1 + IF buf[o].type \in Containers THEN buf[o].size ELSE 0)
NextValue(o, n) == IF n = 0 THEN o ELSE NextValue(o + 1, n - 1 + Parts(o))

\* What a walk along a path may end with, beside an offset.
Absent == 0
Mismatch == -1

\* decodeKey and the search for a key among the n entries from o on.
KeyText(o) == buf[Target(o)].text
RECURSIVE FromEntry(_, _, _)
FromEntry(o, n, key) ==
  IF n = 0 THEN Absent
  ELSE IF KeyText(o) = key THEN NextValue(o, 1)
  ELSE FromEntry(NextValue(o, 2), n - 1, key)

\* One step of a walk; a part of a path is [key |-> text] or [index |-> number].
IsKey(part) == "key" \in DOMAIN part
FindPart(o, part) ==
  CASE IsKey(part) /\ buf[o].type = "map" -> FromEntry(o + 1, buf[o].size, part.key)
    [] ~IsKey(part) /\ buf[o].type = "slice" ->
         IF part.index \in 0..(buf[o].size - 1) THEN NextValue(o + 1, part.index) ELSE Absent
    [] OTHER -> Mismatch

\* resolvePath, findInMap, findInSlice: the walk that Where makes.
ResolvePath(o, path) ==
  FoldLeft(LAMBDA at, part : IF at < 1 THEN at ELSE FindPart(at, part), o, path)

\* decodePath: the walk of DecodePath.  It follows a pointer before each part,
\* and counts a negative index from the end.
FromEnd(o, part) ==
  IF ~IsKey(part) /\ part.index < 0 /\ buf[o].size >= -part.index
  THEN [index |-> buf[o].size + part.index] ELSE part
PathOffset_NotFollowed(o, path) ==   \* mutant: pointers are not followed
  FoldLeft(LAMBDA at, part : IF at < 1 THEN at ELSE FindPart(at, FromEnd(at, part)), o, path)
PathOffset(o, path) ==
  FoldLeft(LAMBDA at, part : IF at < 1 THEN at
                             ELSE FindPart(Target(at), FromEnd(Target(at), part)), o, path)

\* validateTree: the offsets that the nodes of the tree have.
Pointed == {offsets[v] : v \in DOMAIN offsets}
=============================================================================
