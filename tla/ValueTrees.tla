------------------------------ MODULE ValueTrees ------------------------------
(***************************************************************************)
(* What the writer computes of a whole value, with all its parts: the      *)
(* cells that are hashed, and the filter of InsertDefaultNull              *)
(* (writer/write.go), which drops empty parts.                             *)
(***************************************************************************)
EXTENDS Values, SequencesExt

\* hashBuffer.Hash serializes the whole value without pointers.
RECURSIVE Cells(_)
Cells(t) == <<Cell(t)>> \o FlattenSeq([i \in DOMAIN t.items |-> Cells(t.items[i])])
-----------------------------------------------------------------------------
(***************************************************************************)
(* isEmptyValue and filterEmptyFields.                                     *)
(***************************************************************************)

IsEmpty(t) ==
  CASE t.type \in {"string", "bytes"} -> t.text = ""
    [] t.type \in NumberTypes -> t.num = 0
    [] t.type \in Containers -> t.items = <<>>
    [] OTHER -> t = NilItem

RECURSIVE Filter(_)
Kept(entries) == SelectSeq(entries, LAMBDA entry : entry[Len(entry)] # NilItem)
Emptied_Stays(t) == t   \* mutant: a container whose parts all went is kept
Emptied(t) == IF t.items = <<>> THEN NilItem ELSE t
FilterParts(t) ==
  LET entries == [i \in 1..SizeOf(t) |->
                    IF t.type = "map" THEN <<t.items[2 * i - 1], Filter(t.items[2 * i])>>
                                      ELSE <<Filter(t.items[i])>>]
  IN  IF \E i \in DOMAIN entries : entries[i][Len(entries[i])] = Panicked THEN Panicked
      ELSE Emptied([t EXCEPT !.items = FlattenSeq(Kept(entries))])
\* reflect's Uint() panics for an int32, which shares a case with the others.
Filter(t) ==
  CASE t.type = "int32" -> Panicked
    [] t.type \in Containers -> FilterParts(t)
    [] OTHER -> IF IsEmpty(t) THEN NilItem ELSE t
-----------------------------------------------------------------------------
(***************************************************************************)
(* What the filter is for, without its recursion.                          *)
(***************************************************************************)

\* The parts of t that have no parts, in order, with the keys that lead to them.
RECURSIVE Leaves(_)
Below(key, leaves) == [i \in DOMAIN leaves |-> <<key>> \o leaves[i]]
Leaves(t) ==
  CASE t.type = "map" ->
         FlattenSeq([i \in 1..SizeOf(t) |->
                       Below(t.items[2 * i - 1], Leaves(t.items[2 * i]))])
    [] t.type = "slice" -> FlattenSeq([i \in 1..SizeOf(t) |-> Leaves(t.items[i])])
    [] OTHER -> <<<<t>>>>
FullLeaves(t) == SelectSeq(Leaves(t), LAMBDA leaf : ~IsEmpty(leaf[Len(leaf)]))
HasInt32(t) == \E i \in DOMAIN Leaves(t) : Leaves(t)[i][Len(Leaves(t)[i])].type = "int32"

RECURSIVE PartsOf(_)
PartsOf(t) == {t} \cup UNION {PartsOf(t.items[i]) : i \in DOMAIN t.items}

\* How many containers stand around the innermost part of t.
RECURSIVE Nesting(_)
Nesting(t) ==
  IF t.items = <<>> THEN 0
  ELSE 1 + CHOOSE n \in {Nesting(t.items[i]) : i \in DOMAIN t.items} :
             \A i \in DOMAIN t.items : Nesting(t.items[i]) <= n
=============================================================================
