------------------------------- MODULE DbFile -------------------------------
(***************************************************************************)
(* The file that BinaryTree.Serialize writes and reader.Reader reads: a    *)
(* table of nodes, two numbers each, a separator, the data section and the *)
(* metadata.  A number below nodeCount is a node, nodeCount is "no record" *)
(* and a larger one points into the data section.                          *)
(*                                                                         *)
(* A trie is given here by its labels: at every path the kind of record    *)
(* and the value it holds.  A value takes one unit of the data section.    *)
(***************************************************************************)
EXTENDS Trie, Digits

CONSTANTS
  NodeLimit,   \* 2^nodeSize: the numbers a node can hold; 2^32 in the code
  Separator    \* len(SectionSeparator), 16 in the code

ASSUME FileAssumption == Separator \in Nat \ {0}

NoLabel == [kind |-> "none", value |-> Nil]
EmptyLabel == [kind |-> "empty", value |-> Nil]
NodeLabel == [kind |-> "node", value |-> Nil]
DataLabel(v) == [kind |-> "data", value |-> v]

\* The smallest trie of a content: a node where the keys below differ.
KeysBelow(p) == {k \in Keys : OnPath(p, k)}
Uniform(content, p) ==
  \A k, l \in KeysBelow(p) : content[k] = content[l]
ValueAt(content, p) == content[CHOOSE k \in KeysBelow(p) : TRUE]
TrieOf(content) ==
  [p \in Paths |->
     IF \E d \in 1..(Len(p) - 1) : Uniform(content, SubSeq(p, 1, d)) THEN NoLabel
     ELSE IF ~Uniform(content, p) THEN NodeLabel
     ELSE IF ValueAt(content, p) = Nil THEN EmptyLabel
     ELSE DataLabel(ValueAt(content, p))]

Root == <<>>
NodePaths(t) == {Root} \cup {p \in Paths : t[p].kind = "node"}
Child(p, b) == Append(p, b)

\* p comes before q when a node is followed by all of its left part and then
\* by all of its right part (node.prepare and writeNode both walk so).
Before(p, q) ==
  \/ Len(p) < Len(q) /\ \A i \in 1..Len(p) : p[i] = q[i]
  \/ \E i \in 1..Len(p) : /\ i <= Len(q) /\ p[i] < q[i]
                          /\ \A h \in 1..(i - 1) : p[h] = q[h]

(***************************************************************************)
(* The ids that prepare gives to the nodes (Numbered), and the layout of a *)
(* file: the order in which writeNode writes the nodes, and the position   *)
(* of every value.  A leaf's value is written when the walk encodes the    *)
(* node above it, left child first, unless a value of its hash is already  *)
(* there (writeWithRef).                                                   *)
(***************************************************************************)
Preorder(t) == [p \in NodePaths(t) |->
                  Cardinality({q \in NodePaths(t) : Before(q, p)})]
Numbered_ByLevel(t) ==   \* mutant: prepare goes breadth first
  [p \in NodePaths(t) |->
     Cardinality({q \in NodePaths(t) :
                    IF Len(q) = Len(p) THEN Before(q, p) ELSE Len(q) < Len(p)})]
Numbered_FromOne(t) == [p \in NodePaths(t) |-> Preorder(t)[p] + 1]   \* mutant
Numbered(t) == Preorder(t)
DataPaths(t) == {p \in Paths : t[p].kind = "data" /\ t[p].value # Nil}
HashOf(t, p) == Hash[t[p].value]

Layout(t) ==
  LET number == Preorder(t)
      slot == [p \in DataPaths(t) |->
                 2 * number[SubSeq(p, 1, Len(p) - 1)] + p[Len(p)]]
      first == [h \in {HashOf(t, p) : p \in DataPaths(t)} |->
                  CHOOSE p \in DataPaths(t) :
                    /\ HashOf(t, p) = h
                    /\ \A q \in DataPaths(t) : HashOf(t, q) = h => slot[p] <= slot[q]]
  IN  [node |-> [n \in {number[p] : p \in NodePaths(t)} |->
                   CHOOSE p \in NodePaths(t) : number[p] = n],
       first |-> first,
       position |-> [h \in DOMAIN first |->
                       Cardinality({g \in DOMAIN first : slot[first[g]] < slot[first[h]]})]]

(***************************************************************************)
(* nodeValue, encodeNode and writeNode, for the ids that the nodes carry   *)
(* and the total that prepare counted.                                     *)
(***************************************************************************)
NodeValue_NoSeparator(t, lay, id, total, p) ==   \* mutant: no section separator
  CASE t[p].kind = "data" -> total + lay.position[HashOf(t, p)]
    [] t[p].kind = "empty" -> total
    [] t[p].kind = "node" -> id[p]
NodeValue(t, lay, id, total, p) ==
  CASE t[p].kind = "data" -> total + Separator + lay.position[HashOf(t, p)]
    [] t[p].kind = "empty" -> total
    [] t[p].kind = "node" -> id[p]

Overflows(t, lay, id, total, n) ==
  \E b \in Bit : NodeValue(t, lay, id, total, Child(lay.node[n], b)) >= NodeLimit

File(t, lay, id, total, count) ==
  [nodes |-> [n \in DOMAIN lay.node |->
                [b \in Bit |-> NodeValue(t, lay, id, total, Child(lay.node[n], b))]],
   data |-> [n \in {lay.position[h] : h \in DOMAIN lay.position} |->
               t[lay.first[CHOOSE h \in DOMAIN lay.position :
                             lay.position[h] = n]].value],
   nodeCount |-> total,
   dataCount |-> count]
-----------------------------------------------------------------------------
(***************************************************************************)
(* Reading (reader/read.go).  Ids are numbers; the bit at place 0 is the   *)
(* most significant of PrefixBits.                                         *)
(***************************************************************************)
Ids == 0..(Power2(PrefixBits) - 1)
GetBit(id, place) == (id \div Power2(PrefixBits - 1 - place)) % 2
KeyOfId(id) == [i \in 1..PrefixBits |-> GetBit(id, i - 1)]

IsNode(f, n) == n < f.nodeCount
IsData(f, n) == n > f.nodeCount
Resolve(f, n) == n - f.nodeCount - Separator   \* resolveDataPointer

\* traverseTree, and the loop of Find: the number reached after `bits` bits.
Walk(f, id, bits) ==
  LET at[d \in 0..PrefixBits] ==
        IF d = 0 THEN 0
        ELSE IF IsNode(f, at[d - 1]) THEN f.nodes[at[d - 1]][GetBit(id, d - 1)]
        ELSE at[d - 1]
  IN  at[bits]

\* Reader.Find and Result.Decode: the value, or Nil for "not found".
FindValue(f, id) ==
  LET n == Walk(f, id, PrefixBits)
  IN  IF IsData(f, n) THEN f.data[Resolve(f, n)] ELSE Nil
=============================================================================
