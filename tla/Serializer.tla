----------------------------- MODULE Serializer -----------------------------
(***************************************************************************)
(* BinaryTree.Serialize on top of the inserts of BinaryTree: numbering the *)
(* nodes, writing them and the values, and what the writer may call in     *)
(* between.  A walk that fails leaves an incomplete file and an error.     *)
(***************************************************************************)
EXTENDS BinaryTree, DbFile

CONSTANT NoFile   \* the file that was not created, or is incomplete

VARIABLES
  nodeId,       \* node.id of every node of the trie
  totalNodes,   \* BinaryTree.totalNodes; 0 says: to be counted again
  file,         \* what Serialize wrote since the last insert
  failed        \* an insert has returned an error (history)

fileVars == <<nodeId, totalNodes, file, failed>>
allVars == <<vars, fileVars>>

\* The labels of the trie the writer holds.
Labels ==
  [p \in Paths |-> [kind |-> tree[p].rType, value |-> ValueOf(heap, tree[p].value)]]

SerializerInit ==
  /\ Init
  /\ nodeId = [p \in {Root} |-> 0]
  /\ totalNodes = 0
  /\ file = NoFile
  /\ failed = FALSE

\* Insert and InsertDefaultNull reset totalNodes.  A node that was there keeps
\* its id, a node that the way down made has id 0.
InsertResets_Forgotten(v) ==   \* mutant: totalNodes stays
  /\ failed' = (failed \/ v \in Oversized)
  /\ nodeId' = [p \in NodePaths(Labels') |->
                  IF p \in DOMAIN nodeId THEN nodeId[p] ELSE 0]
  /\ file' = NoFile
  /\ UNCHANGED totalNodes
InsertResets(v) ==
  /\ failed' = (failed \/ v \in Oversized)
  /\ totalNodes' = 0
  /\ nodeId' = [p \in NodePaths(Labels') |->
                  IF p \in DOMAIN nodeId THEN nodeId[p] ELSE 0]
  /\ file' = NoFile

\* prepare, unless nothing was inserted since the last one.
NextIds == IF totalNodes = 0 THEN Numbered(Labels) ELSE nodeId
NextTotal == IF totalNodes = 0 THEN Cardinality(NodePaths(Labels)) ELSE totalNodes

\* The walk stops at a node above a leaf without an entry, where it panics,
\* and at a node one of whose numbers is too large, where it reports an error.
NoEntryBelow(lay, n) == \E b \in Bit : tree[Child(lay.node[n], b)] = Data(NoEntry)
WalkStops(lay, n) ==
  ~NoEntryBelow(lay, n) => Overflows(Labels, lay, NextIds, NextTotal, n)
FirstStop(lay, n) == WalkStops(lay, n) /\ \A i \in 0..(n - 1) : ~WalkStops(lay, i)

\* The walk came to its end and wrote as many nodes as prepare had counted.
Complete(lay) ==
  /\ \A n \in DOMAIN lay.node : ~WalkStops(lay, n)
  /\ Cardinality(DOMAIN lay.node) = NextTotal

Panics(lay) == \E n \in DOMAIN lay.node : FirstStop(lay, n) /\ NoEntryBelow(lay, n)

SerializePanics(lay) ==
  /\ Panics(lay)
  /\ panicked' = TRUE
  /\ file' = NoFile

\* A number that is too large, a wrong count, or an error of the io.Writer.
SerializeFails(lay) ==
  /\ ~Panics(lay)
  /\ file' = NoFile
  /\ UNCHANGED panicked

SerializeWrites(lay) ==
  /\ Complete(lay)
  /\ file' = File(Labels, lay, NextIds, NextTotal, totalSize)
  /\ UNCHANGED panicked

Serialize ==
  /\ ~panicked
  /\ nodeId' = NextIds
  /\ totalNodes' = NextTotal
  /\ LET lay == Layout(Labels)
     IN  SerializePanics(lay) \/ SerializeFails(lay) \/ SerializeWrites(lay)
  /\ UNCHANGED <<tree, heap, entries, totalSize, failed>>

\* The calls of a client that uses the keys of ks and gives InsertDefaultNull
\* the values of vs.
Calls(ks, vs) ==
  \/ \E k \in ks, v \in Values \cup {Nil} : Insert(k, v) /\ InsertResets(v)
  \/ \E k \in ks, v \in vs :
       InsertDefaultNull(k, v) /\ InsertResets(Filtered[v])
  \/ \E k \in ks : FindAbsent(k) /\ UNCHANGED fileVars
  \/ Serialize
SerializerNext == Calls(Keys, Values)

SerializerSpec == SerializerInit /\ [][SerializerNext]_allVars
-----------------------------------------------------------------------------
(***************************************************************************)
(* Properties.                                                             *)
(***************************************************************************)

\* As long as the count of nodes stands, it and the ids are those of the trie
\* the writer holds: a retry of Serialize may use them again.
CountStands ==
  totalNodes # 0 =>
    /\ totalNodes = Cardinality(NodePaths(Labels))
    /\ nodeId = Numbered(Labels)

\* A complete file gives Reader.Find, for every id, the value the writer held
\* for that key when it wrote the file; through the numbering, the pointers
\* into the data section and the sharing of equal values.
FileHoldsContent ==
  [][Serialize /\ file' # NoFile =>
       \A id \in Ids : FindValue(file', id) = Lookup(KeyOfId(id))]_allVars

\* The node table is a tree: every node but the root is the child of exactly
\* one node, which stands before it, and no value is stored twice.  So every
\* traversal of a reader ends.
FileIsTree ==
  file # NoFile =>
    /\ file.nodeCount = Cardinality(DOMAIN file.nodes)
    /\ \A n \in DOMAIN file.nodes \ {0} :
         \E m \in 0..(n - 1), b \in Bit :
           /\ file.nodes[m][b] = n
           /\ \A i \in DOMAIN file.nodes, c \in Bit :
                file.nodes[i][c] = n => i = m /\ c = b
    /\ \A i, j \in DOMAIN file.data : file.data[i] = file.data[j] => i = j

\* The trie is a function of its content: whatever inserts led here, in which
\* order, through which splits and joins, equal content is equal records and
\* so an equal file, with no node more than it needs.  An insert that failed
\* returned past tryMerge, and what it had split stays so.
Canonical == ~failed => Labels = TrieOf(Content)
=============================================================================
