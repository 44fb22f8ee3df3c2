----------------------------- MODULE BinaryTree -----------------------------
(***************************************************************************)
(* The in-memory index that writer.BinaryTree builds: a binary trie over   *)
(* the bits of the key, most significant bit first (writer/btree.go), and  *)
(* the reference-counted storage of the values it holds                    *)
(* (writer/storage.go).                                                    *)
(*                                                                         *)
(* A record of the trie is named by the path of bits that leads to it.     *)
(* The code inserts by recursion: down to the full depth, splitting every  *)
(* leaf it meets, then up again, joining children that became equal.  Here *)
(* one action does the whole call, and the recursion is closed: the path   *)
(* is split at once (Split), the leaf is written, and the children join    *)
(* up to the depth where the first pair differs (JoinsUpTo).               *)
(***************************************************************************)
EXTENDS Trie

CONSTANTS
  Oversized,    \* the values whose serialization fails (larger than sizeMax)
  Filtered,     \* what filterEmptyFields leaves of a value
  EntryIds,     \* identities of dataEntry objects
  NoEntry,      \* the nil *dataEntry
  RefMod,       \* refCount is counted modulo this; 2^32 in the code
  MaxInserts    \* bound: how many calls of Insert are explored

ASSUME ConstantsAssumption ==
  /\ Oversized \subseteq Values
  /\ Filtered \in [Values -> Values \cup {Nil}]
  /\ NoEntry \notin EntryIds
  /\ RefMod \in Nat \ {0}
  /\ MaxInserts \in Nat

VARIABLES
  tree,       \* the record at every path; NoRecord where the trie has none
  heap,       \* the dataEntry objects; Free when nobody refers to one
  entries,    \* storage.entries: hash key -> entry, or NoEntry
  totalSize,  \* BinaryTree.totalSize
  panicked    \* a nil dereference ended the process

vars == <<tree, heap, entries, totalSize, panicked>>
-----------------------------------------------------------------------------
(***************************************************************************)
(* Records of the trie.  A data record whose insert failed can be left     *)
(* without an entry: Data(NoEntry).                                        *)
(***************************************************************************)
Record == [rType : {"none", "empty", "data", "node"},
           value : EntryIds \cup {NoEntry}]
NoRecord == [rType |-> "none", value |-> NoEntry]
Empty == [rType |-> "empty", value |-> NoEntry]
Node == [rType |-> "node", value |-> NoEntry]
Data(e) == [rType |-> "data", value |-> e]

IsLeaf(r) == r.rType \in {"empty", "data"}

Free == [value |-> Nil, refCount |-> 0]
Entry == [value : Values \cup {Nil}, refCount : 0..(RefMod - 1)]

\* node.find: the leaf that the bits of k lead to.
LeafDepth(t, k) == CHOOSE d \in 1..PrefixBits : IsLeaf(t[Path(k, d)])
Leaf(t, k) == t[Path(k, LeafDepth(t, k))]

\* The map the trie stands for.
ValueOf(h, e) == IF e = NoEntry THEN Nil ELSE h[e].value
Lookup(k) == ValueOf(heap, Leaf(tree, k).value)
Content == [k \in Keys |-> Lookup(k)]
-----------------------------------------------------------------------------
(***************************************************************************)
(* The storage: st is [heap, entries] in the middle of a call.             *)
(***************************************************************************)
Storage == [heap |-> heap, entries |-> entries]
KeyOf(h, e) == Hash[h[e].value]

\* The entries that records of t or the index hs refer to.
Referenced(t, hs) == {t[p].value : p \in Paths} \cup {hs[h] : h \in HashKeys}

\* refCount--, n times, on a uint32.
Decremented_Signed(c, n) == c - n   \* mutant: a signed counter
Decremented(c, n) == (c - n) % RefMod

\* storage.remove, called once for each record of a group (a function to
\* records).  An entry leaves the index when its count reaches 0; a call on an
\* entry that is at 0 already wraps the unsigned counter.
Remove(st, group) ==
  LET times(e) == Cardinality({i \in DOMAIN group : group[i].value = e})
      dropped(h) == \E e \in EntryIds :
                      /\ st.heap[e].value \in Values
                      /\ KeyOf(st.heap, e) = h
                      /\ st.heap[e].refCount \in 1..times(e)
  IN  [heap |-> [e \in EntryIds |->
         [value |-> st.heap[e].value,
          refCount |-> Decremented(st.heap[e].refCount, times(e))]],
       entries |-> [h \in HashKeys |->
         IF dropped(h) THEN NoEntry ELSE st.entries[h]]]

\* The entries storage.add may return for v: the one with v's hash, whatever
\* value it was made for, or else a new one.
AddTargets(st, v) ==
  IF st.entries[Hash[v]] # NoEntry
  THEN {st.entries[Hash[v]]}
  ELSE EntryIds \ Referenced(tree, entries)

\* storage.add when it returns e.
Add(st, v, e) ==
  LET exists == st.entries[Hash[v]] = e
  IN  [heap |-> [st.heap EXCEPT ![e] =
         [value |-> IF exists THEN @.value ELSE v,
          refCount |-> ((IF exists THEN @.refCount ELSE 0) + 1) % RefMod]],
       entries |-> [st.entries EXCEPT ![Hash[v]] = e]]

\* What is left of the heap once nothing refers to an entry any more.
Collected(h, t, hs) ==
  [e \in EntryIds |-> IF e \in Referenced(t, hs) THEN h[e] ELSE Free]
-----------------------------------------------------------------------------
(***************************************************************************)
(* The way down.  Every leaf on the way becomes a node whose two children  *)
(* are copies of it; a copied data record takes no reference of its own.   *)
(***************************************************************************)
Split_LosesCopy(t, k) ==   \* mutant: the leaf goes down one child only
  [p \in Paths |->
     IF OnPath(p, k) /\ Len(p) < PrefixBits THEN Node
     ELSE IF t[p] = NoRecord /\ OffPath(p, k)
          THEN IF OnPath(p, k) THEN Leaf(t, k) ELSE Empty
     ELSE t[p]]
Split(t, k) ==
  [p \in Paths |->
     IF OnPath(p, k) /\ Len(p) < PrefixBits THEN Node
     ELSE IF t[p] = NoRecord /\ OffPath(p, k) THEN Leaf(t, k)
     ELSE t[p]]

(***************************************************************************)
(* The way up, from leaf r just written at the full depth (tryMerge).  The *)
(* record at depth d joins its sibling when both are empty or both hold    *)
(* values of the same hash.  The records of the root never join.           *)
(***************************************************************************)
Joins_DataOnly(t, k, r, h, d) ==   \* mutant: empty children never join
  LET s == t[Sibling(k, d)]
  IN  /\ s.rType = "data" /\ r.rType = "data" /\ s.value # NoEntry
      /\ KeyOf(h, s.value) = KeyOf(h, r.value)
Joins(t, k, r, h, d) ==
  LET s == t[Sibling(k, d)]
  IN  /\ s.rType = r.rType
      /\ \/ r.rType = "empty"
         \/ s.value # NoEntry /\ KeyOf(h, s.value) = KeyOf(h, r.value)

\* Comparing the hash of a data record that has no entry.
Crashes(t, k, r, d) == r.rType = "data" /\ t[Sibling(k, d)] = Data(NoEntry)

\* The joins reach depth m and no further.
JoinsUpTo(t, k, r, h, m) ==
  /\ \A d \in (m + 1)..PrefixBits : Joins(t, k, r, h, d)
  /\ m > 1 => ~Joins(t, k, r, h, m)

\* The leaves that joined: the sibling at each depth, and the leaf written,
\* which stands last.  The left child of every pair survives; so does j when
\* k turns right at j and nowhere between m and j.
Joined(t, k, r, i) == IF i = PrefixBits + 1 THEN r ELSE t[Sibling(k, i)]
Survives(k, m, j) ==
  /\ j <= PrefixBits => k[j] = 1
  /\ \A i \in (m + 1)..(j - 1) : k[i] = 0

Join_KeepsNode(t, k, m, r) ==   \* mutant: tryMerge forgets r.node = nil
  [t EXCEPT ![Path(k, PrefixBits)] = r, ![Path(k, m)] = r]
Join(t, k, m, r) ==
  [p \in Paths |-> IF p = Path(k, m) THEN r
                   ELSE IF Below(p, k, m) THEN NoRecord
                   ELSE t[p]]

\* The rest of a successful call, from the write of leaf r at the full depth
\* that left the storage at st.
Ascend(k, r, st) ==
  LET t == Split(tree, k)
  IN  \E m \in 1..PrefixBits : \E j \in (m + 1)..(PrefixBits + 1) :
        /\ Survives(k, m, j)
        /\ JoinsUpTo(t, k, r, st.heap, m)
        /\ m > 1 => ~Crashes(t, k, r, m)
        /\ LET rest == Remove(st, [i \in ((m + 1)..(PrefixBits + 1)) \ {j}
                                     |-> Joined(t, k, r, i)])
           IN  /\ tree' = Join(t, k, m, Joined(t, k, r, j))
               /\ entries' = rest.entries
               /\ heap' = Collected(rest.heap, tree', entries')
        /\ UNCHANGED panicked

\* ... or its end, in a nil dereference on the way up.
AscendPanics(k, r, st) ==
  /\ \E m \in 2..PrefixBits :
       /\ JoinsUpTo(Split(tree, k), k, r, st.heap, m)
       /\ Crashes(Split(tree, k), k, r, m)
  /\ panicked' = TRUE
  /\ UNCHANGED <<tree, heap, entries>>
-----------------------------------------------------------------------------
(***************************************************************************)
(* Operations.  What record.insert does with the leaf at the full depth,   *)
(* whose old record is the leaf that the way down copied to it.            *)
(***************************************************************************)
Released_Kept(k) == Storage   \* mutant: no storage.remove(r.value)
Released(k) == Remove(Storage, <<Leaf(tree, k)>>)

\* A nil value empties the leaf.
WriteNil(k) == Ascend(k, Empty, Released(k))

\* An equal value stays where it is; the way up is taken all the same.
WriteEqual(k, v) ==
  /\ Lookup(k) = v
  /\ \/ Ascend(k, Leaf(tree, k), Storage)
     \/ AscendPanics(k, Leaf(tree, k), Storage)

\* Another value replaces the old one.
WriteNew(k, v) ==
  /\ Lookup(k) # v /\ v \notin Oversized
  /\ \E e \in AddTargets(Released(k), v) :
       LET st == Add(Released(k), v, e)
       IN  Ascend(k, Data(e), st) \/ AscendPanics(k, Data(e), st)

\* The value cannot be serialized: the old one is released, its record stays,
\* and the error returns past every tryMerge, so the way down is left split.
WriteFails_Clears(k, v) ==   \* mutant: r.value = nil before the error
  /\ v \in Oversized
  /\ tree' = [Split(tree, k) EXCEPT ![Path(k, PrefixBits)] = Data(NoEntry)]
  /\ entries' = Released(k).entries
  /\ heap' = Collected(Released(k).heap, tree', entries')
  /\ UNCHANGED panicked
WriteFails(k, v) ==
  /\ v \in Oversized
  /\ tree' = [Split(tree, k) EXCEPT ![Path(k, PrefixBits)] = Data(Leaf(tree, k).value)]
  /\ entries' = Released(k).entries
  /\ heap' = Collected(Released(k).heap, tree', entries')
  /\ UNCHANGED panicked

Insert(k, v) ==
  /\ ~panicked
  /\ totalSize < MaxInserts
  /\ totalSize' = totalSize + 1
  /\ \/ v = Nil /\ WriteNil(k)
     \/ v # Nil /\ (WriteEqual(k, v) \/ WriteNew(k, v) \/ WriteFails(k, v))

InsertDefaultNull(k, v) == Insert(k, Filtered[v])

\* Find reads the value of the leaf; it has no check for a leaf without one.
\* A Find that succeeds changes nothing.
FindAbsent(k) ==
  /\ ~panicked
  /\ Leaf(tree, k).value = NoEntry
  /\ panicked' = TRUE
  /\ UNCHANGED <<tree, heap, entries, totalSize>>

Init ==
  /\ tree = [p \in Paths |-> IF Len(p) = 1 THEN Empty ELSE NoRecord]
  /\ heap = [e \in EntryIds |-> Free]
  /\ entries = [h \in HashKeys |-> NoEntry]
  /\ totalSize = 0
  /\ panicked = FALSE

Next ==
  \E k \in Keys :
    \/ \E v \in Values \cup {Nil} : Insert(k, v)
    \/ \E v \in Values : InsertDefaultNull(k, v)
    \/ FindAbsent(k)

Spec == Init /\ [][Next]_vars
-----------------------------------------------------------------------------
(***************************************************************************)
(* Properties.                                                             *)
(***************************************************************************)

\* The type of the state (structs of btree.go and storage.go).
TypeOK ==
  /\ tree \in [Paths -> Record]
  /\ heap \in [EntryIds -> Entry]
  /\ entries \in [HashKeys -> EntryIds \cup {NoEntry}]
  /\ totalSize \in 0..MaxInserts
  /\ panicked \in BOOLEAN

\* Whatever splits and joins the inserts made, the bits of every key lead
\* through nodes to exactly one leaf, and nothing hangs below a leaf: the
\* recursion of node.find always ends and never meets a missing child.
LeadsToLeaf(t, k, d) ==
  /\ IsLeaf(t[Path(k, d)])
  /\ \A e \in 1..(d - 1) : t[Path(k, e)] = Node
  /\ \A e \in (d + 1)..PrefixBits : t[Path(k, e)] = NoRecord
TrieShape == \A k \in Keys : \E d \in 1..PrefixBits : LeadsToLeaf(tree, k, d)

\* The index never keeps a value that has left the trie: an entry it holds is
\* the value of some leaf, its count is not 0 and is at most the number of
\* leaves that refer to it.  The count may well be lower, because a split
\* copies a leaf without counting the copy.
Holders(e) == {p \in Paths : tree[p].value = e}
NoLeak ==
  \A h \in HashKeys :
    LET e == entries[h]
    IN  e # NoEntry => /\ KeyOf(heap, e) = h
                       /\ heap[e].refCount \in 1..Cardinality(Holders(e))

\* The trie implements the map of KeyValueStore: no insert, with all the
\* splits and joins it makes, ever shows in the value of another key.
KV == INSTANCE KeyValueStore WITH db <- Content
Refines == KV!Spec

\* A call that returns nil is exactly the Put it was asked for, and one that
\* returns an error leaves every key with the value it had, its own included,
\* although it has split the way to it and released the old value's count.
InsertIsPut ==
  [][\A k \in Keys, v \in Values \cup {Nil} :
       Insert(k, v) /\ ~panicked'
         => KV!Put(k, IF v \in Oversized THEN Lookup(k) ELSE v)]_vars
-----------------------------------------------------------------------------
(***************************************************************************)
(* What the comments and the README say, and the code does not do.         *)
(***************************************************************************)

\* An insert reports what is wrong by its error: it does not panic, whatever
\* the inserts before it returned.
InsertNeverPanics ==
  [][\A k \in Keys, v \in Values \cup {Nil} : Insert(k, v) => ~panicked']_vars
=============================================================================
