----------------------------- MODULE WriterProofs -----------------------------
(***************************************************************************)
(* Proofs about the writer: first about BinaryTree, then about Serializer, *)
(* for every number of bits, every set of values and every number of calls. *)
(***************************************************************************)
EXTENDS Serializer, TrieProofs

USE DEF Bit, NoRecord, Empty, Node, Data
-----------------------------------------------------------------------------
(***************************************************************************)
(* The shape of the trie.                                                  *)
(***************************************************************************)

LEMMA LeafIsUnique ==
  ASSUME NEW t, NEW l \in Keys, NEW d \in 1..PrefixBits, LeadsToLeaf(t, l, d)
  PROVE  LeafDepth(t, l) = d /\ Leaf(t, l) = t[Path(l, d)]
<1>1. \A e \in 1..PrefixBits : IsLeaf(t[Path(l, e)]) => e = d
  BY TrieAssumption DEF LeadsToLeaf, IsLeaf
<1>2. IsLeaf(t[Path(l, d)])
  BY DEF LeadsToLeaf
<1>3. LeafDepth(t, l) = d
  BY <1>1, <1>2 DEF LeafDepth
<1> QED BY <1>3 DEF Leaf

\* Two keys that agree up to the leaf of one of them share it; two that part
\* before have leaves of their own.
LEMMA SharedLeaf ==
  ASSUME NEW t, NEW k \in Keys, NEW c \in 1..PrefixBits, LeadsToLeaf(t, k, c),
         NEW l \in Keys, NEW d \in 1..PrefixBits, LeadsToLeaf(t, l, d),
         NEW f \in 1..PrefixBits,
         k[f] # l[f], \A i \in 1..(f - 1) : k[i] = l[i]
  PROVE  \/ d < f /\ c = d /\ Path(k, d) = Path(l, d)
         \/ d >= f /\ c >= f
<1>1. \A e \in 1..(f - 1) : Path(k, e) = Path(l, e)
  BY PathEqual, TrieAssumption
<1>2. CASE d < f
  <2>1. Path(k, d) = Path(l, d)
    BY <1>1, <1>2, TrieAssumption
  <2>2. IsLeaf(t[Path(k, d)])
    BY <2>1 DEF LeadsToLeaf
  <2>3. c = d
    BY <2>2, LeafIsUnique, TrieAssumption DEF LeadsToLeaf, IsLeaf
  <2> QED BY <1>2, <2>1, <2>3
<1>3. CASE c < f
  <2>1. Path(k, c) = Path(l, c)
    BY <1>1, <1>3, TrieAssumption
  <2>2. IsLeaf(t[Path(l, c)])
    BY <2>1 DEF LeadsToLeaf
  <2>3. c = d
    BY <2>2, TrieAssumption DEF LeadsToLeaf, IsLeaf
  <2> QED BY <1>3, <2>1, <2>3
<1> QED BY <1>2, <1>3, TrieAssumption

\* The way down along k leaves every other key with a copy of the leaf it
\* had, at the depth where it parts from k or below.
LEMMA SplitAtOther ==
  ASSUME NEW t, NEW k \in Keys, NEW c \in 1..PrefixBits, LeadsToLeaf(t, k, c),
         NEW l \in Keys, NEW d \in 1..PrefixBits, LeadsToLeaf(t, l, d),
         NEW f \in 1..PrefixBits,
         k[f] # l[f], \A i \in 1..(f - 1) : k[i] = l[i]
  PROVE  /\ \A e \in 1..(f - 1) : Split(t, k)[Path(l, e)] = Node
         /\ \E b \in f..PrefixBits : 
              /\ LeadsToLeaf(Split(t, k), l, b)
              /\ Split(t, k)[Path(l, b)] = Leaf(t, l)
              /\ IsLeaf(Split(t, k)[Path(l, f)]) => b = f
<1>1. \A e \in 1..PrefixBits : /\ Path(l, e) \in Paths /\ Len(Path(l, e)) = e
                               /\ OnPath(Path(l, e), k) <=> e < f
                               /\ OffPath(Path(l, e), k) <=> e <= f
  <2> TAKE e \in 1..PrefixBits
  <2>1. Path(l, e) \in Paths /\ Len(Path(l, e)) = e
    BY PathType
  <2>2. \A i \in 1..e : Path(l, e)[i] = l[i]
    BY DEF Path
  <2>3. OnPath(Path(l, e), k) <=> e < f
    BY <2>1, <2>2, TrieAssumption DEF OnPath
  <2>4. OffPath(Path(l, e), k) <=> e <= f
    BY <2>1, <2>2, TrieAssumption DEF OffPath
  <2> QED BY <2>1, <2>3, <2>4
<1>2. \A e \in 1..(f - 1) : Split(t, k)[Path(l, e)] = Node
  BY <1>1, TrieAssumption DEF Split
<1>3. \A e \in (f + 1)..PrefixBits : Split(t, k)[Path(l, e)] = t[Path(l, e)]
  BY <1>1, TrieAssumption DEF Split
<1>4. Split(t, k)[Path(l, f)] = IF t[Path(l, f)] = NoRecord THEN Leaf(t, k)
                             ELSE t[Path(l, f)]
  BY <1>1, TrieAssumption DEF Split
<1>5. Leaf(t, k) = t[Path(k, c)] /\ Leaf(t, l) = t[Path(l, d)]
  BY LeafIsUnique
<1>6. CASE d < f /\ c = d /\ Path(k, d) = Path(l, d)
  <2>1. t[Path(l, f)] = NoRecord
    BY <1>6, TrieAssumption DEF LeadsToLeaf
  <2>2. Split(t, k)[Path(l, f)] = Leaf(t, l)
    BY <1>4, <1>5, <1>6, <2>1
  <2>3. LeadsToLeaf(Split(t, k), l, f)
    BY <1>2, <1>3, <1>5, <1>6, <2>2, TrieAssumption DEF LeadsToLeaf
  <2> QED BY <1>2, <2>2, <2>3
<1>7. CASE d >= f /\ c >= f
  <2>1. t[Path(l, f)] # NoRecord
    BY <1>7, TrieAssumption DEF LeadsToLeaf, IsLeaf
  <2>2. Split(t, k)[Path(l, f)] = t[Path(l, f)]
    BY <1>4, <2>1
  <2>3. \A e \in f..PrefixBits : Split(t, k)[Path(l, e)] = t[Path(l, e)]
    BY <1>3, <2>2, TrieAssumption
  <2>4. LeadsToLeaf(Split(t, k), l, d)
    BY <1>2, <1>7, <2>3, TrieAssumption DEF LeadsToLeaf
  <2>5. Split(t, k)[Path(l, d)] = Leaf(t, l)
    BY <1>5, <1>7, <2>3
  <2>6. IsLeaf(Split(t, k)[Path(l, f)]) => d = f
    BY <1>7, <2>3, TrieAssumption DEF LeadsToLeaf, IsLeaf
  <2>7. d \in f..PrefixBits
    BY <1>7, TrieAssumption
  <2> QED BY <1>2, <2>4, <2>5, <2>6, <2>7
<1> QED BY <1>6, <1>7, SharedLeaf

\* The trie after the way down along k, the write of r and the joins up to
\* depth m: keys that share k's first m bits lead to r, the others to the
\* leaf they had.
LEMMA LeafAfterJoin ==
  ASSUME NEW t, NEW k \in Keys, NEW c \in 1..PrefixBits, LeadsToLeaf(t, k, c),
         NEW l \in Keys, NEW d \in 1..PrefixBits, LeadsToLeaf(t, l, d),
         NEW m \in 1..PrefixBits, NEW r, IsLeaf(r)
  PROVE  LET u == Join(Split(t, k), k, m, r)
         IN  /\ \E b \in 1..PrefixBits : LeadsToLeaf(u, l, b)
             /\ Leaf(u, l) = IF \A i \in 1..m : k[i] = l[i] THEN r ELSE Leaf(t, l)
<1> DEFINE s == Split(t, k)
           u == Join(s, k, m, r)
<1>1. \A e \in 1..PrefixBits : Path(l, e) \in Paths /\ Len(Path(l, e)) = e
  BY PathType
<1>2. \A e \in 1..PrefixBits :
        Path(l, e) = Path(k, m) <=> e = m /\ \A i \in 1..m : k[i] = l[i]
  BY PathEqual, TrieAssumption
<1>3. \A e \in 1..PrefixBits :
        Below(Path(l, e), k, m) <=> e > m /\ \A i \in 1..m : k[i] = l[i]
  <2> TAKE e \in 1..PrefixBits
  <2>1. Len(Path(l, e)) = e
    BY <1>1
  <2>2. \A i \in 1..e : Path(l, e)[i] = l[i]
    BY DEF Path
  <2>3. e > m => \A i \in 1..m : Path(l, e)[i] = l[i]
    BY <2>2, TrieAssumption
  <2> HIDE DEF u, s
  <2> QED BY <2>1, <2>3 DEF Below
<1>4. CASE \A i \in 1..m : k[i] = l[i]
  <2>1. \A e \in 1..(m - 1) : OnPath(Path(l, e), k)
    BY <1>1, <1>4, TrieAssumption DEF OnPath, Path
  <2>2. \A e \in 1..(m - 1) : s[Path(l, e)] = Node
    BY <1>1, <2>1, TrieAssumption DEF Split
  <2>3. \A e \in 1..(m - 1) : u[Path(l, e)] = Node
    BY <1>1, <1>2, <1>3, <2>2, TrieAssumption DEF Join
  <2>4. u[Path(l, m)] = r
    BY <1>1, <1>2, <1>4 DEF Join
  <2>5. \A e \in (m + 1)..PrefixBits : u[Path(l, e)] = NoRecord
    BY <1>1, <1>2, <1>3, <1>4, TrieAssumption DEF Join
  <2>6. LeadsToLeaf(u, l, m)
    BY <2>3, <2>4, <2>5 DEF LeadsToLeaf
  <2>7. Leaf(u, l) = r
    BY <2>4, <2>6, LeafIsUnique
  <2> QED BY <1>4, <2>6, <2>7
<1>5. CASE ~ \A i \in 1..m : k[i] = l[i]
  <2>1. PICK f \in 1..m : k[f] # l[f] /\ \A i \in 1..(f - 1) : k[i] = l[i]
    <3>1. m \in 0..PrefixBits
      BY TrieAssumption
    <3> QED BY <1>5, <3>1, FirstDifference
  <2>2. f \in 1..PrefixBits
    BY TrieAssumption
  <2>3. PICK b \in f..PrefixBits : LeadsToLeaf(s, l, b) /\ s[Path(l, b)] = Leaf(t, l)
    BY <2>1, <2>2, SplitAtOther
  <2>4. \A e \in 1..PrefixBits : u[Path(l, e)] = s[Path(l, e)]
    BY <1>1, <1>2, <1>3, <1>5 DEF Join
  <2>5. b \in 1..PrefixBits
    BY <2>2, TrieAssumption
  <2>6. LeadsToLeaf(u, l, b)
    BY <2>3, <2>4, <2>5, TrieAssumption DEF LeadsToLeaf
  <2>7. Leaf(u, l) = Leaf(t, l)
    BY <2>3, <2>4, <2>5, <2>6, LeafIsUnique
  <2> QED BY <1>5, <2>5, <2>6, <2>7
<1> QED BY <1>4, <1>5

\* A key that shares m bits with k, and whose sibling record at the depth
\* where it parts from k is a leaf, had that record for its leaf.
LEMMA SiblingIsLeafOfOther ==
  ASSUME NEW t, NEW k \in Keys, NEW c \in 1..PrefixBits, LeadsToLeaf(t, k, c),
         NEW l \in Keys, NEW d \in 1..PrefixBits, LeadsToLeaf(t, l, d),
         NEW f \in 1..PrefixBits,
         k[f] # l[f], \A i \in 1..(f - 1) : k[i] = l[i],
         IsLeaf(Split(t, k)[Sibling(k, f)])
  PROVE  Split(t, k)[Sibling(k, f)] = Leaf(t, l)
<1>1. Sibling(k, f) = Path(l, f)
  BY TrieAssumption DEF Sibling, Path, Keys
<1> QED BY <1>1, SplitAtOther
-----------------------------------------------------------------------------
(***************************************************************************)
(* The storage.  Removing and adding references never changes the value of *)
(* an entry that something refers to.                                      *)
(***************************************************************************)
StorageType == [heap : [EntryIds -> Entry],
                entries : [HashKeys -> EntryIds \cup {NoEntry}]]

\* The index leads from a hash to an entry whose value has that hash.
IndexOK(st) ==
  \A x \in HashKeys :
    LET e == st.entries[x]
    IN  e # NoEntry => st.heap[e].value \in Values /\ KeyOf(st.heap, e) = x

LEMMA RemoveKeepsValues ==
  ASSUME NEW st \in StorageType, NEW group, IsFiniteSet(DOMAIN group)
  PROVE  LET rest == Remove(st, group)
         IN  /\ rest \in StorageType
             /\ \A e \in EntryIds : rest.heap[e].value = st.heap[e].value
             /\ IndexOK(st) => IndexOK(rest)
<1> DEFINE times(e) == Cardinality({i \in DOMAIN group : group[i].value = e})
           rest == Remove(st, group)
           dropped(h) == \E e \in EntryIds :
                           /\ st.heap[e].value \in Values
                           /\ KeyOf(st.heap, e) = h
                           /\ st.heap[e].refCount \in 1..times(e)
<1>1. \A e \in EntryIds : times(e) \in Nat
  BY FS_CardinalityType, FS_Subset
<1>2. \A e \in EntryIds : st.heap[e] \in Entry
  BY DEF StorageType
<1> HIDE DEF times
<1>3. \A e \in EntryIds : Decremented(st.heap[e].refCount, times(e)) \in 0..(RefMod - 1)
  BY <1>1, <1>2, ConstantsAssumption DEF Decremented, Entry
<1>4. rest.heap = [e \in EntryIds |->
                     [value |-> st.heap[e].value,
                      refCount |-> Decremented(st.heap[e].refCount, times(e))]]
  BY DEF Remove, times
<1>5. rest.entries = [h \in HashKeys |-> IF dropped(h) THEN NoEntry ELSE st.entries[h]]
  BY DEF Remove, times
<1>6. rest = [heap |-> rest.heap, entries |-> rest.entries]
  BY DEF Remove
<1> HIDE DEF rest, dropped
<1>7. rest.heap \in [EntryIds -> Entry]
  BY <1>2, <1>3, <1>4 DEF Entry
<1>8. rest.entries \in [HashKeys -> EntryIds \cup {NoEntry}]
  BY <1>5 DEF StorageType
<1>9. \A e \in EntryIds : rest.heap[e].value = st.heap[e].value
  BY <1>4
<1>10. IndexOK(st) => IndexOK(rest)
  <2>1. \A x \in HashKeys : rest.entries[x] # NoEntry =>
          rest.entries[x] = st.entries[x] /\ rest.entries[x] \in EntryIds
    BY <1>5, <1>8
  <2> QED BY <1>9, <2>1 DEF IndexOK, KeyOf
<1>11. rest \in StorageType
  BY <1>6, <1>7, <1>8 DEF StorageType
<1> QED BY <1>9, <1>10, <1>11 DEF rest

LEMMA AddKeepsValues ==
  ASSUME NEW st \in StorageType, IndexOK(st), NEW v \in Values,
         NEW e \in EntryIds,
         st.entries[Hash[v]] = e \/ \A h \in HashKeys : st.entries[h] # e
  PROVE  LET new == Add(st, v, e)
         IN  /\ new \in StorageType
             /\ IndexOK(new)
             /\ \A x \in EntryIds : x # e \/ st.entries[Hash[v]] = e
                                      => new.heap[x].value = st.heap[x].value
             /\ new.heap[e].value \in Values
             /\ KeyOf(new.heap, e) = Hash[v]
<1> DEFINE new == Add(st, v, e)
           old == st.heap[e]
           exists == st.entries[Hash[v]] = e
           val == IF exists THEN old.value ELSE v
           cnt == ((IF exists THEN old.refCount ELSE 0) + 1) % RefMod
<1>1. Hash[v] \in HashKeys
  BY DEF HashKeys
<1>2. st.heap \in [EntryIds -> Entry] /\ old \in Entry
      /\ st.entries \in [HashKeys -> EntryIds \cup {NoEntry}]
  BY DEF StorageType
<1>3. cnt \in 0..(RefMod - 1)
  BY <1>2, ConstantsAssumption DEF Entry
<1>4. val \in Values /\ Hash[val] = Hash[v]
  BY <1>1, ConstantsAssumption DEF IndexOK, KeyOf
<1>5. new = [heap |-> [st.heap EXCEPT ![e] = [value |-> val, refCount |-> cnt]],
             entries |-> [st.entries EXCEPT ![Hash[v]] = e]]
  BY DEF Add
<1> HIDE DEF cnt, val, new
<1>6. new.heap = [st.heap EXCEPT ![e] = [value |-> val, refCount |-> cnt]]
      /\ new.entries = [st.entries EXCEPT ![Hash[v]] = e]
  BY <1>5
<1>7. new \in StorageType
  BY <1>1, <1>2, <1>3, <1>4, <1>5 DEF StorageType, Entry
<1>8. new.heap[e].value = val /\ \A x \in EntryIds : x # e => new.heap[x] = st.heap[x]
  BY <1>2, <1>6
<1>9. \A x \in EntryIds : x # e \/ exists => new.heap[x].value = st.heap[x].value
  BY <1>8 DEF val
<1>10. IndexOK(new)
  <2> SUFFICES ASSUME NEW x \in HashKeys, new.entries[x] # NoEntry
               PROVE  /\ new.heap[new.entries[x]].value \in Values
                      /\ Hash[new.heap[new.entries[x]].value] = x
    BY DEF IndexOK, KeyOf
  <2>1. CASE x = Hash[v]
    BY <1>1, <1>2, <1>4, <1>6, <1>8, <2>1
  <2>2. CASE x # Hash[v]
    <3>1. new.entries[x] = st.entries[x] /\ st.entries[x] \in EntryIds
      BY <1>1, <1>2, <1>6, <2>2
    <3>2. st.heap[st.entries[x]].value \in Values /\ Hash[st.heap[st.entries[x]].value] = x
      BY <3>1 DEF IndexOK, KeyOf
    <3>3. st.entries[x] = e => exists
      OBVIOUS
    <3> QED BY <1>9, <3>1, <3>2, <3>3
  <2> QED BY <2>1, <2>2
<1> QED BY <1>4, <1>7, <1>8, <1>9, <1>10 DEF KeyOf, new
-----------------------------------------------------------------------------
(***************************************************************************)
(* The inductive invariant: besides the types and the shape of the trie,   *)
(* every entry a record or the index refers to holds a value.              *)
(***************************************************************************)
RecordOK(h, r) ==
  /\ r \in Record
  /\ r.rType # "data" => r.value = NoEntry
  /\ r.value # NoEntry => h[r.value].value \in Values
RecordsOK(t, h) == t \in [Paths -> Record] /\ \A p \in Paths : RecordOK(h, t[p])

IInv == TypeOK /\ TrieShape /\ RecordsOK(tree, heap) /\ IndexOK(Storage)

\* Two storages in which the records of the trie have the same values.
SameValues(t, g, h) ==
  \A p \in Paths : t[p].value # NoEntry => g[t[p].value].value = h[t[p].value].value

LEMMA LeafOK ==
  ASSUME NEW t, NEW h, RecordsOK(t, h), NEW l \in Keys,
         NEW d \in 1..PrefixBits, LeadsToLeaf(t, l, d)
  PROVE  IsLeaf(Leaf(t, l)) /\ RecordOK(h, Leaf(t, l))
<1>1. Path(l, d) \in Paths
  BY PathType
<1> QED BY <1>1, LeafIsUnique DEF RecordsOK, LeadsToLeaf

LEMMA SplitOK ==
  ASSUME NEW t, NEW h, RecordsOK(t, h), NEW k \in Keys,
         NEW c \in 1..PrefixBits, LeadsToLeaf(t, k, c)
  PROVE  /\ RecordsOK(Split(t, k), h)
         /\ \A p \in Paths : Split(t, k)[p] \in {Node, Leaf(t, k), t[p]}
<1>1. RecordOK(h, Leaf(t, k))
  BY LeafOK
<1>2. RecordOK(h, Node)
  BY DEF RecordOK, Record
<1>3. \A p \in Paths : Split(t, k)[p] \in {Node, Leaf(t, k), t[p]}
  BY DEF Split
<1>4. \A p \in Paths : RecordOK(h, Split(t, k)[p])
  BY <1>1, <1>2, <1>3 DEF RecordsOK
<1>5. Split(t, k) = [p \in Paths |-> Split(t, k)[p]]
  BY DEF Split
<1>6. Split(t, k) \in [Paths -> Record]
  BY <1>4, <1>5 DEF RecordOK
<1> QED BY <1>3, <1>4, <1>6 DEF RecordsOK

\* What collecting garbage leaves: the entries that are referred to.
LEMMA CollectedOK ==
  ASSUME NEW st \in StorageType, IndexOK(st), NEW t, RecordsOK(t, st.heap)
  PROVE  LET h == Collected(st.heap, t, st.entries)
         IN  /\ h \in [EntryIds -> Entry]
             /\ RecordsOK(t, h)
             /\ IndexOK([heap |-> h, entries |-> st.entries])
             /\ SameValues(t, h, st.heap)
<1> DEFINE h == Collected(st.heap, t, st.entries)
<1>1. /\ st.heap \in [EntryIds -> Entry]
      /\ st.entries \in [HashKeys -> EntryIds \cup {NoEntry}]
  BY DEF StorageType
<1>2. Free \in Entry
  BY ConstantsAssumption DEF Free, Entry
<1>3. h \in [EntryIds -> Entry]
  BY <1>1, <1>2 DEF Collected
<1>4. \A e \in EntryIds : e \in Referenced(t, st.entries) => h[e] = st.heap[e]
  BY DEF Collected
<1>5. \A p \in Paths : t[p].value # NoEntry => h[t[p].value] = st.heap[t[p].value]
  <2> TAKE p \in Paths
  <2>1. t[p].value \in EntryIds \cup {NoEntry}
    BY DEF RecordsOK, Record
  <2>2. t[p].value \in Referenced(t, st.entries)
    BY DEF Referenced
  <2> QED BY <1>4, <2>1, <2>2
<1>6. \A x \in HashKeys : st.entries[x] # NoEntry =>
        h[st.entries[x]] = st.heap[st.entries[x]]
  <2> TAKE x \in HashKeys
  <2>1. st.entries[x] \in EntryIds \cup {NoEntry}
    BY <1>1
  <2>2. st.entries[x] \in Referenced(t, st.entries)
    BY DEF Referenced
  <2> QED BY <1>4, <2>1, <2>2
<1> HIDE DEF h
<1>7. RecordsOK(t, h)
  BY <1>5 DEF RecordsOK, RecordOK
<1>8. IndexOK([heap |-> h, entries |-> st.entries])
  BY <1>6 DEF IndexOK, KeyOf
<1>9. SameValues(t, h, st.heap)
  BY <1>5 DEF SameValues
<1> QED BY <1>3, <1>7, <1>8, <1>9 DEF h
-----------------------------------------------------------------------------
(***************************************************************************)
(* The way up.  Nothing but the hash is compared when children join, so    *)
(* what it does to the content rests on the hash having no collisions.     *)
(***************************************************************************)
\* The leaves that join with r have its type, and its value.
LEMMA JoinedOK ==
  ASSUME NEW t, NEW h, RecordsOK(t, h), NEW k \in Keys, NEW r,
         IsLeaf(r), RecordOK(h, r), r.rType = "data" => r.value # NoEntry,
         NEW m \in 1..PrefixBits, JoinsUpTo(t, k, r, h, m),
         NEW i \in (m + 1)..(PrefixBits + 1)
  PROVE  LET s == Joined(t, k, r, i)
         IN  /\ IsLeaf(s)
             /\ RecordOK(h, s)
             /\ i <= PrefixBits => s = t[Sibling(k, i)]
             /\ HashInjective => ValueOf(h, s.value) = ValueOf(h, r.value)
<1> DEFINE s == Joined(t, k, r, i)
<1>1. CASE i = PrefixBits + 1
  BY <1>1, TrieAssumption DEF Joined
<1>2. CASE i # PrefixBits + 1
  <2>1. i \in 1..PrefixBits /\ i \in (m + 1)..PrefixBits
    BY <1>2, TrieAssumption
  <2>2. s = t[Sibling(k, i)]
    BY <1>2 DEF Joined
  <2>3. Joins(t, k, r, h, i)
    BY <2>1 DEF JoinsUpTo
  <2>4. s.rType = r.rType
    BY <2>2, <2>3 DEF Joins
  <2>5. RecordOK(h, s)
    BY <2>1, <2>2, PathType DEF RecordsOK
  <2>6. ASSUME HashInjective PROVE ValueOf(h, s.value) = ValueOf(h, r.value)
    <3>1. CASE r.rType = "empty"
      BY <2>4, <2>5, <3>1 DEF RecordOK, ValueOf
    <3>2. CASE r.rType # "empty"
      <4>1. s.value # NoEntry /\ Hash[h[s.value].value] = Hash[h[r.value].value]
        BY <2>2, <2>3, <3>2 DEF Joins, KeyOf
      <4>2. r.value # NoEntry
        BY <3>2 DEF IsLeaf
      <4>3. h[s.value].value \in Values /\ h[r.value].value \in Values
        BY <2>5, <4>1, <4>2 DEF RecordOK
      <4> QED BY <2>6, <4>1, <4>2, <4>3 DEF HashInjective, ValueOf
    <3> QED BY <3>1, <3>2
  <2> QED BY <2>2, <2>4, <2>5, <2>6 DEF IsLeaf
<1> QED BY <1>1, <1>2

\* A call that comes back up keeps the invariant and writes its own key only.
LEMMA AscendStep ==
  ASSUME IInv, NEW k \in Keys, NEW r, NEW st \in StorageType, IndexOK(st),
         IsLeaf(r), RecordOK(st.heap, r), r.rType = "data" => r.value # NoEntry,
         RecordsOK(tree, st.heap), SameValues(tree, st.heap, heap),
         Ascend(k, r, st)
  PROVE  /\ RecordsOK(tree', heap') /\ TrieShape' /\ IndexOK(Storage)'
         /\ heap' \in [EntryIds -> Entry]
         /\ entries' \in [HashKeys -> EntryIds \cup {NoEntry}]
         /\ HashInjective =>
              Content' = [Content EXCEPT ![k] = ValueOf(st.heap, r.value)]
<1> DEFINE t == Split(tree, k)
<1>1. PICK c \in 1..PrefixBits : LeadsToLeaf(tree, k, c)
  BY DEF IInv, TrieShape
<1>0. PICK m \in 1..PrefixBits : \E j \in (m + 1)..(PrefixBits + 1) :
        /\ JoinsUpTo(t, k, r, st.heap, m)
        /\ LET rest == Remove(st, [i \in ((m + 1)..(PrefixBits + 1)) \ {j}
                                     |-> Joined(t, k, r, i)])
           IN  /\ tree' = Join(t, k, m, Joined(t, k, r, j))
               /\ entries' = rest.entries
               /\ heap' = Collected(rest.heap, tree', entries')
  BY DEF Ascend
<1>2. PICK j \in (m + 1)..(PrefixBits + 1) :
        /\ JoinsUpTo(t, k, r, st.heap, m)
        /\ LET rest == Remove(st, [i \in ((m + 1)..(PrefixBits + 1)) \ {j}
                                     |-> Joined(t, k, r, i)])
           IN  /\ tree' = Join(t, k, m, Joined(t, k, r, j))
               /\ entries' = rest.entries
               /\ heap' = Collected(rest.heap, tree', entries')
  BY <1>0
<1> DEFINE group == [i \in ((m + 1)..(PrefixBits + 1)) \ {j} |-> Joined(t, k, r, i)]
           rest == Remove(st, group)
           x == Joined(t, k, r, j)
<1>3. /\ tree' = Join(t, k, m, x)
      /\ entries' = rest.entries
      /\ heap' = Collected(rest.heap, tree', entries')
  BY <1>2
<1>4. RecordsOK(t, st.heap)
  BY <1>1, SplitOK
<1> HIDE DEF t
<1>5. \A i \in (m + 1)..(PrefixBits + 1) :
        /\ IsLeaf(Joined(t, k, r, i)) /\ RecordOK(st.heap, Joined(t, k, r, i))
        /\ i <= PrefixBits => Joined(t, k, r, i) = t[Sibling(k, i)]
        /\ HashInjective =>
             ValueOf(st.heap, Joined(t, k, r, i).value) = ValueOf(st.heap, r.value)
  BY <1>2, <1>4, JoinedOK
<1>6. IsFiniteSet(DOMAIN group)
  <2> m + 1 \in Int /\ PrefixBits + 1 \in Int
    BY TrieAssumption
  <2>1. IsFiniteSet((m + 1)..(PrefixBits + 1))
    BY FS_Interval
  <2>2. DOMAIN group \subseteq (m + 1)..(PrefixBits + 1)
    OBVIOUS
  <2> QED BY <2>1, <2>2, FS_Subset
<1> HIDE DEF group
<1>7. /\ rest \in StorageType /\ IndexOK(rest)
      /\ \A e \in EntryIds : rest.heap[e].value = st.heap[e].value
  BY <1>6, RemoveKeepsValues
<1> HIDE DEF rest, x
<1>8. IsLeaf(x) /\ RecordOK(st.heap, x)
      /\ (HashInjective => ValueOf(st.heap, x.value) = ValueOf(st.heap, r.value))
  BY <1>5 DEF x
<1>9. RecordsOK(tree', st.heap)
  <2>1. RecordOK(st.heap, NoRecord)
    BY DEF RecordOK, Record
  <2>2. \A p \in Paths : RecordOK(st.heap, tree'[p])
    BY <1>3, <1>4, <1>8, <2>1 DEF Join, RecordsOK
  <2>3. tree' = [p \in Paths |-> tree'[p]]
    BY <1>3 DEF Join
  <2> QED BY <2>2, <2>3 DEF RecordsOK, RecordOK
<1>10. RecordsOK(tree', rest.heap) /\ SameValues(tree', rest.heap, st.heap)
  <2>1. \A p \in Paths : tree'[p].value \in EntryIds \cup {NoEntry}
    BY <1>9 DEF RecordsOK, Record
  <2> QED BY <1>7, <1>9, <2>1 DEF RecordsOK, RecordOK, SameValues
<1>11. /\ heap' \in [EntryIds -> Entry]
       /\ RecordsOK(tree', heap')
       /\ IndexOK([heap |-> heap', entries |-> entries'])
       /\ SameValues(tree', heap', rest.heap)
  BY <1>3, <1>7, <1>10, CollectedOK
<1>12. IndexOK(Storage)'
  BY <1>11 DEF Storage, IndexOK, KeyOf
<1>13. entries' \in [HashKeys -> EntryIds \cup {NoEntry}]
  BY <1>3, <1>7 DEF StorageType
<1>14. ASSUME NEW l \in Keys
       PROVE  \E d \in 1..PrefixBits :
                /\ LeadsToLeaf(tree, l, d)
                /\ \E b \in 1..PrefixBits : LeadsToLeaf(tree', l, b)
                /\ Leaf(tree', l) = IF \A i \in 1..m : k[i] = l[i] THEN x
                                    ELSE Leaf(tree, l)
  <2>1. PICK d \in 1..PrefixBits : LeadsToLeaf(tree, l, d)
    BY DEF IInv, TrieShape
  <2> QED BY <1>1, <1>3, <1>8, <2>1, LeafAfterJoin DEF t
<1>15. TrieShape'
  BY <1>14 DEF TrieShape, LeadsToLeaf
<1>16. ASSUME HashInjective, NEW l \in Keys
       PROVE  ValueOf(heap', Leaf(tree', l).value)
                = IF l = k THEN ValueOf(st.heap, r.value)
                  ELSE ValueOf(heap, Leaf(tree, l).value)
  <2>1. PICK d \in 1..PrefixBits :
           /\ LeadsToLeaf(tree, l, d)
           /\ \E b \in 1..PrefixBits : LeadsToLeaf(tree', l, b)
           /\ Leaf(tree', l) = IF \A i \in 1..m : k[i] = l[i] THEN x
                               ELSE Leaf(tree, l)
    BY <1>14
  <2>2. \E p \in Paths : Leaf(tree', l) = tree'[p]
    BY <2>1, LeafIsUnique, PathType
  <2>3. ValueOf(heap', Leaf(tree', l).value) = ValueOf(st.heap, Leaf(tree', l).value)
    BY <1>10, <1>11, <2>2 DEF SameValues, ValueOf
  <2>4. \E p \in Paths : Leaf(tree, l) = tree[p]
    BY <2>1, LeafIsUnique, PathType
  <2>5. ValueOf(st.heap, Leaf(tree, l).value) = ValueOf(heap, Leaf(tree, l).value)
    BY <2>4 DEF SameValues, ValueOf
  <2>6. CASE l = k
    BY <1>8, <1>16, <2>1, <2>3, <2>6
  <2>7. CASE l # k /\ \A i \in 1..m : k[i] = l[i]
    <3>1. ~ \A i \in 1..PrefixBits : k[i] = l[i]
      <4>1. k = [i \in 1..PrefixBits |-> k[i]] /\ l = [i \in 1..PrefixBits |-> l[i]]
        BY DEF Keys
      <4> QED BY <2>7, <4>1
    <3>2. PICK f \in 1..PrefixBits : k[f] # l[f] /\ \A i \in 1..(f - 1) : k[i] = l[i]
      <4>1. PrefixBits \in 0..PrefixBits
        BY TrieAssumption
      <4> QED BY <3>1, <4>1, FirstDifference
    <3>3. f \in (m + 1)..(PrefixBits + 1) /\ f <= PrefixBits
      BY <2>7, <3>2, TrieAssumption
    <3>4. Joined(t, k, r, f) = t[Sibling(k, f)] /\ IsLeaf(t[Sibling(k, f)])
      BY <1>5, <3>3
    <3>5. t[Sibling(k, f)] = Leaf(tree, l)
      BY <1>1, <2>1, <3>2, <3>4, SiblingIsLeafOfOther DEF t
    <3>6. ValueOf(st.heap, Leaf(tree, l).value) = ValueOf(st.heap, r.value)
      BY <1>5, <1>16, <3>3, <3>4, <3>5
    <3> QED BY <1>8, <1>16, <2>1, <2>3, <2>5, <2>7, <3>6
  <2>8. CASE l # k /\ ~ \A i \in 1..m : k[i] = l[i]
    BY <2>1, <2>3, <2>5, <2>8
  <2> QED BY <2>6, <2>7, <2>8
<1>17. HashInjective => Content' = [Content EXCEPT ![k] = ValueOf(st.heap, r.value)]
  BY <1>16 DEF Content, Lookup
<1> QED BY <1>11, <1>12, <1>13, <1>15, <1>17
-----------------------------------------------------------------------------
(***************************************************************************)
(* Inserts.                                                                *)
(***************************************************************************)

\* The storage once the old value of the leaf is released.
LEMMA ReleasedOK ==
  ASSUME IInv, NEW k \in Keys
  PROVE  /\ Released(k) \in StorageType /\ IndexOK(Released(k))
         /\ \A e \in EntryIds : Released(k).heap[e].value = heap[e].value
         /\ RecordsOK(tree, Released(k).heap)
         /\ SameValues(tree, Released(k).heap, heap)
         /\ \A h \in HashKeys : Released(k).entries[h] \in {NoEntry, entries[h]}
<1>1. Storage \in StorageType /\ IndexOK(Storage)
  BY DEF IInv, TypeOK, Storage, StorageType
<1>2. IsFiniteSet(DOMAIN <<Leaf(tree, k)>>)
  <2>1. DOMAIN <<Leaf(tree, k)>> = 1..1
    OBVIOUS
  <2>2. 1..1 = {1} /\ IsFiniteSet({1})
    BY FS_Singleton
  <2> QED BY <2>1, <2>2
<1>3. /\ Released(k) \in StorageType /\ IndexOK(Released(k))
      /\ \A e \in EntryIds : Released(k).heap[e].value = heap[e].value
  BY <1>1, <1>2, RemoveKeepsValues DEF Released, Storage
<1>4. \A p \in Paths : tree[p].value \in EntryIds \cup {NoEntry}
  BY DEF IInv, RecordsOK, Record
<1>5. RecordsOK(tree, Released(k).heap) /\ SameValues(tree, Released(k).heap, heap)
  BY <1>3, <1>4 DEF IInv, RecordsOK, RecordOK, SameValues
<1>6. \A h \in HashKeys : Released(k).entries[h] \in {NoEntry, entries[h]}
  BY DEF Released, Remove, Storage
<1> QED BY <1>3, <1>5, <1>6

\* What a step has to show.
GoodStep(k, v) ==
  /\ RecordsOK(tree', heap') /\ TrieShape' /\ IndexOK(Storage)'
  /\ heap' \in [EntryIds -> Entry]
  /\ entries' \in [HashKeys -> EntryIds \cup {NoEntry}]
  /\ HashInjective => Content' = [Content EXCEPT ![k] = v]

\* The leaf and the storage that a write of v leaves for the way up.
GoodWrite(v, r, st) ==
  /\ st \in StorageType /\ IndexOK(st)
  /\ IsLeaf(r) /\ RecordOK(st.heap, r) /\ (r.rType = "data" => r.value # NoEntry)
  /\ RecordsOK(tree, st.heap) /\ SameValues(tree, st.heap, heap)
  /\ HashInjective => ValueOf(st.heap, r.value) = v

LEMMA WriteNilGood ==
  ASSUME IInv, NEW k \in Keys
  PROVE  GoodWrite(Nil, Empty, Released(k))
<1>1. IsLeaf(Empty) /\ RecordOK(Released(k).heap, Empty) /\ Empty.rType # "data"
      /\ ValueOf(Released(k).heap, Empty.value) = Nil
  BY DEF IsLeaf, RecordOK, Record, ValueOf
<1> QED BY <1>1, ReleasedOK DEF GoodWrite

LEMMA WriteEqualGood ==
  ASSUME IInv, NEW k \in Keys, NEW v \in Values, Lookup(k) = v
  PROVE  GoodWrite(v, Leaf(tree, k), Storage)
<1>1. PICK c \in 1..PrefixBits : LeadsToLeaf(tree, k, c)
  BY DEF IInv, TrieShape
<1> DEFINE r == Leaf(tree, k)
<1>2. IsLeaf(r) /\ RecordOK(heap, r)
  BY <1>1, LeafOK DEF IInv
<1>3. ValueOf(heap, r.value) = v /\ r.value # NoEntry
  BY TrieAssumption DEF Lookup, ValueOf
<1>4. /\ Storage \in StorageType /\ IndexOK(Storage) /\ Storage.heap = heap
      /\ RecordsOK(tree, heap) /\ SameValues(tree, heap, heap)
  BY DEF IInv, TypeOK, Storage, StorageType, SameValues
<1> HIDE DEF r
<1> QED BY <1>2, <1>3, <1>4 DEF GoodWrite, r

LEMMA WriteNewGood ==
  ASSUME IInv, NEW k \in Keys, NEW v \in Values, NEW e \in AddTargets(Released(k), v)
  PROVE  GoodWrite(v, Data(e), Add(Released(k), v, e))
<1> DEFINE old == Released(k)
           st == Add(old, v, e)
           found == old.entries[Hash[v]] = e
<1>1. /\ old \in StorageType /\ IndexOK(old)
      /\ RecordsOK(tree, old.heap) /\ SameValues(tree, old.heap, heap)
      /\ \A h \in HashKeys : old.entries[h] \in {NoEntry, entries[h]}
  BY ReleasedOK
<1>2. Hash[v] \in HashKeys /\ e \in AddTargets(old, v)
  BY DEF HashKeys
<1> HIDE DEF old
<1>3. e \in EntryIds /\ (found \/ e \notin Referenced(tree, entries))
  BY <1>1, <1>2 DEF AddTargets, StorageType
<1>4. found \/ \A h \in HashKeys : old.entries[h] # e
  BY <1>1, <1>3, ConstantsAssumption DEF Referenced
<1>5. /\ st \in StorageType /\ IndexOK(st)
      /\ \A x \in EntryIds : x # e \/ found => st.heap[x].value = old.heap[x].value
      /\ st.heap[e].value \in Values /\ KeyOf(st.heap, e) = Hash[v]
  BY <1>1, <1>3, <1>4, AddKeepsValues
<1> HIDE DEF st
<1>6. \A p \in Paths : tree[p].value # NoEntry =>
        st.heap[tree[p].value].value = old.heap[tree[p].value].value
  <2> TAKE p \in Paths
  <2>1. tree[p].value \in EntryIds \cup {NoEntry}
    BY DEF IInv, RecordsOK, Record
  <2>2. tree[p].value \in Referenced(tree, entries)
    BY DEF Referenced
  <2> QED BY <1>3, <1>5, <2>1, <2>2
<1>7. RecordsOK(tree, st.heap) /\ SameValues(tree, st.heap, heap)
  BY <1>1, <1>6 DEF RecordsOK, RecordOK, SameValues
<1>8. /\ IsLeaf(Data(e)) /\ RecordOK(st.heap, Data(e)) /\ Data(e).value # NoEntry
      /\ ValueOf(st.heap, Data(e).value) = st.heap[e].value
  BY <1>3, <1>5, ConstantsAssumption DEF IsLeaf, RecordOK, Record, ValueOf
<1>9. HashInjective => st.heap[e].value = v
  BY <1>5 DEF HashInjective, KeyOf
<1> HIDE DEF Data, found
<1> QED BY <1>5, <1>7, <1>8, <1>9 DEF GoodWrite, st, old

\* A failed insert is a split with no join: the content stays what it was,
\* collisions or not.
LEMMA WriteFailsStep ==
  ASSUME IInv, NEW k \in Keys, NEW v, WriteFails(k, v)
  PROVE  GoodStep(k, Lookup(k))
<1> DEFINE old == Leaf(tree, k)
           r == Data(old.value)
           st == Released(k)
           s == Split(tree, k)
<1>1. PICK c \in 1..PrefixBits : LeadsToLeaf(tree, k, c)
  BY DEF IInv, TrieShape
<1>2. IsLeaf(old) /\ RecordOK(heap, old)
  BY <1>1, LeafOK DEF IInv
<1>3. /\ st \in StorageType /\ IndexOK(st)
      /\ \A e \in EntryIds : st.heap[e].value = heap[e].value
      /\ RecordsOK(tree, st.heap) /\ SameValues(tree, st.heap, heap)
  BY ReleasedOK
<1>4. /\ tree' = [s EXCEPT ![Path(k, PrefixBits)] = r]
      /\ entries' = st.entries
      /\ heap' = Collected(st.heap, tree', entries')
  BY DEF WriteFails
<1>5. RecordOK(st.heap, r) /\ IsLeaf(r)
  <2>1. r.value = old.value /\ old.value \in EntryIds \cup {NoEntry}
    BY <1>2 DEF RecordOK, Record
  <2> QED BY <1>2, <1>3, <2>1 DEF RecordOK, Record, IsLeaf
<1>6. RecordsOK(s, st.heap)
  BY <1>1, <1>3, SplitOK
<1>7. PrefixBits \in 1..PrefixBits /\ Path(k, PrefixBits) \in Paths
  BY TrieAssumption, PathType
<1> HIDE DEF st, s, r
<1>8. RecordsOK(tree', st.heap)
  BY <1>4, <1>5, <1>6, <1>7 DEF RecordsOK, RecordOK
<1>9. tree' = Join(s, k, PrefixBits, r)
  <2>1. \A p \in Paths : ~ Below(p, k, PrefixBits)
    BY PathOfKey, TrieAssumption DEF Below
  <2>2. s = [p \in Paths |-> s[p]]
    BY <1>6 DEF RecordsOK
  <2> QED BY <1>4, <1>7, <2>1, <2>2 DEF Join
<1>10. /\ heap' \in [EntryIds -> Entry]
       /\ RecordsOK(tree', heap')
       /\ IndexOK([heap |-> heap', entries |-> entries'])
       /\ SameValues(tree', heap', st.heap)
  BY <1>3, <1>4, <1>8, CollectedOK
<1>11. IndexOK(Storage)'
  BY <1>10 DEF Storage, IndexOK, KeyOf
<1>12. entries' \in [HashKeys -> EntryIds \cup {NoEntry}]
  BY <1>3, <1>4 DEF StorageType
<1>13. ASSUME NEW l \in Keys
       PROVE  /\ \E b \in 1..PrefixBits : LeadsToLeaf(tree', l, b)
              /\ ValueOf(heap', Leaf(tree', l).value) = ValueOf(heap, Leaf(tree, l).value)
  <2>1. PICK d \in 1..PrefixBits : LeadsToLeaf(tree, l, d)
    BY DEF IInv, TrieShape
  <2>2. /\ \E b \in 1..PrefixBits : LeadsToLeaf(tree', l, b)
        /\ Leaf(tree', l) = IF \A i \in 1..PrefixBits : k[i] = l[i] THEN r
                            ELSE Leaf(tree, l)
    BY <1>1, <1>5, <1>7, <1>9, <2>1, LeafAfterJoin DEF s
  <2>3. (\A i \in 1..PrefixBits : k[i] = l[i]) => k = l
    <3>1. k = [i \in 1..PrefixBits |-> k[i]] /\ l = [i \in 1..PrefixBits |-> l[i]]
      BY DEF Keys
    <3> QED BY <3>1
  <2>4. Leaf(tree', l).value = Leaf(tree, l).value
    BY <2>2, <2>3 DEF r
  <2>5. \E p \in Paths : Leaf(tree', l) = tree'[p]
    BY <2>2, LeafIsUnique, PathType
  <2>6. \E p \in Paths : Leaf(tree, l) = tree[p]
    BY <2>1, LeafIsUnique, PathType
  <2>7. Leaf(tree', l).value # NoEntry =>
          heap'[Leaf(tree', l).value].value = st.heap[Leaf(tree', l).value].value
    BY <1>10, <2>5 DEF SameValues
  <2>8. Leaf(tree, l).value # NoEntry =>
          st.heap[Leaf(tree, l).value].value = heap[Leaf(tree, l).value].value
    BY <1>3, <2>6 DEF SameValues
  <2> QED BY <2>2, <2>4, <2>7, <2>8 DEF ValueOf
<1>14. TrieShape'
  BY <1>13 DEF TrieShape, LeadsToLeaf
<1>15. Content' = Content
  BY <1>13 DEF Content, Lookup
<1>16. Content = [Content EXCEPT ![k] = Lookup(k)]
  BY DEF Content
<1> QED BY <1>10, <1>11, <1>12, <1>14, <1>15, <1>16 DEF GoodStep

\* What an insert does that does not end the process.
LEMMA InsertAscends ==
  ASSUME IInv, NEW k \in Keys, NEW v \in Values \cup {Nil}, Insert(k, v), ~panicked'
  PROVE  \/ v \in Oversized /\ WriteFails(k, v)
         \/ /\ v \in Oversized => v = Lookup(k)
            /\ \E r, st : GoodWrite(v, r, st) /\ Ascend(k, r, st)
<1>1. CASE v = Nil
  <2>1. Ascend(k, Empty, Released(k))
    BY <1>1, TrieAssumption DEF Insert, WriteNil
  <2> QED BY <1>1, <2>1, WriteNilGood, TrieAssumption, ConstantsAssumption
<1>2. CASE v # Nil /\ WriteEqual(k, v)
  <2>1. v \in Values /\ Lookup(k) = v /\ Ascend(k, Leaf(tree, k), Storage)
    BY <1>2 DEF WriteEqual, AscendPanics
  <2> QED BY <2>1, WriteEqualGood
<1>3. CASE v # Nil /\ WriteNew(k, v)
  <2>1. PICK e \in AddTargets(Released(k), v) : Ascend(k, Data(e), Add(Released(k), v, e))
    BY <1>3 DEF WriteNew, AscendPanics
  <2>2. v \in Values /\ v \notin Oversized
    BY <1>3 DEF WriteNew
  <2> QED BY <2>1, <2>2, WriteNewGood
<1>4. CASE v # Nil /\ WriteFails(k, v)
  BY <1>4 DEF WriteFails
<1> QED BY <1>1, <1>2, <1>3, <1>4 DEF Insert

\* Every insert that does not end the process.
LEMMA InsertStep ==
  ASSUME IInv, NEW k \in Keys, NEW v \in Values \cup {Nil}, Insert(k, v), ~panicked'
  PROVE  /\ GoodStep(k, IF v \in Oversized THEN Lookup(k) ELSE v)
         /\ totalSize' \in 0..MaxInserts /\ panicked' \in BOOLEAN
<1>1. totalSize' \in 0..MaxInserts
  BY ConstantsAssumption DEF Insert, IInv, TypeOK
<1>2. panicked' \in BOOLEAN
  BY DEF Insert, WriteNil, WriteEqual, WriteNew, WriteFails, Ascend, AscendPanics, IInv, TypeOK
<1>3. CASE v \in Oversized /\ WriteFails(k, v)
  BY <1>1, <1>2, <1>3, WriteFailsStep
<1>4. ASSUME NEW r, NEW st, GoodWrite(v, r, st), Ascend(k, r, st)
      PROVE  GoodStep(k, v)
  BY <1>4, AscendStep DEF GoodWrite, GoodStep
<1> QED BY <1>1, <1>2, <1>3, <1>4, InsertAscends

\* A panic leaves everything but totalSize as it was.
LEMMA PanicStep ==
  ASSUME IInv, NEW k \in Keys, NEW v \in Values \cup {Nil}, Insert(k, v), panicked'
  PROVE  UNCHANGED <<tree, heap, entries>> /\ totalSize' \in 0..MaxInserts
         /\ panicked' \in BOOLEAN
<1>1. ~panicked
  BY DEF Insert
<1>2. UNCHANGED <<tree, heap, entries>> /\ panicked' \in BOOLEAN
  BY <1>1 DEF Insert, WriteNil, WriteEqual, WriteNew, WriteFails, Ascend, AscendPanics
<1>3. totalSize' \in 0..MaxInserts
  BY ConstantsAssumption DEF Insert, IInv, TypeOK
<1> QED BY <1>2, <1>3
-----------------------------------------------------------------------------
(***************************************************************************)
(* Theorems.                                                               *)
(***************************************************************************)

\* The initial trie has an empty leaf for each of the two first bits.
LEMMA InitInvariant == Init => IInv
<1> SUFFICES ASSUME Init PROVE IInv
  OBVIOUS
<1>1. Free \in Entry /\ Empty \in Record /\ NoRecord \in Record
  BY ConstantsAssumption DEF Free, Entry, Record
<1>2. TypeOK
  <2>1. /\ tree \in [Paths -> Record]
        /\ heap \in [EntryIds -> Entry]
        /\ entries \in [HashKeys -> EntryIds \cup {NoEntry}]
    BY <1>1 DEF Init
  <2>2. totalSize \in 0..MaxInserts
    BY ConstantsAssumption DEF Init
  <2>3. panicked \in BOOLEAN
    BY DEF Init
  <2> QED BY <2>1, <2>2, <2>3 DEF TypeOK
<1>3. TrieShape
  <2> SUFFICES ASSUME NEW k \in Keys PROVE LeadsToLeaf(tree, k, 1)
    BY TrieAssumption DEF TrieShape
  <2>1. \A e \in 1..PrefixBits : Path(k, e) \in Paths /\ Len(Path(k, e)) = e
    BY PathType
  <2>2. IsLeaf(tree[Path(k, 1)])
    BY <2>1, TrieAssumption, ConstantsAssumption DEF Init, IsLeaf
  <2>3. \A e \in 2..PrefixBits : tree[Path(k, e)] = NoRecord
    <3> TAKE e \in 2..PrefixBits
    <3>1. Path(k, e) \in Paths /\ Len(Path(k, e)) = e /\ e # 1
      BY <2>1, TrieAssumption
    <3> QED BY <3>1 DEF Init
  <2> QED BY <2>2, <2>3, TrieAssumption DEF LeadsToLeaf
<1>4. RecordsOK(tree, heap)
  BY <1>1 DEF Init, RecordsOK, RecordOK
<1>5. IndexOK(Storage)
  BY DEF Init, Storage, IndexOK
<1> QED BY <1>2, <1>3, <1>4, <1>5 DEF IInv

LEMMA NextInvariant == IInv /\ [Next]_vars => IInv'
<1> SUFFICES ASSUME IInv, [Next]_vars PROVE IInv'
  OBVIOUS
<1>1. ASSUME NEW k \in Keys, NEW v \in Values \cup {Nil}, Insert(k, v) PROVE IInv'
  <2>1. CASE ~panicked'
    BY <1>1, <2>1, InsertStep DEF IInv, TypeOK, GoodStep, RecordsOK
  <2>2. CASE panicked'
    <3>1. /\ tree' = tree /\ heap' = heap /\ entries' = entries
          /\ totalSize' \in 0..MaxInserts /\ panicked' \in BOOLEAN
      BY <1>1, <2>2, PanicStep
    <3> QED BY <3>1 DEF IInv, TypeOK, TrieShape, LeadsToLeaf, IndexOK, Storage
  <2> QED BY <2>1, <2>2
<1>2. ASSUME NEW k \in Keys, NEW v \in Values, InsertDefaultNull(k, v) PROVE IInv'
  <2>1. Filtered[v] \in Values \cup {Nil}
    BY ConstantsAssumption
  <2> QED BY <1>1, <1>2, <2>1 DEF InsertDefaultNull
<1>3. ASSUME NEW k \in Keys, FindAbsent(k) PROVE IInv'
  BY <1>3 DEF FindAbsent, IInv, TypeOK, TrieShape, LeadsToLeaf, IndexOK, Storage
<1>4. CASE UNCHANGED vars
  BY <1>4 DEF vars, IInv, TypeOK, TrieShape, LeadsToLeaf, IndexOK, Storage
<1> QED BY <1>1, <1>2, <1>3, <1>4 DEF Next

\* The inductive invariant holds in every reachable state.
THEOREM Invariance == Spec => []IInv
BY InitInvariant, NextInvariant, PTL DEF Spec

\* Type correctness.
THEOREM TypeCorrect == Spec => []TypeOK
<1>1. IInv => TypeOK
  BY DEF IInv
<1> QED BY <1>1, Invariance, PTL

\* Every key leads to exactly one leaf, after any inserts, failed or not, and
\* whether or not hashes collide (record.insert, tryMerge, node.find).
THEOREM ShapePreserved == Spec => []TrieShape
<1>1. IInv => TrieShape
  BY DEF IInv
<1> QED BY <1>1, Invariance, PTL

\* If no two values have the same hash, an insert writes its own key and no
\* other, and a failed insert writes none.
THEOREM InsertCorrect ==
  ASSUME HashInjective
  PROVE  Spec => InsertIsPut
<1>1. IInv /\ [Next]_vars =>
        [\A k \in Keys, v \in Values \cup {Nil} :
           Insert(k, v) /\ ~panicked'
             => KV!Put(k, IF v \in Oversized THEN Lookup(k) ELSE v)]_vars
  BY InsertStep DEF KV!Put, GoodStep
<1> QED BY <1>1, Invariance, PTL DEF Spec, InsertIsPut

\* The abstract map of an empty trie, and of a step.
LEMMA RefinesInit ==
  ASSUME Init
  PROVE  KV!Init
<1> SUFFICES ASSUME NEW k \in Keys PROVE Lookup(k) = Nil
  BY DEF KV!Init, Content
<1>1. IInv
  BY InitInvariant
<1>2. PICK d \in 1..PrefixBits : LeadsToLeaf(tree, k, d)
  BY <1>1 DEF IInv, TrieShape
<1>3. Leaf(tree, k) = tree[Path(k, d)] /\ Path(k, d) \in Paths
  BY <1>2, LeafIsUnique, PathType
<1>4. Leaf(tree, k).value = NoEntry
  BY <1>3 DEF Init
<1> QED BY <1>4 DEF Lookup, ValueOf

LEMMA RefinesStep ==
  ASSUME HashInjective, IInv, [Next]_vars
  PROVE  [KV!Next]_Content
<1>1. ASSUME NEW k \in Keys, NEW v \in Values \cup {Nil}, Insert(k, v)
      PROVE  [KV!Next]_Content
  <2>1. CASE panicked'
    <3>1. UNCHANGED <<tree, heap>>
      BY <1>1, <2>1, PanicStep
    <3> QED BY <3>1 DEF Content, Lookup
  <2>2. CASE ~panicked' /\ v \in Oversized
    <3>1. Content' = [Content EXCEPT ![k] = Lookup(k)]
      BY <1>1, <2>2, InsertStep DEF GoodStep
    <3>2. Content' = Content
      BY <3>1 DEF Content
    <3> QED BY <3>2
  <2>3. CASE ~panicked' /\ v \notin Oversized
    <3>1. Content' = [Content EXCEPT ![k] = v]
      BY <1>1, <2>3, InsertStep DEF GoodStep
    <3> QED BY <3>1 DEF KV!Next, KV!Put
  <2> QED BY <2>1, <2>2, <2>3
<1>2. ASSUME NEW k \in Keys, NEW v \in Values, InsertDefaultNull(k, v)
      PROVE  [KV!Next]_Content
  <2>1. Filtered[v] \in Values \cup {Nil}
    BY ConstantsAssumption
  <2> QED BY <1>1, <1>2, <2>1 DEF InsertDefaultNull
<1>3. ASSUME NEW k \in Keys, FindAbsent(k) PROVE [KV!Next]_Content
  BY <1>3 DEF FindAbsent, Content, Lookup
<1>4. CASE UNCHANGED vars
  BY <1>4 DEF vars, Content, Lookup
<1> QED BY <1>1, <1>2, <1>3, <1>4 DEF Next

\* If no two values have the same hash, the trie implements the map of
\* KeyValueStore: its steps are the steps of the map, or change nothing there.
THEOREM Refinement ==
  ASSUME HashInjective
  PROVE  Spec => Refines
<1>1. Init => KV!Init
  BY RefinesInit
<1>2. IInv /\ [Next]_vars => [KV!Next]_Content
  BY RefinesStep
<1> QED BY <1>1, <1>2, Invariance, PTL DEF Spec, Refines, KV!Spec
-----------------------------------------------------------------------------
(***************************************************************************)
(* The counts of the storage.  A count is that of an entry of the index    *)
(* only while it is there: an entry that has left the index may have any   *)
(* count, since the copies that a split made are released all the same.    *)
(***************************************************************************)
Held(t, e) == {p \in Paths : t[p].value = e}
One(a, b) == IF a = b THEN 1 ELSE 0
Times(group, e) == Cardinality({i \in DOMAIN group : group[i].value = e})

\* n is the number of inserts so far: no count is larger.
Counted(st, t, n) ==
  \A h \in HashKeys :
    st.entries[h] # NoEntry =>
      /\ st.heap[st.entries[h]].refCount \in 1..Cardinality(Held(t, st.entries[h]))
      /\ st.heap[st.entries[h]].refCount <= n
CountInv == Counted(Storage, tree, totalSize)

LEMMA HeldFinite ==
  ASSUME NEW t, NEW e
  PROVE  IsFiniteSet(Held(t, e)) /\ Cardinality(Held(t, e)) \in Nat
<1>1. Held(t, e) \in SUBSET Paths
  BY DEF Held
<1> QED BY <1>1, PathsFinite, FS_Subset, FS_CardinalityType

\* The leaf written at the full depth, before any join.
Written(k, r) == [Split(tree, k) EXCEPT ![Path(k, PrefixBits)] = r]

\* The way down moves one reference to the full depth and adds copies.
LEMMA WrittenHolds ==
  ASSUME IInv, NEW k \in Keys, NEW r, NEW e \in EntryIds
  PROVE  /\ Cardinality(Held(Written(k, Empty), e)) >=
              Cardinality(Held(tree, e)) - One(Leaf(tree, k).value, e)
         /\ Cardinality(Held(Written(k, r), e)) =
              Cardinality(Held(Written(k, Empty), e)) + One(r.value, e)
<1> DEFINE t == Split(tree, k)
           z == Path(k, PrefixBits)
           A == Held(tree, e)
           B == Held(Written(k, Empty), e)
           C == Held(Written(k, r), e)
<1>1. PrefixBits \in 1..PrefixBits /\ z \in Paths
  BY TrieAssumption, PathType
<1>2. PICK c \in 1..PrefixBits : LeadsToLeaf(tree, k, c)
  BY DEF IInv, TrieShape
<1>3. Leaf(tree, k) = tree[Path(k, c)] /\ Path(k, c) \in Paths
  BY <1>2, LeafIsUnique, PathType
<1>4. e # NoEntry
  BY ConstantsAssumption
<1>5. DOMAIN t = Paths
  BY DEF Split
<1>6. ASSUME NEW p \in A, p # Path(k, c) PROVE p # z /\ t[p] = tree[p]
  <2>1. p \in Paths /\ tree[p].value = e
    BY DEF Held
  <2>2. ~OnPath(p, k)
    <3>1. ASSUME OnPath(p, k) PROVE FALSE
      <4>1. PICK l \in Keys : p = Path(l, Len(p))
        BY <2>1, PathOfKey
      <4>2. Len(p) \in 1..PrefixBits
        BY <2>1, PathOfKey
      <4>3. \A i \in 1..Len(p) : p[i] = k[i] /\ p[i] = l[i]
        BY <3>1, <4>1 DEF OnPath, Path
      <4>4. p = Path(k, Len(p))
        <5>1. \A i \in 1..Len(p) : l[i] = k[i]
          BY <4>3
        <5> QED BY <4>1, <5>1 DEF Path
      <4>5. Len(p) \in 1..(c - 1) \/ Len(p) = c \/ Len(p) \in (c + 1)..PrefixBits
        BY <4>2
      <4>6. tree[p] = Node \/ tree[p] = NoRecord
        BY <1>2, <1>6, <4>4, <4>5 DEF LeadsToLeaf
      <4> QED BY <1>4, <2>1, <4>6
    <3> QED BY <3>1
  <2>3. p # z
    <3>1. OnPath(z, k)
      BY <1>1, PathType DEF OnPath, Path
    <3> QED BY <2>2, <3>1
  <2>4. tree[p] # NoRecord
    BY <1>4, <2>1
  <2> QED BY <2>1, <2>2, <2>3, <2>4 DEF Split
<1>7. B = {p \in Paths : p # z /\ t[p].value = e}
  BY <1>1, <1>4, <1>5 DEF Held, Written
<1>8. C = B \cup (IF r.value = e THEN {z} ELSE {})
  BY <1>1, <1>5, <1>7 DEF Held, Written
<1>9. z \notin B /\ IsFiniteSet(B) /\ IsFiniteSet(A) /\ Cardinality(A) \in Nat /\ Cardinality(B) \in Nat
  BY <1>7, HeldFinite
<1>10. A \ {Path(k, c)} \in SUBSET B
  BY <1>6, <1>7 DEF Held
<1>11. Path(k, c) \in A <=> Leaf(tree, k).value = e
  BY <1>3 DEF Held
<1> DEFINE y == Path(k, c)
<1> HIDE DEF A, B, C, y, z
<1>12. Cardinality(A \ {y}) = Cardinality(A) - One(Leaf(tree, k).value, e)
  <2>1. Cardinality(A \ {y}) = IF y \in A THEN Cardinality(A) - 1 ELSE Cardinality(A)
    BY <1>9, FS_RemoveElement
  <2> QED BY <1>9, <1>11, <2>1 DEF One, y
<1>13. Cardinality(A \ {y}) <= Cardinality(B)
  BY <1>9, <1>10, FS_Subset DEF y
<1>14. Cardinality(C) = Cardinality(B) + One(r.value, e)
  <2>1. Cardinality(B \cup {z}) = Cardinality(B) + 1
    BY <1>9, FS_AddElement
  <2>2. CASE r.value = e
    BY <1>8, <2>1, <2>2 DEF One
  <2>3. CASE r.value # e
    BY <1>8, <1>9, <2>3 DEF One
  <2> QED BY <2>2, <2>3
<1>15. One(Leaf(tree, k).value, e) \in Int
  BY DEF One
<1> QED BY <1>9, <1>12, <1>13, <1>14, <1>15 DEF A, B, C

\* The storage after removing a group from which the trie lost no more leaves
\* than it has members.
LEMMA RemoveCounts ==
  ASSUME NEW st \in StorageType, IndexOK(st), NEW t, NEW n \in Nat, n < RefMod, Counted(st, t, n),
         NEW group, IsFiniteSet(DOMAIN group), NEW u,
         \A e \in EntryIds : Cardinality(Held(u, e)) >= Cardinality(Held(t, e)) - Times(group, e)
  PROVE  Counted(Remove(st, group), u, n)
<1> DEFINE rest == Remove(st, group)
           dropped(h) == \E e \in EntryIds :
                           /\ st.heap[e].value \in Values
                           /\ KeyOf(st.heap, e) = h
                           /\ st.heap[e].refCount \in 1..Times(group, e)
<1>1. /\ rest.heap = [e \in EntryIds |->
                       [value |-> st.heap[e].value,
                        refCount |-> Decremented(st.heap[e].refCount, Times(group, e))]]
      /\ rest.entries = [h \in HashKeys |-> IF dropped(h) THEN NoEntry ELSE st.entries[h]]
  BY DEF Remove, Times
<1> SUFFICES ASSUME NEW h \in HashKeys, rest.entries[h] # NoEntry
             PROVE  /\ rest.heap[rest.entries[h]].refCount
                         \in 1..Cardinality(Held(u, rest.entries[h]))
                    /\ rest.heap[rest.entries[h]].refCount <= n
  BY DEF Counted
<1> HIDE DEF rest
<1>2. rest.entries[h] = st.entries[h] /\ ~dropped(h)
  BY <1>1
<1> DEFINE e == st.entries[h]
<1>3. e \in EntryIds /\ e # NoEntry
  BY <1>2 DEF StorageType
<1>4. st.heap[e].value \in Values /\ KeyOf(st.heap, e) = h
  BY <1>3 DEF IndexOK
<1> DEFINE count == st.heap[e].refCount
           times == Times(group, e)
<1>5. times \in Nat
  BY FS_CardinalityType, FS_Subset DEF Times
<1>6. count \notin 1..times
  BY <1>2, <1>3, <1>4
<1>7. count \in 1..Cardinality(Held(t, e)) /\ count <= n
  BY <1>3 DEF Counted
<1>8. Cardinality(Held(u, e)) >= Cardinality(Held(t, e)) - times
  BY <1>3
<1>9. Cardinality(Held(u, e)) \in Nat /\ Cardinality(Held(t, e)) \in Nat
  BY HeldFinite
<1>10. rest.heap[e].refCount = (count - times) % RefMod
  BY <1>1, <1>3 DEF Decremented
<1> HIDE DEF e, count, times
<1>11. count - times \in 1..n /\ count - times <= Cardinality(Held(u, e))
  BY <1>5, <1>6, <1>7, <1>8, <1>9
<1>12. (count - times) % RefMod = count - times
  <2> DEFINE a == count - times
  <2>1. a \in 1..n /\ RefMod \in Nat
    BY <1>11, ConstantsAssumption
  <2> HIDE DEF a
  <2>2. a % RefMod = a
    BY <2>1
  <2> QED BY <2>2 DEF a
<1> QED BY <1>2, <1>9, <1>10, <1>11, <1>12 DEF e

\* storage.add counts the leaf that is written.
LEMMA AddCounts ==
  ASSUME NEW st \in StorageType, IndexOK(st), NEW t, NEW n \in Nat, n + 1 < RefMod,
         Counted(st, t, n), NEW v \in Values, NEW e \in EntryIds,
         st.entries[Hash[v]] = e \/ \A h \in HashKeys : st.entries[h] # e,
         NEW u,
         \A x \in EntryIds : Cardinality(Held(u, x)) = Cardinality(Held(t, x)) + One(e, x)
  PROVE  Counted(Add(st, v, e), u, n + 1)
<1> DEFINE new == Add(st, v, e)
           exists == st.entries[Hash[v]] = e
           cnt == ((IF exists THEN st.heap[e].refCount ELSE 0) + 1) % RefMod
<1>1. Hash[v] \in HashKeys /\ e # NoEntry
  BY ConstantsAssumption DEF HashKeys
<1>2. st.heap \in [EntryIds -> Entry]
      /\ st.entries \in [HashKeys -> EntryIds \cup {NoEntry}]
  BY DEF StorageType
<1>3. /\ new.heap[e].refCount = cnt
      /\ \A x \in EntryIds : x # e => new.heap[x] = st.heap[x]
      /\ new.entries = [st.entries EXCEPT ![Hash[v]] = e]
  BY <1>2 DEF Add
<1> HIDE DEF new
<1> SUFFICES ASSUME NEW h \in HashKeys, new.entries[h] # NoEntry
             PROVE  /\ new.heap[new.entries[h]].refCount
                         \in 1..Cardinality(Held(u, new.entries[h]))
                    /\ new.heap[new.entries[h]].refCount <= n + 1
  BY DEF Counted, new
<1>4. \A x \in EntryIds : Cardinality(Held(u, x)) \in Nat /\ Cardinality(Held(t, x)) \in Nat
  BY HeldFinite
<1>5. CASE h = Hash[v]
  <2>1. new.entries[h] = e
    BY <1>1, <1>2, <1>3, <1>5
  <2>2. Cardinality(Held(u, e)) = Cardinality(Held(t, e)) + 1
    BY DEF One
  <2>3. CASE exists
    <3> DEFINE c == st.heap[e].refCount
    <3>1. c \in 1..Cardinality(Held(t, e)) /\ c <= n
      BY <1>1, <2>3 DEF Counted
    <3>2. cnt = (c + 1) % RefMod
      BY <2>3
    <3> HIDE DEF c, cnt
    <3>3. (c + 1) % RefMod = c + 1
      BY <1>4, <3>1, ConstantsAssumption
    <3> QED BY <1>3, <1>4, <2>1, <2>2, <3>1, <3>2, <3>3
  <2>4. CASE ~exists
    <3>1. cnt = (0 + 1) % RefMod
      BY <2>4
    <3>2. (0 + 1) % RefMod = 1
      BY ConstantsAssumption
    <3> HIDE DEF cnt
    <3> QED BY <1>3, <1>4, <2>1, <2>2, <3>1, <3>2
  <2> QED BY <2>3, <2>4
<1>6. CASE h # Hash[v]
  <2>1. new.entries[h] = st.entries[h] /\ st.entries[h] \in EntryIds
    BY <1>2, <1>3, <1>6
  <2> DEFINE x == st.entries[h]
  <2>2. x # e
    <3>1. CASE exists
      <4>1. KeyOf(st.heap, x) = h /\ KeyOf(st.heap, e) = Hash[v]
        BY <1>1, <2>1, <3>1 DEF IndexOK
      <4> QED BY <1>6, <4>1
    <3>2. CASE ~exists
      BY <3>2
    <3> QED BY <3>1, <3>2
  <2>3. st.heap[x].refCount \in 1..Cardinality(Held(t, x)) /\ st.heap[x].refCount <= n
    BY <2>1 DEF Counted
  <2>4. Cardinality(Held(u, x)) = Cardinality(Held(t, x))
    BY <1>4, <2>1, <2>2 DEF One
  <2>5. new.heap[x] = st.heap[x]
    BY <1>3, <2>1, <2>2
  <2> HIDE DEF x
  <2> QED BY <2>1, <2>3, <2>4, <2>5 DEF x
<1> QED BY <1>5, <1>6

\* Garbage collection and leaves that are added do not hurt.
LEMMA CountedStays ==
  ASSUME NEW st \in StorageType, NEW t, NEW n \in Nat, Counted(st, t, n),
         NEW u, \A e \in EntryIds : Cardinality(Held(u, e)) >= Cardinality(Held(t, e)),
         NEW i \in Nat, n <= i, NEW w
  PROVE  Counted([heap |-> Collected(st.heap, w, st.entries), entries |-> st.entries], u, i)
<1> SUFFICES ASSUME NEW h \in HashKeys, st.entries[h] # NoEntry
             PROVE  /\ Collected(st.heap, w, st.entries)[st.entries[h]].refCount
                         \in 1..Cardinality(Held(u, st.entries[h]))
                    /\ Collected(st.heap, w, st.entries)[st.entries[h]].refCount <= i
  BY DEF Counted
<1> DEFINE e == st.entries[h]
<1>1. e \in EntryIds /\ e \in Referenced(w, st.entries)
  BY DEF StorageType, Referenced
<1>2. Collected(st.heap, w, st.entries)[e] = st.heap[e]
  BY <1>1 DEF Collected
<1>3. st.heap[e].refCount \in 1..Cardinality(Held(t, e)) /\ st.heap[e].refCount <= n
  BY DEF Counted
<1>4. Cardinality(Held(u, e)) \in Nat /\ Cardinality(Held(t, e)) \in Nat
      /\ Cardinality(Held(u, e)) >= Cardinality(Held(t, e))
  BY <1>1, HeldFinite
<1> HIDE DEF e
<1> QED BY <1>2, <1>3, <1>4 DEF e

\* The leaves that are lost in joins are the joined ones but for one, and a
\* leaf that is lost is one that joined.
JoinedAt(k, i) == IF i = PrefixBits + 1 THEN Path(k, PrefixBits) ELSE Sibling(k, i)

LEMMA LostHasJoined ==
  ASSUME IInv, NEW k \in Keys, NEW v, NEW r, NEW st, GoodWrite(v, r, st),
         NEW m \in 1..PrefixBits, JoinsUpTo(Split(tree, k), k, r, st.heap, m),
         NEW p \in Paths, NEW e \in EntryIds, Written(k, r)[p].value = e,
         Below(p, k, m) \/ p = Path(k, m)
  PROVE  \E i \in (m + 1)..(PrefixBits + 1) :
           p = JoinedAt(k, i) /\ Joined(Split(tree, k), k, r, i).value = e
<1> DEFINE t == Split(tree, k)
           z == Path(k, PrefixBits)
           n == Len(p)
<1>1. PrefixBits \in 1..PrefixBits /\ z \in Paths /\ DOMAIN t = Paths /\ Len(z) = PrefixBits
  BY TrieAssumption, PathType DEF Split
<1>2. Written(k, r)[p] = IF p = z THEN r ELSE t[p]
  BY <1>1 DEF Written
<1>3. CASE p = z
  <2>1. PrefixBits + 1 \in (m + 1)..(PrefixBits + 1)
    BY <1>1
  <2> QED BY <1>2, <1>3, <2>1 DEF JoinedAt, Joined
<1>4. CASE p # z
  <2>1. PICK l \in Keys : p = Path(l, n)
    BY PathOfKey
  <2>2. n \in 1..PrefixBits
    BY PathOfKey
  <2>3. t[p].value = e /\ e # NoEntry
    BY <1>2, <1>4, ConstantsAssumption
  <2>4. n >= m /\ \A i \in 1..m : l[i] = k[i]
    <3>1. CASE p = Path(k, m)
      <4>1. n = m /\ \A i \in 1..m : Path(k, m)[i] = k[i] /\ Path(l, m)[i] = l[i]
        BY <3>1, PathType DEF Path
      <4> QED BY <2>1, <3>1, <4>1
    <3>2. CASE Below(p, k, m)
      <4>1. n > m /\ \A i \in 1..m : p[i] = k[i]
        BY <3>2 DEF Below
      <4>2. \A i \in 1..m : Path(l, n)[i] = l[i]
        BY <2>2, <4>1 DEF Path
      <4> QED BY <2>1, <4>1, <4>2
    <3> QED BY <3>1, <3>2
  <2>5. ~OnPath(p, k)
    <3>1. ASSUME OnPath(p, k) PROVE FALSE
      <4>1. \A i \in 1..n : l[i] = k[i]
        BY <2>1, <3>1 DEF OnPath, Path
      <4>2. n # PrefixBits
        BY <1>4, <2>1, <4>1 DEF Path
      <4>3. t[p] = Node
        <5>1. Len(p) < PrefixBits
          BY <2>2, <4>2, TrieAssumption
        <5> QED BY <3>1, <5>1 DEF Split
      <4> QED BY <2>3, <4>3
    <3> QED BY <3>1
  <2>6. ~ \A i \in 1..n : k[i] = l[i]
    <3>1. \A i \in 1..n : p[i] = l[i]
      BY <2>1 DEF Path
    <3> QED BY <2>5, <3>1 DEF OnPath
  <2> HIDE DEF n
  <2>7. PICK f \in 1..n : k[f] # l[f] /\ \A i \in 1..(f - 1) : k[i] = l[i]
    <3>1. n \in 0..PrefixBits
      BY <2>2
    <3> QED BY <2>6, <3>1, FirstDifference
  <2>8. f \in 1..PrefixBits /\ f \in (m + 1)..(PrefixBits + 1) /\ f # PrefixBits + 1
    <3>1. ~(f \in 1..m)
      BY <2>4, <2>7
    <3> QED BY <2>2, <2>7, <3>1, TrieAssumption
  <2>9. PICK c \in 1..PrefixBits : LeadsToLeaf(tree, k, c)
    BY DEF IInv, TrieShape
  <2>10. PICK d \in 1..PrefixBits : LeadsToLeaf(tree, l, d)
    BY DEF IInv, TrieShape
  <2>11. Sibling(k, f) = Path(l, f)
    BY <2>7, <2>8, TrieAssumption DEF Sibling, Path, Keys
  <2>12. Joined(t, k, r, f) = t[Path(l, f)] /\ IsLeaf(t[Path(l, f)])
    <3>1. RecordsOK(t, st.heap)
      BY <2>9, SplitOK DEF GoodWrite
    <3> HIDE DEF t
    <3>2. IsLeaf(Joined(t, k, r, f))
      BY <2>8, <3>1, JoinedOK DEF GoodWrite, t
    <3> QED BY <2>8, <2>11, <3>2 DEF Joined
  <2>13. LeadsToLeaf(t, l, f)
    BY <2>7, <2>8, <2>9, <2>10, <2>12, SplitAtOther
  <2>14. n = f
    <3>1. ASSUME n # f PROVE FALSE
      <4>1. n \in (f + 1)..PrefixBits
        BY <2>2, <2>7, <3>1
      <4>2. t[p] = NoRecord
        BY <2>1, <2>13, <4>1 DEF LeadsToLeaf, n
      <4> QED BY <2>3, <4>2
    <3> QED BY <3>1
  <2>15. p = JoinedAt(k, f) /\ Joined(t, k, r, f).value = e
    BY <2>1, <2>3, <2>8, <2>11, <2>12, <2>14 DEF JoinedAt, n
  <2> QED BY <2>8, <2>15
<1> QED BY <1>3, <1>4

LEMMA JoinHolds ==
  ASSUME IInv, NEW k \in Keys, NEW v, NEW r, NEW st, GoodWrite(v, r, st),
         NEW m \in 1..PrefixBits, JoinsUpTo(Split(tree, k), k, r, st.heap, m),
         NEW j \in (m + 1)..(PrefixBits + 1), NEW e \in EntryIds
  PROVE  LET t == Split(tree, k)
             group == [i \in ((m + 1)..(PrefixBits + 1)) \ {j} |-> Joined(t, k, r, i)]
         IN  Cardinality(Held(Join(t, k, m, Joined(t, k, r, j)), e)) >=
               Cardinality(Held(Written(k, r), e)) - Times(group, e)
<1> DEFINE t == Split(tree, k)
           x == Joined(t, k, r, j)
           u == Join(t, k, m, x)
           y == Path(k, m)
           group == [i \in ((m + 1)..(PrefixBits + 1)) \ {j} |-> Joined(t, k, r, i)]
           G == {i \in DOMAIN group : group[i].value = e}
           f == [i \in G |-> JoinedAt(k, i)]
           A == Held(Written(k, r), e)
           B == Held(u, e)
           C == {f[i] : i \in G}
           D == IF x.value = e THEN {JoinedAt(k, j)} ELSE {}
<1>1. /\ IsFiniteSet(A) /\ Cardinality(A) \in Nat
      /\ IsFiniteSet(B) /\ Cardinality(B) \in Nat
  BY HeldFinite
<1>2. y \in Paths /\ e # NoEntry
  BY PathType, ConstantsAssumption
<1>3. IsFiniteSet(G) /\ Cardinality(G) \in Nat
  <2>1. m + 1 \in Int /\ PrefixBits + 1 \in Int
    BY TrieAssumption
  <2>2. IsFiniteSet((m + 1)..(PrefixBits + 1))
    BY <2>1, FS_Interval
  <2>3. G \in SUBSET ((m + 1)..(PrefixBits + 1))
    OBVIOUS
  <2> HIDE DEF G
  <2> QED BY <2>2, <2>3, FS_Subset, FS_CardinalityType
<1>4. IsFiniteSet(C) /\ Cardinality(C) <= Cardinality(G) /\ Cardinality(C) \in Nat
  <2>1. f \in Surjection(G, C)
    BY DEF Surjection
  <2> HIDE DEF f, G, C
  <2> QED BY <1>3, <2>1, FS_Surjection, FS_CardinalityType
<1>5. y \in B <=> x.value = e
  BY <1>2 DEF Held, Join
<1>6. A \in SUBSET (((B \ {y}) \cup C) \cup D)
  <2> SUFFICES ASSUME NEW p \in A PROVE p \in (B \ {y}) \/ p \in C \/ p \in D
    OBVIOUS
  <2>1. p \in Paths /\ Written(k, r)[p].value = e
    BY DEF Held
  <2>2. CASE Below(p, k, m) \/ p = y
    <3>1. PICK i \in (m + 1)..(PrefixBits + 1) :
            p = JoinedAt(k, i) /\ Joined(t, k, r, i).value = e
      BY <2>1, <2>2, LostHasJoined
    <3>2. CASE i = j
      BY <3>1, <3>2
    <3>3. CASE i # j
      <4>1. i \in G /\ f[i] = p
        BY <3>1, <3>3
      <4> QED BY <4>1
    <3> QED BY <3>2, <3>3
  <2>3. CASE ~(Below(p, k, m) \/ p = y)
    <3>1. p # Path(k, PrefixBits)
      <4>1. ASSUME p = Path(k, PrefixBits) PROVE FALSE
        <5>1. Len(p) = PrefixBits /\ \A i \in 1..m : p[i] = k[i]
          BY <4>1, PathType, TrieAssumption DEF Path
        <5>2. m # PrefixBits
          BY <2>3, <4>1
        <5> QED BY <2>3, <5>1, <5>2, TrieAssumption DEF Below
      <4> QED BY <4>1
    <3>2. DOMAIN t = Paths
      BY DEF Split
    <3>3. Written(k, r)[p] = t[p]
      BY <2>1, <3>1, <3>2 DEF Written
    <3>4. u[p] = t[p]
      BY <2>1, <2>3 DEF Join
    <3> QED BY <2>1, <2>3, <3>3, <3>4 DEF Held
  <2> QED BY <2>2, <2>3
<1>7. Times(group, e) = Cardinality(G)
  BY DEF Times
<1> DEFINE E == (B \ {y}) \cup C
<1>8. E \cup D = ((B \ {y}) \cup C) \cup D
  OBVIOUS
<1>9. D = IF x.value = e THEN {JoinedAt(k, j)} ELSE {}
  OBVIOUS
<1> DEFINE w == JoinedAt(k, j)
           F == B \ {y}
<1> HIDE DEF A, B, C, D, G, y, u, w, F
<1>10. IsFiniteSet(F) /\ Cardinality(F) = IF y \in B THEN Cardinality(B) - 1 ELSE Cardinality(B)
  BY <1>1, FS_RemoveElement DEF F
<1>11. IsFiniteSet(F \cup C) /\ Cardinality(F \cup C) <= Cardinality(F) + Cardinality(C)
       /\ Cardinality(F \cup C) \in Nat
  <2>1. IsFiniteSet(F \cup C)
        /\ Cardinality(F \cup C) = Cardinality(F) + Cardinality(C) - Cardinality(F \cap C)
    BY <1>4, <1>10, FS_Union
  <2>2. IsFiniteSet(F \cap C)
    BY <1>4, FS_Intersection
  <2>3. Cardinality(F \cap C) \in Nat /\ Cardinality(F \cup C) \in Nat /\ Cardinality(F) \in Nat
    BY <1>10, <2>1, <2>2, FS_CardinalityType
  <2> QED BY <1>4, <2>1, <2>3
<1> DEFINE H == F \cup C
<1>12. IsFiniteSet(H \cup D)
       /\ Cardinality(H \cup D) <= Cardinality(H) + (IF x.value = e THEN 1 ELSE 0)
  <2>1. CASE x.value = e
    <3>1. H \cup D = H \cup {w}
      BY <1>9, <2>1 DEF w
    <3>2. IsFiniteSet(H \cup {w}) /\
          Cardinality(H \cup {w}) = IF w \in H THEN Cardinality(H) ELSE Cardinality(H) + 1
      BY <1>11, FS_AddElement
    <3> HIDE DEF H
    <3> QED BY <1>11, <2>1, <3>1, <3>2 DEF H
  <2>2. CASE x.value # e
    <3>1. H \cup D = H
      BY <1>9, <2>2
    <3>2. IsFiniteSet(H) /\ Cardinality(H) \in Nat
      BY <1>11
    <3> HIDE DEF H, x
    <3> QED BY <2>2, <3>1, <3>2
  <2> QED BY <2>1, <2>2
<1>13. A \in SUBSET (H \cup D)
  BY <1>6 DEF F
<1> HIDE DEF H
<1>14. Cardinality(A) <= Cardinality(H \cup D) /\ Cardinality(H \cup D) \in Nat
  BY <1>12, <1>13, FS_Subset, FS_CardinalityType
<1>15. Cardinality(A) <= Cardinality(B) + Cardinality(G)
  <2>1. Cardinality(F) = IF x.value = e THEN Cardinality(B) - 1 ELSE Cardinality(B)
    BY <1>5, <1>10
  <2>2. Cardinality(H) <= Cardinality(F) + Cardinality(C) /\ Cardinality(H) \in Nat
    BY <1>11 DEF H
  <2> HIDE DEF x
  <2> QED BY <1>1, <1>3, <1>4, <1>12, <1>14, <2>1, <2>2
<1>16. Cardinality(B) >= Cardinality(A) - Times(group, e)
  <2> HIDE DEF group
  <2> QED BY <1>1, <1>3, <1>7, <1>15
<1> QED BY <1>16 DEF A, B, u

LEMMA CountedGrows ==
  ASSUME NEW st \in StorageType, NEW t, NEW n \in Nat, Counted(st, t, n),
         NEW u, \A e \in EntryIds : Cardinality(Held(u, e)) >= Cardinality(Held(t, e)),
         NEW i \in Nat, n <= i
  PROVE  Counted(st, u, i)
<1> SUFFICES ASSUME NEW h \in HashKeys, st.entries[h] # NoEntry
             PROVE  /\ st.heap[st.entries[h]].refCount \in 1..Cardinality(Held(u, st.entries[h]))
                    /\ st.heap[st.entries[h]].refCount <= i
  BY DEF Counted
<1> DEFINE e == st.entries[h]
<1>1. e \in EntryIds
  BY DEF StorageType
<1>2. st.heap[e].refCount \in 1..Cardinality(Held(t, e)) /\ st.heap[e].refCount <= n
  BY DEF Counted
<1>3. Cardinality(Held(u, e)) \in Nat /\ Cardinality(Held(t, e)) \in Nat
      /\ Cardinality(Held(u, e)) >= Cardinality(Held(t, e))
  BY <1>1, HeldFinite
<1> HIDE DEF e
<1> QED BY <1>2, <1>3 DEF e

\* The way up.
LEMMA AscendCounts ==
  ASSUME IInv, NEW k \in Keys, NEW v, NEW r, NEW st, GoodWrite(v, r, st), Ascend(k, r, st),
         NEW n \in Nat, n < RefMod, Counted(st, Written(k, r), n)
  PROVE  Counted([heap |-> heap', entries |-> entries'], tree', n)
<1> DEFINE t == Split(tree, k)
<1>1. PICK m \in 1..PrefixBits : \E j \in (m + 1)..(PrefixBits + 1) :
        /\ JoinsUpTo(t, k, r, st.heap, m)
        /\ LET rest == Remove(st, [i \in ((m + 1)..(PrefixBits + 1)) \ {j}
                                     |-> Joined(t, k, r, i)])
           IN  /\ tree' = Join(t, k, m, Joined(t, k, r, j))
               /\ entries' = rest.entries
               /\ heap' = Collected(rest.heap, tree', entries')
  BY DEF Ascend
<1>2. PICK j \in (m + 1)..(PrefixBits + 1) :
        /\ JoinsUpTo(t, k, r, st.heap, m)
        /\ LET rest == Remove(st, [i \in ((m + 1)..(PrefixBits + 1)) \ {j}
                                     |-> Joined(t, k, r, i)])
           IN  /\ tree' = Join(t, k, m, Joined(t, k, r, j))
               /\ entries' = rest.entries
               /\ heap' = Collected(rest.heap, tree', entries')
  BY <1>1
<1> DEFINE group == [i \in ((m + 1)..(PrefixBits + 1)) \ {j} |-> Joined(t, k, r, i)]
           u == Join(t, k, m, Joined(t, k, r, j))
           rest == Remove(st, group)
<1>3. tree' = u /\ entries' = rest.entries /\ heap' = Collected(rest.heap, u, rest.entries)
  BY <1>2
<1>4. IsFiniteSet(DOMAIN group)
  <2>1. m + 1 \in Int /\ PrefixBits + 1 \in Int
    BY TrieAssumption
  <2>2. IsFiniteSet((m + 1)..(PrefixBits + 1))
    BY <2>1, FS_Interval
  <2>3. DOMAIN group \subseteq (m + 1)..(PrefixBits + 1)
    OBVIOUS
  <2> QED BY <2>2, <2>3, FS_Subset
<1>5. \A e \in EntryIds :
        Cardinality(Held(u, e)) >= Cardinality(Held(Written(k, r), e)) - Times(group, e)
  BY <1>2, JoinHolds
<1>6. st \in StorageType /\ IndexOK(st)
  BY DEF GoodWrite
<1> HIDE DEF group, u
<1>7. Counted(rest, u, n) /\ rest \in StorageType
  BY <1>4, <1>5, <1>6, RemoveCounts, RemoveKeepsValues
<1> HIDE DEF rest
<1>8. \A e \in EntryIds : Cardinality(Held(u, e)) >= Cardinality(Held(u, e))
  BY HeldFinite
<1>9. Counted([heap |-> Collected(rest.heap, u, rest.entries), entries |-> rest.entries], u, n)
  <2>1. n <= n
    OBVIOUS
  <2> QED BY <1>7, <1>8, <2>1, CountedStays
<1> QED BY <1>3, <1>9

\* Releasing the old value of the leaf of k.
LEMMA ReleasedCounts ==
  ASSUME IInv, NEW k \in Keys, NEW n \in Nat, n < RefMod, Counted(Storage, tree, n)
  PROVE  Counted(Released(k), Written(k, Empty), n)
<1> DEFINE group == <<Leaf(tree, k)>>
<1>1. Storage \in StorageType /\ IndexOK(Storage)
  BY DEF IInv, TypeOK, Storage, StorageType
<1>2. DOMAIN group = {1} /\ group[1] = Leaf(tree, k) /\ IsFiniteSet({1})
  <2>1. DOMAIN group = 1..1 /\ group[1] = Leaf(tree, k)
    OBVIOUS
  <2>2. 1..1 = {1}
    OBVIOUS
  <2>3. IsFiniteSet({1})
    BY FS_Singleton
  <2> QED BY <2>1, <2>2, <2>3
<1> HIDE DEF group
<1>3. \A e \in EntryIds : Times(group, e) = One(Leaf(tree, k).value, e)
  <2> TAKE e \in EntryIds
  <2>1. CASE Leaf(tree, k).value = e
    <3>1. {i \in DOMAIN group : group[i].value = e} = {1}
      BY <1>2, <2>1
    <3> QED BY <2>1, <3>1, FS_Singleton DEF Times, One
  <2>2. CASE Leaf(tree, k).value # e
    <3>1. {i \in DOMAIN group : group[i].value = e} = {}
      BY <1>2, <2>2
    <3> QED BY <2>2, <3>1, FS_EmptySet DEF Times, One
  <2> QED BY <2>1, <2>2
<1>4. \A e \in EntryIds :
        Cardinality(Held(Written(k, Empty), e)) >= Cardinality(Held(tree, e)) - Times(group, e)
  BY <1>3, WrittenHolds
<1>5. Counted(Remove(Storage, group), Written(k, Empty), n)
  BY <1>1, <1>2, <1>4, RemoveCounts
<1> QED BY <1>5 DEF Released, group

LEMMA InsertCounts ==
  ASSUME MaxInserts < RefMod, IInv, CountInv,
         NEW k \in Keys, NEW v \in Values \cup {Nil}, Insert(k, v)
  PROVE  CountInv'
<1> DEFINE n == totalSize
           new == [heap |-> heap', entries |-> entries']
           L == Leaf(tree, k)
<1>1. n \in Nat /\ n + 1 \in Nat /\ n < RefMod /\ n + 1 < RefMod /\ n <= n + 1
      /\ totalSize' = n + 1
  BY ConstantsAssumption DEF IInv, TypeOK, Insert
<1>2. Storage \in StorageType /\ IndexOK(Storage) /\ Counted(Storage, tree, n)
  BY DEF IInv, TypeOK, Storage, StorageType, CountInv
<1>3. CountInv' = Counted(new, tree', n + 1)
  BY <1>1 DEF CountInv, Storage, Counted, Held
<1>4. Released(k) \in StorageType /\ IndexOK(Released(k))
      /\ \A h \in HashKeys : Released(k).entries[h] \in {NoEntry, entries[h]}
  BY ReleasedOK
<1>5. Counted(Released(k), Written(k, Empty), n)
  BY <1>1, <1>2, ReleasedCounts
<1>6. \A e \in EntryIds : \A r :
        /\ Cardinality(Held(tree, e)) \in Nat
        /\ Cardinality(Held(Written(k, Empty), e)) \in Nat
        /\ Cardinality(Held(Written(k, r), e)) \in Nat
        /\ Cardinality(Held(Written(k, r), e)) =
             Cardinality(Held(Written(k, Empty), e)) + One(r.value, e)
        /\ Cardinality(Held(Written(k, r), e)) >=
             Cardinality(Held(tree, e)) - One(L.value, e) + One(r.value, e)
        /\ One(r.value, e) \in 0..1 /\ One(L.value, e) \in 0..1
  <2> TAKE e \in EntryIds
  <2> TAKE r
  <2>1. One(r.value, e) \in 0..1 /\ One(L.value, e) \in 0..1
    BY DEF One
  <2>2. /\ Cardinality(Held(tree, e)) \in Nat
        /\ Cardinality(Held(Written(k, Empty), e)) \in Nat
        /\ Cardinality(Held(Written(k, r), e)) \in Nat
    BY HeldFinite
  <2>3. /\ Cardinality(Held(Written(k, Empty), e)) >=
              Cardinality(Held(tree, e)) - One(L.value, e)
        /\ Cardinality(Held(Written(k, r), e)) =
              Cardinality(Held(Written(k, Empty), e)) + One(r.value, e)
    BY WrittenHolds
  <2> QED BY <2>1, <2>2, <2>3
<1>7. ASSUME UNCHANGED <<tree, heap, entries>> PROVE CountInv'
  <2>1. \A e \in EntryIds : Cardinality(Held(tree, e)) >= Cardinality(Held(tree, e))
    BY HeldFinite
  <2>2. Counted(Storage, tree, n + 1)
    BY <1>1, <1>2, <2>1, CountedGrows
  <2>3. new = Storage /\ tree' = tree
    BY <1>7 DEF Storage
  <2> QED BY <1>3, <2>2, <2>3
<1> HIDE DEF n, new
<1>8. CASE v = Nil /\ WriteNil(k)
  <2>1. Ascend(k, Empty, Released(k)) /\ GoodWrite(Nil, Empty, Released(k))
    BY <1>8, WriteNilGood DEF WriteNil
  <2>2. \A e \in EntryIds :
          Cardinality(Held(Written(k, Empty), e)) >= Cardinality(Held(Written(k, Empty), e))
    BY <1>6
  <2>3. Counted(Released(k), Written(k, Empty), n + 1)
    BY <1>1, <1>4, <1>5, <2>2, CountedGrows
  <2> QED BY <1>1, <1>3, <2>1, <2>3, AscendCounts DEF new
<1>9. CASE v \in Values /\ WriteEqual(k, v)
  <2>1. Lookup(k) = v
    BY <1>9 DEF WriteEqual
  <2>2. GoodWrite(v, L, Storage)
    BY <1>9, <2>1, WriteEqualGood
  <2>3. Counted(Storage, Written(k, L), n + 1)
    <3>1. \A e \in EntryIds :
            Cardinality(Held(Written(k, L), e)) >= Cardinality(Held(tree, e))
      BY <1>6
    <3> HIDE DEF L
    <3> QED BY <1>1, <1>2, <3>1, CountedGrows
  <2>4. CASE Ascend(k, L, Storage)
    <3> HIDE DEF L
    <3> QED BY <1>1, <1>3, <2>2, <2>3, <2>4, AscendCounts DEF new
  <2>5. CASE AscendPanics(k, L, Storage)
    BY <1>7, <2>5 DEF AscendPanics
  <2> QED BY <1>9, <2>4, <2>5 DEF WriteEqual
<1>10. CASE v \in Values /\ WriteNew(k, v)
  <2>1. PICK e \in AddTargets(Released(k), v) :
          \/ Ascend(k, Data(e), Add(Released(k), v, e))
          \/ AscendPanics(k, Data(e), Add(Released(k), v, e))
    BY <1>10 DEF WriteNew
  <2> DEFINE st == Add(Released(k), v, e)
             r == Data(e)
  <2>2. GoodWrite(v, r, st)
    BY <1>10, WriteNewGood
  <2>3. e \in EntryIds /\ (Released(k).entries[Hash[v]] = e
                            \/ \A h \in HashKeys : Released(k).entries[h] # e)
    <3>1. Hash[v] \in HashKeys
      BY <1>10 DEF HashKeys
    <3>2. e \in EntryIds /\ (Released(k).entries[Hash[v]] = e \/ e \notin Referenced(tree, entries))
      BY <1>4, <3>1 DEF AddTargets, StorageType
    <3> QED BY <1>4, <3>2, ConstantsAssumption DEF Referenced
  <2>4. \A x \in EntryIds :
          Cardinality(Held(Written(k, r), x)) =
            Cardinality(Held(Written(k, Empty), x)) + One(e, x)
    <3>1. r.value = e
      OBVIOUS
    <3> HIDE DEF r
    <3> QED BY <1>6, <3>1
  <2> HIDE DEF r
  <2>5. Counted(st, Written(k, r), n + 1)
    BY <1>1, <1>4, <1>5, <1>10, <2>3, <2>4, AddCounts
  <2> HIDE DEF st
  <2>6. CASE Ascend(k, r, st)
    BY <1>1, <1>3, <2>2, <2>5, <2>6, AscendCounts DEF new
  <2>7. CASE AscendPanics(k, r, st)
    BY <1>7, <2>7 DEF AscendPanics
  <2> QED BY <2>1, <2>6, <2>7 DEF r, st
<1>11. CASE WriteFails(k, v)
  <2> DEFINE r == Data(L.value)
  <2>1. /\ tree' = Written(k, r)
        /\ entries' = Released(k).entries
        /\ heap' = Collected(Released(k).heap, tree', entries')
    BY <1>11 DEF WriteFails, Written
  <2> HIDE DEF r
  <2>2. \A e \in EntryIds :
          Cardinality(Held(Written(k, r), e)) >= Cardinality(Held(Written(k, Empty), e))
    BY <1>6
  <2>3. Counted([heap |-> Collected(Released(k).heap, tree', Released(k).entries),
                 entries |-> Released(k).entries], Written(k, r), n + 1)
    BY <1>1, <1>4, <1>5, <2>2, CountedStays
  <2> QED BY <1>3, <2>1, <2>3 DEF new
<1> QED BY <1>8, <1>9, <1>10, <1>11 DEF Insert

LEMMA SameCounts ==
  ASSUME CountInv, UNCHANGED <<tree, heap, entries, totalSize>>
  PROVE  CountInv'
BY DEF CountInv, Counted, Storage, Held

LEMMA NextCounts ==
  ASSUME MaxInserts < RefMod, IInv, CountInv, [Next]_vars
  PROVE  CountInv'
<1>1. ASSUME NEW k \in Keys, NEW v \in Values, InsertDefaultNull(k, v) PROVE CountInv'
  <2>1. Filtered[v] \in Values \cup {Nil}
    BY ConstantsAssumption
  <2> QED BY <1>1, <2>1, InsertCounts DEF InsertDefaultNull
<1>2. ASSUME NEW k \in Keys, FindAbsent(k) PROVE CountInv'
  BY <1>2, SameCounts DEF FindAbsent
<1>3. CASE UNCHANGED vars
  BY <1>3, SameCounts DEF vars
<1> QED BY <1>1, <1>2, <1>3, InsertCounts DEF Next

LEMMA InitCounts ==
  ASSUME Init
  PROVE  CountInv
BY DEF Init, CountInv, Counted, Storage

LEMMA CountedHasNoLeak ==
  ASSUME IInv, CountInv
  PROVE  NoLeak
BY DEF IInv, CountInv, Counted, Storage, NoLeak, IndexOK, Held, Holders

\* For fewer inserts than refCount can count (2^32 in the code), an entry stays
\* in the index only while leaves refer to it, and its count is at most their
\* number: storage.remove takes it out before its count could wrap, though a
\* split copies leaves without counting them and a failed insert releases what
\* stays.  Collisions of hashes do not matter.
THEOREM IndexHasNoLeak ==
  ASSUME MaxInserts < RefMod
  PROVE  Spec => []NoLeak
<1>1. Init => CountInv
  BY InitCounts
<1>2. IInv /\ CountInv /\ [Next]_vars => CountInv'
  BY NextCounts
<1>3. IInv /\ CountInv => NoLeak
  BY CountedHasNoLeak
<1> QED BY <1>1, <1>2, <1>3, Invariance, PTL DEF Spec
-----------------------------------------------------------------------------
(***************************************************************************)
(* What Serialize writes.                                                  *)
(***************************************************************************)


\* The trie that the writer holds is one.
LEMMA LabelsOK ==
  ASSUME IInv
  PROVE  TrieOK(Labels)
<1>1. \A p \in Paths : Labels[p].kind = tree[p].rType
  BY DEF Labels
<1>2. TrieShape /\ \A p \in Paths : tree[p] \in Record
  BY DEF IInv, TypeOK
<1>3. \A p \in Paths : Labels[p].kind \in {"none", "empty", "data", "node"}
  BY <1>1, <1>2 DEF Record
<1>4. \A p \in NodePaths(Labels) : p = Root \/ (p \in Paths /\ tree[p].rType = "node")
  BY <1>1 DEF NodePaths
<1>5. \A p \in Paths : tree[p].rType = "node" => p \in NodePaths(Labels)
  BY <1>1 DEF NodePaths
<1>6. Root \in NodePaths(Labels)
  BY DEF NodePaths
<1>7. ASSUME NEW p \in Paths
      PROVE  \E k \in Keys, d \in 1..PrefixBits :
               p = Path(k, Len(p)) /\ Len(p) \in 1..PrefixBits /\ LeadsToLeaf(tree, k, d)
  <2>1. PICK k \in Keys : p = Path(k, Len(p))
    BY PathOfKey
  <2>2. Len(p) \in 1..PrefixBits
    BY PathOfKey
  <2> QED BY <1>2, <2>1, <2>2 DEF TrieShape
<1>8. ASSUME NEW p \in Paths, Labels[p].kind # "none" PROVE Parent(p) \in NodePaths(Labels)
  <2>1. PICK k \in Keys, d \in 1..PrefixBits :
          p = Path(k, Len(p)) /\ Len(p) \in 1..PrefixBits /\ LeadsToLeaf(tree, k, d)
    BY <1>7
  <2>2. ~(Len(p) > d)
    <3>1. ASSUME Len(p) > d PROVE FALSE
      <4>1. tree[p] = NoRecord
        BY <2>1, <3>1, TrieAssumption DEF LeadsToLeaf
      <4> QED BY <1>1, <1>8, <4>1 DEF NoRecord
    <3> QED BY <3>1
  <2>3. Parent(p) = IF Len(p) = 1 THEN Root ELSE Path(k, Len(p) - 1)
    BY <2>1, PathParent
  <2>4. CASE Len(p) = 1
    BY <1>6, <2>3, <2>4
  <2>5. CASE Len(p) # 1
    <3>1. Len(p) - 1 \in 1..(d - 1) /\ Len(p) - 1 \in 1..PrefixBits
      <4>1. \A n \in 1..PrefixBits, e \in 1..PrefixBits :
              ~(n > e) /\ n # 1 => n - 1 \in 1..(e - 1) /\ n - 1 \in 1..PrefixBits
        BY TrieAssumption
      <4> QED BY <2>1, <2>2, <2>5, <4>1, Zenon
    <3>2. tree[Path(k, Len(p) - 1)] = Node
      BY <2>1, <3>1 DEF LeadsToLeaf
    <3>3. Path(k, Len(p) - 1) \in Paths
      BY <3>1, PathType
    <3> QED BY <1>5, <2>3, <2>5, <3>2, <3>3 DEF Node
  <2> QED BY <2>4, <2>5
<1>9. ASSUME NEW p \in NodePaths(Labels)
      PROVE  Len(p) < PrefixBits /\ \A b \in Bit : Labels[Child(p, b)].kind # "none"
  <2>1. p \in Places
    BY NodePathsFinite
  <2>2. Len(p) < PrefixBits
    <3>1. CASE p = Root
      BY <3>1, TrieAssumption DEF Root
    <3>2. CASE p \in Paths /\ tree[p].rType = "node"
      <4>1. PICK k \in Keys, d \in 1..PrefixBits :
              p = Path(k, Len(p)) /\ Len(p) \in 1..PrefixBits /\ LeadsToLeaf(tree, k, d)
        BY <3>2, <1>7
      <4>2. ASSUME Len(p) = PrefixBits PROVE FALSE
        <5>1. Len(p) = d \/ Len(p) \in (d + 1)..PrefixBits
          BY <4>1, <4>2, TrieAssumption
        <5>2. IsLeaf(tree[p]) \/ tree[p] = NoRecord
          BY <4>1, <5>1 DEF LeadsToLeaf
        <5> QED BY <3>2, <5>2 DEF IsLeaf, NoRecord
      <4> QED BY <4>1, <4>2, TrieAssumption
    <3> QED BY <1>4, <3>1, <3>2
  <2>3. ASSUME NEW b \in Bit PROVE Labels[Child(p, b)].kind # "none"
    <3> DEFINE c == Child(p, b)
    <3>1. c \in Paths /\ Len(c) = Len(p) + 1 /\ Parent(c) = p /\ Len(p) \in Nat
      BY <2>1, <2>2, ChildType, PlaceType
    <3> HIDE DEF c
    <3>2. PICK k \in Keys, d \in 1..PrefixBits :
            c = Path(k, Len(c)) /\ Len(c) \in 1..PrefixBits /\ LeadsToLeaf(tree, k, d)
      BY <3>1, <1>7
    <3>3. Len(c) <= d
      <4>1. CASE Len(c) = 1
        BY <4>1, TrieAssumption
      <4>2. CASE Len(c) # 1
        <5>1. p = Path(k, Len(p)) /\ Len(p) \in 1..PrefixBits /\ p # Root
          <6>1. p = Path(k, Len(c) - 1) /\ Len(c) - 1 = Len(p)
            BY <3>1, <3>2, <4>2, PathParent
          <6>2. Len(p) # 0
            BY <3>1, <4>2
          <6> QED BY <2>2, <3>1, <6>1, <6>2, TrieAssumption DEF Root
        <5>2. tree[p].rType = "node"
          BY <1>4, <5>1
        <5>3. Len(p) # d
          BY <3>2, <5>1, <5>2 DEF LeadsToLeaf, IsLeaf
        <5>4. ~(Len(p) > d)
          <6>1. ASSUME Len(p) > d PROVE FALSE
            <7>1. tree[p] = NoRecord
              BY <3>2, <5>1, <6>1, TrieAssumption DEF LeadsToLeaf
            <7> QED BY <5>2, <7>1 DEF NoRecord
          <6> QED BY <6>1
        <5> QED BY <3>1, <5>3, <5>4, TrieAssumption
      <4> QED BY <4>1, <4>2
    <3>4. tree[c] = Node \/ IsLeaf(tree[c])
      <4>1. Len(c) = d \/ Len(c) \in 1..(d - 1)
        BY <3>2, <3>3, TrieAssumption
      <4> QED BY <3>2, <4>1 DEF LeadsToLeaf
    <3>5. tree[c].rType # "none"
      BY <3>4 DEF Node, IsLeaf
    <3> QED BY <1>1, <3>1, <3>5 DEF c
  <2> QED BY <2>2, <2>3
<1> QED BY <1>3, <1>8, <1>9 DEF TrieOK

\* The bits of a key lead through the labels to its leaf.
LEMMA LabelsLead ==
  ASSUME IInv, NEW k \in Keys
  PROVE  \E d \in 1..PrefixBits :
           /\ LeadsTo(Labels, k, d)
           /\ Lookup(k) = IF Labels[Path(k, d)].kind = "data"
                          THEN Labels[Path(k, d)].value ELSE Nil
<1>1. PICK d \in 1..PrefixBits : LeadsToLeaf(tree, k, d)
  BY DEF IInv, TrieShape
<1>2. \A p \in Paths : /\ Labels[p].kind = tree[p].rType
                       /\ Labels[p].value = ValueOf(heap, tree[p].value)
  BY DEF Labels
<1>3. Path(k, d) \in Paths /\ Leaf(tree, k) = tree[Path(k, d)]
  BY <1>1, LeafIsUnique, PathType
<1>4. \A e \in 0..(d - 1) : PlaceOn(k, e) \in NodePaths(Labels)
  <2> TAKE e \in 0..(d - 1)
  <2>1. CASE e = 0
    BY <2>1 DEF PlaceOn, NodePaths
  <2>2. CASE e # 0
    <3>1. e \in 1..(d - 1) /\ e \in 1..PrefixBits
      BY <2>2, TrieAssumption
    <3>2. Path(k, e) \in Paths /\ tree[Path(k, e)] = Node
      BY <1>1, <3>1, PathType DEF LeadsToLeaf
    <3>3. Labels[Path(k, e)].kind = "node"
      BY <1>2, <3>2 DEF Node
    <3> QED BY <2>2, <3>2, <3>3 DEF PlaceOn, NodePaths
  <2> QED BY <2>1, <2>2
<1>5. Labels[Path(k, d)].kind \in {"empty", "data"}
  BY <1>1, <1>2, <1>3 DEF LeadsToLeaf, IsLeaf
<1>6. Lookup(k) = Labels[Path(k, d)].value
  BY <1>2, <1>3 DEF Lookup
<1>7. Labels[Path(k, d)].kind # "data" => Labels[Path(k, d)].value = Nil
  <2>1. RecordOK(heap, tree[Path(k, d)])
    BY <1>3 DEF IInv, RecordsOK
  <2> QED BY <1>2, <1>3, <2>1 DEF RecordOK, ValueOf
<1> QED BY <1>4, <1>5, <1>6, <1>7 DEF LeadsTo

\* A complete file has no leaf without a value.
LEMMA CompleteHasValues ==
  ASSUME IInv, Complete(Layout(Labels))
  PROVE  HasValues(Labels)
<1> SUFFICES ASSUME NEW p \in Paths, Labels[p].kind = "data" PROVE Labels[p].value \in Values
  BY DEF HasValues
<1>1. Labels[p].kind = tree[p].rType /\ Labels[p].value = ValueOf(heap, tree[p].value)
  BY DEF Labels
<1> DEFINE q == Parent(p)
           lay == Layout(Labels)
           n == Preorder(Labels)[q]
<1>2. q \in NodePaths(Labels) /\ p[Len(p)] \in Bit /\ Child(q, p[Len(p)]) = p
  BY LabelsOK, ParentType DEF TrieOK
<1>3. n \in DOMAIN lay.node /\ lay.node[n] = q
  BY <1>2, NodeOfNumber
<1> HIDE DEF q, lay, n
<1>4. ~NoEntryBelow(lay, n)
  BY <1>3 DEF Complete, WalkStops, lay
<1>5. tree[p] # Data(NoEntry)
  BY <1>2, <1>3, <1>4 DEF NoEntryBelow
<1>6. RecordOK(heap, tree[p]) /\ tree[p] \in Record
  BY DEF IInv, RecordsOK, RecordOK
<1>7. tree[p].value # NoEntry
  <2>1. tree[p].rType = "data"
    BY <1>1
  <2>2. tree[p] = [rType |-> tree[p].rType, value |-> tree[p].value]
    BY <1>6 DEF Record
  <2> QED BY <1>5, <2>1, <2>2 DEF Data
<1> QED BY <1>1, <1>6, <1>7 DEF RecordOK, ValueOf
-----------------------------------------------------------------------------
(***************************************************************************)
(* The invariant of the writer: that of the trie, and the properties of    *)
(* Serializer themselves.                                                  *)
(***************************************************************************)
SInv == IInv /\ CountStands /\ FileIsTree

\* A step that leaves the records and their values alone keeps the labels.
LEMMA SameLabels ==
  ASSUME UNCHANGED <<tree, heap>>
  PROVE  Labels' = Labels
BY DEF Labels, ValueOf

LEMMA PreparedOK ==
  ASSUME CountStands
  PROVE  NextIds = Numbered(Labels) /\ NextTotal = Cardinality(NodePaths(Labels))
BY DEF CountStands, NextIds, NextTotal

\* A complete file is that of the trie, whether prepare ran or its numbers
\* stood from an earlier call.
LEMMA WrittenFile ==
  ASSUME SInv, Serialize, file' # NoFile
  PROVE  /\ file' = FileOfTrie(Labels, totalSize)
         /\ TrieOK(Labels) /\ HasValues(Labels)
         /\ file'.nodeCount = Cardinality(DOMAIN file'.nodes)
<1> DEFINE lay == Layout(Labels)
<1>1. Complete(lay) /\ file' = File(Labels, lay, NextIds, NextTotal, totalSize)
  BY DEF Serialize, SerializePanics, SerializeFails, SerializeWrites
<1>2. NextIds = Preorder(Labels) /\ NextTotal = Cardinality(NodePaths(Labels))
  BY PreparedOK DEF SInv, Numbered
<1>3. file' = FileOfTrie(Labels, totalSize)
  BY <1>1, <1>2 DEF FileOfTrie
<1>4. TrieOK(Labels)
  BY LabelsOK DEF SInv
<1>5. HasValues(Labels)
  BY <1>1, CompleteHasValues DEF SInv
<1>6. FileOfTrie(Labels, totalSize).nodeCount
        = Cardinality(DOMAIN FileOfTrie(Labels, totalSize).nodes)
  <2>1. Cardinality(DOMAIN lay.node) = Cardinality(NodePaths(Labels))
    BY <1>1, <1>2 DEF Complete
  <2> QED BY <1>4, <2>1, FileNodes
<1> QED BY <1>3, <1>4, <1>5, <1>6
-----------------------------------------------------------------------------
LEMMA SerializerInitInvariant == SerializerInit => SInv
<1> SUFFICES ASSUME SerializerInit PROVE SInv
  OBVIOUS
<1>1. IInv
  BY InitInvariant DEF SerializerInit
<1> QED BY <1>1 DEF SerializerInit, SInv, CountStands, FileIsTree

\* An insert resets the count and makes the file one of the past.
LEMMA InsertKeeps ==
  ASSUME SInv, IInv', NEW v, InsertResets(v)
  PROVE  SInv'
BY DEF InsertResets, SInv, CountStands, FileIsTree

LEMMA SerializeKeeps ==
  ASSUME SInv, Serialize
  PROVE  SInv'
<1>1. UNCHANGED <<tree, heap, entries, totalSize>> /\ panicked' \in BOOLEAN
  BY DEF Serialize, SerializePanics, SerializeFails, SerializeWrites, SInv, IInv, TypeOK
<1>2. IInv'
  BY <1>1 DEF SInv, IInv, TypeOK, TrieShape, LeadsToLeaf, IndexOK, Storage
<1>3. Labels' = Labels
  BY <1>1, SameLabels
<1>4. CountStands'
  <2>1. nodeId' = Numbered(Labels) /\ totalNodes' = Cardinality(NodePaths(Labels))
    BY PreparedOK DEF Serialize, SInv
  <2> QED BY <1>3, <2>1 DEF CountStands
<1>5. FileIsTree'
  <2>1. CASE file' = NoFile
    BY <2>1 DEF FileIsTree
  <2>2. CASE file' # NoFile
    <3> DEFINE f == FileOfTrie(Labels, totalSize)
    <3>1. file' = f /\ TrieOK(Labels) /\ HasValues(Labels)
          /\ f.nodeCount = Cardinality(DOMAIN f.nodes)
      BY <2>2, WrittenFile
    <3>2. /\ \A n \in DOMAIN f.nodes \ {0} :
               \E m \in 0..(n - 1), b \in Bit :
                 /\ f.nodes[m][b] = n
                 /\ \A i \in DOMAIN f.nodes, c \in Bit : f.nodes[i][c] = n => i = m /\ c = b
          /\ \A i, j \in DOMAIN f.data : f.data[i] = f.data[j] => i = j
      BY <3>1, FileShape
    <3> HIDE DEF f
    <3> QED BY <3>1, <3>2 DEF FileIsTree
  <2> QED BY <2>1, <2>2
<1> QED BY <1>2, <1>4, <1>5 DEF SInv

LEMMA SerializerNextInvariant == SInv /\ [SerializerNext]_allVars => SInv'
<1> SUFFICES ASSUME SInv, [SerializerNext]_allVars PROVE SInv'
  OBVIOUS
<1>1. ASSUME NEW k \in Keys, NEW v \in Values \cup {Nil}, Insert(k, v), InsertResets(v)
      PROVE  SInv'
  <2>1. IInv'
    BY <1>1, NextInvariant DEF SInv, Next
  <2> QED BY <1>1, <2>1, InsertKeeps
<1>2. ASSUME NEW k \in Keys, NEW v \in Values,
             InsertDefaultNull(k, v), InsertResets(Filtered[v])
      PROVE  SInv'
  <2>1. IInv'
    BY <1>2, NextInvariant DEF SInv, Next
  <2> QED BY <1>2, <2>1, InsertKeeps
<1>3. ASSUME NEW k \in Keys, FindAbsent(k), UNCHANGED fileVars PROVE SInv'
  <2>1. IInv'
    BY <1>3, NextInvariant DEF SInv, Next
  <2>2. Labels' = Labels
    BY <1>3, SameLabels DEF FindAbsent
  <2>3. UNCHANGED <<nodeId, totalNodes, file>>
    BY <1>3 DEF fileVars
  <2> QED BY <2>1, <2>2, <2>3 DEF SInv, CountStands, FileIsTree
<1>4. CASE UNCHANGED allVars
  <2>1. IInv'
    BY <1>4, NextInvariant DEF SInv, allVars
  <2>2. Labels' = Labels
    BY <1>4, SameLabels DEF allVars, vars
  <2>3. UNCHANGED <<nodeId, totalNodes, file>>
    BY <1>4 DEF allVars, fileVars
  <2> QED BY <2>1, <2>2, <2>3 DEF SInv, CountStands, FileIsTree
<1> QED BY <1>1, <1>2, <1>3, <1>4, SerializeKeeps DEF SerializerNext, Calls

\* The invariant of the writer holds in every reachable state, between inserts,
\* failed inserts and calls of Serialize in any order.
THEOREM WriterInvariance == SerializerSpec => []SInv
BY SerializerInitInvariant, SerializerNextInvariant, PTL DEF SerializerSpec

\* Numbers that prepare gave are used again only while they are those of the
\* trie (BinaryTree.totalNodes, node.id).
THEOREM CountIsFresh == SerializerSpec => []CountStands
<1>1. SInv => CountStands
  BY DEF SInv
<1> QED BY <1>1, WriterInvariance, PTL

\* A complete file is a tree of nodes, each after its parent, and holds every
\* value once, also when hashes collide (writeNode, writeWithRef).
THEOREM FilesAreTrees == SerializerSpec => []FileIsTree
<1>1. SInv => FileIsTree
  BY DEF SInv
<1> QED BY <1>1, WriterInvariance, PTL

\* If no two values have the same hash, Reader.Find gives for every id what the
\* writer held for its key (Serialize, traverseTree, resolveDataPointer).
THEOREM FilesHoldContent ==
  ASSUME HashInjective
  PROVE  SerializerSpec => FileHoldsContent
<1>1. ASSUME SInv, Serialize, file' # NoFile, NEW id \in Ids
      PROVE  FindValue(file', id) = Lookup(KeyOfId(id))
  <2>1. KeyOfId(id) \in Keys
    BY KeyOfIdType
  <2>2. PICK d \in 1..PrefixBits :
          /\ LeadsTo(Labels, KeyOfId(id), d)
          /\ Lookup(KeyOfId(id)) =
               IF Labels[Path(KeyOfId(id), d)].kind = "data"
               THEN Labels[Path(KeyOfId(id), d)].value ELSE Nil
    BY <1>1, <2>1, LabelsLead DEF SInv
  <2>3. /\ file' = FileOfTrie(Labels, totalSize)
        /\ TrieOK(Labels) /\ HasValues(Labels)
    BY <1>1, WrittenFile
  <2> QED BY <2>2, <2>3, FindReads
<1>2. SInv /\ [SerializerNext]_allVars =>
        [Serialize /\ file' # NoFile =>
           \A id \in Ids : FindValue(file', id) = Lookup(KeyOfId(id))]_allVars
  BY <1>1
<1> QED BY <1>2, WriterInvariance, PTL DEF SerializerSpec, FileHoldsContent
-----------------------------------------------------------------------------
(***************************************************************************)
(* The normal form of the trie.  While no insert has failed, there is no   *)
(* leaf without an entry, and below every node keys have different values. *)
(***************************************************************************)
Reduced(t, content) ==
  \A p \in Paths : /\ t[p] # Data(NoEntry)
                   /\ t[p] = Node => ~Uniform(content, p)
NormalForm == ~failed => Reduced(tree, Content)

\* Keys below a leaf share it.
LEMMA LeafIsUniform ==
  ASSUME IInv, NEW k \in Keys, NEW d \in 1..PrefixBits, LeadsToLeaf(tree, k, d),
         NEW l \in KeysBelow(Path(k, d))
  PROVE  Lookup(l) = ValueOf(heap, tree[Path(k, d)].value)
<1>1. l \in Keys
  BY DEF KeysBelow
<1>2. PICK e \in 1..PrefixBits : LeadsToLeaf(tree, l, e)
  BY <1>1 DEF IInv, TrieShape
<1>3. Path(l, d) = Path(k, d)
  <2>1. \A i \in 1..d : k[i] = l[i]
    BY <1>1, BelowPath
  <2> QED BY <2>1 DEF Path
<1>4. IsLeaf(tree[Path(l, d)])
  BY <1>3 DEF LeadsToLeaf
<1>5. e = d
  <2>1. ASSUME e < d PROVE FALSE
    <3>1. d \in (e + 1)..PrefixBits
      BY <2>1, TrieAssumption
    <3>2. tree[Path(l, d)] = NoRecord
      BY <1>2, <3>1 DEF LeadsToLeaf
    <3> QED BY <1>4, <3>2 DEF IsLeaf, NoRecord
  <2>2. ASSUME e > d PROVE FALSE
    <3>1. d \in 1..(e - 1)
      BY <2>2, TrieAssumption
    <3>2. tree[Path(l, d)] = Node
      BY <1>2, <3>1 DEF LeadsToLeaf
    <3> QED BY <1>4, <3>2 DEF IsLeaf, Node
  <2> QED BY <2>1, <2>2, TrieAssumption
<1> QED BY <1>1, <1>2, <1>3, <1>5, LeafIsUnique DEF Lookup

\* A trie in normal form is the smallest one of its content.
LEMMA NormalIsSmallest ==
  ASSUME IInv, Reduced(tree, Content)
  PROVE  Labels = TrieOf(Content)
<1> SUFFICES ASSUME NEW p \in Paths PROVE Labels[p] = TrieOf(Content)[p]
  BY DEF Labels, TrieOf
<1> DEFINE n == Len(p)
<1>1. PICK k \in Keys : p = Path(k, n)
  BY PathOfKey
<1>2. n \in 1..PrefixBits
  BY PathOfKey
<1>3. PICK d \in 1..PrefixBits : LeadsToLeaf(tree, k, d)
  BY DEF IInv, TrieShape
<1>4. \A e \in 1..(d - 1) : tree[Path(k, e)] = Node /\ ~Uniform(Content, Path(k, e))
  <2> TAKE e \in 1..(d - 1)
  <2>1. e \in 1..PrefixBits
    BY TrieAssumption
  <2>2. Path(k, e) \in Paths /\ tree[Path(k, e)] = Node
    BY <1>3, <2>1, PathType DEF LeadsToLeaf
  <2> QED BY <2>2 DEF Reduced
<1>5. \A l \in KeysBelow(Path(k, d)) : Content[l] = ValueOf(heap, tree[Path(k, d)].value)
  <2> TAKE l \in KeysBelow(Path(k, d))
  <2>1. Content[l] = Lookup(l)
    BY DEF Content, KeysBelow
  <2> QED BY <1>3, <2>1, LeafIsUniform
<1>6. Uniform(Content, Path(k, d))
  BY <1>5 DEF Uniform
<1>7. \A e \in 1..(n - 1) : SubSeq(p, 1, e) = Path(k, e)
  <2> HIDE DEF n
  <2> QED BY <1>1, <1>2, BelowPath
<1>8. TrieOf(Content)[p] =
        IF \E e \in 1..(n - 1) : Uniform(Content, SubSeq(p, 1, e)) THEN NoLabel
        ELSE IF ~Uniform(Content, p) THEN NodeLabel
        ELSE IF ValueAt(Content, p) = Nil THEN EmptyLabel
        ELSE DataLabel(ValueAt(Content, p))
  BY DEF TrieOf
<1>9. Labels[p] = [kind |-> tree[p].rType, value |-> ValueOf(heap, tree[p].value)]
  BY DEF Labels
<1>10. RecordOK(heap, tree[p])
  BY DEF IInv, RecordsOK
<1> HIDE DEF n
<1>11. CASE n < d
  <2>1. n \in 1..(d - 1) /\ \A e \in 1..(n - 1) : e \in 1..(d - 1)
    BY <1>2, <1>11
  <2>2. TrieOf(Content)[p] = NodeLabel
    BY <1>1, <1>4, <1>7, <1>8, <2>1
  <2>3. tree[p] = Node
    BY <1>1, <1>4, <2>1
  <2>4. Labels[p] = NodeLabel
    BY <1>9, <2>3 DEF NodeLabel, ValueOf, Node
  <2> QED BY <2>2, <2>4
<1>12. CASE n = d
  <2>1. ~ \E e \in 1..(n - 1) : Uniform(Content, SubSeq(p, 1, e))
    BY <1>4, <1>7, <1>12
  <2>2. Uniform(Content, p) /\ p = Path(k, d)
    BY <1>1, <1>6, <1>12
  <2>3. ValueAt(Content, p) = ValueOf(heap, tree[p].value)
    <3>1. k \in KeysBelow(p)
      BY <2>2, BelowPath
    <3>2. (CHOOSE l \in KeysBelow(p) : TRUE) \in KeysBelow(p)
      BY <3>1
    <3> QED BY <1>5, <2>2, <3>2 DEF ValueAt
  <2>4. tree[p].rType \in {"empty", "data"}
    BY <1>3, <2>2 DEF LeadsToLeaf, IsLeaf
  <2>5. CASE tree[p].rType = "empty"
    <3>1. ValueOf(heap, tree[p].value) = Nil
      BY <1>10, <2>5 DEF RecordOK, ValueOf
    <3> QED BY <1>8, <1>9, <2>1, <2>2, <2>3, <2>5, <3>1 DEF EmptyLabel
  <2>6. CASE tree[p].rType = "data"
    <3>1. tree[p].value # NoEntry
      <4>1. tree[p] = [rType |-> tree[p].rType, value |-> tree[p].value]
        BY <1>10 DEF RecordOK, Record
      <4> QED BY <2>6, <4>1 DEF Reduced, Data
    <3>2. ValueOf(heap, tree[p].value) \in Values /\ Nil \notin Values
      BY <1>10, <3>1, TrieAssumption DEF RecordOK, ValueOf
    <3> QED BY <1>8, <1>9, <2>1, <2>2, <2>3, <2>6, <3>2 DEF DataLabel
  <2> QED BY <2>4, <2>5, <2>6
<1>13. CASE n > d
  <2>1. d \in 1..(n - 1)
    BY <1>2, <1>13
  <2>2. TrieOf(Content)[p] = NoLabel
    BY <1>6, <1>7, <1>8, <2>1
  <2>3. tree[p] = NoRecord
    <3>1. n \in (d + 1)..PrefixBits
      BY <1>2, <1>13
    <3> QED BY <1>1, <1>3, <3>1 DEF LeadsToLeaf
  <2>4. Labels[p] = NoLabel
    BY <1>9, <2>3 DEF NoLabel, ValueOf, NoRecord
  <2> QED BY <2>2, <2>4
<1> QED BY <1>2, <1>11, <1>12, <1>13

\* The value of one key says nothing of paths that do not lead to it, and
\* keys below a path are below every path above it.
LEMMA UniformElsewhere ==
  ASSUME NEW c, NEW v, DOMAIN c = Keys, NEW k \in Keys, NEW p, k \notin KeysBelow(p),
         ~Uniform(c, p)
  PROVE  ~Uniform([c EXCEPT ![k] = v], p)
<1>1. PICK l1 \in KeysBelow(p), l2 \in KeysBelow(p) : c[l1] # c[l2]
  BY DEF Uniform
<1>2. l1 \in Keys /\ l2 \in Keys /\ l1 # k /\ l2 # k
  BY DEF KeysBelow
<1>3. [c EXCEPT ![k] = v][l1] = c[l1] /\ [c EXCEPT ![k] = v][l2] = c[l2]
  BY <1>2
<1> QED BY <1>1, <1>3 DEF Uniform

\* Where the joins stop, the keys on both sides differ in their values.
LEMMA JoinsStop ==
  ASSUME HashInjective, IInv, Reduced(tree, Content),
         NEW k \in Keys, NEW v, NEW r, NEW st, GoodWrite(v, r, st),
         NEW m \in 2..PrefixBits, ~Joins(Split(tree, k), k, r, st.heap, m)
  PROVE  LET c == [Content EXCEPT ![k] = v]
         IN  \E l1, l2 \in Keys :
               /\ \A i \in 1..(m - 1) : l1[i] = k[i] /\ l2[i] = k[i]
               /\ c[l1] # c[l2]
<1> DEFINE t == Split(tree, k)
           c == [Content EXCEPT ![k] = v]
           l == [k EXCEPT ![m] = 1 - k[m]]
           s == t[Sibling(k, m)]
<1>1. /\ l \in Keys /\ m \in 1..PrefixBits /\ k[m] # l[m] /\ l # k
      /\ \A i \in 1..(m - 1) : k[i] = l[i]
      /\ Sibling(k, m) = Path(l, m)
  <2>1. m \in 1..PrefixBits /\ k \in [1..PrefixBits -> {0, 1}]
    BY TrieAssumption DEF Keys
  <2>2. 1 - k[m] \in {0, 1} /\ 1 - k[m] # k[m]
    BY <2>1
  <2>3. l \in Keys /\ l[m] = 1 - k[m] /\ \A i \in 1..PrefixBits : i # m => l[i] = k[i]
    BY <2>1, <2>2 DEF Keys
  <2>4. Sibling(k, m) = Path(l, m)
    BY <2>1, <2>3 DEF Sibling, Path
  <2> QED BY <2>1, <2>2, <2>3, <2>4
<1> HIDE DEF l
<1>2. PICK a \in 1..PrefixBits : LeadsToLeaf(tree, k, a)
  BY DEF IInv, TrieShape
<1>3. PICK d \in 1..PrefixBits : LeadsToLeaf(tree, l, d)
  BY <1>1 DEF IInv, TrieShape
<1>4. PICK b \in m..PrefixBits :
        /\ LeadsToLeaf(t, l, b) /\ t[Path(l, b)] = Leaf(tree, l)
        /\ IsLeaf(t[Path(l, m)]) => b = m
  BY <1>1, <1>2, <1>3, SplitAtOther
<1>5. Path(l, m) \in Paths /\ Len(Path(l, m)) = m /\ ~OnPath(Path(l, m), k)
  <2>1. Path(l, m) \in Paths /\ Len(Path(l, m)) = m
    BY <1>1, PathType
  <2>2. Path(l, m)[m] = l[m]
    BY <1>1 DEF Path
  <2> QED BY <1>1, <2>1, <2>2 DEF OnPath
<1>6. CASE b = m
  <2>1. s = Leaf(tree, l) /\ IsLeaf(s)
    BY <1>1, <1>4, <1>6 DEF LeadsToLeaf
  <2>2. s # Data(NoEntry)
    <3>1. Leaf(tree, l) = tree[Path(l, d)] /\ Path(l, d) \in Paths
      BY <1>1, <1>3, LeafIsUnique, PathType
    <3> QED BY <2>1, <3>1 DEF Reduced
  <2>3. RecordOK(st.heap, s) /\ ValueOf(st.heap, s.value) = Lookup(l)
    <3>1. Leaf(tree, l) = tree[Path(l, d)] /\ Path(l, d) \in Paths
      BY <1>1, <1>3, LeafIsUnique, PathType
    <3> QED BY <2>1, <3>1 DEF GoodWrite, RecordsOK, SameValues, ValueOf, Lookup
  <2>4. ValueOf(st.heap, r.value) = v /\ RecordOK(st.heap, r) /\ IsLeaf(r)
        /\ (r.rType = "data" => r.value # NoEntry)
    BY DEF GoodWrite
  <2>5. s.rType = "data" => s.value # NoEntry
    <3>1. s = [rType |-> s.rType, value |-> s.value]
      BY <2>3 DEF RecordOK, Record
    <3> QED BY <2>2, <3>1 DEF Data
  <2>6. ~ (s.rType = r.rType /\ (r.rType = "empty" \/
           (s.value # NoEntry /\ KeyOf(st.heap, s.value) = KeyOf(st.heap, r.value))))
    BY DEF Joins
  <2> HIDE DEF s
  <2>7. ValueOf(st.heap, s.value) # ValueOf(st.heap, r.value)
    <3>1. CASE s.rType = "empty" /\ r.rType = "data"
      BY <2>3, <2>4, <3>1, TrieAssumption DEF RecordOK, ValueOf
    <3>2. CASE s.rType = "data" /\ r.rType = "empty"
      BY <2>3, <2>4, <2>5, <3>2, TrieAssumption DEF RecordOK, ValueOf
    <3>3. CASE s.rType = "data" /\ r.rType = "data"
      BY <2>4, <2>5, <2>6, <3>3 DEF ValueOf, KeyOf
    <3> QED BY <2>1, <2>4, <2>6, <3>1, <3>2, <3>3 DEF IsLeaf
  <2>8. c[l] = Lookup(l) /\ c[k] = v
    BY <1>1 DEF Content
  <2> QED BY <1>1, <2>3, <2>4, <2>7, <2>8
<1>7. CASE b # m
  <2>1. m \in 1..(b - 1)
    BY <1>1, <1>4, <1>7
  <2>2. t[Path(l, m)] = Node
    BY <1>4, <2>1 DEF LeadsToLeaf
  <2>3. IsLeaf(Leaf(tree, k))
    BY <1>2, LeafIsUnique DEF LeadsToLeaf
  <2>4. tree[Path(l, m)] = Node
    BY <1>5, <2>2, <2>3 DEF Split, IsLeaf, Node
  <2>5. ~Uniform(Content, Path(l, m))
    BY <1>5, <2>4 DEF Reduced
  <2>6. k \notin KeysBelow(Path(l, m))
    BY <1>5 DEF KeysBelow
  <2>7. ~Uniform(c, Path(l, m))
    <3>1. DOMAIN Content = Keys
      BY DEF Content
    <3> QED BY <2>5, <2>6, <3>1, UniformElsewhere
  <2>8. PICK l1 \in KeysBelow(Path(l, m)), l2 \in KeysBelow(Path(l, m)) : c[l1] # c[l2]
    BY <2>7 DEF Uniform
  <2>9. /\ l1 \in Keys /\ l2 \in Keys
        /\ \A i \in 1..m : l1[i] = l[i] /\ l2[i] = l[i]
    BY <1>1, <2>8, BelowPath DEF KeysBelow
  <2>10. \A i \in 1..(m - 1) : i \in 1..m
    BY <1>1
  <2> QED BY <1>1, <2>8, <2>9, <2>10
<1> QED BY <1>6, <1>7

\* The joins on the way up go exactly as far as the content allows.
LEMMA AscendReduces ==
  ASSUME HashInjective, IInv, Reduced(tree, Content),
         NEW k \in Keys, NEW v, NEW r, NEW st, GoodWrite(v, r, st), Ascend(k, r, st)
  PROVE  Reduced(tree', Content')
<1> DEFINE t == Split(tree, k)
           c == [Content EXCEPT ![k] = v]
<1>1. PICK m \in 1..PrefixBits : \E j \in (m + 1)..(PrefixBits + 1) :
        /\ JoinsUpTo(t, k, r, st.heap, m)
        /\ tree' = Join(t, k, m, Joined(t, k, r, j))
  BY DEF Ascend
<1>2. PICK j \in (m + 1)..(PrefixBits + 1) :
        /\ JoinsUpTo(t, k, r, st.heap, m)
        /\ tree' = Join(t, k, m, Joined(t, k, r, j))
  BY <1>1
<1>3. Content' = c
  BY AscendStep DEF GoodWrite
<1>4. PICK a \in 1..PrefixBits : LeadsToLeaf(tree, k, a)
  BY DEF IInv, TrieShape
<1> DEFINE x == Joined(t, k, r, j)
<1>5. Leaf(tree, k) = tree[Path(k, a)] /\ Path(k, a) \in Paths /\ IsLeaf(Leaf(tree, k))
  BY <1>4, LeafIsUnique, PathType DEF LeadsToLeaf
<1>6. \A p \in Paths : t[p] # Data(NoEntry) /\ t[p] \in {Node, Leaf(tree, k), tree[p]}
  <2>1. Node # Data(NoEntry) /\ Leaf(tree, k) # Data(NoEntry)
    BY <1>5 DEF Reduced, Node, Data
  <2>2. \A p \in Paths : t[p] \in {Node, Leaf(tree, k), tree[p]}
    BY DEF Split
  <2> HIDE DEF t
  <2> QED BY <2>1, <2>2 DEF Reduced
<1>7. x # Data(NoEntry) /\ x # Node
  <2>1. RecordsOK(t, st.heap)
    BY <1>4, SplitOK DEF GoodWrite
  <2>2. IsLeaf(x)
    <3> HIDE DEF t
    <3> QED BY <1>2, <2>1, JoinedOK DEF GoodWrite
  <2>3. j \in 1..PrefixBits \/ j = PrefixBits + 1
    BY TrieAssumption
  <2>4. x # Data(NoEntry)
    <3>1. CASE j \in 1..PrefixBits
      <4>1. x = t[Sibling(k, j)] /\ Sibling(k, j) \in Paths
        BY <3>1, PathType, TrieAssumption DEF Joined
      <4> HIDE DEF t, x
      <4> QED BY <1>6, <4>1
    <3>2. CASE j = PrefixBits + 1
      <4>1. x = r
        BY <3>2 DEF Joined
      <4> HIDE DEF x
      <4> QED BY <4>1 DEF GoodWrite, Data
    <3> QED BY <2>3, <3>1, <3>2
  <2> QED BY <2>2, <2>4 DEF IsLeaf, Node
<1> HIDE DEF x
<1>8. \A p \in Paths : tree'[p] = IF p = Path(k, m) THEN x
                                  ELSE IF Below(p, k, m) THEN NoRecord ELSE t[p]
  BY <1>2 DEF Join, x
<1>9. ASSUME NEW p \in Paths, tree'[p] = Node PROVE ~Uniform(c, p)
  <2>1. p # Path(k, m) /\ ~Below(p, k, m) /\ t[p] = Node
    BY <1>7, <1>8, <1>9 DEF NoRecord, Node
  <2>2. CASE ~OnPath(p, k)
    <3>1. tree[p] = Node
      BY <1>5, <2>1, <2>2 DEF Split, IsLeaf, Node
    <3>2. ~Uniform(Content, p) /\ k \notin KeysBelow(p) /\ DOMAIN Content = Keys
      BY <2>2, <3>1 DEF Reduced, KeysBelow, Content
    <3> QED BY <3>2, UniformElsewhere
  <2>3. CASE OnPath(p, k)
    <3> DEFINE n == Len(p)
    <3>1. n \in 1..PrefixBits /\ p = Path(k, n)
      <4>1. PICK q \in Keys : p = Path(q, n)
        BY PathOfKey
      <4>2. n \in 1..PrefixBits
        BY PathOfKey
      <4>3. \A i \in 1..n : p[i] = k[i] /\ p[i] = q[i]
        BY <2>3, <4>1 DEF OnPath, Path
      <4>4. \A i \in 1..n : q[i] = k[i]
        BY <4>3
      <4> QED BY <4>1, <4>2, <4>4 DEF Path
    <3>2. n < m
      <4>1. n # m
        BY <2>1, <3>1
      <4>2. ASSUME n > m PROVE Below(p, k, m)
        <5>1. \A i \in 1..m : i \in 1..n
          BY <3>1, <4>2
        <5> QED BY <2>3, <4>2, <5>1 DEF Below, OnPath
      <4> QED BY <2>1, <3>1, <4>1, <4>2
    <3> HIDE DEF n
    <3>3. m \in 2..PrefixBits /\ \A i \in 1..n : i \in 1..(m - 1)
      BY <3>1, <3>2
    <3>4. ~Joins(t, k, r, st.heap, m)
      BY <1>2, <3>3 DEF JoinsUpTo
    <3>5. PICK l1 \in Keys, l2 \in Keys :
            /\ \A i \in 1..(m - 1) : l1[i] = k[i] /\ l2[i] = k[i]
            /\ c[l1] # c[l2]
      BY <3>3, <3>4, JoinsStop
    <3>6. l1 \in KeysBelow(p) /\ l2 \in KeysBelow(p)
      BY <3>1, <3>3, <3>5, BelowPath
    <3> QED BY <3>5, <3>6 DEF Uniform
  <2> QED BY <2>2, <2>3
<1>10. ASSUME NEW p \in Paths PROVE tree'[p] # Data(NoEntry)
  BY <1>6, <1>7, <1>8 DEF NoRecord, Data
<1> QED BY <1>3, <1>9, <1>10 DEF Reduced

LEMMA InsertReduces ==
  ASSUME HashInjective, IInv, NormalForm, NEW k \in Keys, NEW v \in Values \cup {Nil},
         Insert(k, v), InsertResets(v)
  PROVE  NormalForm'
<1> SUFFICES ASSUME ~failed' PROVE Reduced(tree', Content')
  BY DEF NormalForm, Reduced
<1>1. ~failed /\ v \notin Oversized
  BY DEF InsertResets
<1>2. Reduced(tree, Content)
  BY <1>1 DEF NormalForm
<1>3. CASE panicked'
  <2>1. UNCHANGED <<tree, heap>>
    BY <1>3, PanicStep
  <2>2. Content' = Content
    BY <2>1 DEF Content, Lookup
  <2> QED BY <1>2, <2>1, <2>2
<1>4. CASE ~panicked'
  <2>1. PICK r, st : GoodWrite(v, r, st) /\ Ascend(k, r, st)
    BY <1>1, <1>4, InsertAscends
  <2> QED BY <1>2, <2>1, AscendReduces
<1> QED BY <1>3, <1>4

LEMMA SameNormalForm ==
  ASSUME NormalForm, UNCHANGED <<tree, heap, failed>>
  PROVE  NormalForm'
BY DEF NormalForm, Reduced, Content, Lookup

LEMMA InitReduced ==
  ASSUME SerializerInit
  PROVE  NormalForm
BY DEF SerializerInit, Init, NormalForm, Reduced, Empty, NoRecord, Node, Data

LEMMA NextReduces ==
  ASSUME HashInjective, SInv, NormalForm, [SerializerNext]_allVars
  PROVE  NormalForm'
<1>1. ASSUME NEW k \in Keys, NEW v \in Values,
             InsertDefaultNull(k, v), InsertResets(Filtered[v])
      PROVE  NormalForm'
  <2>1. Filtered[v] \in Values \cup {Nil}
    BY ConstantsAssumption
  <2> QED BY <1>1, <2>1, InsertReduces DEF InsertDefaultNull, SInv
<1>2. ASSUME NEW k \in Keys, FindAbsent(k), UNCHANGED fileVars PROVE NormalForm'
  BY <1>2, SameNormalForm DEF FindAbsent, fileVars
<1>3. CASE Serialize
  BY <1>3, SameNormalForm DEF Serialize
<1>4. CASE UNCHANGED allVars
  BY <1>4, SameNormalForm DEF allVars, vars, fileVars
<1> QED BY <1>1, <1>2, <1>3, <1>4, InsertReduces DEF SerializerNext, Calls, SInv

\* If no two values have the same hash, the trie is, until an insert fails, the
\* smallest one of its content: tryMerge joins all that can be joined, so equal
\* content is equal labels and an equal file, whatever inserts led to it.
THEOREM SmallestTrie ==
  ASSUME HashInjective
  PROVE  SerializerSpec => []Canonical
<1>1. SerializerInit => NormalForm
  BY InitReduced
<1>2. SInv /\ NormalForm /\ [SerializerNext]_allVars => NormalForm'
  BY NextReduces
<1>3. SInv /\ NormalForm => Canonical
  BY NormalIsSmallest DEF SInv, NormalForm, Canonical
<1> QED BY <1>1, <1>2, <1>3, WriterInvariance, PTL DEF SerializerSpec

-----------------------------------------------------------------------------
(***************************************************************************)
(* What was proved of the trie holds between calls of Serialize as well.   *)
(***************************************************************************)
LEMMA WriterRefinesStep ==
  ASSUME HashInjective, SInv, [SerializerNext]_allVars
  PROVE  [KV!Next]_Content
<1>1. CASE Serialize
  BY <1>1 DEF Serialize, Content, Lookup
<1>2. CASE [Next]_vars
  BY <1>2, RefinesStep DEF SInv
<1> QED BY <1>1, <1>2 DEF SerializerNext, Calls, Next, allVars, vars

\* If no two values have the same hash, the trie implements the map of
\* KeyValueStore also while it is written to files, completely or not.
THEOREM WriterRefinement ==
  ASSUME HashInjective
  PROVE  SerializerSpec => Refines
<1>1. SerializerInit => KV!Init
  BY RefinesInit DEF SerializerInit
<1>2. SInv /\ [SerializerNext]_allVars => [KV!Next]_Content
  BY WriterRefinesStep
<1> QED BY <1>1, <1>2, WriterInvariance, PTL DEF SerializerSpec, Refines, KV!Spec

\* For fewer inserts than refCount can count, the index has no leak between
\* calls of Serialize either: Serialize reads the storage and no more.
THEOREM WriterHasNoLeak ==
  ASSUME MaxInserts < RefMod
  PROVE  SerializerSpec => []NoLeak
<1>1. SerializerInit => CountInv
  BY InitCounts DEF SerializerInit
<1>2. ASSUME SInv, CountInv, [SerializerNext]_allVars PROVE CountInv'
  <2>1. CASE Serialize
    BY <1>2, <2>1, SameCounts DEF Serialize
  <2>2. CASE [Next]_vars
    BY <1>2, <2>2, NextCounts DEF SInv
  <2> QED BY <1>2, <2>1, <2>2 DEF SerializerNext, Calls, Next, allVars, vars
<1>3. SInv /\ CountInv => NoLeak
  BY CountedHasNoLeak DEF SInv
<1> QED BY <1>1, <1>2, <1>3, WriterInvariance, PTL DEF SerializerSpec
===============================================================================
