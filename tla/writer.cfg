\* Six of eight keys, two values and one that cannot be serialized; files of
\* more than five nodes exceed NodeLimit.
CONSTANTS
  v1 = v1
  v2 = v2
  v3 = v3
  PrefixBits = 3
  Values = {v1, v2, v3}
  Oversized = {v3}
  Nil = Nil
  Hash <- InjectiveHash
  Filtered <- FilterFields
  EntryIds = {e1, e2, e3, e4}
  NoEntry = NoEntry
  RefMod = 65536
  MaxInserts = 4
  NodeLimit = 22
  Separator = 16
  NoFile = NoFile
SPECIFICATION WriterSpec
VIEW LiveState
SYMMETRY EntrySymmetry
INVARIANT TypeOK
INVARIANT TrieShape
INVARIANT NoLeak
INVARIANT CountStands
INVARIANT FileIsTree
INVARIANT Canonical
PROPERTY InsertIsPut
PROPERTY Refines
PROPERTY FileHoldsContent
\* The client may stop calling, and a panic ends the process.
CHECK_DEADLOCK FALSE
