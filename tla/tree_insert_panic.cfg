\* An insert after a failed one.
CONSTANTS
  v1 = v1
  v2 = v2
  v3 = v3
  PrefixBits = 2
  Values = {v1, v2}
  Oversized = {v2}
  Nil = Nil
  Hash <- InjectiveHash
  Filtered <- FilterFields
  EntryIds = {e1, e2, e3}
  NoEntry = NoEntry
  RefMod = 65536
  MaxInserts = 3
SPECIFICATION Spec
SYMMETRY EntrySymmetry
PROPERTY InsertNeverPanics
\* The client may stop calling, and a panic ends the process.
CHECK_DEADLOCK FALSE
