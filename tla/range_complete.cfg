\* Does a range miss a key?
CONSTANTS
  v1 = v1
  v2 = v2
  PrefixBits = 2
  Values = {v1}
  Nil = Nil
  Hash <- InjectiveHash
  NodeLimit = 65536
  Separator = 16
  Contents <- SomeContents
  RangeStack = 2
  WhereStack = 4
  Mapped = FALSE
SPECIFICATION Spec
INVARIANT RangeComplete
\* A behaviour has one query; afterwards nothing is left to do.
CHECK_DEADLOCK FALSE
