\* 82 contents of eight keys and two values, every query, closed at any time.
CONSTANTS
  v1 = v1
  v2 = v2
  PrefixBits = 3
  Values = {v1, v2}
  Nil = Nil
  Hash <- InjectiveHash
  NodeLimit = 65536
  Separator = 16
  Contents <- SomeContents
  RangeStack = 3
  WhereStack = 6
  Mapped = TRUE
SPECIFICATION Spec
INVARIANT IdLeadsBack
PROPERTY CursorSpec
PROPERTY Terminates
\* A behaviour has one query; afterwards nothing is left to do.
CHECK_DEADLOCK FALSE
