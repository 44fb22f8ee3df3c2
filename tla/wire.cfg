\* Three values at offsets around the limits of every pointer width.
CONSTANTS
  Payloads <- SomePayloads
  Ints <- SomeIntegers
  Starts <- SomeStarts
  MaxWrites = 3
SPECIFICATION Spec
INVARIANT ReadsBack
INVARIANT StepsOver
INVARIANT PointersSave
CHECK_DEADLOCK FALSE
