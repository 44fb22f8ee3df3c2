\* Four values out of ten, that share parts, in every order.
CONSTANTS
  Items <- SomeItems
  DataItems <- SomeDataItems
  CellsOf <- Cells
  Rest <- Filter
  AllParts <- PartsOf
  Depth <- Nesting
  Paths <- SomePaths
  Types <- SomeTypes
  Queries <- SomeQueries
  HasSubstring <- SameText
  Lower <- LowerB
  Itoa <- Numeral
  MaxWrites = 4
  MaxDepth = 5
SPECIFICATION Spec
INVARIANT RoundTrip
INVARIANT PathsDecode
INVARIANT PointersAreDirect
INVARIANT PartsStand
INVARIANT Shares
INVARIANT FilterKeepsTheRest
INVARIANT DecodesIntoTypes
INVARIANT CallsSpell
INVARIANT WhereFinds
INVARIANT ValidateVerdict
CHECK_DEADLOCK FALSE
