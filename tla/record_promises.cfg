\* Which of the five promises about records holds in every file?
CONSTANTS
  Items <- SomeItems
  DataItems <- SomeDataItems
  CellsOf <- Cells
  Rest <- Filter
  AllParts <- PartsOf
  Depth <- Nesting
  Paths <- SomePaths
  Types <- SomeTypes
  Queries <- SomeQueries
  HasSubstring <- SameText
  Lower <- LowerB
  Itoa <- Numeral
  MaxWrites = 5
  MaxDepth = 5
SPECIFICATION Spec
INVARIANT OnePromiseStands
CHECK_DEADLOCK FALSE
