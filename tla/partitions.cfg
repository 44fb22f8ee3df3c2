\* Up to four keys among five ids, duplicates included, in up to three parts.
CONSTANTS
  MaxId = 4
  MaxKeys = 4
  MaxParts = 3
SPECIFICATION Spec
INVARIANT AnswersAreRight
INVARIANT FilesDivideKeys
\* The writer may die, and the reader may stop asking.
CHECK_DEADLOCK FALSE
