\* A file of up to two chunks; it may change, calls may fail, and two passwords.
CONSTANTS
  MaxChunks = 2
  Passwords = {"right", "wrong"}
SPECIFICATION PipeSpec
INVARIANT NilMeansWhole
INVARIANT DecryptNilIsInput
PROPERTY BothEnd
\* When both have ended nothing is left to do.
CHECK_DEADLOCK FALSE
