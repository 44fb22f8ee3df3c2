\* Two readers, two addresses, two goroutines that close, and the finalizer.
CONSTANTS
  Readers = {r1, r2}
  Addresses = {a1, a2}
  Goroutines = {g1, g2}
  Finalizer = Finalizer
  None = None
  Heap = Heap
  Files <- SomeFiles
SPECIFICATION Spec
INVARIANT UnmapsItsOwn
INVARIANT NoMappingLost
INVARIANT ReadsItsOwn
INVARIANT OpensWhatWasWritten
PROPERTY CloseReleases
CHECK_DEADLOCK FALSE
