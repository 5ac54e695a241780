CONSTANTS
  SIZE = 2
  Producers = {p1}
  Closers = {c1}
  DropLimit = 2
  MaxPushes = 4
  NDEBUG = TRUE
  Failures = FALSE

SPECIFICATION Spec
INVARIANTS
  WaitDoneFlushes
