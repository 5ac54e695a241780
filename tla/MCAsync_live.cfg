CONSTANTS
  SIZE = 2
  Producers = {p1}
  Closers = {c1, c2}
  DropLimit = 2
  MaxPushes = 4
  NDEBUG = TRUE
  Failures = FALSE

SPECIFICATION FairSpec
PROPERTIES
  ShutdownCompletes
  FlushedUnlessParked
