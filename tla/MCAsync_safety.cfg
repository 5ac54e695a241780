CONSTANTS
  SIZE = 2
  Producers = {p1, p2}
  Closers = {c1}
  DropLimit = 2
  MaxPushes = 7
  NDEBUG = FALSE
  Failures = FALSE
SYMMETRY ProducerSymmetry
SPECIFICATION Spec
INVARIANTS
  TypeOK
  BuffersUsable
  HeapAccounted
  FileInOrder
  Conserved
  DropAnnounced
  ExitKeepsPrefix
PROPERTIES
  ImplementsLogStream
