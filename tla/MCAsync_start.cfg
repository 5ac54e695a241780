CONSTANTS
  SIZE = 2
  Producers = {p1}
  Closers = {c1, c2}
  DropLimit = 2
  MaxPushes = 5
  NDEBUG = TRUE
  Failures = TRUE
SYMMETRY ThreadSymmetry
SPECIFICATION Spec
CHECK_DEADLOCK FALSE
INVARIANTS
  LastCallStops
  WorkerReadyBeforeUse
