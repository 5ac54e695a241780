CONSTANTS
  Threads = {t1, t2}
  Levels = {0, 4, 5}
  Threshold = 4
  OwnThreshold = 5
  FileLogging = TRUE
  Console = TRUE
  NDEBUG = FALSE
  MaxCalls = 3
  MaxDepth = 3
SYMMETRY ThreadSymmetry
SPECIFICATION Spec
CHECK_DEADLOCK FALSE
INVARIANTS
  TypeOK
  LevelKept
  PassedIsAccepted
  StoppedByFatal
  AssertionThrows
