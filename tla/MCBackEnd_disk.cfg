SPECIFICATION Spec
CONSTANTS
  RollSize = 1
  FlushInterval = 0
  CheckEveryN = 2
  RollPerSeconds = 2
  Lengths = {1}
  MaxLen = 2
  MaxUse = 6
  StartTime = 2
  MaxTime = 4
  LocalTime <- LocalAhead
  ClockStepsBack = TRUE
  Failures = TRUE
  Notice = 0
  MaxAccepted = 3
INVARIANTS
  TypeOK
  FilesInOrder
  CrashKeepsPrefix
PROPERTIES
  OnlyNewestGrows
CHECK_DEADLOCK FALSE
