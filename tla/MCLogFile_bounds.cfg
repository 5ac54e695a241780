CONSTANTS
  RollSize = 3
  FlushInterval = 1
  CheckEveryN = 3
  RollPerSeconds = 3
  Lengths = {1, 2}
  MaxLen = 2
  MaxUse = 10
  StartTime = 2
  MaxTime = 5
  LocalTime <- LocalAhead
  ClockStepsBack = FALSE
  Failures = FALSE
SPECIFICATION Spec
CHECK_DEADLOCK FALSE
INVARIANTS
  TypeOK
  LateBytesBounded
  StaleBounded
  OverdueBounded
