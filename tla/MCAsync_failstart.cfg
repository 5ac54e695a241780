CONSTANTS
  SIZE = 2
  Producers = {p1}
  Closers = {c1}
  DropLimit = 2
  MaxPushes = 2
  NDEBUG = TRUE
  Failures = TRUE

SPECIFICATION FairSpec
CHECK_DEADLOCK FALSE
PROPERTIES
  ConstructorAnswers
