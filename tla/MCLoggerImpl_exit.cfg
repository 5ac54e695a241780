SPECIFICATION FairSpec
CONSTANTS
  Names = {n1}
  Objects = {c1, c2}
  Global = global
  Logs = {l1}
  Levels = {1, 2, 5}
  log_level <- SomeLevels
  Callbacks = TRUE
  NDEBUG = FALSE
  Null = null
  MaxMessages = 3
INVARIANTS
  TypeOK
  ConfigAlive
  ByName
PROPERTIES
  ExitCompletes
CHECK_DEADLOCK FALSE
