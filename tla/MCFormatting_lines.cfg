SPECIFICATION Spec
CONSTANTS
  Threads = {t1}
  Worker = worker
  Configs <- SomeConfigs
  Messages <- SomeMessages
  Known = {2}
  Offset <- Summer
  Standard <- HalfPast
  MaxTime = 2
  NDEBUG = FALSE
  MaxCalls = 2
  MaxDepth = 2
INVARIANTS
  TypeOK
  ContextOfOwn
  SinksAgree
  CustomAsRead
  ColorfulAsDefault
  ColoursStay
  TimeIsCurrent
CHECK_DEADLOCK FALSE
