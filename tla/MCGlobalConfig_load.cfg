SPECIFICATION Spec
CONSTANTS
  Cap = 3
  MB = 16
  IntMax = 32767
  Characters = {"a", "b", "c", "d", "e"}
  Files <- MoreFiles
  Literals <- TwoLiterals
  RollSizes <- SomeSizes
  FlagSets <- SomeFlags
  SameSum <- Anagrams
  MaxCalls = 4
INVARIANTS
  TypeOK
  RollSizeInRange
PROPERTIES
  LoadSaveLoad
  FailedLoadKeeps
CHECK_DEADLOCK FALSE
