SPECIFICATION Spec
CONSTANTS
  LogThreads <- SomeThreads
  Levels <- SomeLevels
  NoThread = "none"
  MaxCalls = 2
INVARIANTS
  TypeOK
  FileFollowsConsole
PROPERTIES
  LevelInForce
