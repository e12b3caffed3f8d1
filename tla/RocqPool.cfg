CONSTANTS
  PoolSize = 2
  GroupSize = 1
  MaxSnips = 3
  MaxCalls = 2
SPECIFICATION Spec
INVARIANTS
  TypeOK
  ThreadsDoNotShare
  NoConnectionLost
  NothingLeftBehind
PROPERTIES
  EveryCheckEnds
CHECK_DEADLOCK FALSE
