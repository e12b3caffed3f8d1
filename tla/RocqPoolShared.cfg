CONSTANTS
  PoolSize = 2
  GroupSize = 2
  MaxSnips = 5
  MaxCalls = 2
SPECIFICATION Spec
INVARIANTS
  NoSharedProofState
CHECK_DEADLOCK FALSE
