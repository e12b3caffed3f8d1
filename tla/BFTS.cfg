CONSTANTS
  MaxChildren = 2
  MaxDepth = 2
  ExpansionCount = 4
  MaxValue = 1
  NoAnswer = NoAnswer
SPECIFICATION Spec
INVARIANTS
  TypeOK
  LossesAreCounted
  FrontierIsFresh
PROPERTIES
  BestFirst
  ContractSpec
CHECK_DEADLOCK FALSE
