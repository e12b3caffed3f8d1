CONSTANTS
  MaxChildren = 2
  MaxDepth = 2
  MaxScore = 3
  ExpansionCount = 3
  DefaultWidth = 3
  NoAnswer = NoAnswer
  Setups <- MCSetups
SPECIFICATION Spec
INVARIANTS
  TypeOK
  SelectionIsInformed
  ProofBlocksSiblings
  ProofsAreVerified
PROPERTIES
  ContractSpec
CHECK_DEADLOCK FALSE
