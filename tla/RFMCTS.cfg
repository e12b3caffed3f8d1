CONSTANTS
  MaxChildren = 2
  MaxDepth = 2
  ExpansionCount = 5
  NoAnswer = NoAnswer
SPECIFICATION Spec
INVARIANTS
  TypeOK
  VisitFlow
  RefutationIsLocal
  UnvisitedFirst
  RefutedIsLastResort
PROPERTIES
  RefutedStaysRefuted
  ContractSpec
CHECK_DEADLOCK FALSE
