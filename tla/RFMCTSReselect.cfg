CONSTANTS
  MaxChildren = 2
  MaxDepth = 2
  ExpansionCount = 6
  NoAnswer = NoAnswer
SPECIFICATION Spec
INVARIANTS
  RefutedNotReselected
CHECK_DEADLOCK FALSE
