CONSTANTS
  MaxChildren = 2
  MaxDepth = 3
  ExpansionCount = 3
  MaxValue = 1
  NoAnswer = NoAnswer
SPECIFICATION Spec
PROPERTIES
  LevelByLevel
CHECK_DEADLOCK FALSE
