CONSTANTS
  MaxChildren = 2
  MaxDepth = 2
  EncounterBatch = 1
  MaxRepl = 2
  Problems = 1
  NoAnswer = NoAnswer
SPECIFICATION Spec
PROPERTIES
  FallbackCatchesMissed
CHECK_DEADLOCK FALSE
