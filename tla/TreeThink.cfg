CONSTANTS
  MaxChildren = 2
  MaxDepth = 2
  EncounterBatch = 2
  MaxRepl = 2
  Problems = 2
  NoAnswer = NoAnswer
SPECIFICATION Spec
INVARIANTS
 TypeOK
 VerifiedIsCorrect
 AnswersItsProblem
 ReliableServiceLosesNothing
PROPERTIES
 UncachedFallbackCatchesMissed
CHECK_DEADLOCK FALSE
