CONSTANTS
  Task = {t1, t2}
  Snippet = {p, q, s}
  MaxLimit = 2
  MaxSnips = 2
  MaxChecks = 3
SPECIFICATION Spec
INVARIANTS
  TypeOK
  AnswersAreAbout
  CacheIsRecent
PROPERTIES
  SerialVerdictsStay
CHECK_DEADLOCK FALSE
