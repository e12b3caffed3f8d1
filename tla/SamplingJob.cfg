CONSTANTS
  Task = {1, 2, 3}
  DataSize = 3
  MaxWorkers = 1
  MaxIterations = 2
  MaxEvaluations = 2
  MaxPlayers = 5
  ProofState = {s1, s2}
  RootId = {r1, r2, r3}
  NoRoot = NoRoot
  Shapes <- MCShapes
  Texts <- MCTexts
  NoFile = NoFile
  Setups <- MCSetups
SPECIFICATION Spec
INVARIANTS
  TypeOK
  EntriesAreFresh
  WorkIsKept
  NovelOnce
  TournamentRanks
  SavedTreeTells
  SessionBeforeCheck
PROPERTIES
  JobEnds
CHECK_DEADLOCK FALSE
