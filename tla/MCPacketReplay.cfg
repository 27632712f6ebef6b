CONSTANTS
  w1 = w1
  w2 = w2
  Worker <- OneWorker
  Routes <- SomeRoutes
  RecordKinds = {"foot", "sent"}
  MaxLen = 2
  MaxIndex = 5
  Window = 1
  KeyWindow = 1
  PlayerActs = FALSE
  MenuActs = TRUE
  Remote = FALSE
SPECIFICATION FairSpec
INVARIANTS
  CrashHasCause
  RunningHasRoute
PROPERTIES
  FlagsClear
  MovesOn
