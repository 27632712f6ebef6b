CONSTANTS
  w1 = w1
  w2 = w2
  Worker <- Workers
  Routes <- MixedRoutes
  RecordKinds = {}
  MaxLen = 0
  MaxIndex = 4
  Window = 1
  KeyWindow = 1
  PlayerActs = TRUE
  MenuActs = FALSE
  Remote = TRUE
SYMMETRY Symmetry
SPECIFICATION Spec
INVARIANTS
  EnterExitExclusive
  FlagHasThread
  OneThreadPerReplay
 
