CONSTANTS
  f1 = f1
  f2 = f2
  Filler = {f1, f2}
  FillLoops = 1
  FillIndex = 2
  LoopMod = 2
  MaxWay = 2
  MaxSize = 3
  MaxCommands = 2
SPECIFICATION FairSpec
INVARIANTS
  
  
  LockReleased
PROPERTIES
  PauseEnds
  FillEnds
CHECK_DEADLOCK FALSE
