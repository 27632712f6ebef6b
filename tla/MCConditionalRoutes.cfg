CONSTANTS
  Config = {"a", "b"}
  MaxLoops = 2
  LoopMod = 4
  MaxEntries = 2
  MaxEdits = 4
SPECIFICATION FairSpec
INVARIANTS
  IndexInRange
PROPERTIES
  RoundsKept
  
CHECK_DEADLOCK FALSE
