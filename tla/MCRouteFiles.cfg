CONSTANTS
  i1 = i1
  i2 = i2
  Id = {i1, i2}
  Element <- Elements
  Recordings <- SomeRecordings
  Foreign <- OtherVersions
  MaxStops = 1
  MaxClicks = 5
  MaxGarbage = 1
SYMMETRY IdSymmetry
SPECIFICATION Spec
INVARIANTS
  ListMatchesDisk
PROPERTIES
  LoadsWhatWasSaved
  GoodFilesStay
CHECK_DEADLOCK FALSE
