CONSTANTS
  ByteSize = 4
  StackSize = 2
  Item <- Items
  MaxWrites = 4
SPECIFICATION Spec
INVARIANT BufferFits
PROPERTY ReadsWhatWasWritten
