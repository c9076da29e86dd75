SPECIFICATION Spec
CONSTANTS
  MaxBytes = 6
  MaxChunk = 4
INVARIANTS
  TypeOK
  LengthInStep
  NoEmptyBuffer
PROPERTY
  ImplementsQueue
