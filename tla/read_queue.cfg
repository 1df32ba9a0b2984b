SPECIFICATION FairSpec
CONSTANTS
  Size = 4
  Bytes = {0, 1, 2}
INVARIANTS
  TypeOK
PROPERTIES
  IsFifo
  IsFairFifo
