CONSTANTS
  Byte   = {x, y}
  Buffer = {A, B}
  Size   = 3
  NULL   = NULL

SPECIFICATION Spec

INVARIANTS
  TypeOK
  RingConsistent

PROPERTIES
  WritesOnlyFreeSlots
  ImplementsFifo
