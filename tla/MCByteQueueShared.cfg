CONSTANTS
  Byte   = {x, y}
  Buffer = {A, B}
  Size   = 3
  NULL   = NULL
  Caller = {thread, interrupt}
  FREE   = FREE

SPECIFICATION SharedSpec

INVARIANTS
  ConsistentBetweenCalls

PROPERTIES
  SharedImplementsFifo
