CONSTANTS
  Byte    <- MCByte
  NUL     = "NUL"
  NONE    = NONE
  MaxKV   = 2
  StrMax  = 2
  MsgMax  = 2
  IntHalf = 8
  LongHalf = 16

SPECIFICATION Spec

INVARIANTS
  TypeOK
  SlotReserved
  SlotsTerminated
  NothingStale
