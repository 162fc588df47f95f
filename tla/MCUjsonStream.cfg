CONSTANTS
  Byte    <- MCByte
  Object  <- MCObject
  Noise   = {" ", "7", "z"}
  NUL     = "NUL"
  NONE    = NONE
  MaxKV   = 2
  StrMax  = 3
  MsgMax  = 1
  IntHalf = 128
  LongHalf = 256

SPECIFICATION StreamSpec

INVARIANTS
  NoPhantom
  LossIsBounded
