CONSTANTS
  Byte    <- MCByte
  Ascii   <- MCAscii
  Body    <- MCBody
  Garble  <- MCGarble
  Noise   <- MCNoise
  Stray   <- MCStray
  LineMax = 6
  NONE    = NONE

SPECIFICATION LineSpec

INVARIANT NoPoison
