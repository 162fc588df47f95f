CONSTANTS
  Byte     <- MCByte
  Ascii    <- MCAscii
  Messages <- MCMessages
  Odd      <- MCOdd
  LineMax  = 96
  NONE     = NONE
  NULL     = NULL

SPECIFICATION FixSpec

INVARIANTS
  SnapshotIsLastFix
  FieldsAreSplit
