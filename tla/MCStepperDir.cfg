CONSTANTS
  HalfRange = 3
  MaxDelay  = 3
  CwValue   = 1
  CcwValue  = 0

SPECIFICATION Spec

PROPERTY DirSetup
