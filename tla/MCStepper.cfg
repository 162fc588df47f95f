CONSTANTS
  HalfRange = 3
  MaxDelay  = 3
  CwValue   = 1
  CcwValue  = 0

SPECIFICATION FairSpec

INVARIANTS
  TypeOK
  PositionTracksMotor
  RateKept

PROPERTIES
  PulseTiming
  ImplementsPositioner
  Settles
