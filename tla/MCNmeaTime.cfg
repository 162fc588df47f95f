CONSTANTS
  Date   <- MCDate
  Minute <- MCMinute
  Offset <- MCOffset
  NONE   = NONE

SPECIFICATION Spec

INVARIANT InstantKept

PROPERTY Ends

CHECK_DEADLOCK FALSE
