SPECIFICATION Spec
CONSTANTS
  Nets <- NetsWaiting
  Uninitialised <- MCUninitialised
  MaxEvents = 80
INVARIANT NothingMissed
CHECK_DEADLOCK FALSE
