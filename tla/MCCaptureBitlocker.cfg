SPECIFICATION Spec
CONSTANTS
  MaxDev = 1
  MaxCrashes = 0
  Blocks = 1
  Kinds <- WithBitlocker
INVARIANT NoBitlockerCaptured
CHECK_DEADLOCK FALSE
