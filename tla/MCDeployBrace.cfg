SPECIFICATION Spec
CONSTANTS
  MaxPart = 2
  MaxCrashes = 0
  Kinds <- WithBrace
INVARIANT EveryPartRestored
CHECK_DEADLOCK FALSE
