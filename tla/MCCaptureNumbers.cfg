SPECIFICATION Spec
CONSTANTS
  MaxDev = 3
  MaxCrashes = 0
  Blocks = 1
  Kinds <- PlainKinds
INVARIANT FixedNamesPartitions
CHECK_DEADLOCK FALSE
