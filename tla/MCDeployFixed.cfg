SPECIFICATION Spec
CONSTANTS
  MaxPart = 2
  MaxCrashes = 0
  Kinds <- WellFormedKinds
INVARIANT FixedEntriesKept
CHECK_DEADLOCK FALSE
