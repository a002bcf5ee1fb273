SPECIFICATION FairSpec
CONSTANTS
  MaxDev = 2
  MaxCrashes = 1
  Blocks = 1
  Kinds <- PlainKinds
INVARIANT TypeOK
INVARIANT CapturedWhole
INVARIANT TruncationVisible
INVARIANT UnlistedWereShrunk
PROPERTY ImplementsTask
PROPERTY Terminates
CHECK_DEADLOCK FALSE
