SPECIFICATION FairSpec
CONSTANTS
  MaxPart = 2
  MaxCrashes = 1
  Kinds <- WithBrace
INVARIANT TypeOK
INVARIANT DeployedWhole
INVARIANT GrownFillsEntry
INVARIANT FailureIsExhausted
PROPERTY ImplementsTask
PROPERTY Terminates
CHECK_DEADLOCK FALSE
