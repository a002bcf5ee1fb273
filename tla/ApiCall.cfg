SPECIFICATION FairSpec
CONSTANTS
  MaxAttempts = 5
INVARIANT TypeOK
INVARIANT OkMeansPerformed
INVARIANT PausesBounded
PROPERTY ImplementsCall
PROPERTY Returns
CHECK_DEADLOCK FALSE
