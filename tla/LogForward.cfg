SPECIFICATION FairSpec
CONSTANTS
  Threads = {t1, t2}
  Cap = 3
  Batch = 2
  MaxRecords = 5
INVARIANT TypeOK
INVARIANT BufferIsNewest
INVARIANT OnlyOverflowDrops
PROPERTY HandleReturns
PROPERTY Drains
PROPERTY ImplementsChannel
CHECK_DEADLOCK FALSE
