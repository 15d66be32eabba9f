CONSTANTS
  tk = tk
  worker = worker
  reader = reader
  b1 = b1
  b2 = b2
  r1 = r1
  s1 = s1
  None = None
  closer = tk
  Size = 2
  PoolSize = 2
  MaxDepth = 3
  Threads <- MCThreads
  Batches <- MCBatches
  Reads <- MCReads
  Calls <- MCCalls
  Singles <- MCSingles
SPECIFICATION FairSpec
INVARIANTS ConnectionsAccounted AllOrNothing
PROPERTY JobsEnd
CHECK_DEADLOCK FALSE
