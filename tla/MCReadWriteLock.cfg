SPECIFICATION FairSpec
CONSTANTS
  t1 = t1
  t2 = t2
  t3 = t3
  g1 = g1
  g2 = g2
  g3 = g3
  g4 = g4
  Threads <- MCThreads
  Guards <- MCGuards
  ThreadOf <- MCThreadOf
CHECK_DEADLOCK FALSE
INVARIANTS
  ReadersCounted
  NoLostWakeup
  NestedReadNeverBlocks
PROPERTIES
  ImplementsSharedLock
  EveryCallReturns
