SPECIFICATION FairSpec
CONSTANTS
  t1 = t1  t2 = t2  t3 = t3  t4 = t4
  h1 = h1  h2 = h2  h3 = h3
  Threads <- MCThreads
  Handles <- MCHandles
  PoolSize = 2
  NoHandle = NoHandle
  NoThread = NoThread
PROPERTY ServiceResumesAfterOutage
