CONSTANTS
  t1 = t1
  t2 = t2
  t3 = t3
  Threads <- MCThreads
  numCores = 2
  thread2idx <- MCThread2Idx
SPECIFICATION AnySpec
INVARIANTS MutualExclusion NoUnlockError NodesAllocated
PROPERTIES ImplementsRWLock OthersImplementRWLock FavouredGetsIn
