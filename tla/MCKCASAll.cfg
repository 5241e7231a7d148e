CONSTANTS
  Threads = {1, 2, 3}
  Addrs = {1, 2}
  Scripts <- All
SPECIFICATION FairSpec
INVARIANT OnlyFailedLeaveLocks
PROPERTIES ImplementsMultiCAS EveryCallReturns
