CONSTANTS
  Threads = {1, 2, 3, 4}
  Keys = {1, 2, 3, 4, 5, 6, 7, 8, 9, 10, 11, 12}
  KEY_NEG_INFTY = 0
  OVL_BITS_BEFORE_OVERFLOW = 1
  Scripts <- MCAll
SPECIFICATION FairSpec
INVARIANTS ChangesUnderLock SearchTreeWhenQuiet NoNeedlessWhenQuiet BalancedWhenAlone
PROPERTIES OwnerChanges ImplementsDictionary EveryCallReturns
