CONSTANTS
  Threads = {1, 2, 3}
  Keys = {1, 2, 3}
  minKey = 0
  maxKey = 3
  MAX_LEVEL = 2
  Scripts <- MCAll
SPECIFICATION FairSpec
INVARIANTS LiveNodesReached CleanWhenQuiet SizeMatches
PROPERTIES ImplementsDictionary EveryCallReturns
