CONSTANTS
  NumWorkers = 2
  Keys = {1, 2, 3, 4, 5, 6}
  minKey = 0
  maxKey = 9
  MAX_LEVEL = 5
  Scripts <- MCAll
SPECIFICATION FairSpec
INVARIANTS BottomLevelComplete NoNullDereference HoldsItsLocks HeightBound EveryAccessCounted LevelsAddUp NobodyOverdue
PROPERTIES ImplementsDictionary EveryCallReturns
