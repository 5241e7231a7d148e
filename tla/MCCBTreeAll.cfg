CONSTANTS
  Threads = {0, 1, 2, 3}
  Keys = {1, 2, 3, 4, 5, 6}
  max_key = 9
  Scripts <- MCAll
SPECIFICATION FairSpec
INVARIANTS KeysFound WeightsAddUp Alone
PROPERTIES RotationPays ImplementsDictionary EveryCallReturns
