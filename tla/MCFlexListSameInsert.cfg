CONSTANTS
  NumWorkers = 2
  Keys = {1}
  minKey = 0
  maxKey = 9
  MAX_LEVEL = 4
  Scripts <- MCSameInsert
SPECIFICATION Spec
INVARIANT SizeMatches
