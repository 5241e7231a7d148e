CONSTANTS
  Threads = {1}
  Keys = {2}
  minKey = 0
  maxKey = 3
  MAX_LEVEL = 2
  Scripts <- MCAsks
SPECIFICATION Spec
PROPERTY ImplementsDictionary
