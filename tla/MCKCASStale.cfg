CONSTANTS
  Threads = {1, 2}
  Addrs = {1, 2}
  Scripts <- Late
SPECIFICATION Spec
INVARIANT UnlockedWhenQuiet
