CONSTANTS
  Threads = {1, 2, 3, 4}
  Keys = {1, 2, 3, 4, 5}
  KEY_NEG_INFTY = 0
  OVL_BITS_BEFORE_OVERFLOW = 8
  Scripts <- MCRepair
SPECIFICATION Spec
INVARIANT BalancedWhenQuiet
