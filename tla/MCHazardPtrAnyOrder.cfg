CONSTANTS
  NUM_PROCESSES = 2
  MAX_HAZARDPTRS_PER_THREAD = 2
  scanThreshold = 1
  AnyOrder = TRUE
  Records = {a, b}
SPECIFICATION Spec
INVARIANTS NoProtectedFreed
