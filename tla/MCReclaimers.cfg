CONSTANTS
  NUM_PROCESSES = 3
  numThreadsPow2 = 4
  MIN_OPS_BEFORE_READ = 1
  MIN_TIME_BEFORE_TRY_ADVANCE = 1
  MaxEpoch = 8
  DebraProcesses = 2
  DebraMaxEpoch = 8
  Records = {r1}
  HazardProcesses = 2
  HazardRecords = {r1, r2}
  MAX_HAZARDPTRS_PER_THREAD = 2
  scanThreshold = 1
SPECIFICATION Spec
INVARIANTS ScanInRange NoProtectedFreed
PROPERTIES GracePeriodKept ReclamationGoesOn
