SPECIFICATION PoolFairSpec
CONSTANTS
  PARALLEL_MAX_THREADS = 3
  MAX_WORKERS = 2
  ThreadCounts <- TooMany
  Totals <- TwoTotals
  Chunks <- AutoOrTwo
  Modes <- BothModes
  MAX_TOTAL = 3
  MAX_CALLS = 1
  MAX_CONFIGS = 0
  CREATE_FAILS = FALSE
  OWN_CPU = FALSE
  EARLY_START = FALSE
PROPERTIES
  CallReturns
CHECK_DEADLOCK FALSE
