SPECIFICATION Spec
CONSTANTS
  MAX_MODELS = 3
  ModelSizes <- TwoSizes
  WorkspaceSizes <- TwoSpaces
  DEFAULT_WORKSPACE = 5
  MAX_LOADS = 4
  MAX_CACHES = 1
  MAX_INFERENCES = 1
  Layers = {l1, l2}
  max_seq_len = 4
  window_size = 2
  Policies <- BothPolicies
  FIXED = FALSE
  Batches <- TwoBatches
  BatchPolicies <- OnlyNone
  SEQUENTIAL = TRUE
  MAX_POS = 7
  MAX_RESETS = 2
  PARALLEL_MAX_THREADS = 4
  MAX_WORKERS = 3
  ThreadCounts <- TooMany
  Totals <- Three
  Chunks <- AutoOrTwo
  Modes <- BothModes
  MAX_TOTAL = 3
  MAX_CALLS = 2
  MAX_CONFIGS = 1
  CREATE_FAILS = TRUE
  OWN_CPU = TRUE
  EARLY_START = TRUE
  SIZE = 2
  CID_MOD = 2
  MAX_IO_BLOCKS = 2
  MAX_BLOCKS = 0
  CAPACITY = 3
  MAX_COUNT = 3
  Data = {d0, d1}
  LATE = FALSE
  MAX_OVERLAPS = 0
SYMMETRY DataSymmetry
INVARIANTS
  ServicesTypeOK
  ActiveSlot
  Accounting
  InBounds
  WindowNewest
  NoStaleWork
  PhaseExact
PROPERTIES
  OnceEach
  ReturnsMoved
  DiskIntended
CHECK_DEADLOCK FALSE
