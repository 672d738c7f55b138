SPECIFICATION Spec
CONSTANTS
  Sizes = {2, 4}
  IDX_MOD = 8
  Addrs <- AllAddrs
  Sectors = {s0, s1}
  Data = {d0, d1}
  Buffers = {b0}
  LATE = TRUE
  IO_ERRORS = TRUE
  FLUSH = TRUE
  MAX_OVERLAPS = 1
PROPERTIES
  ReadReturnsSector
CHECK_DEADLOCK FALSE
