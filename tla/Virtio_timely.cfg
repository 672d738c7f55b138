SPECIFICATION VirtioSpec
CONSTANTS
  Sizes = {2, 4}
  IDX_MOD = 8
  Addrs <- AllAddrs
  Sectors = {s0, s1}
  Data = {d0, d1}
  Buffers = {b0}
  LATE = FALSE
  IO_ERRORS = TRUE
  FLUSH = TRUE
  MAX_OVERLAPS = 1
  RxSizes = {2, 4}
  TxSizes = {2}
  NET_IDX_MOD = 4
  NetBuffers = {n0, n1}
  FRAMES = 4
  LateDevices = {FALSE, TRUE}
INVARIANTS
  VirtioTypeOK
  VirtqueueSound
PROPERTIES
  IsBlockDevice
  ReceivedInOrder
  SentInOrder
CHECK_DEADLOCK FALSE
