SPECIFICATION NvmeSpec
CONSTANTS
  SIZE = 4
  CID_MOD = 4
  MAX_IO_BLOCKS = 1
  MAX_BLOCKS = 0
  CAPACITY = 1
  MAX_COUNT = 1
  Data = {d0}
  LATE = TRUE
  MAX_OVERLAPS = 1
PROPERTIES
  GivesUpUnanswered
CHECK_DEADLOCK FALSE
