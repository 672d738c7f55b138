SPECIFICATION HeapSpec
CONSTANTS
  HEAP_WORDS = 56
  HEADER = 4
  MIN_BLOCK_SIZE = 8
  ALIGNMENT = 2
  OBJ_SIZE = 4
  PAGE_WORDS = 512
  Lengths = {3, 10}
  Alignments = {8}
  MAX_LIVE = 2
INVARIANTS
  ReallocKeepsData
