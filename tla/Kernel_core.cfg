SPECIFICATION KernelSpec
CONSTANTS
  t1 = t1
  h1 = h1
  Threads = {t1, t2}
  Handlers = {h1}
  Cpu <- FirstCpu
  TICKETS = 4
  SEMA = 1
  MAX_SIGNALS = 2
  HEAP_WORDS = 56
  HEADER = 4
  MIN_BLOCK_SIZE = 8
  ALIGNMENT = 2
  OBJ_SIZE = 4
  PAGE_WORDS = 512
  Lengths = {3, 10}
  Alignments = {8}
  MAX_LIVE = 4
INVARIANTS
  LocksTypeOK
  SpinExclusive
  IrqSafe
  WordsCountHolders
  SignalOnce
  HeapSound
  LiveOwned
PROPERTIES
  TicketServed
