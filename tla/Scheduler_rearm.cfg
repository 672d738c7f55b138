SPECIFICATION Spec
CONSTANTS
  MAX_TASKS = 3
  MAX_PRIO = 1
  QUANTUM = 1
  BOOST_WINDOW = 2
  HEAP_STACKS = 3
  Resident <- Shell
  Priorities <- OnlyLowest
  NewPriorities <- OnlyLowest
  Deadlines <- SomeDeadlines
  RearmAfterMiss = TRUE
  MAX_TICKS = 2
  MAX_DISABLE = 0
INVARIANTS
  DeadlineListSound
