SPECIFICATION FairSpec
CONSTANTS
  MAX_TASKS = 2
  MAX_PRIO = 1
  QUANTUM = 1
  BOOST_WINDOW = 2
  HEAP_STACKS = 3
  Resident <- NoSlots
  Priorities <- OnlyLowest
  NewPriorities <- OnlyLowest
  Deadlines <- EarlyDeadlines
  RearmAfterMiss = FALSE
  MAX_TICKS = 2
  MAX_DISABLE = 0
PROPERTIES
  ScheduleReturns
  EqualsShare
CHECK_DEADLOCK FALSE
