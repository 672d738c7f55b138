SPECIFICATION Spec
CONSTANTS
  MAX_TASKS = 3
  MAX_PRIO = 1
  QUANTUM = 1
  BOOST_WINDOW = 1
  HEAP_STACKS = 3
  Resident <- Shell
  Priorities <- TwoPrios
  NewPriorities <- TwoPrios
  Deadlines <- MissAndNear
  RearmAfterMiss = FALSE
  MAX_TICKS = 2
  MAX_DISABLE = 1
INVARIANTS
  TypeOK
  QueueExact
  QueueSorted
  RunningExecutes
  SuspendedResumable
  NearDeadlineBoosted
  DeadlineListSound
PROPERTIES
  DispatchHighest
