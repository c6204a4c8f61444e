\* The alarm clock: timer_sleep () against ticks, priorities and preemption; and
\* the 4.4BSD scheduler.
SPECIFICATION SchedulerSpec
CONSTANTS
  Unused = Unused
  t1 = t1
  t2 = t2
  Worker = {main, t1, t2}
  initial_thread = main
  idle_thread = idle_t
  PRI_MIN = 0
  PRI_DEFAULT = 1
  PRI_MAX = 1
  TIME_SLICE = 2
  thread_prior_aging = TRUE
  SleepTicks = {1, 2}
  MaxTick = 3
SYMMETRY CreatedThreads
INVARIANTS
  ListsMatchStatus
  HighestPriorityRuns
  SleepsLongEnough
  MlfqsOrder
PROPERTIES
  NobodyOversleeps
