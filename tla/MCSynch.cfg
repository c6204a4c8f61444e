\* Semaphores that threads and a device up, locks and condition variables.
SPECIFICATION KitSpec
CONSTANTS
  t1 = t1
  t2 = t2
  sm = sm
  lk = lk
  cv = cv
  Worker = {main, t1, t2}
  initial_thread = main
  idle_thread = idle_t
  PRI_MIN = 0
  PRI_DEFAULT = 1
  PRI_MAX = 2
  TIME_SLICE = 1
  thread_prior_aging = FALSE
  SleepTicks = {1}
  MaxTick = 1
  Counting = {sm}
  Lock = {lk}
  Cond = {cv}
  CondLock <- OneLock
  NULL = NULL
  MaxValue = 2
SYMMETRY CreatedThreads
INVARIANTS
  WaiterLists
  NoLostWakeup
  LockExclusion
  SignalNotLost
PROPERTIES
  ImplementsThread
