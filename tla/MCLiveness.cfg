SPECIFICATION FairSpec
CONSTANTS
  Unused = Unused
  \* threads
  Worker = {main, w}
  initial_thread = main
  idle_thread = idle_t
  PRI_MIN = 0
  PRI_DEFAULT = 1
  PRI_MAX = 1
  TIME_SLICE = 1
  thread_prior_aging = TRUE
  SleepTicks = {1}
  MaxTick = 1
  \* processes
  Proc = {init, p1, p2}
  init_process = init
  NoProc = NoProc
  LoadResult = {"ok", "bad_file"}
  ExitStatus = {0}
  p1 = p1
  p2 = p2
  \* the console
  Reader = {r1}
  Writer = {w1}
  None = None
  INTQ_BUFSIZE = 3
  MaxIn = 3
  MaxOut = 3
  \* the disks of a channel
  Caller = {t1, t2}
  t1 = t1
  Sector = {s1}
  Value = {v1}
  NoValue = NoValue
  Kind = {"ata", "none"}
  Failing = {s1, NoValue}
  MaxSpurious = 1
  \* interrupts
  Devices <- Irqs
  Handled <- HandledIrqs
  Internal <- InternalVectors
  Traps <- InternalVectors
  MaxRaise = 2
  OFF = OFF
  ON = ON
CHECK_DEADLOCK FALSE
PROPERTIES
  ReadyThreadsRun
  SleepersWake
  ProcessesProgress
  DevicesProgress
