\* A program that cannot be given its page directory or Fd_table.
CONSTANTS
  Proc = {main, p1}
  initial_thread = main
  NoProc = NoProc
  LoadResult = {"no_memory"}
  ExitStatus = {0}
SPECIFICATION Spec
CHECK_DEADLOCK FALSE
INVARIANTS ExecReportsLoad
