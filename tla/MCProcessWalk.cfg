\* The loop of process_exit () over the children.
CONSTANTS
  Proc = {main, p1, p2}
  initial_thread = main
  NoProc = NoProc
  LoadResult = {"ok"}
  ExitStatus = {0}
SPECIFICATION Spec
CHECK_DEADLOCK FALSE
INVARIANTS NoFreedChildWalked
