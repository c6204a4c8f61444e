\* User programs: exec, wait and exit, and what a program is started with.
\* The machine may stop: main () may power off.
SPECIFICATION UserSpec
CHECK_DEADLOCK FALSE
CONSTANTS
  Proc = {main, p1, p2, p3}
  initial_thread = main
  LoadResult = {"ok", "bad_file"}
  ExitStatus = {0, 1}
  p1 = p1
  p2 = p2
  p3 = p3
  NoProc = NoProc
  NULL = NULL
  Unused = Unused
SYMMETRY Programs
INVARIANTS
  ExecReportsLoad
  ChildrenReaped
  ArgumentsArrive
  PointersChecked
PROPERTIES
  PagesExact
