SPECIFICATION Spec
CONSTANTS
  p1 = p1
  p2 = p2
  Procs = {p1, p2}
  NoProc = NoProc
  LockWait = 1
  MaxClock = 3
  TaskIds = {1, 2}
  MaxTasks = 1
  Requests <- ResourceRequests
SYMMETRY Symm
INVARIANTS ResourceShowsNoGhost
