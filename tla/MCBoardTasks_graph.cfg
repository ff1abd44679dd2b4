SPECIFICATION Spec
CONSTANTS
  p1 = p1
  p2 = p2
  Procs = {p1, p2}
  NoProc = NoProc
  LockWait = 0
  MaxClock = 1
  TaskIds = {1, 2, 3}
  MaxTasks = 2
  Requests <- GraphRequests
SYMMETRY Symm
INVARIANTS BlockedIffWaiting SomethingIsWorkable
