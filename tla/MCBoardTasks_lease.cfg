SPECIFICATION Spec
CONSTANTS
  p1 = p1
  p2 = p2
  Procs = {p1, p2}
  NoProc = NoProc
  LockWait = 1
  MaxClock = 4
  TaskIds = {1, 2}
  MaxTasks = 1
  Requests <- LeaseRequests
SYMMETRY Symm
INVARIANTS TypeOK NoLostUpdate LeaseExclusive LeaseHonoured
PROPERTIES CompletedForever OnlyHolderChanges
