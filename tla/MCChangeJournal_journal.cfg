SPECIFICATION FairSpec
CONSTANTS
  Procs = {p1, p2}
  NoProc = NoProc
  LockWait = 1
  MaxClock = 1
  kMaxEntries = 3
  MaxCalls = 5
  MaxDamage = 1
INVARIANTS
  NothingUncounted
  MarksAreTrue
PROPERTIES
  ImplementsLog
  WaitEnds
