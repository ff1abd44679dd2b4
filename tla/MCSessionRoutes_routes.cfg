SPECIFICATION Spec
CONSTANTS
  srv1 = srv1
  srv2 = srv2
  loop1 = loop1
  loop2 = loop2
  job2 = job2
  editor = editor
  game = game
  n1 = n1
  n2 = n2
  Procs <- MCProcs
  Threads <- MCThreads
  ProcOf <- MCProcOf
  Sessions <- MCSessions
  Editors <- MCEditors
  NoSession = NoSession
  Inodes <- MCInodes
  NoInode = NoInode
  MaxRoutes = 1
  MaxCalls = 3
SYMMETRY MCSymmetry
CHECK_DEADLOCK FALSE
INVARIANTS
  OneOwner
  LockFollowsUse
  SelectedIsHeld
PROPERTIES
  ReleasedStaysReleased
