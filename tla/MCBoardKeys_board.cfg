SPECIFICATION Spec
CONSTANTS
  p1 = p1
  p2 = p2
  x = x
  y = y
  Obj = Obj
  None = None
  Procs = {p1, p2}
  Paths = {1, 2, 3}
  Below <- MCBelow
  Values = {x, y}
  Null = y
  MaxKeys = 2
  MaxExpired = 1
  MaxCleared = 1
  MaxAudit = 1
  MaxClock = 3
  MaxRevision = 3
  Requests <- BoardRequests
SYMMETRY Symm
INVARIANTS Bounded
PROPERTIES PinnedPatchSeesOnlyLapses
