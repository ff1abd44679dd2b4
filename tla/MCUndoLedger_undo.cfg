SPECIFICATION Spec
CONSTANTS
  Scenes = {s1, s2}
  NoScene = NoScene
  DidiNames = {dn}
  PersonNames = {pn}
  Capacity = 3
  MaxHistories = 2
  MaxRuns = 2
  MaxSteps = 6
SYMMETRY MCSymmetry
INVARIANTS
  VerdictIsTrue
  OfferedWhenKnown
CHECK_DEADLOCK FALSE
