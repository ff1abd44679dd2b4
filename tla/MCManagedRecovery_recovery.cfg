SPECIFICATION Spec
CONSTANTS
  Kept = 5
  MaxMutations = 2
  MaxRestores = 2
  MaxPoints = 1
  MaxFaults = 1
  MaxLaunches = 4
CHECK_DEADLOCK FALSE
INVARIANTS
  UnsettledIsRecorded
  CompletedIsProtected
  BeforeIsKept
  MissingProjectIsPreserved
PROPERTIES
  NeverSentToRestarted
