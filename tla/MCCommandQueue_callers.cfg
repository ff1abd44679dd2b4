SPECIFICATION FairSpec
CONSTANTS
  MaxCommands = 2
  Kinds = {"plain", "foreign", "watch"}
  MaxBatch = 2
  MaxDepth = 1
PROPERTIES EveryCallerReturns
