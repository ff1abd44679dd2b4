SPECIFICATION Spec
CONSTANTS
  MaxCommands = 2
  Kinds = {"plain", "script"}
  MaxBatch = 2
  MaxDepth = 1
INVARIANTS NobodyLeftWaitingAtAll
