SPECIFICATION Spec
CONSTANTS
  MaxCommands = 2
  Kinds = {"plain", "pause", "resume", "foreign", "step", "watch", "explore", "capture", "script", "scene", "scan", "profiler"}
  MaxBatch = 2
  MaxDepth = 2
INVARIANTS NotStartedIsTrue NobodyLeftWaiting GameRunsOnlyIfAsked
PROPERTIES PublishedOnce StartedAlone StartedInOrder
