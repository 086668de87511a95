SPECIFICATION DiskFairSpec
CONSTANTS
  Processes = {"a", "b", "c"}
  Mode <- MCMode
  Faults = {"crash", "host", "stall", "clear", "write", "read"}
  MaxCalls = 1
INVARIANTS
  ArtifactsAreWhole
  CompiledOnce
PROPERTY CallsEnd
CHECK_DEADLOCK FALSE
