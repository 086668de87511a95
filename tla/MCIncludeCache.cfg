SPECIFICATION FairSpec
CONSTANTS
  Workers = {"a", "b"}
  MaxCalls = 3
  Modes <- MCModes
  MaxChanges = 1
INVARIANTS
  ServesCurrentFiles
  IncludesCompileOnce
PROPERTY
  IncludesEnd
CHECK_DEADLOCK FALSE
