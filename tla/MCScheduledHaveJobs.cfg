SPECIFICATION Spec
CONSTANTS
  Requests = {r1, r2}
  Keys = {f, g}
  Threshold = 1
  MaxHeat = 1
  MaxFunctions = 2
  MaxUs = 2
  MaxJobUs = 1
  BatchCapacity = 2
  Panics = FALSE
CHECK_DEADLOCK FALSE
INVARIANT ScheduledHaveJobs
