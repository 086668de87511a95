SPECIFICATION FairSpec
CONSTANTS
  Requests = {r1, r2}
  Keys = {f, g}
  Threshold = 1
  MaxHeat = 2
  MaxFunctions = 2
  MaxUs = 1
  MaxJobUs = 2
  BatchCapacity = 1
  Panics = TRUE
CHECK_DEADLOCK FALSE
INVARIANTS FunctionBudget TimeBudget OneJobPerKey FailuresAreFinal
PROPERTY PendingJobsRun
