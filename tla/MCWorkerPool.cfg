SPECIFICATION PoolFairSpec
CONSTANTS
  Requests = {r1, r2, r3, r4}
  NumWorkers = 2
INVARIANTS
  IdleWorkersReceive
  PermitsMatchWorkers
  InlineOnlyWhenDegraded
PROPERTY EveryCallReturns
CHECK_DEADLOCK FALSE
