SPECIFICATION FairSpec
CONSTANTS
  Requests = {r1, r2, r3}
  InFlightLimit = 2
  NumWorkers = 2
INVARIANTS
  CpuPermitsConserved
  InFlightConserved
  UploadsOwned
  AnswerAfterCleanup
PROPERTY EveryRequestEnds
CHECK_DEADLOCK FALSE
