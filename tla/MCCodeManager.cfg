SPECIFICATION FairSpec
CONSTANTS
  Threads = {t1, t2, t3}
  Functions = {"f"}
  Keys = {"before", "after", "optimized"}
  Root <- MCRoot
  Entries <- MCEntries
  Tier <- MCTier
  Mode <- MCMode
  CodeLimit = 2
  GenerationLimit = 1
  Size <- MCSize
  MaxQueue = 1
  MaxCalls = 4
INVARIANTS
  TargetsAreLive PublicationsHaveCells CodeIsBounded
PROPERTY CallsReturn
CHECK_DEADLOCK FALSE
