SPECIFICATION Spec
CONSTANTS
  Requests = {r1, r2, r3}
  ClientIds = {c1}
  FreshIds = {g1, g2}
  MaxEntries = 2
SYMMETRY Symmetry
INVARIANTS
  StoreIsBounded
  SessionsDoNotMix
  StoredIsReachable
PROPERTY
  OnlyStartedSessionsTouchStore
CHECK_DEADLOCK FALSE
