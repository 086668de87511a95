SPECIFICATION Spec
CONSTANTS
  Requests = {r1, r2}
  ClientIds = {c1}
  FreshIds = {g1, g2}
  MaxEntries = 2
PROPERTY ClosedSessionsAreSaved
CHECK_DEADLOCK FALSE
