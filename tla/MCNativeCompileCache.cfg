SPECIFICATION Spec
CONSTANTS
  Threads = {f1, f2, f3, b1}
  Background = {b1}
  Keys = {k1, k2, k3, k4}
  MaxParallel = 1
  MaxQueue = 2
  Capacity = 2
SYMMETRY Symmetry
INVARIANTS
  SingleFlight
  PermitsMatchCompilers
  QueueCountersMatch
  WakeupPending
  LruMatchesEntries
PROPERTY ForegroundFirst
CHECK_DEADLOCK FALSE
