SPECIFICATION QuietSpec
CONSTANTS
  Threads = {f1, f2, b1}
  Background = {b1}
  Keys = {k1, k2, k3}
  MaxParallel = 1
  MaxQueue = 2
  Capacity = 1
INVARIANT WaitersHaveOwner
PROPERTY CallsDrain
