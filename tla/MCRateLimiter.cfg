CONSTANTS
  Devices = {a, b}
  NoDevice = NoDevice
  Malformed = Malformed
  Threads = {w1, w2}
  NoCall = NoCall
  Limit = 1
  WindowSecs = 2
  MaxTrackedKeys = 2
  MaxDelay = 1
  MaxBack = 1
  MaxTime = 5
  MaxCalls = 5
SYMMETRY Symmetry
SPECIFICATION LimiterSpec
INVARIANTS
  Burst
  OpensInACrowd
  RefusedForItsCalls
CHECK_DEADLOCK FALSE
