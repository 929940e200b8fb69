CONSTANTS
  Devices = {a, b}
  Ids = {i1, i2, i3, i4}
  Bodies = {x}
  Workers = 2
  DeviceQuota = 2
  GlobalQuota = 3
  MaxTtl = 1
  MaxNow = 2
  MaxInserted = 4
SYMMETRY Symmetry
SPECIFICATION Spec
INVARIANTS
  WithinQuotas
  RetryIsAccepted
  HandedOutInOrder
PROPERTIES
  ImplementsMailbox
CHECK_DEADLOCK FALSE
