CONSTANTS
  Workers = {w1, w2}
  Admin = admin
  MaxHolds = 2
  MaxRequests = 2
  MaxPanics = 1
  MaxErrors = 1
SPECIFICATION FairSpec
INVARIANTS
  NothingAfterTheCheckpoint
PROPERTIES
  EveryRequestIsServed
  ShutdownCompletes
CHECK_DEADLOCK FALSE
