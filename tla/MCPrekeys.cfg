CONSTANTS
  NoPrekey = NoPrekey
  PoolSize = 2
  MaxGenerated = 5
  MaxBoots = 3
  MaxCrashes = 2
SPECIFICATION FairSpec
INVARIANTS
  OneTime
  HandedOutIsKept
  UsedIsForgotten
  PoolIsFull
PROPERTIES
  WritersAreRead
CHECK_DEADLOCK FALSE
