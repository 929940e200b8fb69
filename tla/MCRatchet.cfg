CONSTANTS
  Alice = Alice
  Bob = Bob
  NoKey = NoKey
  MaxSkip = 1
  MaxSent = 4
SPECIFICATION FairSpec
INVARIANTS
  KeyUsedOnce
  UnreadOpens
  StoreIsOutstanding
PROPERTIES
  StoreGrowsByTwoSkips
  EventuallyRead
  ImplementsChannel
CHECK_DEADLOCK FALSE
