CONSTANTS
  Devices = {a, b}
  NoDevice = NoDevice
  NoSession = NoSession
  NoKey = NoKey
  MaxSkip = 3
  MaxMade = 2
  MaxRestarts = 1
SPECIFICATION FairSpec
PROPERTIES
  OutboxDrains
  CalmIsRead
CHECK_DEADLOCK FALSE
