CONSTANTS
  Devices = {a, b}
  NoDevice = NoDevice
  NoSession = NoSession
  NoKey = NoKey
  MaxSkip = 3
  MaxMade = 3
  MaxRestarts = 1
SPECIFICATION Spec
INVARIANTS
  AnsweredKeysAreFresh
  RestartForgetsNothing
  ReadOnlyOnce
PROPERTIES
  ImplementsDelivery
CHECK_DEADLOCK FALSE
