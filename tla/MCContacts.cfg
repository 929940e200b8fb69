CONSTANTS
  Users = {a, b}
  None = None
  PoolSize = 1
  MaxAccounts = 3
  MaxMade = 2
  MaxFailures = 1
  MaxBreaks = 2
SPECIFICATION Spec
INVARIANTS
  SessionIsWithThePinned
  EntryIsOpen
  PrekeyMakesItAgree
  BoxIsServers
  UnprocessedIsUnread
SYMMETRY Symmetry
CHECK_DEADLOCK FALSE
