CONSTANTS
  a = a
  b = b
  lobby = lobby
  None = None
  IdSpace = 2
  Canal <- MCCanal
  Client <- MCTwo
SPECIFICATION FairSpec
CHECK_DEADLOCK FALSE
INVARIANTS UserIdsAccounted LinksBelongToUsers ClosedIsRequested
PROPERTIES OnlyClosedRemoved ClosedIsRemoved
