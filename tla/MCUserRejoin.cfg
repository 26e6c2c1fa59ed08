CONSTANTS
  a = a
  b = b
  lobby = lobby
  None = None
  IdSpace = 3
  Canal <- MCCanal
CHECK_DEADLOCK FALSE
  CONSTANT Client <- MCTwo
SPECIFICATION Spec
PROPERTIES NotJoinedYet
