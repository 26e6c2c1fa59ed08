CONSTANTS
  u1 = u1
  u2 = u2
  n1 = n1
  n2 = n2
  secret = secret
  Empty = Empty
  None = None
  User <- MCUser
  CanalName <- MCCanalName
  Password <- MCPassword
  Limit <- MCLimit
  IdSpace = 2
SPECIFICATION Spec
CHECK_DEADLOCK FALSE
PROPERTIES
  HasLeftAllCanals
