CONSTANTS
  u1 = u1
  u2 = u2
  n1 = n1
  n2 = n2
  secret = secret
  Empty = Empty
  None = None
  User <- MCUser
  CanalName <- MCCanalName
  Password <- MCPassword
  Limit <- MCLimit
  IdSpace = 3
SPECIFICATION Spec
SYMMETRY Symmetry
CHECK_DEADLOCK FALSE
INVARIANTS
  LinksAreMemberships
  NamesAndIds
  WithinLimit
  MarkedInUse
  CanalIdsAccounted
  CheckedCanalExists
PROPERTIES
  DeletedToNobody
  OnlyOwnDeparture
  ImplementsRooms
