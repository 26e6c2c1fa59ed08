CONSTANTS
  u1 = u1
  u2 = u2
  n1 = n1
  c1 = c1
  c2 = c2
  key = key
  other = other
  Empty = Empty
  None = None
  User <- MCUser
  CanalName <- MCCanalName
  Password <- MCPassword
  Limit <- MCLimit
  IdSpace = 1
  AuthKey = key
  Plugins <- MCPlugins
  Client <- MCClient
  Events <- MCEvents
  Queries <- MCQueries
  Keys <- MCKeys
  Pings <- MCPings
  Lines <- MCLines
  Addresses <- MCAddresses
SPECIFICATION SpecPrompt
CHECK_DEADLOCK FALSE
INVARIANTS
  RequestsCarryOwnId
  InStep
  AnswerComes
PROPERTY
  Answered
