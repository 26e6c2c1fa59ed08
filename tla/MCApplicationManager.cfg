CONSTANTS
  p1 = p1
  p2 = p2
  chat = chat
  game = game
  Base = Base
  None = None
  Path <- MCPath
  Name <- MCName
  IdSpace = 3
SPECIFICATION Spec
SYMMETRY Symmetry
CHECK_DEADLOCK FALSE
INVARIANTS TablesAgree WholeBetweenCommands UpdateOnWhole
