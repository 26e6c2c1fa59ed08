CONSTANTS
  network = network
  update = update
  m_Null = m_Null
  Holder <- MCHolder
  IdSpace = 6
  First = 1
SPECIFICATION SpecTable
SYMMETRY Symmetry
INVARIANTS Unique FreshNext IdsAccounted SetIsMap
