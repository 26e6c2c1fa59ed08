SPECIFICATION Spec
CONSTANTS
  RawName <- MCRawName
  ArrayOf <- MCArrayOf
  Complies <- MCComplies
  DoCodingStyle = TRUE
  StackDepth = 9
  PathMax = 3
  FileSystems <- MCFileSystems
  Edits <- MCEdits
  Paths <- MCPaths
  Names <- MCNames
  Casts <- MCCasts
  NativeNames <- MCNativeNames
  Linkers <- MCLinkers
  NativeCasters <- MCNativeCasters
  MaxCallables = 1
INVARIANTS SearchFindsSeen EndlessNeedsFork FreedNeedsFailure CompiledIsUnambiguous
PROPERTY LoadOutcomeIsFinal
CHECK_DEADLOCK FALSE
