CONSTANTS
  ScopePaths <- MCScopePaths
  Paths <- MCPaths
  MixinKinds = {"extend"}
  TypeNames <- MCTypeNames
  Functions <- MCFunctions
  MaxNodes = 3
  MaxDepth = 2
  MaxLeaves = 1
SPECIFICATION Spec
CHECK_DEADLOCK FALSE
INVARIANT EveryUseCounted
