SPECIFICATION MCSpec
CONSTANTS
  None = None
  Signals = {a, b}
  Timeout = 2
  Cycles = 2
  Paths <- MCPaths
  Jumps <- MCJumps
  Overloads <- MCOverloads
  Entities <- MCEntities
  Segments = {"x", "y"}
  Routines <- MCRoutines
  Data <- MCData
  Actions <- MCActions
  Sources <- MCSources
INVARIANTS
  SameRegister
  SameTree
  SameExit
  SameCallee
  SamePorts
  SameTarget
PROPERTIES
  ImplementsWait
CHECK_DEADLOCK FALSE
