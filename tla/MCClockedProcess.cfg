SPECIFICATION Spec
CONSTANTS
  Data <- MCData
  Enabling = {1}
  Statements <- MCStatements
  Sources <- MCSources
  Glitches = {}
INVARIANTS
  TypeOK
  SameRegister
PROPERTY
  ClockedBranchNeedsEdge
CHECK_DEADLOCK FALSE
