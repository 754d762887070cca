SPECIFICATION Spec
CONSTANTS
  Bits <- MCBits
  Kind <- MCKind
  Decls <- SplitDecls
INVARIANTS
  Elaborates
CHECK_DEADLOCK FALSE
