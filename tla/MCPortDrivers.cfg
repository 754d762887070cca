SPECIFICATION Spec
CONSTANTS
  Bits <- MCBits
  Kind <- MCKind
  Decls <- MCDecls
INVARIANTS
  TypeOK
  Elaborates
  SameNet
CHECK_DEADLOCK FALSE
