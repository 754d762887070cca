SPECIFICATION Spec
CONSTANT Processes <- Sources
INVARIANTS
  TypeOK
  NeverSpins
  SameOutput
CHECK_DEADLOCK FALSE
