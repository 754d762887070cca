SPECIFICATION Spec
CONSTANTS
  Size <- MCSize
  Spelled <- MCSpelled
  Designs <- MCDesigns
  Hold = 3
INVARIANTS
  TypeOK
  SameOutput
  DelaysKept
CHECK_DEADLOCK FALSE
