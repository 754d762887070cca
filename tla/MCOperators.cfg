SPECIFICATION MCSpec
CONSTANTS
  Expressions <- MCExpressions
  Moves <- MCMoves
  Values <- MCValues
  MaxReads = 3
  Hdtlib = {TRUE, FALSE}
INVARIANTS
  SameValue
  KnownIsCertain
  SameMove
  LastValueRight
CHECK_DEADLOCK FALSE
