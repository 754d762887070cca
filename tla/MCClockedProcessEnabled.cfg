SPECIFICATION Spec
CONSTANTS
  Data <- MCData
  Enabling = {1}
  Statements <- MCStatements
  Sources <- MCEnabled
  Glitches = {}
INVARIANT NeverMistranslated
CHECK_DEADLOCK FALSE
