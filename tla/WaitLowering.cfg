SPECIFICATION FairSpec
CONSTANTS
  Signals = {a, b}
  None = None
  Timeout = 2
  Cycles = 2
INVARIANTS
  TypeOK
  EveryReasonArmed
PROPERTIES
  ImplementsWait
  TimeoutResumes
CHECK_DEADLOCK FALSE
