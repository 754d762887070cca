SPECIFICATION FairSpec
CONSTANTS
  s1 = s1
  s2 = s2
  Sites <- MCSites
  Values = {0, 1}
  Delay <- MCDelay
  MaxTime = 3
  Slots <- MCSlots
  None = None
INVARIANTS
  TypeOK
  ActiveIsRegistered
  NoDanglingEntry
PROPERTIES
  ImplementsTransport
  EntriesGivenBack
CHECK_DEADLOCK FALSE
