SPECIFICATION Spec
CONSTANT Processes <- MaybeStopping
INVARIANTS
  InitialNeverLoops
CHECK_DEADLOCK FALSE
