SPECIFICATION Spec
CONSTANTS
  Keys = {k1, k2}
  MaxInserts = 4
INVARIANTS
  FailedLeavesNothing
CHECK_DEADLOCK FALSE
