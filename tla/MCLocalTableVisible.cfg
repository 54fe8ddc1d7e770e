SPECIFICATION Spec
CONSTANTS
  Keys = {k1, k2}
  MaxInserts = 4
INVARIANTS
  VisibleOnlyOnceDurable
CHECK_DEADLOCK FALSE
