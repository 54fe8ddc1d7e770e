SPECIFICATION Spec
CONSTANTS
  Keys = {k1, k2}
  MaxInserts = 4
INVARIANTS
  DoneSurvives
  AbortedLeavesNothing
  KeysAreUnique
  VersionsAreUnique
  LogReplays
CHECK_DEADLOCK FALSE
