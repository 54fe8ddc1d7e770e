SPECIFICATION Spec
CONSTANTS
  MaxVersion = 3
  KeyOf <- MCKeyOf
  Deleted <- MCDeleted
  Readers = {}
  ReservedIds = 2
  StagedIds = 1
  MaxBatch = 2
  MaxSegmentId = 5
INVARIANTS
  AppliedIsExact
