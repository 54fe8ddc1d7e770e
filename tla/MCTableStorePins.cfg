SPECIFICATION Spec
CONSTANTS
  MaxVersion = 2
  KeyOf <- MCKeyOf
  Deleted <- MCDeleted
  Readers = {r1}
  ReservedIds = 2
  StagedIds = 1
  MaxBatch = 2
  MaxSegmentId = 5
INVARIANTS
  PinsIntact
