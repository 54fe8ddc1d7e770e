SPECIFICATION Spec
CONSTANTS
  MaxVersion = 3
  KeyOf <- MCKeyOf
  Deleted <- MCDeleted
  Readers = {r1}
  ReservedIds = 2
  StagedIds = 1
  MaxBatch = 1
  MaxSegmentId = 4
INVARIANTS
  IInv
