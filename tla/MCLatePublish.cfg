SPECIFICATION LateSpec
CONSTANTS
  MaxVersion = 2
  KeyOf <- MCKeyOf
  Deleted <- MCDeleted
  Readers = {}
  ReservedIds = 2
  StagedIds = 1
  MaxBatch = 2
  MaxSegmentId = 4
INVARIANTS
  FailedPublicationIsInvisible
