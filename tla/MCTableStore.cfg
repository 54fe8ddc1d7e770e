SPECIFICATION Spec
CONSTANTS
  MaxVersion = 4
  KeyOf <- MCKeyOf
  Deleted <- MCDeleted
  Readers = {}
  ReservedIds = 2
  StagedIds = 1
  MaxBatch = 2
  MaxSegmentId = 4
INVARIANTS
  TypeOK
  AppliedIsExact
  CheckpointSurvives
  FilesIntact
  MergeInputsIntact
PROPERTY
  AppliedNeverRetreats
