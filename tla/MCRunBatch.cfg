CONSTANTS
  f1 = f1  f2 = f2  f3 = f3  none = none  owner = owner
  Frames <- ThreeFrames
  NoFrame = none
  MaxStages = 2
  Owner = owner
  Submitters <- Nobody
  Outcomes <- NoThrow
  Batches <- SomeBatches
  Ids <- ThreeIds
SPECIFICATION BatchSpec
INVARIANTS
  BatchTypeOK
  BatchComplete
  AscendingIdsKeepOrder
  ThrowsBeforeSubmitting
PROPERTY ImplementsStagedPipeline
CHECK_DEADLOCK FALSE
