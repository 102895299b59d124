CONSTANTS
  f1 = f1  f2 = f2  f3 = f3  none = none  owner = owner
  Frames <- TwoFrames
  NoFrame = none
  MaxStages = 1
  Owner = owner
  Submitters <- Nobody
  Outcomes <- NoThrow
  Batches <- TwoBatches
  Ids <- TwoIds
SPECIFICATION BatchSpec
INVARIANT ReturnsInInputOrder
CHECK_DEADLOCK FALSE
