CONSTANTS
  f1 = f1  f2 = f2  f3 = f3  none = none  owner = owner  other = other
  Frames <- TwoFrames
  NoFrame = none
  MaxStages = 2
  Owner = owner
  Submitters <- NoSubmitter
  Outcomes <- NoThrow
SPECIFICATION Spec
INVARIANT HealthyFramesDelivered
CHECK_DEADLOCK FALSE
