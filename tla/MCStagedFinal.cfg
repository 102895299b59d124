CONSTANTS
  f1 = f1  f2 = f2  f3 = f3  none = none  owner = owner  other = other
  Frames <- TwoFrames
  NoFrame = none
  MaxStages = 1
  Owner = owner
  Submitters <- OneSubmitter
  Outcomes <- NoFailure
SPECIFICATION Spec
PROPERTY StopIsFinal
CHECK_DEADLOCK FALSE
