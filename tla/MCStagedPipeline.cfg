CONSTANTS
  f1 = f1  f2 = f2  f3 = f3  none = none  owner = owner  other = other
  Frames <- ThreeFrames
  NoFrame = none
  MaxStages = 3
  Owner = owner
  Submitters <- OneSubmitter
  Outcomes <- AllOutcomes
SPECIFICATION FairSpec
INVARIANTS
  TypeOK
  ResultsInOrder
  DrainComplete
  NeverStuck
  ExclusiveFrame
  OnlyStagesAbort
PROPERTIES
  ImplementsOrderedPipeline
  StopTerminates
  FramesFlow
CHECK_DEADLOCK FALSE
