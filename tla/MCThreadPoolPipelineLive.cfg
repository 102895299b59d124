CONSTANTS
  w1 = w1  w2 = w2  owner = owner  other = other
  t1 = t1  t2 = t2  t3 = t3
  none = none  nullptr = nullptr  threw = threw  noresult = noresult
  Workers <- TwoWorkers
  Clients <- OneClient
  Owner = owner
  Tasks <- TwoTasks
  NoTask = none
  MaxSpurious = 0
  NullInputs <- NoNulls
  NoFrame = nullptr
  MaxStages = 2
  Outcomes <- AllOutcomes
  Batches <- OneBatch
  Threw = threw
  NoResult = noresult
SPECIFICATION FairPipelineSpec
PROPERTIES
  ImplementsThreadPool
  WaitForAllConsumes
  BatchReturns
CHECK_DEADLOCK FALSE
