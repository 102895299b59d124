CONSTANTS
  w1 = w1  w2 = w2  owner = owner  other = other
  t1 = t1  t2 = t2  t3 = t3
  none = none  nullptr = nullptr  threw = threw  noresult = noresult
  Workers <- TwoWorkers
  Clients <- OneClient
  Owner = owner
  Tasks <- ThreeTasks
  NoTask = none
  MaxSpurious = 1
  NullInputs <- LastIsNull
  NoFrame = nullptr
  MaxStages = 2
  Outcomes <- AllOutcomes
  Batches <- SomeBatches
  Threw = threw
  NoResult = noresult
SPECIFICATION PipelineSpec
SYMMETRY Symmetry
INVARIANTS
  PipelineTypeOK
  BatchMatchesInputs
  BatchThrowsFirst
  PipelineOutlivesRuns
CHECK_DEADLOCK FALSE
