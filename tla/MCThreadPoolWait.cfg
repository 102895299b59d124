CONSTANTS
  w1 = w1  w2 = w2  owner = owner  other = other
  t1 = t1  t2 = t2  none = none
  Workers <- TwoWorkers
  Clients <- OneClient
  Owner = owner
  Tasks <- TwoTasks
  NoTask = none
  MaxSpurious = 1
SPECIFICATION Spec
PROPERTY WaitForAllCompletes
CHECK_DEADLOCK FALSE
