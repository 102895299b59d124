CONSTANTS
  w1 = w1  w2 = w2  owner = owner  other = other
  t1 = t1  t2 = t2  none = none
  Workers <- TwoWorkers
  Clients <- TwoClients
  Owner = owner
  Tasks <- OneTask
  NoTask = none
  MaxSpurious = 1
SPECIFICATION FairSpec
INVARIANTS
  TypeOK
  TaskInOnePlace
  NoLostWakeup
  DestroyDrains
  NeverStuck
PROPERTIES
  TasksFinish
  CallsReturn
CHECK_DEADLOCK FALSE
