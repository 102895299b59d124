CONSTANTS
  p1 = p1  p2 = p2  c1 = c1  c2 = c2  c3 = c3  s1 = s1  s2 = s2
  v1 = v1  v2 = v2  none = none
  Producers <- MCProducers
  Consumers <- MCConsumers
  Stoppers <- MCStoppers
  Values <- MCValues
  MaxSpurious = 1
  NoThread = none
SPECIFICATION FairSpec
INVARIANTS
  TypeOK
  NoLostWakeup
  NeverStuck
PROPERTIES
  ImplementsLiveQueue
CHECK_DEADLOCK FALSE
