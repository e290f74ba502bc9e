SPECIFICATION Spec
CONSTANTS
  p1 = p1
  p2 = p2
  c1 = c1
  c2 = c2
  c3 = c3
  a = a
  Producers <- MCProducers
  Consumers <- MCConsumers
  QueSize = 2
  Task <- MCTask
  NoTask = NoTask
  NoThread = NoThread
SYMMETRY QueueSymmetry
INVARIANTS TypeOK CapacityRespected NoSleepingOnWork NoSleepingOnSpace
