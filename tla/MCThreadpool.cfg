SPECIFICATION FairPoolSpec
CONSTANTS
  Main = Main
  w1 = w1
  w2 = w2
  a = a
  b = b
  c = c
  Producers <- MCProducers
  Consumers <- TwoWorkers
  QueSize = 1
  Task <- MCTask
  NoTask = NoTask
  NoThread = NoThread
INVARIANTS PoolTypeOK StopDrains NullMeansExit
PROPERTIES ImplementsTaskPool AllTasksRun StopReturnsUnlessMissed
CHECK_DEADLOCK FALSE
