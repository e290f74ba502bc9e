SPECIFICATION Spec
CONSTANTS
  c1 = c1
  c2 = c2
  c3 = c3
  w1 = w1
  EventFd = 100
  ListenFd = 101
  NoClient = NoClient
  NoTask = NoTask
  Clients <- TwoClients
  Hasty <- TwoClients
  Callers <- OneWorker
  Lines <- OneEach
  Fds <- MCFds
  OtherFds <- MCOtherFds
  Functor <- MCFunctor
  QueSize = 1
  OutBuffer = 1
INVARIANT ClosedNoticed
CHECK_DEADLOCK FALSE
