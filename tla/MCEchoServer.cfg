SPECIFICATION FairSpec
CONSTANTS
  c1 = c1
  c2 = c2
  c3 = c3
  w1 = w1
  EventFd = 100
  ListenFd = 101
  NoClient = NoClient
  NoTask = NoTask
  Clients <- ThreeClients
  Hasty <- Leaver
  Callers <- OneWorker
  Lines <- TwoOneNone
  Fds <- MCFds
  OtherFds <- MCOtherFds
  Functor <- MCFunctor
  QueSize = 1
  OutBuffer = 1
INVARIANTS TypeOK EchoIntegrity FdsUnique BatchFresh PatientSafe
PROPERTY CatchesUp
CHECK_DEADLOCK FALSE
