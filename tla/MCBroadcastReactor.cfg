SPECIFICATION FairSpec
CONSTANTS
  ann = ann
  bob = bob
  cleo = cleo
  NoClient = NoClient
  Clients <- MCClients
  Leavers <- MCLeavers
  Lines <- MCLines
  Fds <- MCFds
  ListenFd = 3
  InBuffer = 1
  OutBuffer = 1
INVARIANT TypeOK
PROPERTIES ImplementsBroadcast EveryLineSaid
CHECK_DEADLOCK FALSE
