SPECIFICATION FairSpec
CONSTANTS
  Users = 2
  MaxConns = 3
  MaxTyped = 3
  MaxClients = 2
  Timeout = 0
  RecvUnits = 2
  SendBuffer = 1
INVARIANTS TypeOK ArrayMatches BatchFresh NewsNotLost HearsGapless
PROPERTIES ScanExact ReadBeforeClosed EverybodyServed
CHECK_DEADLOCK FALSE
