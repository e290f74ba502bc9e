SPECIFICATION FairSpec
CONSTANTS
  Clients = {c1, c2, c3}
  Quitters = {c1, c2}
  MaxFaults = 1
  NoClient = NoClient
INVARIANTS TypeOK WholeAnswers Survives
PROPERTY EverybodyServed
CHECK_DEADLOCK FALSE
