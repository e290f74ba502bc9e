SPECIFICATION FairSpec
CONSTANTS
  Scripts <- MCScripts
  Versions = {"v1", "v1_2", "v5", "prefix"}
  BufferLen = 7
  Base = 2
  Width = 3
  MaxCalls = 4
INVARIANTS TypeOK LinesInOrder FramesExact PiecesAssembled
PROPERTY ReceiveReturns
CHECK_DEADLOCK FALSE
