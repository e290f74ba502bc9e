SPECIFICATION Spec
CONSTANTS
  Scripts <- MCScripts
  Versions = {"v1", "v1_2", "v5", "prefix"}
  BufferLen = 7
  Base = 2
  Width = 3
  MaxCalls = 4
PROPERTY PeekedNewlineFound
CHECK_DEADLOCK FALSE
