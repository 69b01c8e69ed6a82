SPECIFICATION FairSpec
CONSTANTS
  Size = 8
  Piece = 3
  MaxRequest = 3
  Connections = 3
  Modes = {TRUE, FALSE}
  Faults = {}
  MaxRead = 2
  MaxLate = 1
  MaxCrashes = 0
  FetchOffsets = {0, 3}
  FetchLengths = {2}
CHECK_DEADLOCK FALSE
INVARIANTS
  NothingForgotten
  DoneIsComplete
PROPERTY Completes
