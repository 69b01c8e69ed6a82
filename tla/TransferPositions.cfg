SPECIFICATION Spec
CONSTANTS
  Size = 5
  Piece = 2
  MaxRequest = 2
  Connections = 2
  Modes = {TRUE, FALSE}
  Faults = {"error", "stall", "refused"}
  MaxRead = 2
  MaxLate = 1
  MaxCrashes = 0
  FetchOffsets = {0}
  FetchLengths = {3}
CHECK_DEADLOCK FALSE
INVARIANTS
  NoHoleBehind
  HeadIsDownloaded
