SPECIFICATION Spec
CONSTANTS
  Size = 5
  Piece = 2
  MaxRequest = 2
  Connections = 2
  Modes = {TRUE}
  Faults = {"error", "framing", "stall"}
  MaxRead = 2
  MaxLate = 1
  MaxCrashes = 1
  FetchOffsets = {}
  FetchLengths = {}
CHECK_DEADLOCK FALSE
INVARIANTS
  TypeOK
  ClaimsDisjoint
  DownloadedIsWritten
