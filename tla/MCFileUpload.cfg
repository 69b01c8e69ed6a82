CONSTANTS
  Setups <- MCSetups
  Schemes <- MCSchemes
  MaxRedirects = 1
  MaxEndpoints = 2
  MaxContinues = 1
  MaxOpens = 2
  MaxCloses = 1
  Forms <- MCForms
  FileSize = 5
  Names = 11
SPECIFICATION FairSpec
INVARIANTS TypeOK RequestThroughTunnel ResultIsTrue CloseStops UploadIsWhole
PROPERTIES OpenEnds
CHECK_DEADLOCK FALSE
