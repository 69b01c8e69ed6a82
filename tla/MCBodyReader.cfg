SPECIFICATION FairSpec
CONSTANTS
  Cases <- MCCases
  BufferSizes = {1, 3}
INVARIANTS
  TypeOK
  FailsOnlyWhenLost
PROPERTY
  ImplementsByteStream
  BodyEnds
CHECK_DEADLOCK FALSE
