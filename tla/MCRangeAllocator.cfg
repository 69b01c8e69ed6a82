SPECIFICATION FairSpec
CONSTANTS
  Size = 5
  MaxRequest = 2
  Piece = 2
  t1 = t1
  t2 = t2
  Thread = {t1, t2}
INVARIANTS
  RequestsDisjoint
  DoneMeansNothingLeft
PROPERTIES
  ImplementsByteAllocator
  EverythingIsAllocated
