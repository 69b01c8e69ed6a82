SPECIFICATION Spec
CONSTANTS
  t1 = t1
  t2 = t2
  o1 = o1
  o2 = o2
  o3 = o3
  Thread = {t1, t2}
  Object = {o1, o2}
  Connections = 2
  PostedStop = FALSE
SYMMETRY MCSymmetry
CHECK_DEADLOCK FALSE
INVARIANTS
  TypeOK
  OutstandingExact
  StoppedIsQuiet
  ReturnIsQuiet
  OneOwner
  Watched
  OneTimerChain
  OneTickWalks
