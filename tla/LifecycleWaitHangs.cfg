SPECIFICATION FairSpec
CONSTANTS
  t1 = t1
  t2 = t2
  o1 = o1
  o2 = o2
  o3 = o3
  Thread = {t1}
  Object = {o1, o2}
  Connections = 2
  PostedStop = TRUE
CHECK_DEADLOCK FALSE
PROPERTY WaitReturns
