CONSTANTS
  t1 = t1
  t2 = t2
  x1 = x1
  NoItem = NoItem
  NoTask = NoTask
  Task = {t1}
  Item = {x1}
  ChatTask = {t1}
  Instance = {i1, i2}
  Stopper = {s1}
  ItemOf <- MCItemOf1
  MaxFaults = 2
SPECIFICATION FairSpec
INVARIANT StopReachesOwner
PROPERTY StoppedTaskEnds
CHECK_DEADLOCK FALSE
