CONSTANTS
  t1 = t1
  t2 = t2
  x1 = x1
  NoItem = NoItem
  NoTask = NoTask
  Task = {t1, t2}
  Item = {x1}
  ChatTask = {t1}
  Instance = {i1}
  Stopper = {s1}
  ItemOf <- MCItemOf
  MaxFaults = 0
SPECIFICATION Spec
INVARIANT ListingSound
SYMMETRY Symmetric
CHECK_DEADLOCK FALSE
