CONSTANTS
  a = a
  b = b
  p1 = p1
  u1 = u1
  Timer = {a, b}
  Chat = {p1}
  User = {u1}
  Instance = {i1}
  Canceller = {k1}
  ParentOf <- MCParentOf
  OwnerOf <- MCOwnerOf
  CancelOn <- MCCancelOn
  RowLocks = FALSE
  ClaimLimit = 1
  Claim = {c1, c2, c3}
  None = None
  MaxBusy = 1
  MaxFaults = 1
SPECIFICATION FairSpec
PROPERTY DueTimerSettles
INVARIANT RunningIsExecuted
CHECK_DEADLOCK FALSE
