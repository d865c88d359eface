CONSTANTS
  i1 = i1
  i2 = i2
  s1 = s1
  s2 = s2
  Instance = {i1, i2}
  Session = {s1, s2}
  Home <- Apart
  None = None
  Orphan = Orphan
  MaxReports = 2
  MaxFaults = 1
  MaxRaises = 1
SPECIFICATION LiveSpec
INVARIANT UsageSound
PROPERTY UsageReclaimed
CHECK_DEADLOCK FALSE
