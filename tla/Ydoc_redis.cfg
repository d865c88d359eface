CONSTANTS
  Session = {s1, s2}
  Edit = {e1, e2}
  Call = {c1, c2}
  None = None
  Redis = TRUE
  COMPACTION_THRESHOLD = 2
  MaxJoins = 2
  MaxSends = 2
  MaxFaults = 1
SPECIFICATION Spec
SYMMETRY Symmetric
INVARIANT DocumentSound
CHECK_DEADLOCK FALSE
