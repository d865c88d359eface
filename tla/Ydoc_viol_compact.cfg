CONSTANTS
  Session = {s1, s2}
  Edit = {e1, e2}
  Call = {c1, c2}
  None = None
  Redis = TRUE
  COMPACTION_THRESHOLD = 2
  MaxJoins = 2
  MaxSends = 3
  MaxFaults = 0
SPECIFICATION Spec
SYMMETRY Symmetric
INVARIANT EditsKept
CHECK_DEADLOCK FALSE
