CONSTANTS
  Session = {s1, s2}
  Edit = {e1, e2}
  Call = {c1, c2}
  None = None
  Redis = FALSE
  COMPACTION_THRESHOLD = 2
  MaxJoins = 3
  MaxSends = 2
  MaxFaults = 1
SPECIFICATION Spec
SYMMETRY Symmetric
INVARIANTS DocumentReclaimed SaveNotDropped
PROPERTY ParticipantKeepsDocument
CHECK_DEADLOCK FALSE
