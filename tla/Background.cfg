CONSTANTS
  None = None
  Process = {p1, p2}
  Automation = {a1, a2}
  Rules = {{1}, {2}}
  Client = {c1, c2}
  Horizon = 2
  BatchLimit = 1
  AutoLimit = 2
  MaxEdits = 1
  MaxRuns = 1
  MaxAutoFaults = 1
  Deleg = {d1, d2}
  Turn = {t1, t2, t3}
  MaxAsync = 1
  Concurrency = {1, 2}
  MaxUserTurns = 1
  MaxCancels = 1
SPECIFICATION Spec
INVARIANTS ClaimsSound DelegationSound
PROPERTIES DueAutomationClaimed 
CHECK_DEADLOCK FALSE
