SPECIFICATION Spec
CONSTANTS
  s1 = s1
  s2 = s2
  r1 = r1
  r2 = r2
  r3 = r3
  None = None
  Sessions <- OneSession
  Runs <- TwoRuns
  Stored <- OneSession
  MaxSessions = 1
  MaxEvents = 0
  Capacity = 1
  Outcomes = {"success", "error"}
INVARIANTS
  OneRunPerSession
CHECK_DEADLOCK FALSE
