SPECIFICATION Spec
CONSTANTS
  s1 = s1
  s2 = s2
  r1 = r1
  r2 = r2
  r3 = r3
  None = None
  Sessions <- TwoSessions
  Runs <- ThreeRuns
  Stored <- OneSession
  MaxSessions = 1
  MaxEvents = 0
  Capacity = 1
  Outcomes = {"success"}
INVARIANTS
  NoAbandonedRun
CHECK_DEADLOCK FALSE
