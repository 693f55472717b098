SPECIFICATION LiveSpec
CONSTANTS
  r1 = r1
  r2 = r2
  MaxSessionsValues = {1}
  Requests <- TwoRequests
INVARIANTS
  LiveAgentsWithinCap
CHECK_DEADLOCK FALSE
