SPECIFICATION MCSpec
CONSTANTS
  s1 = s1
  s2 = s2
  r1 = r1
  r2 = r2
  a1 = a1
  a2 = a2
  x1 = x1
  x2 = x2
  d1 = d1
  d2 = d2
  d3 = d3
  q1 = q1
  q2 = q2
  None = None
  Sessions <- TwoSessions
  Runs <- TwoRuns
  Stored <- OneSession
  MaxSessions = 1
  MaxEvents = 0
  Capacity = 1
  Outcomes = {"success", "error", "panic"}
  Missing = Missing
  Folder = Folder
  Packages = {x1, x2}
  Versions = {1, 2}
  Archives = {a1, a2}
  Commands = {d1, d2, d3}
  OpenCodeRows <- PartAnswerPrompt
  Scans = {q1}
  DbWatcher = q2
  FileSize = 3
  FirstMs = 2
  LastMs = 3
  MaxWrites = 2
  MaxParses = 1
INVARIANTS
  CapacityRespected
  BusySessionHasTask
  SuccessIsTrue
  LockTellsTruth
  RegistryTellsTruth
  WatermarkSkipsNothing
CHECK_DEADLOCK FALSE
