SPECIFICATION MCSpec
CONSTANTS
  s1 = s1
  s2 = s2
  r1 = r1
  r2 = r2
  server = server
  None = None
  Sessions = {s1, s2}
  Runs = {r1}
  Stored <- OneSession
  MaxSessions = 1
  MaxEvents = 2
  Capacity = 1
  Outcomes = {"success", "failure", "silent_failure", "error", "panic"}
  External = {server}
  Requests = {r1, r2}
  MaxSessionsValues = {1, 2}
  NEpochs = 2
  StepsPerEpoch = 2
  Epsilon = 0
  MaxResumes = 1
  Absent = Absent
  Scores <- MCScores
  SlowUpdateModes <- MCModes
  Seeds <- MCSeeds
  GroupSizes = {1, 2, 3}
  Budgets = {1, 2}
  ReflectPatches <- MCReflectPatches
  MergedPatches <- MCMergedPatches
  Guidances <- MCGuidances
  MaxTrajectories = 3
  MaxRounds = 2
  MaxReloads = 1
  TrialCounts = {0, 2, 3}
  Parallelisms = {1, 2}
  Thresholds = {50}
  Suites <- MCSuites
  CaseCount = 1
INVARIANTS
  SlowUpdateSeesRejections
  RunDirectoryConsistent
  GuidanceStands
  BudgetFilled
  TrialsAllCounted
  DistinctVoteIsMajority
  StreamFaithful
  CancelNeverLost
  ReturnedRunIsReleased
  KilledRunReportsTimedOut
  ReservationsBalance
  LiveCapacityRespected
  EndedSessionIsClosed
PROPERTIES
  ImplementsTrainingRun
  
  ReportsOwnExit
  EveryTurnEnds
  CancelledGroupReturns
  EndedAgentFreesItsSlot
  DisconnectEndsStream
CHECK_DEADLOCK FALSE
