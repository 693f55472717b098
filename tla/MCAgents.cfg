SPECIFICATION MCSpec
CONSTANTS
  r1 = r1
  r2 = r2
  s1 = s1
  c1 = c1
  k1 = k1
  k2 = k2
  Runs = {r1, r2}
  Stored = {s1}
  Cwds = {c1}
  NoSession = NoSession
  MaxCalls = 1
  Forms = {"spaced", "malformed"}
  MaxIterations = 2
  MaxDepth = 1
  SubIterations = {0}
  Calls = {k1, k2}
  NoCall = NoCall
  PipeCapacity = 1
  MaxCommands = 1
  MaxFrames = 1
  ChannelSize = 1
  InCapacity = 2
  OutCapacity = 1
  MaxControls = 2
  MaxNotices = 2
INVARIANTS
  RequestsWellFormed
  SavedTurnsFaithful
  IndexNamesSaved
  StatsAnswersOwn
  InterruptHitsLatestTurn
PROPERTIES
  PiSessionEnds
  CodexSessionEnds
CHECK_DEADLOCK FALSE
