SPECIFICATION MCSpec
CONSTANTS
  f1 = f1
  f2 = f2
  j1 = j1
  p1 = p1
  p2 = p2
  NoFile = NoFile
  Watcher = watcher
  NoEntry = NoEntry
  WatchSyncer = p1
  Files = {f1, f2}
  Jobs = {j1}
  Syncers = {p1, p2}
  Scripts <- MCScripts
  Served <- ErrorScripts
  Synced <- NoScripts
  ChannelCapacity = 1
  MaxCrashes = 1
  Attempts = 2
  MaxStarts = 1
INVARIANT
  ErrorsStored
CHECK_DEADLOCK FALSE
