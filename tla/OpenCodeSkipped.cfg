SPECIFICATION OpenCodeSpec
CONSTANTS
  q1 = q1
  q2 = q2
  OpenCodeRows <- OnePart
  Scans = {q1}
  DbWatcher = q2
  FileSize = 1
  FirstMs = 2
  LastMs = 3
  MaxWrites = 2
  MaxParses = 1
PROPERTIES
  SkippedHadNothingNew
CHECK_DEADLOCK FALSE
