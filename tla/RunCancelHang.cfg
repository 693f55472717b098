SPECIFICATION CancelFairSpec
CONSTANTS
  server = server
  External <- OneExternal
PROPERTIES
  CancelledRunReturns
CHECK_DEADLOCK FALSE
