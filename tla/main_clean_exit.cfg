CONSTANTS
  NPages = 6
  PagesPer64K = 2
SPECIFICATION MainSpec
INVARIANT CleanExit
CHECK_DEADLOCK FALSE
