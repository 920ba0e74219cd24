CONSTANTS
  NPages = 7
  PagesPer64K = 4
SPECIFICATION FairSpec
PROPERTY ForeignPagesIntact
CHECK_DEADLOCK FALSE
