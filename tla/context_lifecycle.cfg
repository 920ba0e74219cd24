CONSTANTS
  NPages = 6
  PagesPer64K = 2
SPECIFICATION Spec
INVARIANT TypeOK
INVARIANT NoLeak
INVARIANT InitialisedRegistersLive
PROPERTY OnlyIomuxOverreaches
CHECK_DEADLOCK FALSE
