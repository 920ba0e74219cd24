CONSTANTS
  Threads = {t1, t2}
  Paths = {p1, p2}
  Levels = {"info"}
  Configs <- MCConfigs
  MonthLength = 2
  MaxDate = 3
  NULL = NULL
SPECIFICATION FairSpec
INVARIANT TypeOK
INVARIANT MutualExclusion
INVARIANT NothingOpenWhenDead
INVARIANT LineUnderItsName
PROPERTY RotationSplitsDays
PROPERTY MutexReleased
