CONSTANTS
  Blocks = {b1, b2}
  BlockSizes = {0, 1, 2}
  MaxFailAfter = 1
  Tests <- MCTests
  Argvs <- MCArgvs
  Contains <- MCContains
  NumberOf <- MCNumberOf
  Pointers = {p1}
  Values = {"v", "w"}
  UNITY_MAX_POINTERS = 2
SPECIFICATION Spec
SYMMETRY MCSymmetry
INVARIANT TypeOK
INVARIANT EveryTestCountedOnce
INVARIANT PointersRestored
INVARIANT MallocCountExact
INVARIANT OptionsHonoured
PROPERTY OverrunNeverSilent
CHECK_DEADLOCK FALSE
