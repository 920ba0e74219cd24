CONSTANTS
  TxWmk = 1
  RxWmk = 1
  FifoWords = 8
  Lut <- MCLut
  MayFail = FALSE
  MayCrash = FALSE
  Requests <- MCLongRead
  MaxCalls = 1
  Builds = {"volatile"}
SPECIFICATION Spec
INVARIANT ReadDelivered
