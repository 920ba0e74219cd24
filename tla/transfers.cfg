CONSTANTS
  TxWmk = 1
  RxWmk = 2
  FifoWords = 8
  Lut <- MCLut
  MayFail = TRUE
  MayCrash = TRUE
  Requests <- MCMixedRequests
  MaxCalls = 2
  Builds = {"volatile", "cached", "reordered"}
SPECIFICATION Spec
INVARIANT TypeOK
INVARIANT BufferInBounds
INVARIANT OwnCompletion
INVARIANT CommandMatchesRequest
PROPERTY CallIsOneCommand
CHECK_DEADLOCK FALSE
