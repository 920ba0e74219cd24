CONSTANTS
  TxWmk = 1
  RxWmk = 1
  FifoWords = 8
  Lut <- MCTestLut
  MayFail = FALSE
  MayCrash = TRUE
  Requests <- MCMainRequests
  MaxCalls = 2
  Builds = {"volatile"}
SPECIFICATION FairSpec
PROPERTY TransferReturns
