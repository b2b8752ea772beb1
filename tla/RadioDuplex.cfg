SPECIFICATION FairSpec
CONSTANTS
  MaxLen = 3
  FifoSize = 5
  TxThreshold = 1
  RxThreshold = 4
  AirLengths = {1, 3}
  SendLengths = {0, 2, 3}
  MaxPackets = 2
  MaxSends = 2
  MaxNoise = 1
  Late = FALSE
INVARIANTS RecvWholeOnceInOrder
PROPERTIES WaitMeansSent WaitReturns NeverDeaf
CHECK_DEADLOCK FALSE
