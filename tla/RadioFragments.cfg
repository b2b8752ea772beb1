SPECIFICATION Spec
CONSTANTS
  MaxLen = 7
  FifoSize = 5
  TxThreshold = 1
  RxThreshold = 4
  AirLengths = {1, 7, 8}
  SendLengths = {3, 4, 5, 7}
  MaxPackets = 1
  MaxSends = 2
  MaxNoise = 1
  Late = TRUE
INVARIANTS NothingOverflows SentIsGiven
CHECK_DEADLOCK FALSE
