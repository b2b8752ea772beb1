SPECIFICATION BoardSpec
CONSTANTS
  Port = {p, q}
  NoPort = none
  Byte = {1, 255}
  Size = 3
  Intervals = {0, 2, 3}
  MaxDepth = 3
  MaxCount = 4
  Message = {"a", "b"}
  Length <- Lengths
  MaxLen = 5
  Room = {1, 5}
  InCall = 2
INVARIANTS DropIsReported TimerCallsOneByOne WireBufferFits
PROPERTIES IsAQueue WireTrueIsWhole WireCollectingEnds
