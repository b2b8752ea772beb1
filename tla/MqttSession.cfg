SPECIFICATION FairSpec
CONSTANTS
  KeepAlive = 4
  Period = 1
  Delay = 1
  IdMod = 3
  MaxUnderWay = 2
INVARIANTS LiveBrokerKept DeadBrokerNoticed
PROPERTIES AckedIsSeen CallsReturn SeenIsAcked
