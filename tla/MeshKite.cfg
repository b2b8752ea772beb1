SPECIFICATION FairSpec
CONSTANTS
  n1 = n1
  n2 = n2
  n3 = n3
  n4 = n4
  Node = {n1, n2, n3, n4}
  Links <- Kite
  Addr = {n1, n2, n3, n4, stray}
  Stray = stray
  Broadcast = bcast
  NoOne = none
  TableSize = 3
  MaxHops = 3
  MaxSends = 1
  Senders = {n1}
  Dests = {n4}
INVARIANTS NextHopIsNeighbour ListIsAPath DeliveredOnce AnswerIsRoutable
PROPERTIES ComesToRest
CHECK_DEADLOCK FALSE
