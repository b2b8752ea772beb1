SPECIFICATION FairSpec
CONSTANTS
  Node = {a, b}
  Broadcast = bcast
  SeqMod = 8
  Retries = 2
  MaxCalls = 4
  MaxResets = 0
  Senders = {a, b}
  To = {a, b}
PROPERTIES DroppedIsDuplicate DeliversByHop SendReturns TrueLeadsToDelivery
CHECK_DEADLOCK FALSE
