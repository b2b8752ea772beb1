SPECIFICATION Spec
CONSTANTS
  Node = {a, b, c}
  Broadcast = bcast
  SeqMod = 2
  Retries = 1
  MaxCalls = 3
  MaxResets = 1
  Senders = {a, b}
  To = {a, b, c, bcast}
INVARIANTS PayloadIntact
CHECK_DEADLOCK FALSE
