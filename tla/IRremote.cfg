SPECIFICATION Spec
CONSTANTS
  Codes <- RemoteCodes
  Excess = {50, 150}
  Late = {20}
  Gaps = {20, 936, 65560}
  Cuts = {3, 41, 100}
  MaxCodes = 2
  RawBuf = 100
INVARIANTS CodeIsRead DecodedWasSent
CHECK_DEADLOCK FALSE
