SPECIFICATION FairSpec
CONSTANTS
  Packet = {1, 2}
  Jobs <- Tables
  LateJobs <- LateTables
  SimpleSlaves = {1}
  BankSlaves = {2}
  Setup <- OneAndTwo
  Sensors <- Measured
  Values = {65280}
  RetryCount = 2
  CounterMod = 2
  MaxFaults = 1
  MaxNoise = 0
PROPERTIES SuccessIsServed NoFalseAlarm BroadcastReaches EachGetsItsTurn
