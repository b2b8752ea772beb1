SPECIFICATION Spec
CONSTANTS
  Packet = {1}
  Jobs <- EightCoils
  LateJobs = {}
  SimpleSlaves = {1}
  BankSlaves = {2}
  Setup <- Eight
  Sensors = {}
  Values = {65280}
  RetryCount = 2
  CounterMod = 2
  MaxFaults = 0
  MaxNoise = 0
PROPERTIES CoilsAreRead
