SPECIFICATION Spec
CONSTANTS
  Minute = 2
  FailureThreshold = 2
  RecoveryTimeout = 2
  WindowSize = 2
  ReadRate = 2
  WriteRate = 1
  DangerousRate = 1
  Corrupt = Corrupt
  Found <- MCNumbers
  MaxClock = 3
  MaxFaults = 0
INVARIANTS FiveMinuteRate
