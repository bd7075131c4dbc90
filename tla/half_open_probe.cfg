SPECIFICATION Spec
CONSTANTS
  Minute = 3
  FailureThreshold = 2
  RecoveryTimeout = 2
  WindowSize = 2
  ReadRate = 3
  WriteRate = 1
  DangerousRate = 1
  Corrupt = Corrupt
  Found <- MCNumbers
  MaxClock = 5
  MaxFaults = 0
PROPERTIES SingleProbe
