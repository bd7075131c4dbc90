SPECIFICATION FairSpec
CONSTANTS
  Minute = 2
  FailureThreshold = 2
  RecoveryTimeout = 2
  WindowSize = 2
  ReadRate = 2
  WriteRate = 1
  DangerousRate = 1
  Corrupt = Corrupt
  Found <- MCFound
  MaxClock = 3
  MaxFaults = 2
INVARIANTS TypeOK RateRespected RefusalEarned FailureBurst
PROPERTIES CircuitReopens
