SPECIFICATION FairSpec
CONSTANTS
  Ops = {a}
  Registered = {a}
  Loops = {l}
  Nobody = Nobody
  NoEntry = NoEntry
  a = a l = l
  MaxRetries = 1
  BackoffMultiplier = 1
  Backoff <- MCBackoff
  BatchLimit = 1
  MaxClock = 1
  Retention = 0
  MaxInterruptions = 1
  Env = {"crash"}

PROPERTIES RecoveredOnRestart
