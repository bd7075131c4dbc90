SPECIFICATION Spec
CONSTANTS
  Ops = {a}
  Registered = {a}
  Loops = {l}
  Nobody = Nobody
  NoEntry = NoEntry
  a = a l = l
  MaxRetries = 1
  BackoffMultiplier = 1
  Backoff <- MCBackoff
  BatchLimit = 1
  MaxClock = 2
  Retention = 0
  MaxInterruptions = 0
  Env = {}

PROPERTIES BackoffHonoured
