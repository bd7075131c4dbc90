SPECIFICATION Spec
CONSTANTS
  Ops = {a,b}
  Registered = {a,b}
  Loops = {l}
  Nobody = Nobody
  NoEntry = NoEntry
  a = a b = b l = l
  MaxRetries = 1
  BackoffMultiplier = 1
  Backoff <- MCBackoff
  BatchLimit = 2
  MaxClock = 1
  Retention = 0
  MaxInterruptions = 0
  Env = {"cancel"}

PROPERTIES StateMachineEnforced
