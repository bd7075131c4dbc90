SPECIFICATION DirectSpec
CONSTANTS
  Ops = {a}
  Registered = {a}
  Loops = {l,m}
  Nobody = Nobody
  NoEntry = NoEntry
  a = a l = l m = m
  MaxRetries = 1
  Backoff <- MCBackoff
  BatchLimit = 1
  MaxClock = 1
  Retention = 0
  Env = {"stop"}

INVARIANTS AtMostOneLoop
