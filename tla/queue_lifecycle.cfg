SPECIFICATION FairSpec
CONSTANTS
  Ops = {a,u}
  Registered = {a}
  Loops = {l,m}
  Nobody = Nobody
  NoEntry = NoEntry
  a = a l = l m = m u = u
  MaxRetries = 2
  BackoffMultiplier = 1
  Backoff <- MCBackoff
  BatchLimit = 1
  MaxClock = 2
  Retention = 0
  MaxInterruptions = 2
  Env = {"stop", "crash", "expire"}
INVARIANTS LifeInv ExecutingIsOwned FailedOnlyWhenExhausted StampsOrdered
PROPERTIES ImplementsLifecycle EveryOperationFinishes
