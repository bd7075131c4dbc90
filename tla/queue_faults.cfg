SPECIFICATION Spec
CONSTANTS
  Ops = {a,b}
  Registered = {a,b}
  Loops = {l,m}
  Nobody = Nobody
  NoEntry = NoEntry
  a = a b = b l = l m = m
  MaxRetries = 1
  BackoffMultiplier = 1
  Backoff <- MCBackoff
  BatchLimit = 2
  MaxClock = 2
  Retention = 0
  MaxInterruptions = 2
  Env = {"stop", "crash", "store", "cancel", "expire"}
SYMMETRY OpSymmetry
VIEW Unstamped
INVARIANTS TypeOK AttemptBudget CompletedMeansApplied ThreadsBounded AtMostOneLoop RunningHonoured IInv
PROPERTIES ImplementsLifecycle EndIsFinal
