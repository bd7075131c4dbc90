SPECIFICATION Spec
CONSTANTS
  Ops = {o, p}
  Gates = {g, h}
  Approvers = {a, b}
  Nobody = Nobody
  NoGate = NoGate
  o = o p = p g = g h = h a = a b = b
  Ttl = 1
  Retention = 0
  MaxClock = 3
INVARIANTS TypeOK SweptWereExpired StampIsFirstDecision
