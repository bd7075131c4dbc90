SPECIFICATION Spec
CONSTANTS
  NotAnObject = NotAnObject
  NoCall = NoCall
  Ints = {0, 1, 100, 101}
  Texts = {"active", "price", "other"}
  MaxArgs = 2
INVARIANTS TypeOK RequestsWellFormed SchemaIsContract OnlyInvalidCallsKill
