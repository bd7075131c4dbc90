SPECIFICATION Spec
CONSTANTS
  Writers = {v, w}
  v = v w = w
  MaxDay = 2
  MaxEntries = 4
  MaxFaults = 2
SYMMETRY WriterSymmetry
INVARIANTS TypeOK DamageIsLocal TrueMeansRead NoFalseAlarm FiledByDay
CHECK_DEADLOCK FALSE
