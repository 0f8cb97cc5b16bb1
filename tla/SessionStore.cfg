SPECIFICATION Spec
CONSTANTS
  Keys = {k1, k2, k3}
  Values = {v1, v2}
  NoRecord = NoRecord
  Ttl = 1
  MaxSessions = 2
  MaxTime = 2
SYMMETRY MCSymmetry
INVARIANTS Capacity
PROPERTIES ImplementsRecordStore
CHECK_DEADLOCK FALSE
