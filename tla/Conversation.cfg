SPECIFICATION Spec
CONSTANTS
  Slots = {s1, s2}
  Versions = {0}
  MaxLen = 2
  MaxConvs = 2
  MaxCids = 2
  MaxRetries = 1
  Tools = FALSE
  UseAgent = FALSE
SYMMETRY Interchangeable
INVARIANTS ContextComplete RecordSound
