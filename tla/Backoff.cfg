SPECIFICATION FairBackoffSpec
CONSTANTS
  Callers = {r1, r2}
  Convs = {c1, c2, c3}
  NoConv = NoConv
  WindowMs = 2
  Threshold = 2
  BaseCooldown = 1
  MaxCooldown = 3
  JitterMin = 1
  JitterMax = 2
INVARIANTS BackoffInv
PROPERTIES FreshEvidence PacedStarts
