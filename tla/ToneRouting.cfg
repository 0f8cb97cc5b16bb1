SPECIFICATION Spec
CONSTANTS
  Names <- MCNames
  Canonical <- MCCanonical
  Fallbacks <- MCFallbacks
  Requests = {r1, r2, r3}
  BreakerThreshold = 2
  Cooldown = 2
  Shut = Shut
SYMMETRY MCRequests
INVARIANTS OneProbe BreakerInv
CHECK_DEADLOCK FALSE
