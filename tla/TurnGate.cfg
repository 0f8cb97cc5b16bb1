SPECIFICATION FairSpec
CONSTANTS
  Callers = {c1, c2, c3}
  Keys = {k1, k2, k3}
  NoKey = NoKey
  NaN = NaN
  ConfiguredMax = 2
  Gap = 2
  ClockSlip = 0
INVARIANTS GateInv NoStrandedWaiter
PROPERTIES StampedeGuard GateProgress
