SPECIFICATION FairSpec
CONSTANTS
  Requests = {r1, r2}
  Keys = {k1, k2}
  NoKey = NoKey
  NaN = NaN
  ConfiguredMax = 2
  MaxRetries = 1
  Gap = 1
  ClockSlip = 0
INVARIANTS OneConnecting QuotaBound
PROPERTY EveryRequestEnds
