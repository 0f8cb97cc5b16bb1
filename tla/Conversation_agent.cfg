SPECIFICATION Spec
CONSTANTS
  Slots = {s1}
  Versions = {0}
  MaxLen = 2
  MaxConvs = 2
  MaxCids = 2
  MaxRetries = 2
  Tools = TRUE
  UseAgent = TRUE
INVARIANTS AgentLossRepaired
