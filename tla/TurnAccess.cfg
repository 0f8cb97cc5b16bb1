SPECIFICATION AccessSpec
SYMMETRY Symmetry
CONSTANTS
  Requests = {r1, r2}
  Sessions = {s1, s2}
  NoSession = NoSession
  First = First
  Callers <- MCCallers
  Scopes <- MCScopes
  Chat = Chat
  Bap = Bap
  PowerPlatform = PowerPlatform
  NoScope = NoScope
  Bots = {b1, b2}
  Unknown = Unknown
  NoAgent = NoAgent
  Attempts = 2
INVARIANTS AccessInv OneAgent
PROPERTIES RefreshHeals
