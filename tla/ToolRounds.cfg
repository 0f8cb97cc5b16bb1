SPECIFICATION Spec
CONSTANTS
  Catalog <- MCCatalog
  Allowed <- MCAllowed
  MaxVisible = 3
  Control <- MCControl
  SearchLimit = 1
  Hold = 2
  FirstTexts <- MCFirstTexts
  LaterTexts <- MCLaterTexts
  Replies <- MCReplies
  Tasks = TRUE
  SearchRounds = 1
  TaskRounds = 1
  ForceRetries = 1
  SubTurns = 2
  MostTasks = 2
  Found <- MCFound
  Requests <- MCRequests
INVARIANTS GuardedProse BlocksSound Delivered MetaNeverLeaks RoundBudget SurfaceSound
