SPECIFICATION FairChatSpec
CONSTANTS
  a = a
  b = b
  Chars <- MCChars
  MaxLen = 3
INVARIANTS NothingDropped StreamsOnce
PROPERTIES ErrorSurfaces CancelledNotSent SilentTurnEnds CancelledTurnEnds
\* A turn that has ended stays ended.
CHECK_DEADLOCK FALSE
