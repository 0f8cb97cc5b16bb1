SPECIFICATION FairQueueSpec
CONSTANTS
  Calls = {t1, t2, t3, t4}
  Root = Root
INVARIANT ChainInv
PROPERTIES ImplementsSerialQueue EveryTurnRuns
\* Every turn is enqueued once: the behaviour ends when all are gone.
CHECK_DEADLOCK FALSE
