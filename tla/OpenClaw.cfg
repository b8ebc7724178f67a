\* Two executors and the reconnect loop; two attempts; the first failure opens the breaker.
SPECIFICATION FairSpec
CONSTANTS
  e1 = e1  e2 = e2  Loop = Loop
  Execs = {e1, e2}
  Attempts = 2
  Threshold = 1
INVARIANT TypeOK
INVARIANT OneReader
INVARIANT RequestsAreReachable
PROPERTY EveryExecuteEnds
PROPERTY Reconnects
\* The calls may be over.
CHECK_DEADLOCK FALSE
