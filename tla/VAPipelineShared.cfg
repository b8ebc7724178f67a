\* Without a task store the dict hands one Task object to everybody.
SPECIFICATION FairSpec
CONSTANTS
  q1 = q1  q2 = q2  j1 = j1  t1 = t1  t2 = t2  NoTask = NoTask
  Requests = {q1, q2}
  Jobs = {j1}
  Tasks = {t1}
  OwnCopy = FALSE
  Confirm = TRUE
  Quality = TRUE
  ExecuteRetries = 1
  MaxRevisions = 1
  RedisBackend = FALSE
INVARIANT ShipsOnce
INVARIANT AuthorisedBeforeEffect
INVARIANT SuccessIsTrue
PROPERTY ImplementsTaskOnce
PROPERTY EveryRunEnds
