\* With a task store every request builds its own Task from the row.
SPECIFICATION FairSpec
CONSTANTS
  q1 = q1  q2 = q2  j1 = j1  t1 = t1  t2 = t2  NoTask = NoTask
  Requests = {q1}
  Jobs = {j1}
  Tasks = {t1, t2}
  OwnCopy = TRUE
  Confirm = FALSE
  Quality = TRUE
  ExecuteRetries = 1
  MaxRevisions = 1
  RedisBackend = TRUE
INVARIANT RowTruth
INVARIANT BoundedCalls
PROPERTY EveryRunEnds
