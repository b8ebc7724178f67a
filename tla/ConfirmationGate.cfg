\* Two requests, for one task or two, in one chat or two.
SPECIFICATION FairSpec
CONSTANTS
  r1 = r1  r2 = r2  r3 = r3  t1 = t1  t2 = t2  c1 = c1  c2 = c2  None = None
  Requests = {r1, r2}
  Tasks = {t1, t2}
  Chats = {c1, c2}
INVARIANT TypeOK
INVARIANT NewestIsAnswerable
INVARIANT ApprovalIsExplicit
PROPERTY EveryRequestEnds
\* Every request may be over.
CHECK_DEADLOCK FALSE
