\* Two processes over one Redis, two of whose commands fail.
SPECIFICATION Spec
CONSTANTS
  p1 = p1  p2 = p2  c1 = c1  c2 = c2  c3 = c3  t1 = t1  t2 = t2
  Procs = {p1, p2}
  Calls = {c1, c2, c3}
  ProcOf <- McProcOf
  Tasks = {t1}
  Budget = 2
  Estimate = 1
  Costs = {1, 2}
  MaxFaults = 2
  MaxRestarts = 1
INVARIANT Accounted
INVARIANT OverrunBounded
\* Every task may have spent its budget.
CHECK_DEADLOCK FALSE
