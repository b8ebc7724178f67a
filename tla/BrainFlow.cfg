\* Three messages over three conversations, of which two are kept; plans of two steps.
SPECIFICATION Spec
CONSTANTS
  m1 = m1  m2 = m2  m3 = m3  k1 = k1  k2 = k2  k3 = k3  None = None
  Messages = {m1, m2, m3}
  Convs = {k1, k2, k3}
  MaxConvs = 2
  Steps = 2
SYMMETRY CallSymmetry
INVARIANT DispatchedOnce
INVARIANT ApprovedPlanRuns
INVARIANT CompletedIsTrue
\* The messages may be over.
CHECK_DEADLOCK FALSE
