\* Two requests, a voice command, other stores, two restarts with retention.
SPECIFICATION Spec
CONSTANTS
  a1 = a1  a2 = a2  v1 = v1
  Auditors = {a1, a2}
  Voices = {v1}
  Retention = TRUE
  MaxEntries = 5
  MaxRestarts = 2
INVARIANT Unbroken
INVARIANT PredecessorKept
\* All entries may have been made.
CHECK_DEADLOCK FALSE
