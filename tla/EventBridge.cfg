\* Two commands and small talk, sent at any time; anything may fail.
SPECIFICATION FairBridgeSpec
CONSTANTS
  m1 = m1  m2 = m2  m3 = m3
  Messages = {m1, m2, m3}
  Commands = {m1, m2}
INVARIANT OnceForThePatient
INVARIANT RunsBounded
PROPERTY Settles
\* The conversation may be over.
CHECK_DEADLOCK FALSE
