\* start_workflow over the diamond and a resume_execution, with kill, pause, a
\* failing write and a crash.
SPECIFICATION FairSpec
CONSTANTS
  x0 = x0  x1 = x1
  Nodes = {1, 2, 3, 4}
  Deps <- Diamond
  Retries = 1
  MaxConcurrent = 2
  Starter = x0
  Resumers = {x1}
  LiveResume = FALSE
  MaxFaults = 1
  MaxCrashes = 1
  MaxPauses = 1
INVARIANT TypeOK
INVARIANT DepsBeforeDispatch
INVARIANT CompletedIsTrue
PROPERTY KillAndPauseStopWork
PROPERTY SuccessIsFinal
PROPERTY RunnersEnd
\* Every runner may be over.
CHECK_DEADLOCK FALSE
