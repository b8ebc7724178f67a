\* A cron job, one that replaces it, an interval job, two callers of check_and_fire and a trigger.
SPECIFICATION FairCronSpec
CONSTANTS
  cronJob = cronJob  newJob = newJob  intervalJob = intervalJob  t1 = t1  t2 = t2  g1 = g1
  Jobs = {cronJob, newJob, intervalJob}
  IdOf <- McIdOf
  Kind <- McKind
  Period <- McPeriod
  TriggerOf <- McTriggerOf
  Callers = {t1, t2, g1}
  Ticks = {t1, t2}
  NoTurn = NoTurn
  MaxConcurrent = 1
  MaxRegistrations = 2
  MaxClock = 2
  MaxCancels = 1
  MaxEdits = 3
INVARIANT CountersAgree
PROPERTY SlotsAdvance
PROPERTY EveryFiringEnds
\* The clock and the bounds are used up.
CHECK_DEADLOCK FALSE
