-------------------------- MODULE MCCronScheduler --------------------------
(* The jobs and callers of the configurations of CronScheduler. *)
EXTENDS CronScheduler

CONSTANTS cronJob, newJob, intervalJob, t1, t2, g1

McKind == [j \in Jobs |-> IF j = intervalJob THEN "interval" ELSE "cron"]
McPeriod == [j \in Jobs |-> IF j = intervalJob THEN 1 ELSE 2]
\* newJob replaces cronJob, or is replaced by it.
McIdOf == [j \in Jobs |-> IF j = intervalJob THEN "interval" ELSE "cron"]
McTriggerOf == [j \in Jobs |-> "id"]
=============================================================================
