--------------------------- MODULE CronScheduler ---------------------------
(***************************************************************************)
(* Scheduled and triggered jobs (orchestrator/cron_scheduler.py) over the  *)
(* slots of Scheduler.  A tick is a call of check_and_fire: it goes        *)
(* through a snapshot of the jobs and awaits each one that is due before   *)
(* it looks at the next.  A trigger is a call of fire_trigger.             *)
(*                                                                         *)
(* One event loop: turn is the call that runs between two awaits,          *)
(* and nothing else moves meanwhile.  One unit of the clock is a minute;   *)
(* a cron expression matches the multiples of its period.  Jobs of the     *)
(* kinds event and webhook are never due and are left out: a trigger fires *)
(* every kind alike.                                                       *)
(***************************************************************************)
EXTENDS Scheduler, Functions

CONSTANTS
  Jobs,         \* the ScheduledJob objects
  IdOf,         \* IdOf[j]: job_id, the key of _jobs and _history
  Kind,         \* Kind[j] \in {"cron", "interval"}
  Period,       \* Period[j]: of the cron expression, or interval_seconds
  TriggerOf,    \* TriggerOf[j]: TriggerConfig.trigger_id
  Ticks,        \* callers of check_and_fire; the others call fire_trigger
  NoTurn,       \* no tick is between two awaits
  MaxClock,     \* bound: the last minute
  MaxCancels,   \* bound: calls cancelled from outside
  MaxEdits      \* bound: changes of the job list and of the registration

ASSUME CronAssumption ==
  /\ IsFiniteSet(Jobs)
  /\ Kind \in [Jobs -> {"cron", "interval"}]
  /\ Period \in [Jobs -> Nat \ {0}]
  /\ DOMAIN IdOf = Jobs /\ DOMAIN TriggerOf = Jobs
  /\ Ticks \subseteq Callers /\ NoTurn \notin Callers
  /\ MaxClock \in Nat /\ MaxCancels \in Nat /\ MaxEdits \in Nat

VARIABLES
  clock,
  jobs,      \* _jobs: its objects, in the order their ids were inserted
  job,       \* job[j]: what the object says, [enabled, next, runs, errors]
  history,   \* history[j]: the entries of _history[IdOf[j]] about firings of j
  fired,     \* _total_fired
  call,      \* call[p]: [at, now, todo, job, slot], where a coroutine stands
  turn,      \* the coroutine that holds the event loop
  edits,     \* counts what MaxEdits bounds
  \* history variables
  lost,      \* firings that were cancelled before they were counted
  past,      \* past[j]: the runs and errors of j that its history has lost
  served,    \* served[j]: the latest slot a tick has fired j for to the end
  doubled    \* jobs two ticks have been firing at once

Never == 0                     \* next_run is None
AtRest == [at |-> "idle", now |-> 0, todo |-> <<>>, job |-> NoTurn, slot |-> Never]
records == <<job, history, fired>>
ghosts == <<lost, past, served, doubled>>
cronVars == <<schedulerVars, clock, jobs, records, call, turn, edits, ghosts>>

CronInit ==
  /\ SchedulerInit
  /\ clock = 0
  /\ jobs = <<>>
  /\ job = [j \in Jobs |->
       [enabled |-> TRUE, next |-> Never, runs |-> 0, errors |-> 0]]
  /\ history = [j \in Jobs |-> 0]
  /\ fired = 0
  /\ call = [p \in Callers |-> AtRest]
  /\ turn = NoTurn
  /\ edits = 0
  /\ lost = 0 /\ doubled = {}
  /\ past = [j \in Jobs |-> 0]
  /\ served = [j \in Jobs |-> Never]

-----------------------------------------------------------------------------
(* Wrong: a cron slot may be the minute itself. *)
NextRun_Inclusive(j, t) ==
  IF Kind[j] = "cron" THEN t + ((Period[j] - (t % Period[j])) % Period[j])
                      ELSE t + Period[j]

(* The first slot strictly after t. *)
NextRun(j, t) ==
  IF Kind[j] = "cron" THEN t - (t % Period[j]) + Period[j] ELSE t + Period[j]

Due(j, t) ==
  /\ job[j].enabled
  /\ job[j].next # Never /\ job[j].next <= t

Listed(j) == j \in ToSet(jobs)
Edit == turn = NoTurn /\ edits < MaxEdits /\ edits' = edits + 1

(* _history[id] is a new list, or there is none. *)
NewHistory(id) ==
  /\ history' = [j \in Jobs |-> IF IdOf[j] = id THEN 0 ELSE history[j]]
  /\ past' = [j \in Jobs |->
                IF IdOf[j] = id THEN job[j].runs + job[j].errors ELSE past[j]]

(* _jobs[id] = j: in the place of the object that has the id, or at the end. *)
Put(j) ==
  jobs' = IF \E k \in ToSet(jobs) : IdOf[k] = IdOf[j]
          THEN [n \in DOMAIN jobs |-> IF IdOf[jobs[n]] = IdOf[j] THEN j ELSE jobs[n]]
          ELSE Append(jobs, j)

(* add_job leaves the next_run of an object that has one.  It does not ask
   whether the id, or the object itself, is listed. *)
AddJob(j) ==
  /\ Edit
  /\ Put(j) /\ NewHistory(IdOf[j])
  /\ job' = [job EXCEPT ![j].next = IF @ = Never THEN NextRun(j, clock) ELSE @]
  /\ UNCHANGED <<schedulerVars, clock, fired, call, turn, lost, served, doubled>>

RemoveJob(j) ==
  /\ Edit /\ Listed(j)
  /\ jobs' = RemoveFirst(jobs, j)
  /\ NewHistory(IdOf[j])
  /\ UNCHANGED <<schedulerVars, clock, job, fired, call, turn,
                 lost, served, doubled>>

PauseJob(j) ==
  /\ Edit /\ Listed(j)
  /\ job' = [job EXCEPT ![j].enabled = FALSE]
  /\ UNCHANGED <<schedulerVars, clock, jobs, history, fired, call, turn, ghosts>>

ResumeJob(j) ==
  /\ Edit /\ Listed(j)
  /\ job' = [job EXCEPT ![j] = [@ EXCEPT !.enabled = TRUE, !.next = NextRun(j, clock)]]
  /\ UNCHANGED <<schedulerVars, clock, jobs, history, fired, call, turn, ghosts>>

-----------------------------------------------------------------------------
Firing(p) == call[p].at \in {"ticking", "triggered"}
Ticking(j) == {p \in Ticks : call[p].at = "ticking" /\ call[p].job = j}

(* _fire_job up to the await of the dispatch.  Without a registered agent the
   dispatch raises in the same turn. *)
Fire(p, j, at) ==
  /\ fired' = fired + 1
  /\ call' = [call EXCEPT ![p] = [@ EXCEPT !.at = at, !.job = j, !.slot = job[j].next]]
  /\ IF agent = 0 THEN turn' = p /\ UNCHANGED schedulerVars
                  ELSE turn' = NoTurn /\ Acquire(p)
  /\ UNCHANGED <<clock, jobs, job, history, edits, lost, past, served>>

Counted(r, ok) ==
  IF ok THEN [r EXCEPT !.runs = @ + 1] ELSE [r EXCEPT !.errors = @ + 1]

(* The rest of _fire_job: counters, and the history of the id, which is made anew
   when the job was removed meanwhile.  A tick computes the next slot from the time
   it was called with and goes on with the sweep in this turn. *)
Settle(p, ok) ==
  LET j == call[p].job IN
  /\ history' = [history EXCEPT ![j] = @ + 1]
  /\ IF p \in Ticks
     THEN /\ job' = [job EXCEPT ![j] =
               [Counted(@, ok) EXCEPT !.next = NextRun(j, call[p].now)]]
          /\ served' = [served EXCEPT ![j] = call[p].slot]
          /\ call' = [call EXCEPT ![p] = [@ EXCEPT
               !.at = "sweeping", !.job = NoTurn, !.slot = Never, !.todo = Tail(call[p].todo)]]
          /\ turn' = p
     ELSE /\ job' = [job EXCEPT ![j] = Counted(@, ok)]
          /\ call' = [call EXCEPT ![p] = [@ EXCEPT
               !.at = "done", !.job = NoTurn, !.slot = Never]]
          /\ turn' = NoTurn
          /\ UNCHANGED served
  /\ UNCHANGED <<clock, jobs, fired, edits, lost, past, doubled>>

(* check_and_fire. *)
Tick(p) ==
  /\ turn = NoTurn /\ p \in Ticks
  /\ call[p].at = "idle" /\ call[p].now < clock
  /\ call' = [call EXCEPT ![p] = [@ EXCEPT !.at = "sweeping", !.now = clock, !.todo = jobs]]
  /\ turn' = p
  /\ UNCHANGED <<schedulerVars, clock, jobs, records, edits, ghosts>>

NotDue(p) ==
  /\ turn = p /\ call[p].at = "sweeping" /\ call[p].todo # <<>>
  /\ ~Due(Head(call[p].todo), call[p].now)
  /\ call' = [call EXCEPT ![p].todo = Tail(@)]
  /\ UNCHANGED <<schedulerVars, clock, jobs, records, turn, edits, ghosts>>

TickFires(p) ==
  /\ turn = p /\ call[p].at = "sweeping" /\ call[p].todo # <<>>
  /\ LET j == Head(call[p].todo) IN
       /\ Due(j, call[p].now)
       /\ Fire(p, j, "ticking")
       /\ doubled' = IF Ticking(j) = {} THEN doubled ELSE doubled \cup {j}

EndTick(p) ==
  /\ turn = p /\ call[p].at = "sweeping" /\ call[p].todo = <<>>
  /\ call' = [call EXCEPT ![p].at = "idle"]
  /\ turn' = NoTurn
  /\ UNCHANGED <<schedulerVars, clock, jobs, records, edits, ghosts>>

(* fire_trigger: the first enabled job with this id. *)
Matches(j, id) == TriggerOf[j] = id /\ job[j].enabled

Trigger(p, id) ==
  /\ turn = NoTurn /\ p \notin Ticks
  /\ call[p].at = "idle"
  /\ \E i \in DOMAIN jobs :
       /\ Matches(jobs[i], id)
       /\ \A k \in 1..i - 1 : ~Matches(jobs[k], id)
       /\ Fire(p, jobs[i], "triggered")
  /\ UNCHANGED doubled

(* The factory returns, raises or runs into timeout_seconds. *)
Returns(p) == turn = NoTurn /\ Holds(p) /\ Leave(p) /\ Settle(p, TRUE)
Raises(p) == turn = NoTurn /\ Holds(p) /\ Leave(p) /\ Settle(p, FALSE)
(* Wrong: a call that finds no agent is counted as fired only. *)
AgentMissing_Uncounted(p) ==
  /\ turn = p /\ Firing(p)
  /\ call' = [call EXCEPT ![p] = [@ EXCEPT
       !.at = IF p \in Ticks THEN "sweeping" ELSE "done",
       !.todo = IF p \in Ticks THEN Tail(@) ELSE @]]
  /\ turn' = IF p \in Ticks THEN p ELSE NoTurn
  /\ UNCHANGED <<schedulerVars, clock, jobs, records, edits, ghosts>>

AgentMissing(p) == turn = p /\ Firing(p) /\ Settle(p, FALSE) /\ UNCHANGED schedulerVars

(* CancelledError is no Exception: nothing is counted, the rest of the sweep
   is dropped and the job stays due. *)
CancelCall(p) ==
  /\ turn = NoTurn /\ Firing(p) /\ lost < MaxCancels
  /\ Leave(p)
  /\ call' = [call EXCEPT ![p] = [AtRest EXCEPT
       !.at = IF p \in Ticks THEN "idle" ELSE "done", !.now = call[p].now]]
  /\ lost' = lost + 1
  /\ UNCHANGED <<clock, jobs, records, turn, edits, past, served, doubled>>

Minute ==
  /\ turn = NoTurn /\ clock < MaxClock
  /\ clock' = clock + 1
  /\ UNCHANGED <<schedulerVars, jobs, records, call, turn, edits, ghosts>>

Registration ==
  /\ Edit
  /\ Register \/ Unregister
  /\ UNCHANGED <<clock, jobs, records, call, turn, ghosts>>

Sweep(p) == NotDue(p) \/ TickFires(p) \/ EndTick(p) \/ AgentMissing(p)
Ends(p) == Returns(p) \/ Raises(p)

CronNext ==
  \/ \E j \in Jobs : AddJob(j) \/ RemoveJob(j) \/ PauseJob(j) \/ ResumeJob(j)
  \/ \E p \in Callers : Tick(p) \/ Sweep(p) \/ Ends(p) \/ CancelCall(p)
  \/ \E p \in Callers, j \in Jobs : Trigger(p, TriggerOf[j])
  \/ Minute
  \/ Registration

CronSpec == CronInit /\ [][CronNext]_cronVars

(* A coroutine that can run does, and wait_for bounds the factory. *)
FairCronSpec == CronSpec /\ \A p \in Callers : WF_cronVars(Sweep(p)) /\ WF_cronVars(Ends(p))

-----------------------------------------------------------------------------
Total(f) == FoldFunction(+, 0, f)

(* get_stats tells the truth while jobs are fired, added, replaced, removed and
   cancelled: each firing is a run, an error, one in flight or one that was
   cancelled, and the history of an id has an entry for each run and error of its
   objects since add_job or remove_job last had to do with that id, also of an
   object that was replaced or removed while it was fired.  No id is listed
   twice.  A firing in flight has exactly one place with the scheduler, in the
   semaphore or its queue, and one that ended has none. *)
CountersAgree ==
  /\ fired = Total([j \in Jobs |-> job[j].runs + job[j].errors])
             + Cardinality({p \in Callers : Firing(p)}) + lost
  /\ \A j \in Jobs : history[j] + past[j] = job[j].runs + job[j].errors
  /\ ToSet(jobs) \subseteq Jobs
  /\ \A m, n \in DOMAIN jobs : IdOf[jobs[m]] = IdOf[jobs[n]] => m = n
  /\ turn # NoTurn => Firing(turn) \/ call[turn].at = "sweeping"
  /\ \A p \in Callers \ {turn} : Firing(p) <=> (Holds(p) \/ Queues(p))
  /\ \A g \in DOMAIN sems : Cardinality(sems[g].holders) <= MaxConcurrent

(* check_and_fire fires a job once for a slot: whatever is paused, resumed,
   removed, triggered or cancelled between and during the ticks, a tick never
   fires a job for a slot an earlier tick has served, unless two ticks were
   firing that job at once. *)
SlotsAdvance ==
  [][\A p \in Ticks : call[p].at = "sweeping" /\ call'[p].at = "ticking" =>
       LET j == call'[p].job IN
         j \notin doubled' => call'[p].slot > served[j]]_cronVars

(* Every firing ends, those that queue for a slot included, also when the
   agent is registered anew, unregistered, or calls ahead are cancelled. *)
EveryFiringEnds == \A p \in Callers : []<>~Firing(p)
=============================================================================
