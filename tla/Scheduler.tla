----------------------------- MODULE Scheduler -----------------------------
(***************************************************************************)
(* The slots of one agent type (orchestrator/scheduler.py).  Every         *)
(* registration makes a semaphore of max_concurrent slots; a call uses the *)
(* one that was current when it was dispatched.  A module that dispatches  *)
(* calls EXTENDS this one and says what a call returns to.                 *)
(***************************************************************************)
EXTENDS Naturals, Sequences, FiniteSets, SequencesExt

CONSTANTS
  Callers,           \* the coroutines that call dispatch
  MaxConcurrent,     \* AgentConfig.max_concurrent
  MaxRegistrations   \* bound: calls of register

ASSUME SchedulerAssumption ==
  /\ IsFiniteSet(Callers)
  /\ MaxConcurrent \in Nat \ {0} /\ MaxRegistrations \in Nat \ {0}

VARIABLES
  sems,    \* the semaphores made so far, each [holders, waiters]
  agent    \* index of the registered semaphore, 0 when the type is unknown

schedulerVars == <<sems, agent>>
FreshSem == [holders |-> {}, waiters |-> <<>>]

SchedulerInit == sems = <<FreshSem>> /\ agent = 1

(* A caller holds a slot, or stands in a queue for one. *)
Holds(p) == \E g \in DOMAIN sems : p \in sems[g].holders
Queues(p) == \E g \in DOMAIN sems : p \in ToSet(sems[g].waiters)

-----------------------------------------------------------------------------
(* POST /agents and DELETE /agents reach these through AppState. *)
Register ==
  /\ Len(sems) < MaxRegistrations
  /\ sems' = Append(sems, FreshSem)
  /\ agent' = Len(sems')

Unregister ==
  /\ agent # 0
  /\ agent' = 0
  /\ UNCHANGED sems

(* dispatch up to its first await: a slot, or the end of the queue. *)
Acquire(p) ==
  /\ agent # 0
  /\ LET s == sems[agent] IN
       sems' = [sems EXCEPT ![agent] =
         IF Cardinality(s.holders) < MaxConcurrent /\ s.waiters = <<>>
         THEN [s EXCEPT !.holders = @ \cup {p}]
         ELSE [s EXCEPT !.waiters = Append(@, p)]]
  /\ UNCHANGED agent

(* Wrong: the slot is given back and nobody who waits is woken. *)
Left_Silent(s, p) ==
  [holders |-> s.holders \ {p}, waiters |-> RemoveFirst(s.waiters, p)]

(* Leaving "async with sem", or being cancelled while queueing for it: a slot
   goes to the caller that has waited longest. *)
Left(s, p) ==
  IF p \notin s.holders THEN [s EXCEPT !.waiters = RemoveFirst(@, p)]
  ELSE IF s.waiters = <<>> THEN [s EXCEPT !.holders = @ \ {p}]
  ELSE [holders |-> (s.holders \ {p}) \cup {Head(s.waiters)},
        waiters |-> Tail(s.waiters)]

Leave(p) ==
  /\ sems' = [g \in DOMAIN sems |-> Left(sems[g], p)]
  /\ UNCHANGED agent
=============================================================================
