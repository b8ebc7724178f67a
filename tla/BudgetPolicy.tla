---------------------------- MODULE BudgetPolicy ----------------------------
(***************************************************************************)
(* The budget of a task (policy_engine/budget_policy.py) as the executor   *)
(* uses it (adapters/openclaw_executor.py): check before a call of the     *)
(* gateway, record_spend after it.                                         *)
(*                                                                         *)
(* A process runs one event loop, and neither method awaits anything: the  *)
(* two Redis commands of record_spend are two steps only for another       *)
(* process.  Redis keeps its data; any command may fail.  Money is counted *)
(* in units; the prices and the split of an estimate are left out.         *)
(***************************************************************************)
EXTENDS Naturals, FiniteSets, Functions, FiniteSetsExt

CONSTANTS
  Procs,         \* processes of the API
  Calls,         \* calls of execute that can be in flight
  ProcOf,        \* ProcOf[c]: the process that makes call c
  Tasks,
  Budget,        \* OCCP_DEFAULT_TASK_BUDGET_USD
  Estimate,      \* what check expects of a call
  Costs,         \* what a call may cost
  MaxFaults,     \* bound: commands of Redis that fail
  MaxRestarts    \* bound: restarts of a process

ASSUME BudgetAssumption ==
  /\ ProcOf \in [Calls -> Procs] /\ IsFiniteSet(Calls) /\ IsFiniteSet(Procs)
  /\ Budget \in Nat /\ Estimate \in Nat
  /\ Costs \subseteq Nat /\ Costs /= {} /\ IsFiniteSet(Costs)
  /\ MaxFaults \in Nat /\ MaxRestarts \in Nat

VARIABLES
  redis,      \* redis[t]: the spend under the key of t
  backend,    \* backend[p]: "redis" or "memory"
  memory,     \* memory[p][t]: the spend in the fallback dict
  call,       \* call[c]: [pc, task, read, cost]
  faults, restarts,
  spent,      \* history: spent[t], the cost of the calls that returned
  epochs,     \* history: how often a process has lost sight of what was spent
  clashes     \* history: how often record_spend of two processes overlapped

vars == <<redis, backend, memory, call, faults, restarts, spent, epochs, clashes>>

Zero == [t \in Tasks |-> 0]
MaxCost == Max(Costs)
Idle(t) == [pc |-> "idle", task |-> t, read |-> 0, cost |-> 0]

\* _safe_get, when the command does not fail.
Seen(p, t) == IF backend[p] = "redis" THEN redis[t] ELSE memory[p][t]

\* Wrong: record_spend lets other tasks run between its read and its write.
Blocked_Never(p) == FALSE

\* The event loop of p is inside record_spend.
Blocked(p) == \E c \in Calls : ProcOf[c] = p /\ call[c].pc = "recording"

Init ==
  /\ redis = Zero
  /\ \E b \in {"redis", "memory"} : backend = [p \in Procs |-> b]
  /\ memory = [p \in Procs |-> Zero]
  /\ call \in [Calls -> {Idle(t) : t \in Tasks}]
  /\ faults = 0 /\ restarts = 0
  /\ spent = Zero /\ epochs = 0 /\ clashes = 0

-----------------------------------------------------------------------------
(* _safe_get and _safe_set *)

GetWorks(p) == UNCHANGED <<backend, memory, faults, epochs>>

\* The backend is replaced by an empty dict.
GetFails(p) ==
  /\ backend[p] = "redis"
  /\ faults < MaxFaults
  /\ faults' = faults + 1
  /\ epochs' = epochs + 1
  /\ backend' = [backend EXCEPT ![p] = "memory"]
  /\ memory' = [memory EXCEPT ![p] = Zero]

SetWorks(p, t, total) ==
  /\ IF backend[p] = "redis"
     THEN redis' = [redis EXCEPT ![t] = total] /\ UNCHANGED memory
     ELSE memory' = [memory EXCEPT ![p][t] = total] /\ UNCHANGED redis
  /\ UNCHANGED <<backend, faults, epochs>>

\* The new dict holds the total that could not be written, and nothing else.
SetFails(p, t, total) ==
  /\ backend[p] = "redis"
  /\ faults < MaxFaults
  /\ faults' = faults + 1
  /\ epochs' = epochs + 1
  /\ backend' = [backend EXCEPT ![p] = "memory"]
  /\ memory' = [memory EXCEPT ![p] = [Zero EXCEPT ![t] = total]]
  /\ UNCHANGED redis

-----------------------------------------------------------------------------
(* execute *)

Update(c, pc, read, cost) ==
  call' = [call EXCEPT ![c] =
             [pc |-> pc, task |-> call[c].task, read |-> read, cost |-> cost]]

\* Pipeline.run reads the spend for its evidence before anything is called.
Attach(c) ==
  /\ call[c].pc = "idle" /\ ~Blocked(ProcOf[c])
  /\ GetFails(ProcOf[c])
  /\ UNCHANGED <<redis, call, restarts, spent, clashes>>

\* Wrong: what was spent is compared without the call that is to come.
Fits_SpentOnly(seen) == seen <= Budget

Fits(seen) == seen + Estimate <= Budget

\* check passes, and the call is sent; a failed read passes as nothing spent.
Check(c) ==
  LET p == ProcOf[c] IN
  /\ call[c].pc = "idle" /\ ~Blocked(p)
  /\ \/ Fits(Seen(p, call[c].task)) /\ GetWorks(p)
     \/ Fits(0) /\ GetFails(p)
  /\ Update(c, "sent", 0, 0)
  /\ UNCHANGED <<redis, restarts, spent, clashes>>

\* The check refuses; the spend is read once more for the error.
Refuse(c) ==
  LET p == ProcOf[c] IN
  /\ call[c].pc = "idle" /\ ~Blocked(p)
  /\ ~Fits(Seen(p, call[c].task))
  /\ GetFails(p)
  /\ UNCHANGED <<redis, call, restarts, spent, clashes>>

\* A call of another process is between its read and its write for task t.
Overlapped(p, t) ==
  \E c \in Calls : ProcOf[c] /= p /\ call[c].pc = "recording" /\ call[c].task = t

\* record_spend up to its read.
RecordReads(c, cost) ==
  LET p == ProcOf[c] IN
  /\ call[c].pc = "sent" /\ ~Blocked(p)
  /\ \/ Update(c, "recording", Seen(p, call[c].task), cost) /\ GetWorks(p)
     \/ Update(c, "recording", 0, cost) /\ GetFails(p)
  /\ clashes' = IF Overlapped(p, call[c].task) THEN clashes + 1 ELSE clashes
  /\ UNCHANGED <<redis, restarts, spent>>

Total(k) == k.read + k.cost

\* The write, and the return of execute; the task of the next call is any.
RecordWrites(c) ==
  LET k == call[c] IN
  /\ k.pc = "recording"
  /\ \/ SetWorks(ProcOf[c], k.task, Total(k))
     \/ SetFails(ProcOf[c], k.task, Total(k))
  /\ spent' = [spent EXCEPT ![k.task] = @ + k.cost]
  /\ \E t \in Tasks : call' = [call EXCEPT ![c] = Idle(t)]
  /\ UNCHANGED <<restarts, clashes>>

\* The call times out or its connection is lost: nothing is recorded.
CallFails(c) ==
  /\ call[c].pc = "sent" /\ ~Blocked(ProcOf[c])
  /\ \E t \in Tasks : call' = [call EXCEPT ![c] = Idle(t)]
  /\ UNCHANGED <<redis, backend, memory, faults, restarts, spent, epochs, clashes>>

\* The process dies and starts again; the ping of the constructor may fail.
Restart(p) ==
  /\ restarts < MaxRestarts
  /\ restarts' = restarts + 1
  /\ \/ backend' = [backend EXCEPT ![p] = "redis"] /\ UNCHANGED faults
     \/ /\ faults < MaxFaults /\ faults' = faults + 1
        /\ backend' = [backend EXCEPT ![p] = "memory"]
  /\ epochs' = IF backend[p] = "redis" /\ backend'[p] = "redis"
               THEN epochs ELSE epochs + 1
  /\ memory' = [memory EXCEPT ![p] = Zero]
  /\ call' = [c \in Calls |-> IF ProcOf[c] = p THEN Idle(call[c].task) ELSE call[c]]
  /\ UNCHANGED <<redis, spent, clashes>>

Next ==
  \/ \E c \in Calls : Attach(c) \/ Check(c) \/ Refuse(c) \/ RecordWrites(c) \/ CallFails(c)
  \/ \E c \in Calls, cost \in Costs : RecordReads(c, cost)
  \/ \E p \in Procs : Restart(p)

Spec == Init /\ [][Next]_vars

-----------------------------------------------------------------------------
(* Properties *)

(* Every variable has its type.                                             *)
TypeOK ==
  /\ redis \in [Tasks -> Nat] /\ memory \in [Procs -> [Tasks -> Nat]]
  /\ backend \in [Procs -> {"redis", "memory"}]
  /\ call \in [Calls -> [pc : {"idle", "sent", "recording"}, task : Tasks,
                         read : Nat, cost : Nat]]
  /\ faults \in 0..MaxFaults /\ restarts \in 0..MaxRestarts
  /\ spent \in [Tasks -> Nat] /\ epochs \in Nat /\ clashes \in Nat

(* While Redis answers and no two processes record at once, what the next   *)
(* check of any process reads is what every call that returned has cost,    *)
(* whichever process made it and however many restarts lie between          *)
(* ("budgets survive container restarts and are shared across worker        *)
(* processes").                                                             *)
Accounted ==
  epochs = 0 /\ clashes = 0 =>
    \A p \in Procs, t \in Tasks : backend[p] = "redis" => redis[t] = spent[t]

(* The damage is bounded: for every time a process loses sight of what was  *)
(* spent a task may spend its budget once more, and no more than the calls  *)
(* in flight beyond it (the last check that passed left room for one        *)
(* estimate); two processes that record at once lose one cost.              *)
OverrunBounded ==
  LET room == Budget - Estimate
      inFlight == Cardinality(Calls) * MaxCost
  IN \A t \in Tasks :
       spent[t] > 0 =>
         spent[t] <= Cardinality(Procs) * room + inFlight
                       + epochs * (room + inFlight) + clashes * MaxCost
=============================================================================
