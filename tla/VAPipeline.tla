----------------------------- MODULE VAPipeline -----------------------------
(***************************************************************************)
(* The Verified Autonomy Pipeline (orchestrator/pipeline.py, Pipeline.run) *)
(* together with the callers that start it: POST /pipeline/run/{task_id}   *)
(* and the background jobs of the hook and event endpoints.                *)
(*                                                                         *)
(* Everything runs on one asyncio event loop: code between two awaits is   *)
(* atomic, so one action is the code from one await to the next one, and   *)
(* pc[r] names the await run r is suspended in.  The adapters (planner,    *)
(* policy engine, executor, quality gate, validator, shipper) are external *)
(* to the run: an await ends with any answer or exception they may give.   *)
(***************************************************************************)
EXTENDS Naturals

CONSTANTS
  Requests,        \* calls of POST /pipeline/run/{task_id}
  Jobs,            \* background runs: the caller created the task itself
  Tasks,           \* task ids (uuids: never created twice)
  OwnCopy,         \* TRUE: AppState.task_store is set, every get_task builds
                   \* a new Task from its row; FALSE: the shared dict _tasks
  Confirm,         \* Pipeline(confirmation_gate is not None)
  Quality,         \* Pipeline(quality_gate is not None)
  ExecuteRetries,  \* Pipeline(execute_retries)
  MaxRevisions,    \* Pipeline(quality_max_revisions)
  RedisBackend,    \* OCCP_KILL_SWITCH_BACKEND = "redis"
  NoTask           \* taskOf of a run that has not chosen its task

Runs == Requests \cup Jobs

ASSUME ConfigAssumption ==
  /\ OwnCopy \in BOOLEAN /\ Confirm \in BOOLEAN /\ Quality \in BOOLEAN
  /\ RedisBackend \in BOOLEAN
  /\ ExecuteRetries \in Nat /\ MaxRevisions \in Nat
  /\ NoTask \notin Tasks
  /\ Requests \cap Jobs = {}

Status == {"pending", "planning", "awaiting_confirmation", "gated",
           "executing", "validating", "shipping",
           "completed", "failed", "rejected"}

\* Task._VALID_TRANSITIONS
ValidTransitions ==
  [s \in Status |->
     CASE s = "pending"               -> {"planning", "failed"}
       [] s = "planning"              -> {"awaiting_confirmation", "gated", "failed"}
       [] s = "awaiting_confirmation" -> {"gated", "rejected", "failed"}
       [] s = "gated"                 -> {"executing", "rejected", "failed"}
       [] s = "executing"             -> {"validating", "failed"}
       [] s = "validating"            -> {"shipping", "failed"}
       [] s = "shipping"              -> {"completed", "failed"}
       [] OTHER                       -> {}]

\* The awaits of Pipeline.run that call an adapter.
Stages == {"plan", "confirm", "gate", "execute", "review", "revise",
           "validate", "ship"}
Awaits == {"idle", "start", "persist", "done"} \cup Stages
Results == {"none", "not_found", "conflict", "success", "failed",
            "gate_rejected", "raised", "lost"}

\* The Task objects: one per run when they are built from rows, one per task
\* when the dict hands out the same object to everybody.
Objects == IF OwnCopy THEN Runs ELSE Tasks

VARIABLES
  row,        \* row[t]: "absent", the status stored for t, or "lost" (the dict
              \* died with the process)
  status,     \* status[o]: Task.status of object o
  taskOf,     \* taskOf[r]: the task run r works on
  pc,         \* pc[r]: the await run r is suspended in
  completed,  \* completed[r]: len(completed_stages)
  granted,    \* granted[r]: the approvals recorded in evidence: "human", "gate"
  calls,      \* calls[r]: executor.execute calls made by r
  output,     \* output[r]: which execution produced the output at hand (0: none)
  evidence,   \* evidence[r]: the output stored in evidence["execution"]
  passed,     \* passed[r]: the output the quality gate passed (0: none)
  result,     \* result[r]: what the caller of run() got
  shipped,    \* the runs that called shipper.ship
  halt        \* the kill switches: [memory |-> is_active, redis |-> is_active]

world == <<row, taskOf, halt>>
book == <<granted, calls, output, evidence, passed>>
vars == <<world, book, status, pc, completed, result, shipped>>

Obj(r) == IF OwnCopy THEN r ELSE taskOf[r]

Halted == halt.memory \/ (RedisBackend /\ halt.redis)

Init ==
  /\ row = [t \in Tasks |-> "absent"]
  /\ status = [o \in Objects |-> "pending"]
  /\ taskOf = [r \in Runs |-> NoTask]
  /\ pc = [r \in Runs |-> "idle"]
  /\ completed = [r \in Runs |-> 0]
  /\ granted = [r \in Runs |-> {}]
  /\ calls = [r \in Runs |-> 0]
  /\ output = [r \in Runs |-> 0]
  /\ evidence = [r \in Runs |-> 0]
  /\ passed = [r \in Runs |-> 0]
  /\ result = [r \in Runs |-> "none"]
  /\ shipped = {}
  /\ halt = [memory |-> FALSE, redis |-> FALSE]

-----------------------------------------------------------------------------
(* How a run ends, and how it moves its task.                              *)

\* A mutated form of Return: background runs wait for a write nobody makes.
Return_AllPersist(r, res) ==
  /\ result' = [result EXCEPT ![r] = res]
  /\ pc' = [pc EXCEPT ![r] =
              IF res \in {"success", "failed", "gate_rejected"}
              THEN "persist" ELSE "done"]

\* run() returns or raises res to its caller.  The route persists the task
\* after a result and after GateRejectedError, and after nothing else; the
\* background callers never persist.
Return(r, res) ==
  /\ result' = [result EXCEPT ![r] = res]
  /\ pc' = [pc EXCEPT ![r] =
              IF r \in Requests /\ res \in {"success", "failed", "gate_rejected"}
              THEN "persist" ELSE "done"]

\* Mutated forms of CanMove: no check at all; a failed task may be retried.
CanMove_Always(r, to) == to \in Status

CanMove_Reopens(r, to) ==
  \/ to \in ValidTransitions[status[Obj(r)]]
  \/ status[Obj(r)] = "failed" /\ to = "planning"

\* Task.transition succeeds
CanMove(r, to) == to \in ValidTransitions[status[Obj(r)]]

Move(r, to) == status' = [status EXCEPT ![Obj(r)] = to]

\* A mutated form of Fail: the handler forgets the transition.
Fail_KeepsStatus(r) == UNCHANGED status /\ Return(r, "failed")

\* The handlers of ExecutionError, ValidationError and of any other exception:
\* a transition to FAILED that is not guarded, so that on a task that is
\* terminal already its ValueError leaves run() itself.
Fail(r) ==
  \/ CanMove(r, "failed") /\ Move(r, "failed") /\ Return(r, "failed")
  \/ ~CanMove(r, "failed") /\ UNCHANGED status /\ Return(r, "raised")

\* The refusals (kill switch, budget exceeded) swallow that ValueError.
Refuse(r) ==
  /\ IF CanMove(r, "failed") THEN Move(r, "failed") ELSE UNCHANGED status
  /\ Return(r, "failed")

\* _assert_stage_order, the transition that opens a stage, the call of its
\* adapter: the run is then suspended in `await`.  A StageSkipError or the
\* ValueError of the transition goes to the handler of any other exception.
Enter(r, done, to, await) ==
  \/ /\ completed'[r] = done /\ CanMove(r, to)
     /\ Move(r, to)
     /\ pc' = [pc EXCEPT ![r] = await]
     /\ UNCHANGED result
  \/ /\ completed'[r] # done \/ ~CanMove(r, to)
     /\ Fail(r)

CompleteStage(r) == completed' = [completed EXCEPT ![r] = @ + 1]

-----------------------------------------------------------------------------
(* The callers.                                                            *)

\* POST /tasks stores a pending task.
CreateTask(t) ==
  /\ row[t] = "absent"
  /\ row' = [row EXCEPT ![t] = "pending"]
  /\ UNCHANGED <<taskOf, halt, book, status, pc, completed, result, shipped>>

\* A hook or an event creates its task, stores it and schedules its run.
ScheduleJob(j, t) ==
  /\ pc[j] = "idle" /\ row[t] = "absent"
  /\ row' = [row EXCEPT ![t] = "pending"]
  /\ taskOf' = [taskOf EXCEPT ![j] = t]
  /\ pc' = [pc EXCEPT ![j] = "start"]
  /\ UNCHANGED <<halt, book, status, completed, result, shipped>>

\* run_pipeline: state.get_task.  With a store the Task is built from the row
\* as it is now; without one the run gets the object everyone shares.
Fetch(q, t) ==
  /\ pc[q] = "idle"
  /\ IF row[t] \in Status
     THEN /\ taskOf' = [taskOf EXCEPT ![q] = t]
          /\ pc' = [pc EXCEPT ![q] = "start"]
          /\ IF OwnCopy THEN status' = [status EXCEPT ![q] = row[t]]
                        ELSE UNCHANGED status
          /\ UNCHANGED result
     ELSE /\ result' = [result EXCEPT ![q] = "not_found"]
          /\ pc' = [pc EXCEPT ![q] = "done"]
          /\ UNCHANGED <<status, taskOf>>
  /\ UNCHANGED <<row, halt, book, completed, shipped>>

\* The 409 answer of run_pipeline.
Conflict(q) ==
  /\ pc[q] = "start" /\ status[Obj(q)] # "pending"
  /\ Return(q, "conflict")
  /\ UNCHANGED <<world, book, status, completed, shipped>>

\* The first segment of Pipeline.run: both kill switches, then PLANNING.  Only
\* the route looks at the status before it calls run().  A probe of Redis that
\* fails is logged, and the run goes on.
Admit(r) ==
  /\ pc[r] = "start"
  /\ r \in Requests => status[Obj(r)] = "pending"
  /\ UNCHANGED completed
  /\ \/ Halted /\ Refuse(r)
     \/ ~halt.memory /\ Enter(r, 0, "planning", "plan")
  /\ UNCHANGED <<world, book, shipped>>

\* The route stores the status of its object; the write may fail, and then the
\* row stays as it was.  Without a store the dict has the object already.
Persist(q) ==
  /\ pc[q] = "persist"
  /\ pc' = [pc EXCEPT ![q] = "done"]
  /\ \/ OwnCopy /\ row' = [row EXCEPT ![taskOf[q]] = status[q]]
     \/ UNCHANGED row
  /\ UNCHANGED <<taskOf, halt, book, status, completed, result, shipped>>

-----------------------------------------------------------------------------
(* The stages of Pipeline.run.                                             *)

\* create_plan returns: ask the human if there is a confirmation gate, enter
\* the policy gate otherwise.
PlanReturns(r) ==
  /\ pc[r] = "plan"
  /\ CompleteStage(r)
  /\ IF Confirm THEN Enter(r, 1, "awaiting_confirmation", "confirm")
                ELSE Enter(r, 1, "gated", "gate")
  /\ UNCHANGED <<world, book, shipped>>

\* request_confirmation returns APPROVED or AUTO_APPROVED.
HumanApproves(r) ==
  /\ pc[r] = "confirm"
  /\ granted' = [granted EXCEPT ![r] = @ \cup {"human"}]
  /\ UNCHANGED completed
  /\ Enter(r, 1, "gated", "gate")
  /\ UNCHANGED <<world, calls, output, evidence, passed, shipped>>

\* It returns REJECTED or TIMEOUT: HumanRejectedError or
\* ConfirmationTimeoutError leaves run(), and the route does not catch it.
HumanRefuses(r) ==
  /\ pc[r] = "confirm"
  /\ \/ CanMove(r, "rejected") /\ Move(r, "rejected") /\ Return(r, "raised")
     \/ ~CanMove(r, "rejected") /\ Fail(r)
  /\ UNCHANGED <<world, book, completed, shipped>>

\* The policy engine approves; the agent tool guard may still refuse the
\* executor, which fails the task without a call.
GateApproves(r) ==
  /\ pc[r] = "gate"
  /\ CompleteStage(r)
  /\ granted' = [granted EXCEPT ![r] = @ \cup {"gate"}]
  /\ \/ /\ Enter(r, 2, "executing", "execute")
        /\ calls' = [calls EXCEPT ![r] = IF pc'[r] = "execute" THEN 1 ELSE 0]
     \/ /\ CanMove(r, "executing")
        /\ Move(r, "failed") /\ Return(r, "failed")
        /\ UNCHANGED calls
  /\ UNCHANGED <<world, output, evidence, passed, shipped>>

\* A mutated form of GateRejects: gate_result.approved is not looked at.
GateRejects_Ignored(r) ==
  /\ pc[r] = "gate"
  /\ CompleteStage(r)
  /\ Enter(r, 2, "executing", "execute")
  /\ calls' = [calls EXCEPT ![r] = 1]
  /\ UNCHANGED <<world, granted, output, evidence, passed, shipped>>

\* GateRejectedError; on a task that was moved meanwhile the transition in its
\* handler raises ValueError instead.
GateRejects(r) ==
  /\ pc[r] = "gate"
  /\ \/ CanMove(r, "rejected") /\ Move(r, "rejected") /\ Return(r, "gate_rejected")
     \/ ~CanMove(r, "rejected") /\ UNCHANGED status /\ Return(r, "raised")
  /\ UNCHANGED <<world, book, completed, shipped>>

\* An attempt of _execute_with_retry returns: its output becomes the evidence.
ExecuteReturns(r) ==
  /\ pc[r] = "execute"
  /\ CompleteStage(r)
  /\ output' = [output EXCEPT ![r] = 1]
  /\ evidence' = [evidence EXCEPT ![r] = 1]
  /\ IF Quality THEN /\ pc' = [pc EXCEPT ![r] = "review"]
                     /\ UNCHANGED <<status, result>>
                ELSE Enter(r, 3, "validating", "validate")
  /\ UNCHANGED <<world, granted, calls, passed, shipped>>

\* A mutated form of ExecuteRetry: one attempt too many.
ExecuteRetry_OneMore(r) ==
  /\ pc[r] = "execute" /\ calls[r] <= 1 + ExecuteRetries
  /\ calls' = [calls EXCEPT ![r] = @ + 1]
  /\ UNCHANGED <<world, granted, output, evidence, passed, status, pc,
                 completed, result, shipped>>

\* An attempt raises something that is neither ExecutionError nor
\* BudgetExceededError and attempts are left.
ExecuteRetry(r) ==
  /\ pc[r] = "execute" /\ calls[r] < 1 + ExecuteRetries
  /\ calls' = [calls EXCEPT ![r] = @ + 1]
  /\ UNCHANGED <<world, granted, output, evidence, passed, status, pc,
                 completed, result, shipped>>

\* The quality gate passes the output at hand.
ReviewPasses(r) ==
  /\ pc[r] = "review"
  /\ passed' = [passed EXCEPT ![r] = output[r]]
  /\ UNCHANGED completed
  /\ Enter(r, 3, "validating", "validate")
  /\ UNCHANGED <<world, granted, calls, output, evidence, shipped>>

\* A mutated form of ReviewFails: out of revisions, the run goes on.
ReviewFails_GoesOn(r) ==
  /\ pc[r] = "review"
  /\ UNCHANGED completed
  /\ IF output[r] <= MaxRevisions
     THEN /\ pc' = [pc EXCEPT ![r] = "revise"]
          /\ calls' = [calls EXCEPT ![r] = @ + 1]
          /\ UNCHANGED <<status, result>>
     ELSE Enter(r, 3, "validating", "validate") /\ UNCHANGED calls
  /\ UNCHANGED <<world, granted, output, evidence, passed, shipped>>

\* It does not: the executor is called again while revisions are left
\* (attempt = output - 1), else the run fails with a ValidationError.
ReviewFails(r) ==
  /\ pc[r] = "review"
  /\ IF output[r] <= MaxRevisions
     THEN /\ pc' = [pc EXCEPT ![r] = "revise"]
          /\ calls' = [calls EXCEPT ![r] = @ + 1]
          /\ UNCHANGED <<status, result>>
     ELSE Fail(r) /\ UNCHANGED calls
  /\ UNCHANGED <<world, granted, output, evidence, passed, completed, shipped>>

\* The revised output goes to evidence["execution_revision_k"]:
\* evidence["execution"] keeps the first one.
ReviseReturns(r) ==
  /\ pc[r] = "revise"
  /\ output' = [output EXCEPT ![r] = @ + 1]
  /\ pc' = [pc EXCEPT ![r] = "review"]
  /\ UNCHANGED <<world, granted, calls, evidence, passed, status, completed,
                 result, shipped>>

\* No validation failures: the shipper is called.
ValidateReturns(r) ==
  /\ pc[r] = "validate"
  /\ CompleteStage(r)
  /\ Enter(r, 4, "shipping", "ship")
  /\ shipped' = IF pc'[r] = "ship" THEN shipped \cup {r} ELSE shipped
  /\ UNCHANGED <<world, book>>

\* ship returns: COMPLETED and a successful result.
ShipReturns(r) ==
  /\ pc[r] = "ship"
  /\ CompleteStage(r)
  /\ \/ CanMove(r, "completed") /\ Move(r, "completed") /\ Return(r, "success")
     \/ ~CanMove(r, "completed") /\ Fail(r)
  /\ UNCHANGED <<world, book, shipped>>

\* An adapter raises (validation failures and the last failed attempt of the
\* executor included); BudgetExceededError takes the swallowing path.
StageRaises(r) ==
  /\ pc[r] \in Stages
  /\ Fail(r) \/ Refuse(r)
  /\ UNCHANGED <<world, book, completed, shipped>>

-----------------------------------------------------------------------------
(* The environment: operators and the process.                             *)

\* POST /governance/kill_switch/*: the in-memory switch of this process, or
\* the one in Redis.
ToggleHalt ==
  /\ \/ halt' = [halt EXCEPT !.memory = ~@]
     \/ halt' = [halt EXCEPT !.redis = ~@]
  /\ UNCHANGED <<row, taskOf, book, status, pc, completed, result, shipped>>

\* The process dies and is started again: every run in flight is gone, so are
\* the dict of tasks and the in-memory switch; rows and Redis survive.
Restart ==
  /\ \E r \in Runs : pc[r] \notin {"idle", "done"}
  /\ pc' = [r \in Runs |-> IF pc[r] = "idle" THEN "idle" ELSE "done"]
  /\ result' = [r \in Runs |-> IF pc[r] \in {"idle", "done"} THEN result[r] ELSE "lost"]
  /\ row' = IF OwnCopy THEN row
            ELSE [t \in Tasks |-> IF row[t] = "absent" THEN "absent" ELSE "lost"]
  /\ halt' = [halt EXCEPT !.memory = FALSE]
  /\ UNCHANGED <<taskOf, book, status, completed, shipped>>

-----------------------------------------------------------------------------
\* The steps of run r once its caller has started it.
Step(r) ==
  \/ Admit(r)
  \/ PlanReturns(r) \/ HumanApproves(r) \/ HumanRefuses(r)
  \/ GateApproves(r) \/ GateRejects(r)
  \/ ExecuteReturns(r) \/ ExecuteRetry(r)
  \/ ReviewPasses(r) \/ ReviewFails(r) \/ ReviseReturns(r)
  \/ ValidateReturns(r) \/ ShipReturns(r) \/ StageRaises(r)

RouteStep(q) == Conflict(q) \/ Persist(q)

Next ==
  \/ \E t \in Tasks : CreateTask(t)
  \/ \E j \in Jobs, t \in Tasks : ScheduleJob(j, t)
  \/ \E q \in Requests, t \in Tasks : Fetch(q, t)
  \/ \E r \in Runs : Step(r)
  \/ \E q \in Requests : RouteStep(q)
  \/ ToggleHalt
  \/ Restart

\* A suspended coroutine is resumed: every adapter call ends, with an answer, an
\* exception or its own timeout (the human gate: 300 s), and asyncio runs what
\* is ready.
Fairness ==
  /\ \A r \in Runs : WF_vars(Step(r))
  /\ \A q \in Requests : WF_vars(RouteStep(q))

Spec == Init /\ [][Next]_vars
FairSpec == Spec /\ Fairness

-----------------------------------------------------------------------------
(* Properties.                                                             *)

\* The types of the variables.
TypeOK ==
  /\ row \in [Tasks -> Status \cup {"absent", "lost"}]
  /\ status \in [Objects -> Status]
  /\ taskOf \in [Runs -> Tasks \cup {NoTask}]
  /\ \A r \in Runs : pc[r] \notin {"idle", "done"} => taskOf[r] \in Tasks
  /\ pc \in [Runs -> Awaits]
  /\ completed \in [Runs -> 0 .. 5]
  /\ granted \in [Runs -> SUBSET {"human", "gate"}]
  /\ calls \in [Runs -> Nat]
  /\ output \in [Runs -> Nat]
  /\ evidence \in [Runs -> {0, 1}]
  /\ passed \in [Runs -> Nat]
  /\ result \in [Runs -> Results]
  /\ shipped \subseteq Runs
  /\ \A r \in shipped : taskOf[r] \in Tasks
  /\ halt \in [memory : BOOLEAN, redis : BOOLEAN]

\* Two runs never ship through the same Task object: the strict transition
\* table lets a single run through, however requests, jobs and failures meet.
ShipsOncePerObject ==
  \A r1, r2 \in shipped : Obj(r1) = Obj(r2) => r1 = r2

\* A task is shipped at most once (the 409 answer to a second run).
ShipsOnce ==
  \A r1, r2 \in shipped : taskOf[r1] = taskOf[r2] => r1 = r2

\* The executor is called, and the shipper, only with every approval the
\* configuration asks for on record in the run's evidence: no failure, retry,
\* or meddling of another run opens a way around the gates.
AuthorisedBeforeEffect ==
  \A r \in Runs :
    calls[r] > 0 \/ r \in shipped =>
      granted[r] = IF Confirm THEN {"human", "gate"} ELSE {"gate"}

\* What a successful result says: all five stages, the task COMPLETED, shipped
\* by this very run, and the last output is one the quality gate passed.
SuccessIsTrue ==
  \A r \in Runs :
    result[r] = "success" =>
      /\ completed[r] = 5
      /\ status[Obj(r)] = "completed"
      /\ r \in shipped
      /\ Quality => passed[r] = output[r]

\* A stored row never tells more than happened: it is never left in the middle
\* of the pipeline, and says "completed" only of a task that was shipped.
RowTruth ==
  \A t \in Tasks :
    /\ row[t] \in {"absent", "pending", "completed", "failed", "rejected", "lost"}
    /\ row[t] = "completed" => \E r \in shipped : taskOf[r] = t

\* Retries and revisions together cost a bounded number of executor calls.
BoundedCalls ==
  \A r \in Runs :
    calls[r] <= 1 + ExecuteRetries + (IF Quality THEN MaxRevisions ELSE 0)

\* Every run that was started comes to an end, its route's write included.
EveryRunEnds ==
  \A r \in Runs : pc[r] \notin {"idle", "done"} ~> pc[r] = "done"

\* On a shared object the task is a job that is claimed and delivered at most
\* once: the pipeline implements TaskOnce.
Phase ==
  [o \in Objects |->
     CASE status[o] = "pending"                           -> "open"
       [] status[o] = "shipping"                          -> "delivering"
       [] status[o] \in {"completed", "failed", "rejected"} -> "closed"
       [] OTHER                                           -> "working"]

Delivered == [o \in Objects |-> {r \in shipped : Obj(r) = o}]

Once == INSTANCE TaskOnce WITH Items <- Objects, Workers <- Runs,
                               phase <- Phase, delivered <- Delivered

ImplementsTaskOnce == Once!Spec
=============================================================================
