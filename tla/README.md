# A verification development for OCCP

OCCP runs tasks of AI agents through the *Verified Autonomy Pipeline*: plan,
ask a human, pass a policy gate, execute, review, validate, ship.  Around it
are kill switches, a human approval gate on a chat channel, multi-agent
workflows with checkpoints, stores, and an HTTP API.  This directory holds TLA+
modules of the parts whose correctness depends on the order in which things
happen, the TLC configurations that check them, and proofs for every instance.

## How to run it

    tlc -config VAPipelineShared.cfg MCVAPipeline     # any run of PROJECT.json
    tlapm VAPipelineProofs.tla        # and ConfirmationGateProofs, AutoDevProofs,
                                      # BrainFlowProofs, AuditChainProofs,
                                      # BudgetPolicyProofs, WorkflowProofs,
                                      # ServiceProofs

`PROJECT.json` lists the runs, the properties each one checks, a mutant of the
model that each property detects, the source lines of each definition and the
hazards the properties are for.

## The concurrency of the program

All of the orchestrator runs on one asyncio event loop per process.  Between two
awaits nothing else of the process runs, so an action of a model is the code
from one await to the next, and `pc` names the await a coroutine is suspended
in.  A coroutine without an await (the routes of AutoDev, a reply to the
confirmation gate) is a single action, and `CronScheduler`, where most calls
have none, names the one coroutine that holds the loop in `turn`.  Exceptions are
followed to the handler that catches them; whatever a handler does is part of
the action; a cancellation passes every `except Exception`.  Several worker processes matter only where
they share state: in the Redis kill switch and in the budget policy, where an
action is a single Redis command with the code up to the next one.

## Inventory

| component | state | operations | hard behaviour | properties |
|---|---|---|---|---|
| Pipeline (`orchestrator/pipeline.py`, `models.py`) | `Task.status`, completed stages, evidence | `run` and its five stages, retry, revision, refusal | runs racing on one task object, exceptions inside handlers, retries × revisions | ships once, no way around the gates, success is true, bounded calls, ends |
| Task API and store (`api/routes/pipeline.py`, `tasks.py`, `api/deps.py`, `store/task_store.py`) | row or dict entry of a task | create, get, run, update | check-then-act across the run, crash before the write | a task is run once, rows tell the truth |
| Hook and event callers (`api/routes/cloudcode.py`, `adapters/event_bridge.py`, `brain_flow.py`) | the task they created | create, run in background, deliver | nobody awaits the result | the task is updated |
| Kill switch (`evaluation/kill_switch.py`) | state, current record, history | activate, drill, deactivate, `require_kill_switch_inactive` | drill over a hard stop, capped history | only a human clears it, records are complete |
| Redis kill switch (`evaluation/kill_switch_redis.py`) | halt key, history list, availability flag, mirror per worker | activate, deactivate, `is_active`, governance routes | commands of several workers interleave, fail, or fail after being carried out; restarts | a stop holds everywhere, mirrors converge, bounded history |
| Confirmation gate (`adapters/confirmation_gate.py`, `store/approval_store.py`) | `_pending`, `_chat_to_task`, rows, scheduled updates | request, reply, timeout, cleanup | reply races timer, two requests in one chat, restart | approval is explicit and about the plan shown, no stale entry, ends |
| Workflows (`orchestrator/multi_agent.py`, `store/workflow_store.py`) | execution, flags, results, row | start, resume_execution, wave, node, pause, resume, kill, checkpoint | crash windows, failing writes, live resume, kill between retries | dependencies first, COMPLETED is true, kill stops, nothing is run twice |
| Agent scheduler (`orchestrator/scheduler.py`) | a semaphore per registration | register, unregister, dispatch | saturation, registration during a dispatch, cancellation in the queue | slots are respected and given back, every dispatch ends |
| AutoDev (`autodev/`, `api/routes/autodev.py`) | run state, approval requests, daily budget, worktrees, branches | propose, build, approve, reject, merge, cancel, sweep | state in two places, expiry, midnight, restart | run and request agree, nothing is left on the disk |
| Budget policy (`policy_engine/budget_policy.py`) | spend per task, in Redis or in a dict per process | check, record | lost updates between workers, failing commands, restarts, fallback to an empty memory, calls that time out | nothing recorded is lost while nothing fails; each mishap overruns the budget by a bounded amount |
| Cron scheduler (`orchestrator/cron_scheduler.py`) | jobs, next run, history, counters | tick, trigger, add, remove, pause, resume | overlapping ticks, jobs edited while they are fired, cancellation | a slot is served once, the counters agree, a firing ends |
| Sessions (`orchestrator/sessions.py`) | sessions, messages, tasks | create, activate, register, clean up | capacity | limits hold |
| Audit chain (`policy_engine/engine.py`, `store/audit_store.py`) | chain in memory, rows, the shared session | append, restore, prune | commits that overlap or fail on one session, voice entries, restart, retention | no entry is passed over, no predecessor is missing |
| Event bridge (`adapters/event_bridge.py`) | tasks for the final events of a chat | event, history, route, reply | messages sent in a row, its own replies as events, missed events | a command is run once, no feedback, the conversation settles |
| Policy engine (`policy_engine/`) | rate limits | evaluate | - | - |
| Canary, flags, self-modification (`evaluation/`) | flags, verdicts | evaluate, propose | - | - |
| Conversation flow (`orchestrator/brain_flow.py`, `store/conversation_store.py`) | phase, plan and approval of a conversation, its row, the approval row | messages, expiry, eviction, restart | messages overlapping at every await, saves out of order | a plan is dispatched once, the one agreed to, and COMPLETED is true |
| OpenClaw client (`adapters/openclaw_executor.py`) | one socket, its reader, `_pending`, `_chat_completions`, lock, circuit breaker | execute, connect, receive, reconnect | lost connections and answers, calls cancelled half-way, two connects | one reader, reachable requests, every call ends, the client reconnects |
| Message intake, other adapters, MCP, voice (`adapters/`) | connections | network calls | I/O | external |
| Security services (`security/`) | keys, revocations, grants | sign, revoke, grant | - | - |
| Other stores, API shell, observability, CLI, SDKs, sites | rows, counters | read, write | - | - |

How they interact: the API, the hooks and the conversation flow create a task
and call `Pipeline.run`; the pipeline consults both kill switches at its entry,
calls the planner, the confirmation gate, the policy engine, the executor, the
quality gate, the validator and the shipper, and returns or raises; only the
run route writes the task back.  The confirmation gate is woken by the chat
adapter.  Workflows and cron jobs dispatch through the scheduler.  The executor
of a run may be the OpenClaw client, which all runs of a process share.  The
conversation flow turns messages into a plan and runs the pipeline once per step
of it.  AutoDev proposes changes to OCCP itself, in worktrees of its own.
Operators use the governance, workflow and AutoDev routes.

## The modules

### VAPipeline (with TaskOnce)

`Requests` are calls of `POST /pipeline/run/{id}`, `Jobs` are background runs
that created their own task.  `Objects` are the `Task` objects: with a store
(`OwnCopy`) each run builds its own from the row; without one the dict hands
the same object to everybody.  `Enter` is the sequence every stage begins with
(`_assert_stage_order`, `transition`, the adapter's call), `Fail` the handlers
that fail a task, with the `ValueError` their own transition may raise,
`Refuse` the handlers that swallow it.  `output`, `evidence` and `passed` tell
the executions of a run apart, so that a review of one is not a review of the
next.  `Restart` ends every run, the dict and the in-memory switch.

Abstractions: the adapters are external and answer or raise anything;
validation failures and execution errors take the same handler and are one
action, `StageRaises`; the probe of the switch in Redis answers truthfully or
raises, and then the run is let in, as in the code (`Admit`; what makes it raise
is in `RedisKillSwitch`); registry, events and metrics are left out; task ids are
uuids and are not created twice.  `Confirm` stands for a gate that answers: the
gate itself is the module `ConfirmationGate`.

`TaskOnce` is what the pipeline promises about a shared object: an item is
claimed by one of the workers, delivered at most once, closed, and never
reopened.  `ImplementsTaskOnce` is checked, and proved, through the refinement
mapping `Phase`, `Delivered`.

### RedisKillSwitch

Workers, the halt key, the length of the history list, and each worker's
availability flag and memory mirror.  An action is one Redis command with the
code up to the next; a command that raises may have been carried out, except for
reads.  `standing` is a history variable: an activation has stored its stop and
returned, and no deactivation overlapped it or has begun since; `op` remembers
the overlap while the activation runs.  `StopHolds` is about the workers that get
an answer from Redis.
The in-process switch is part of this module only as the mirror's assignments;
its record history is not modelled.

### ConfirmationGate

A request is a coroutine with four awaits; a reply is a single action because
`handle_response` is not a coroutine.  `Timeout` does not ask for an undecided
status: when the timer and the reply fall into one turn of the loop,
`asyncio.wait_for` lets the cancellation win.
`arrivals` is a history variable, the order in which the requests registered.

### Workflow

One execution, its row, and the runners that work on it: `start_workflow` and
any number of `resume_execution`.  `Head` is the head of both loops (kill,
pause, wave, end); `Record` processes one result of the gather with its write;
`Checkpoint` is the write at the end of a wave and what follows it.  A write
may fail and is then ignored, as in the code.  `accumulated`, timestamps and
the list of pause checkpoints are left out; every node has the same retry
count.  `Deps` is a graph without cycles, which `validate` has checked before.
`LiveResume = FALSE` assumes that an operator resumes an execution only when no
runner works on it; the code does not check this (see the divergences).

### AutoDev

`st`, `req`, `worktree` and `branch` say of each run what the orchestrator, the
approval queue and the disk say.  The routes have no await, so a build with its
verification, risk assessment, budget check and submission is one action per
outcome: `CreateFails`, `BuildFails`, `RiskRejects`, `OverBudget`, `SubmitLow`,
`SubmitMedium`.  `Cleanup` asks git to remove the directory and, unless it is
told to keep it, the branch; a git command that fails is not noticed, and the
handle is marked cleaned up all the same.  `CleanupRaises` is the cleanup for
which git cannot be started: it raises before the caller records its transition,
so the run stays "building" (or verifying, which is the same state here),
"merging", or waiting beside a rejected request, and a cancellation can try
again.  A `git worktree add -b` that fails may have made the branch or the
directory (`CreateFails`).  `botched` is a history variable: the runs of which an
unnoticed failure has left something.  `Expire` is the passing of a deadline, which nothing reads but
`CleanupExpired` (`GET /daily-check`).  `Restart` keeps the disk only.  Left out:
what the verification gate and the risk model compute (they answer anything),
records for display.

### BrainFlow

A message is a call of `process_message` with up to seven awaits: the first save,
the save or the update of the approval row, the tools, a pipeline run per step of
the plan, the last save.  `snap` is what a save was called with, which may be
older than what is there when it commits.  `agreed` and `using` are history
variables: the plan a yes was about, and the plan `_dispatch_tasks` read after
its await.  A plan is named by the message that made it.  Users share nothing;
there is one.  `Restart` loads the rows of the store, with the deletion of old
ones.  Left out: wording, the kill-switch guard at the entry, what the tools
answer, `complete_task` and the deliver phase, which nothing reaches while a
pipeline is wired (`api/app.py:408`).

### OpenClaw

All calls share one socket.  `connect` runs under a lock (`queue`); the reader is
a task of its own that matches replies and final events with `pending` and
`completions`; the reconnect loop is one more caller of `connect`.  The
environment loses the socket with what was not read, refuses connections,
answers or does not, and cancels calls.  `Recover` is the time that half-opens
the breaker.  The budget may refuse any call (`OverBudget`): what a task has
spent is not kept.  Left out: `close` and shutdown, the requests of the event
bridge, the texts.

### Scheduler and CronScheduler

`Scheduler` has the semaphores of an agent type, one per registration, with
their first-come queues.  `CronScheduler` EXTENDS it: a tick goes through the
snapshot of the jobs and awaits the dispatch of each that is due (`Fire`,
`Returns`, `Raises`, `AgentMissing`), a trigger fires the jobs of its id, and
`turn` holds the loop from one await to the next.  A cron expression is a
period.  `Jobs` are the objects; several may have one id (`IdOf`), of which one at
a time is listed: `add_job` of an id that is listed replaces the object, or puts
the same one there again, and begins its history anew (`Put`, `NewHistory`), while
the counters stay in the object.  `history[j]` is the part of the id's history that is about
`j`.  `lost`, `past`, `served` and `doubled` are history variables; `past[j]` are
the runs and errors of `j` that its history has lost that way.
Nothing outside the tests creates a `CronScheduler` in this version.

### AuditChain

`chain` is `_audit_chain`, `table` the rows.  All stores share one database
session: `pending` are the rows added to it and not written, `StartCommit` is
the commit every append begins (it raises while another one is in progress, and
the row stays), `CommitDone` writes what the flush found, in the order of
arrival, and `CommitFails` leaves a session nobody rolls back.  An entry is a
number and the number of its predecessor: equal hashes mean equal entries.
Other stores commit through `StoreCommits`.  A voice command reads the newest
row (`VoiceReads`) and appends an entry of its own.  `Restart` restores the head
(`Restored`) and then applies the retention.  `pruned` and `voiced` are history
variables.  Left out: the routines that verify a list, which change nothing.

### BudgetPolicy

`redis` and `memory` are the two backends, `backend` says which one a process
uses.  A call of the gateway checks (`Check`, `Refuse`), is sent, and records in
two steps, the read (`RecordReads`) and the write (`RecordWrites`), between
which other processes run but nothing of the same process (`Blocked`).  Any
command may fail, and the process then goes on with an empty dict (`GetFails`,
`SetFails`).  `spent`, `epochs` and `clashes` are history variables: what the
calls that returned have cost, how often a process has lost sight of that, and
how often two processes recorded at once.  Money is counted in units.  Left
out: `reset`, which nothing calls, budgets of single tasks, prices.

### EventBridge

`chat` are the user messages of one chat, `run[i]` what became of the final
event of the i-th one.  The bridge answers an event by asking for the history
and handling its last user message (`LastMessage`); its reply joins the chat
and has a final event of its own.  `hasty` is a history variable: the user has
written before the chat was quiet.  Left out: the agent's answers, the buffer of
events and the statistics; the pipeline returns or raises.

## The runs

| run | question | instance |
|---|---|---|
| `VAPipelineShared` | racing runs on one shared object: one ships, a success is a complete and reviewed run although others fail its task, all end; the refinement of `TaskOnce` | two requests, one job, one task, human and quality gate, one retry, one revision |
| `VAPipelineStore` | copies from rows, failing writes and restarts, both switches, the limit on calls, and that every run ends | one request, one job, two tasks, one retry, one revision |
| `RedisKillSwitch` | does a stored stop hold on every worker that reaches Redis; is the history bounded | two workers, two faults, one restart, cap 2 |
| `ConfirmationGate` | maps, replies, approvals, and that every request ends | two requests, two tasks, two chats |
| `Workflow` | order, kill, pause, truth of COMPLETED, that no stored success is lost or run again, and that runners end | diamond of four nodes, a start and a resume, one retry, concurrency 2, one failed write, one pause, one crash |
| `AutoDev` | do run, request and disk agree, whatever the order of the routes and whichever git commands fail | three runs, two a day, one medium-risk proposal a day |
| `BrainFlow` | is the agreed plan dispatched, once, and COMPLETED true | three messages, three conversations of which two are kept, two steps |
| `OpenClaw` | one reader, reachable requests; every call ends and the client reconnects | two calls, two attempts, a breaker that opens at the first failure |
| `CronScheduler` | counters, slots, and that every firing ends | a cron job, an object with the same id, an interval job, two ticks, a trigger, one slot, two registrations, two minutes, one cancellation, three edits |
| `AuditChain` | are the engine's rows one chain, and is every predecessor there | two requests, a voice command, five entries, two restarts with retention |
| `BudgetPolicy` | is the spend recorded, and by how much is a budget overrun | two processes, three calls of one task, a budget of two estimates, two failing commands, one restart |
| `EventBridge` | once per command for a patient user, no feedback, settling | two commands and one other message |

Every run passes: TLC finds no error.

### Divergences from the documentation

No run is expected to fail.  The models contain these behaviours (or, where said,
leave them out); the properties are stated so that they do not claim the
opposite.

* With a task store two overlapping requests for one task both ship it: the
  status is read at `api/routes/pipeline.py:34`, the row is written after the
  run.  `ShipsOnce` is therefore checked and proved for `OwnCopy = FALSE` only.
* A background run started by a hook (`api/routes/cloudcode.py:84-95`) never
  updates its row.  `RowTruth` speaks of the rows that are written.
* A drill clears an in-memory hard stop (`evaluation/kill_switch.py:190`; the
  module's header, line 13, promises a human).  No property says who clears it.
* The switches are read at the entry of a run only: a stop does not end the runs
  that have passed it.  When the probe of the switch in Redis raises, the run goes
  on (`orchestrator/pipeline.py:333-334`, beside a comment that says "never
  fail-open").  No property claims that a stop refuses every run; `StopHolds` is
  about what a worker reads.
* The governance routes flip the memory of the worker that serves them only
  (`api/routes/governance.py:237`).  `StopHolds` speaks of stops stored in Redis.
* A deactivation at one worker leaves the mirrors of the others on
  (`evaluation/kill_switch_redis.py:176-177`, `:297`): they refuse runs when
  Redis fails later.  No property claims that mirrors converge.
* A reply that races the timer is overwritten by it
  (`adapters/confirmation_gate.py:228`, `:248-249`).  `ApprovalIsExplicit`
  holds nevertheless: the race can lose an approval and never invents one.
* `resume_execution` ignores the pause flag (`orchestrator/multi_agent.py:587`,
  `:939-942`).  `KillAndPauseStopWork` is checked for `start_workflow`.
* A kill during the last wave ends as COMPLETED (`multi_agent.py:824`): every
  node did succeed, and `CompletedIsTrue` says no more.
* After one failed command a worker never asks Redis again and is open
  (`kill_switch_redis.py:161`, against its header, lines 13-15).  `StopHolds`
  speaks of workers that get an answer.
* One chat holds one request: a yes to a plan that has not been shown yet
  approves it (`confirmation_gate.py:199`, `:204`, `:217`).
  `NewestIsAnswerable` is about requests that are shown.
* A crash between the checkpoint of a failed wave and the write of FAILED
  (`multi_agent.py:812`, `:821`) lets a resume continue behind the failed node.
  `DepsBeforeDispatch` asks of a resumed execution only that a dependency was
  run, whatever came of it (`Settled`).
* After a revision a successful run delivers the first output, the one the
  quality gate refused: the revised one is stored under another key
  (`orchestrator/pipeline.py:426`, `:759`; `orchestrator/quality_gate.py:3`
  promises the standards "before delivery").  `SuccessIsTrue` is about the
  review.
* A merge removes the only copy of the change: `finalize_merge` deletes the
  worktree in which the diff was applied and never committed
  (`autodev/orchestrator.py:421`; its comment, lines 396-398, keeps the
  "worktree + branch alive").  `NothingLeftBehind` is about the disk.
* The entry of a voice command is unknown to the engine, whose next entry has
  the same predecessor (`adapters/voice_handler.py:548`; line 529 says the "hash
  chain is linked").  `Unbroken` is about the engine's entries.
* After retention has removed a row, `GET /audit` calls the chain invalid for
  ever (`store/audit_store.py:104`, `policy_engine/engine.py:419`;
  `docs/EU_AI_ACT_ALIGNMENT.md:19` says that the chain continues); and after
  every restart the onboarding verification does, because the chain in memory
  starts from an entry with a predecessor (`engine.py:130`).
* Two processes that record at once lose an update
  (`policy_engine/budget_policy.py:533`; lines 18-20 say the spend is "shared
  across worker processes"), and a call that times out is billed and not
  recorded (`adapters/openclaw_executor.py:966`; `budget_policy.py:15-16` say
  "after every LLM call").  `Accounted` and `OverrunBounded` count the first and
  speak of recorded calls only.
* `api/routes/managed_agents.py` checks each session against a fresh task id and
  records nothing.
* The event of a message that was followed by another one runs the other, which
  is then run twice (`adapters/event_bridge.py:269`; line 219 says "the user's
  original message").  `OnceForThePatient` is about users who wait.
* The pipeline that `api/app.py` builds is given no confirmation gate
  (`orchestrator/pipeline.py:382`): the human gate of `VAPipeline`
  (`Confirm = TRUE`) is there for callers that pass one.
* `complete_step("first_task")` of the onboarding has no prerequisite, and
  `launch_first_task` passes strings where `Task` expects enumerations; an
  archived project that is restored may exceed the limit of projects.  These
  components are not modelled.
* The resume route may meet a live runner (`api/routes/brain.py:1138`):
  `LiveResume = TRUE` shows its nodes run twice.
* An expired AutoDev request that nobody has swept can be approved
  (`autodev/approval_queue.py:9` calls timeouts rejections); a swept one leaves
  its run waiting with its worktree, and a cancelled run leaves its request
  pending.  `RunMatchesRequest` allows these and nothing else.
* The git commands of `cleanup` may fail: their errors are ignored, the handle is
  marked cleaned up, and what they left, the directory or the branch, is never
  removed (`autodev/sandbox_worktree.py:285-309`; its header promises "no residue"
  after a failure).  A `git worktree add -b` that fails may leave the branch it has
  made, and there is no handle for it (`:225-227`).  `NothingLeftBehind` excepts
  these runs (`botched`) and nothing else.
* A cleanup for which git cannot be started raises out of the route before the
  transition is recorded (`autodev/orchestrator.py:276`, `:390`): the run stays
  building, verifying or merging, or waits beside a request that is already
  rejected, and only a cancellation leads on.
* The kill-switch branches of `execute_build_and_verify` and `finalize_merge`
  cannot be reached from the routes (`api/routes/autodev.py:57` refuses first);
  `max_low_risk_merges` is counted and never compared; a restart forgets the
  day's budget and leaves worktrees on the disk.
* A stop during a dispatch does not stop the steps, and COMPLETED overwrites
  CANCELLED (`orchestrator/brain_flow.py:737`).  `CompletedIsTrue` of `BrainFlow`
  is about the steps.
* A yes can approve a plan made by an overlapping message that the human has not
  seen.  `ApprovedPlanRuns` compares with what was there at the yes.
* A conversation whose dispatch was interrupted by a restart is at "confirm" in
  its row and can be dispatched again; rows may be written out of order, a new
  conversation begun while another is monitored is not saved by that message,
  evicted conversations return after a restart, and an approval row may stay
  "pending" after the approval.  `DispatchedOnce` speaks of one life of the
  process.
* With the conversation flow wired, `adapters/voice_handler.py:282` passes no text
  reply to the confirmation gate.
* A final event that is read before `send_chat` has registered for it is dropped,
  and a lost connection fails the requests but not the calls that wait for a
  final event: both end by their timeout only.  Cancelled calls leave their
  entries in `_pending` and `_chat_completions`; a failed authentication leaves
  the socket open; a call cancelled during it leaves `_connected` set.
* A call whose answer has no text is given the newest session file of the gateway,
  of whichever session (`adapters/openclaw_executor.py:1094`).
* The event bridge sends on the socket without looking at the state of the
  connection (`adapters/event_bridge.py:430`).
* Registering an agent type anew replaces its semaphore, and more calls than
  `max_concurrent` run at once (`orchestrator/scheduler.py:21-23`).
  `CountersAgree` bounds the holders of each semaphore.
* Overlapping ticks fire a slot twice (`orchestrator/cron_scheduler.py:636`):
  `SlotsAdvance` excepts the jobs two ticks were firing at once.  A removed job is
  still fired by a tick in progress, `add_job` of a listed id begins its history
  anew and leaves the counters of the object (`:498-499`), and waiting for a slot has no timeout of its
  own.

### Why the bounds are enough

A race on a task needs two parties, a steal of the delivered object a third:
two requests and a job.  Retry and revision loops are counted; one iteration
shows both the repetition and the exhaustion, and `calls`, `output` would show
an off-by-one.  Two workers suffice for a stop ordered at one and missed at the
other; two faults hit two different commands of one operation; a cap of two is
crossed by three pushes and the trim between them.  Two requests per gate give a
chat stolen, a task requested twice and two chats.  The diamond has a fan-out,
a fan-in, a node with a dependency two waves back, and a wave wider than one
node; a crash leaves every kind of row to resume from.  Three AutoDev runs cross
a limit of two a day and one medium risk a day.  Three messages are a yes, one that
races it and one that planned before; three conversations overflow a limit of two.
Two calls and the reconnect loop contend for the lock; two attempts show the
retry and the failure.  Two ticks overlap, a trigger joins them, one slot makes
them queue, and in two minutes a job of period one is due twice.  Three objects of which two
share an id are one that replaces another while it is fired.  Two requests,
a voice command and the other stores keep a commit in progress while a second
and a third append raise; five entries leave rows on both sides of two restarts.
Two processes with two calls and one clash in Redis and race within a process;
a budget of two lets one check pass too many.  Two commands and a third message
are a command answered late, one overtaken and a reply in between.  `MaxFaults`,
`MaxRestarts`, `MaxCrashes`, `MaxPauses`, `MaxClock`, `MaxCancels`, `MaxEdits`,
`MaxEntries` and `MaxRegistrations` bound only the environment; nothing in a component depends on
them.  `AutoDev` and `BrainFlow` are checked modulo permutations of their runs,
messages and conversations, which their definitions treat alike.

### Fairness

`VAPipeline`, `ConfirmationGate` and `Workflow` assume weak fairness of every
coroutine's next step: asyncio resumes every ready callback, and each awaited
call has an end of its own: HTTP clients and executors have timeouts,
`Scheduler.dispatch` uses `wait_for`, the confirmation gate waits 300 seconds.
`OpenClaw` assumes it of every call, of the reader and of the reconnect loop:
each await of theirs has a timeout; nothing is assumed of the gateway, which may
never answer.  `CronScheduler` assumes it of the sweep of a tick and of the end of
a firing, which `wait_for` bounds.  `EventBridge` assumes it of the bridge as a
whole, its gateway's runs and requests, which time out; nobody makes a user
write.  `AutoDev` and `BrainFlow` have no liveness property: what follows next is
up to humans.  `AuditChain` and `BudgetPolicy` have none: their promises are
about what is stored.
No fairness is assumed of operators, repliers, requests, crashes or faults.

### Deadlock

Where a configuration turns the deadlock check off, the system may stop: all
requests of a gate, all runners of a workflow, all messages and calls may be over,
and a bound of the clock used up.  The liveness
properties say that nothing else stops.

## Proofs

Every invariant and every action property that a run checks is also proved, for
all values of the constants; the liveness properties are not.  The bounds of the
models (retries, faults, edits, the clock) are constants of the theorems too, so
that none of them limits what is proved.  The assumptions are the `ASSUME`s next
to the constants; the runs evaluate them.

| proof module | about | theorems that state a property of a run |
|---|---|---|
| `VAPipelineProofs` | `VAPipeline`, `RedisKillSwitch` | `SharedTaskShipsOnce`, `Authorised`, `SuccessTold`, `CallsAreBounded`, `RowsTellTheTruth`, `SharedRefinesTaskOnce`; `HistoryCapped`, `StopIsObeyed` |
| `ConfirmationGateProofs` | `ConfirmationGate` | `TypeCorrect`, `Approved`, `Answerable` |
| `WorkflowProofs` | `Workflow` | `TypeCorrect`, `DepsFirst`, `CompletedTold`, `KillAndPauseObeyed`, `SuccessesAreFinal` |
| `AutoDevProofs` | `AutoDev` | `RunsMatchRequests`, `NothingIsLeftBehind` |
| `BrainFlowProofs` | `BrainFlow` | `DispatchesOnce`, `DispatchesTheAgreedPlan`, `CompletedWasRun` |
| `AuditChainProofs` | `AuditChain` | `ChainUnbroken`, `PredecessorsKept` |
| `BudgetPolicyProofs` | `BudgetPolicy` | `SpendAccounted`, `OverrunIsBounded` |
| `ServiceProofs` | `OpenClaw`, `EventBridge`, `CronScheduler` with `Scheduler` | `TypeCorrect`, `ReadByOne`, `RequestsReachable`; `PatientAreServed`, `RepliesCannotFeed`; `StatsAreTrue`, `SlotsOnce` |

### The pipeline and the kill switch

`VAPipelineProofs` proves, for every set of requests, jobs and tasks and every
configuration that satisfies `ConfigAssumption` (requests and jobs are
disjoint, `NoTask` is no task, the limits are naturals, the switches Booleans):

* `TypeCorrect`: `[]TypeOK`.
* `ObjectShipsOnce`: two runs never ship through one `Task` object.
* `SharedTaskShipsOnce`: without a store (`~OwnCopy`), `[]ShipsOnce`.
* `Authorised`: `[]AuthorisedBeforeEffect`.
* `SuccessTold`: `[]SuccessIsTrue`.
* `StagesInOrder`: `[]Progress`.
* `SharedRefinesTaskOnce`: without a store (`~OwnCopy`), `ImplementsTaskOnce`.

None of the invariants is inductive.  That two runs do not ship one object
follows from the transition table, yet a state in which a run waits for the
answer of a stage says nothing about the status by itself: another run may have
failed the object meanwhile.  The inductive invariant `Inv` therefore relates,
for each run, the await it is in to the stages it has completed (`Progress`), the
approvals it holds and the calls it has made (`Approvals`), and what its delivery
rests on (`Delivery`); and it relates the runs on one object through
`ShippedIsOver`: the object of a run that shipped is shipping, completed or
failed, and from none of these does the table lead back to validating, the only
status a second run could ship from.  The proof has one lemma per action
(`<Action>Keeps`); the lemmas on the table (`Table`, `StatusStep`) and on how a
run ends (`ReturnEnds`, `FailEnds`, `EnterCases`) carry what the actions have in
common.  The refinement rests on `StepMoves`: every await ends with a move the
table allows, and with the move to shipping exactly when the shipper is called.

Two more have invariants of their own:

* `CallsAreBounded`: `[]BoundedCalls`, for any number of attempts and revisions.
  While a run is reviewed its calls are counted against the revisions made so
  far (`CallInv`).
* `RowsTellTheTruth`: `[]RowTruth`.  What a route stores is the status of its own
  `Task`, so the invariant follows that status from await to await (`CopyInv`):
  shipping or completed only after the request itself has called the shipper,
  and terminal when the route is about to write.

About `RedisKillSwitch`, for any finite set of workers, faults and restarts:
`HistoryCapped` (`[]SwitchTypeOK`) and `StopIsObeyed` (`[]StopHolds`).  The cap on
the list is an inequality about a count: the workers between their push and their
trim that still reach Redis (`Trimming`).  A trim that fails, and a worker that
restarts before its trim, leave the count and enter `faults` and `restarts`; hence
the form of the bound.  For the stop the invariant says that the record is there
while a stop stands or an activation has stored it, and that then no deactivation
is between its read and its delete (`StopStored`).

### The gate, AutoDev, the conversations and the audit chain

`ConfirmationGateProofs` proves, for any requests, tasks and chats
(`GateAssumption`: `None` is none of them), `TypeCorrect`, `Approved` and
`Answerable`.  For the approvals the invariant follows a decision from the request
into the scheduled update and the row (`RowsInv`).  For the two maps it says
which entries a request between its registration and its cleanup can count on
(`Hooked`): the one of its task if it is the only request for the task, and the
one of its chat if it is the newest there as well; and whom the entries belong to
(`Entries`).  `CleanupKeeps` is where the condition in `_cleanup` is needed,
`Arrivals` says that a newcomer comes after everybody else.

`AutoDevProofs` proves, for any set of runs and any two limits that are naturals
(`LimitsAssumption`), `TypeCorrect`, `RunsMatchRequests` and
`NothingIsLeftBehind`.  The two properties are not inductive without `Early`,
which says what a run has not got yet: a run that was not submitted has no
request, a proposed one no worktree and no branch on the disk (or it would have
them twice), and only a medium risk waits for a human.  That a run which may
still be merged has its branch is part of the property itself.
The three ways a build comes to nothing share `DiscardKeeps`.

`BrainFlowProofs` proves, for any set of messages and conversations, any limit
and plans of any positive length (`FlowAssumption`; `None` is neither a message
nor a conversation), `DispatchesOnce`, `DispatchesTheAgreedPlan` and
`CompletedWasRun`.  The invariant says of a message that has heard a yes (`Acts`)
that its conversation is in a phase from which no plan is made (`Agreed`), that
no other message acts on it (`Single`), and of the memory, of every save in
flight and of every row that nothing is at "confirm" without a plan (`Memory`,
`Saves`): a restart loads rows, and a yes in a loaded conversation must find its
plan.  `BeginKeeps` is shared by the two ways a message begins a conversation
inside a handler, `AnswerKeeps` by every action that ends with a save.

`AuditChainProofs` proves, for any requests, voice commands, entries and
restarts (`AuditAssumption`), `TypeCorrect`, `ChainUnbroken` and
`PredecessorsKept`.  Neither property says anything about rows that are not
written yet, and a flush may write some of them and leave the rest: the
inductive invariant says of all rows, written or pending, that the engine's are
not newer than the head of its chain and that none is passed over (`Ordered`),
and that a pending row is linked to a row that is stored, was pruned, or is
written before it; so are, unless the session is dead, the next entry of the
engine and the one a voice command is about to append (`Linked`).  The lemmas
`Cut` and `AppendOne` say what a partial flush and an append do to a sequence.

### The budget

`BudgetPolicyProofs` proves, for any processes, calls, tasks, budget and costs
(`BudgetAssumption`), `TypeCorrect`, `SpendAccounted` and `OverrunIsBounded`.  For
the second: what a call has read must still be there when it writes
(`ReadIsFresh`), which holds because no other call of the process records
meanwhile (`OnePerProcess`), none of another process does as long as nothing has
clashed (`OnePerTask`), and all processes use the same backend until the first
outage (`SameBackend`).

`OverrunIsBounded` is about a sum no variable holds, and no inequality between
the variables is inductive: a call that has been checked, but has not recorded,
is going to spend whatever the totals say.  The proof is an amortised one.  Redis
is a *ledger* of the task, and so is the dict of every process that fell back.  A
ledger has a *headroom*: with its total it covers a floor (the room of the budget
and the cost of all calls of the ledger), it pays for every call under way, and
what a recording call has read and the headroom cover the floor too
(`Ledger`).  What was spent and all the headrooms together stay within the bound
of the property (`Covered`; that such headrooms exist is the invariant).  A check
that passes finds the total below the room of the budget, so the headroom has
enough left for one more call; a recording moves its cost from the headroom to the
total; a process that falls back or restarts opens a new ledger, which is what an
epoch pays for, and a write that overwrites another one is paid for by a clash.

### Workflows

`WorkflowProofs` proves, for every acyclic finite graph (`WorkflowAssumption`; the
code refuses the others: `WorkflowDefinition.validate` calls `_detect_cycle`), any
runners, retries, faults, crashes and pauses: `TypeCorrect`, `DepsFirst`,
`CompletedTold`, `KillAndPauseObeyed`, and `SuccessesAreFinal` for
`LiveResume = FALSE`: with a resume beside a live runner it is not true, each of them
writes its own view of the results.  Three facts about the
waves come first: `Before` really is the function its recursive definition
describes, a wave lies behind the dependencies of its nodes, and the waves reach
every node (`WavesHoldAll`: among the nodes left over one would have all its
dependencies behind it).  The invariant says of each runner that the waves before
its own are settled, that its coroutines are those of its wave, that the results
agree with the coroutines that are over, and what its last status says about the
results (`PrefixSettled`, `GatherInWave`, `NoStrayWork`, `Conclusion`); and of the
row that everything before the stored wave went through (`RowSettled`), which is
all a resumption after a crash has.  `SuccessesAreFinal` adds that one runner at
most is live and knows every success of the row (`AloneInv`).

### The services

`ServiceProofs` begins with queues: what appending, taking the head and
`RemoveFirst` do to a sequence without repetitions and to the set of its members.

*OpenClaw* (`ClawAssumption`).  The lock's queue holds exactly the callers that
wait for it or hold it, only its head authenticates, and while it does the
connection is not authenticated (`Queue`, `Connection`): so nobody dials twice and
there is one reader.  With `AttemptsLeft` for the type of the counters.

*EventBridge* (`BridgeAssumption`; `Echo` and `None` are no messages).  While users
wait for the answers at most the newest event is not over, and it was noted for
its own message (`Patient`).  For the bound on the runs of a command the invariant
counts events: those that are not over, with what the newest message was run for,
are never more than the messages of users (`Bounded`).

*CronScheduler over Scheduler* (`CronAssumption`, `SchedulerAssumption`).  A
semaphore is held no more often than it may be, nobody is in it twice, and what
enters or leaves it is exactly the caller (`GoodSem`, `AcquirePlaces`,
`LeavePlaces`, `RegistrationPlaces`).  A call is in one of the semaphores
exactly if it is firing and does not hold the event loop (`PlacesInv`).  The
counters need that what a history has and what it has lost make up the runs and
errors of each object (`EntriesInv`, `NewHistories`), that the list names no id
twice although objects replace each other (`Puts`), and that the fold of the model
is the sum of the counters in whatever order it takes the jobs (`TotalIsSum`).  The
slots need that a tick fires a slot not after its own time, and alone unless the
job is `doubled` (`SlotsInv`).

### What is not proved

The liveness properties (`EveryRunEnds`, `EveryRequestEnds`, `RunnersEnd`,
`EveryExecuteEnds`, `Reconnects`, `EveryFiringEnds`, `Settles`) are only
model-checked: they rest on fairness, and ENABLED is out of the prover's reach.

No installed prover can instantiate the induction theorems of the library, which
take an operator as a parameter.  Where a proof needs induction (the waves, the
sums, the finite sets of calls) it takes a counterexample that is minimal among
the finite sets, or the least number, and shows that there is a smaller one
(`SmallestSubset`, `Grows`).  No model declares a RECURSIVE operator: the recursion there is is
in recursive functions and in the folds of the library.

The type invariants of `VAPipeline`, `AutoDev`, `AuditChain` and `BudgetPolicy`
are proved and in no run.

## Plan

1. Done: `VAPipeline` with `TaskOnce`, `RedisKillSwitch`, `ConfirmationGate`,
   `Workflow`, `AutoDev`, `BrainFlow`, `OpenClaw`, `Scheduler`, `CronScheduler`,
   `AuditChain`, `BudgetPolicy`, `EventBridge`; the proofs of all their safety
   properties.
2. Proofs: that components implement abstract specifications as `VAPipeline`
   implements `TaskOnce` (the confirmation gate a request that is decided once,
   the scheduler a bounded first-come-first-served pool, the budget a counter).
3. Modules: the parallel dispatcher of `multi_agent.py`; sessions and projects
   with their capacities; the rate limiter of the policy engine; the onboarding;
   the websocket manager; the record history of the in-process kill switch.
4. Compositions: `VAPipeline` with `ConfirmationGate`; `Workflow` with
   `Scheduler`; the event bridge on the socket of `OpenClaw`.

## What is not modelled, and why

Wording and classification of messages, prompts, quality checks on text, the
regular expressions of the policy guards, cryptography and scanners: pure
functions without an order of events.  The parallel dispatcher, the sessions and
projects, the rate limiter, the onboarding, the websocket manager and the record
history of the in-process kill switch have state worth a module and are in the
plan.  Network and subprocess adapters: I/O,
external to the models, which let their calls answer or raise (and the git
commands of AutoDev fail unheard).  Front ends
and sites: no logic of their own.  The reasons per component are in
`PROJECT.json`.
