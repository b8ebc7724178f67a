------------------------------ MODULE Workflow ------------------------------
(***************************************************************************)
(* One workflow execution of MultiAgentOrchestrator                        *)
(* (orchestrator/multi_agent.py) with its row in workflow_executions       *)
(* (store/workflow_store.py): start_workflow, the resume_execution calls   *)
(* that pick it up again, the node coroutines of a wave, pause, resume and *)
(* kill, failing writes and crashes of the process.                        *)
(*                                                                         *)
(* A runner is one coroutine working on the execution.  An action is the   *)
(* code of a runner, or of a node, from one await to the next.             *)
(***************************************************************************)
EXTENDS Integers, FiniteSets, FiniteSetsExt

CONSTANTS
  Nodes,          \* node ids: numbers, for sorted()
  Deps,           \* Deps[n]: AgentNode.depends_on
  Retries,        \* AgentNode.retry_count, the same for every node
  MaxConcurrent,  \* MultiAgentOrchestrator(max_concurrent)
  Starter,        \* the runner that is start_workflow
  Resumers,       \* the runners that are resume_execution
  LiveResume,     \* TRUE: resume_execution may meet a live runner
  MaxFaults,      \* bound: writes of the store that fail
  MaxCrashes,     \* bound: crashes of the process
  MaxPauses       \* bound: pause_workflow calls

Runners == {Starter} \cup Resumers

ASSUME WorkflowAssumption ==
  /\ Nodes \subseteq Nat /\ IsFiniteSet(Nodes) /\ Nodes # {}
  /\ Deps \in [Nodes -> SUBSET Nodes]
  /\ \A S \in SUBSET Nodes : S # {} => \E n \in S : Deps[n] \cap S = {}  \* no cycle
  /\ Retries \in Nat /\ MaxConcurrent \in Nat \ {0}
  /\ Starter \notin Resumers /\ LiveResume \in BOOLEAN
  /\ MaxFaults \in Nat /\ MaxCrashes \in Nat /\ MaxPauses \in Nat

\* A mutated form of Ready: one resolved dependency is enough.
Ready_AnyDep(n, done) == Deps[n] = {} \/ Deps[n] \cap done # {}

\* No dependency of n is among the remaining nodes.
Ready(n, done) == Deps[n] \subseteq done

\* topological_sort: Before[i] is what the first i waves hold.
Before[i \in Nat] ==
  IF i = 0 THEN {}
  ELSE Before[i - 1] \cup {n \in Nodes : Ready(n, Before[i - 1])}

Wave(i) == Before[i + 1] \ Before[i]

\* validate() has found no cycle, so some prefix of the waves holds every node.
Waves == CHOOSE i \in 0 .. Cardinality(Nodes) :
           Before[i] = Nodes /\ \A j \in 0 .. i - 1 : Before[j] # Nodes

VARIABLES
  row,      \* the row: its status ("absent" before the first write), its
            \* current_wave and its node_results
  pc,       \* pc[x]: the await runner x is suspended in
  wave,     \* wave[x]: wave_index
  status,   \* status[x]: WorkflowExecution.status, as x has it
  results,  \* results[x]: WorkflowExecution.node_results, as x has it
  work,     \* work[x]: the node coroutines of x's gather
  tries,    \* tries[x]: dispatches of each of them
  todo,     \* todo[x]: results of the gather that x has not processed
  kill,     \* kill[x]: x's kill flag
  pause,    \* pause[x]: x's pause flag
  faults, crashes, pauses   \* what was used of the bounds

flags == <<kill, pause>>
used == <<faults, crashes, pauses>>
vars == <<row, pc, wave, status, results, work, tries, todo, flags, used>>

NoResults == [n \in Nodes |-> "none"]
NoWork == [n \in Nodes |-> "off"]
Untried == [n \in Nodes |-> 0]

Init ==
  /\ row = [status |-> "absent", wave |-> 0, results |-> NoResults]
  /\ pc = [x \in Runners |-> "idle"]
  /\ wave = [x \in Runners |-> 0]
  /\ status = [x \in Runners |-> "pending"]
  /\ results = [x \in Runners |-> NoResults]
  /\ work = [x \in Runners |-> NoWork]
  /\ tries = [x \in Runners |-> Untried]
  /\ todo = [x \in Runners |-> {}]
  /\ kill = [x \in Runners |-> FALSE]
  /\ pause = [x \in Runners |-> FALSE]
  /\ faults = 0 /\ crashes = 0 /\ pauses = 0

Live(x) == pc[x] \notin {"idle", "done"}

\* A write of the store: done, or failed and logged (_persist_execution and
\* _persist_node_result swallow every exception).
Write(new) ==
  \/ row' = new /\ UNCHANGED faults
  \/ faults < MaxFaults /\ faults' = faults + 1 /\ UNCHANGED row

-----------------------------------------------------------------------------
(* The loop over the waves.                                                *)

\* The nodes of a wave without a successful result; for start_workflow, whose
\* results of later waves are empty, the whole wave.
Pending(i, res) == {n \in Wave(i) : res[n] # "ok"}

\* The last await of a runner is the write of its final status.
Conclude(x, final) ==
  /\ status' = [status EXCEPT ![x] = final]
  /\ pc' = [pc EXCEPT ![x] = "final"]

\* The gather of wave i: a coroutine per pending node.
Launch(x, i, res) ==
  /\ status' = [status EXCEPT ![x] = "running"]
  /\ pc' = [pc EXCEPT ![x] = "gather"]
  /\ work' = [work EXCEPT ![x] =
                [n \in Nodes |-> IF n \in Pending(i, res) THEN "queued" ELSE "off"]]
  /\ tries' = [tries EXCEPT ![x] = Untried]
  /\ todo' = [todo EXCEPT ![x] = Pending(i, res)]

Sleep(x) ==
  /\ status' = [status EXCEPT ![x] = "paused"]
  /\ pc' = [pc EXCEPT ![x] = "paused"]

\* The head of the loop at wave i: kill, then pause (start_workflow only), then
\* the next wave that has pending nodes; behind the last wave COMPLETED,
\* whatever the flags say.
Head(x, i, res) ==
  LET ahead == {j \in i .. Waves - 1 : Pending(j, res) # {}}
      next == Min(ahead)
  IN \/ /\ i < Waves /\ kill[x]
        /\ Conclude(x, "killed")
        /\ UNCHANGED <<wave, work, tries, todo>>
     \/ /\ ~(i < Waves /\ kill[x]) /\ ahead = {}
        /\ Conclude(x, "completed")
        /\ wave' = [wave EXCEPT ![x] = Waves]
        /\ UNCHANGED <<work, tries, todo>>
     \/ /\ ~kill[x] /\ ahead # {}
        /\ wave' = [wave EXCEPT ![x] = next]
        /\ \/ x = Starter /\ pause[x] /\ Sleep(x) /\ UNCHANGED <<work, tries, todo>>
           \/ ~(x = Starter /\ pause[x]) /\ Launch(x, next, res)

\* start_workflow up to its first write, and from there into the loop.
Start ==
  /\ pc[Starter] = "idle"
  /\ pc' = [pc EXCEPT ![Starter] = "create"]
  /\ status' = [status EXCEPT ![Starter] = "running"]
  /\ UNCHANGED <<row, wave, results, work, tries, todo, flags, used>>

Created(x) ==
  /\ pc[x] = "create"
  /\ Write([status |-> "running", wave |-> 0, results |-> NoResults])
  /\ Head(x, 0, results[x])
  /\ UNCHANGED <<results, flags, crashes, pauses>>

\* A mutated form of ResumeExecution: the stored results are not loaded.
ResumeExecution_Afresh(x) ==
  /\ pc[x] = "idle" /\ row.status = "running"
  /\ LiveResume \/ \A y \in Runners : ~Live(y)
  /\ UNCHANGED results
  /\ Head(x, row.wave, NoResults)
  /\ UNCHANGED <<row, flags, used>>

\* resume_execution: the row says "running" ("paused" is never stored); the
\* runner gets new flags and starts from the stored wave and results.
ResumeExecution(x) ==
  /\ pc[x] = "idle" /\ row.status = "running"
  /\ LiveResume \/ \A y \in Runners : ~Live(y)
  /\ results' = [results EXCEPT ![x] = row.results]
  /\ Head(x, row.wave, row.results)
  /\ UNCHANGED <<row, flags, used>>

\* Mutated forms of WakePaused: the sleeper does not look at the kill flag.
WakePaused_Deaf(x) ==
  /\ pc[x] = "paused" /\ ~pause[x]
  /\ Launch(x, wave[x], results[x])
  /\ UNCHANGED <<row, wave, results, flags, used>>

\* The sleep of a paused runner ends: killed, or resumed, or it sleeps again.
WakePaused(x) ==
  /\ pc[x] = "paused"
  /\ \/ kill[x] /\ Conclude(x, "killed") /\ UNCHANGED <<work, tries, todo>>
     \/ ~kill[x] /\ ~pause[x] /\ Launch(x, wave[x], results[x])
  /\ UNCHANGED <<row, wave, results, flags, used>>

-----------------------------------------------------------------------------
(* The node coroutines (_bounded_execute, _execute_node).                  *)

In(x, state) == {n \in Nodes : work[x][n] = state}

Work(x, n, state) == work' = [work EXCEPT ![x][n] = state]

\* The coroutine gets the semaphore: dispatch, unless the runner is killed.
Dispatch(x, n) ==
  /\ pc[x] = "gather" /\ work[x][n] = "queued"
  /\ Cardinality(In(x, "running")) < MaxConcurrent
  /\ \/ kill[x] /\ Work(x, n, "killed") /\ UNCHANGED tries
     \/ ~kill[x] /\ Work(x, n, "running") /\ tries' = [tries EXCEPT ![x][n] = 1]
  /\ UNCHANGED <<row, pc, wave, status, results, todo, flags, used>>

NodeReturns(x, n) ==
  /\ pc[x] = "gather" /\ work[x][n] = "running"
  /\ Work(x, n, "ok")
  /\ UNCHANGED <<row, pc, wave, status, results, tries, todo, flags, used>>

\* A mutated form of NodeRaises: no look at the kill flag between retries.
NodeRaises_Deaf(x, n) ==
  /\ pc[x] = "gather" /\ work[x][n] = "running"
  /\ \/ tries[x][n] <= Retries
        /\ tries' = [tries EXCEPT ![x][n] = @ + 1] /\ UNCHANGED work
     \/ tries[x][n] > Retries
        /\ Work(x, n, "failed") /\ UNCHANGED tries
  /\ UNCHANGED <<row, pc, wave, status, results, todo, flags, used>>

\* dispatch raises: retry while attempts are left, unless killed meanwhile.
NodeRaises(x, n) ==
  /\ pc[x] = "gather" /\ work[x][n] = "running"
  /\ \/ /\ tries[x][n] <= Retries /\ ~kill[x]
        /\ tries' = [tries EXCEPT ![x][n] = @ + 1] /\ UNCHANGED work
     \/ /\ tries[x][n] <= Retries /\ kill[x]
        /\ Work(x, n, "killed") /\ UNCHANGED tries
     \/ /\ tries[x][n] > Retries
        /\ Work(x, n, "failed") /\ UNCHANGED tries
  /\ UNCHANGED <<row, pc, wave, status, results, todo, flags, used>>

-----------------------------------------------------------------------------
(* What follows the gather.                                                *)

Gathered(x) == pc[x] = "gather" /\ In(x, "queued") \cup In(x, "running") = {}

\* The results are processed in the order of the node ids: a killed node ends
\* the run and the results behind it; any other is kept and written.
Record(x) ==
  /\ Gathered(x) /\ todo[x] # {}
  /\ LET n == Min(todo[x])
     IN \/ /\ work[x][n] = "killed"
           /\ Conclude(x, "killed")
           /\ UNCHANGED <<row, results, todo, faults>>
        \/ /\ work[x][n] # "killed"
           /\ results' = [results EXCEPT ![x][n] = work[x][n]]
           /\ todo' = [todo EXCEPT ![x] = @ \ {n}]
           /\ Write(IF row.status = "absent" THEN row
                    ELSE [row EXCEPT !.results[n] = work[x][n]])
           /\ UNCHANGED <<pc, status>>
  /\ UNCHANGED <<wave, work, tries, flags, crashes, pauses>>

\* Mutated forms of Checkpoint: failures are forgotten; a status the store
\* does not know.
Checkpoint_Forgets(x) ==
  /\ Gathered(x) /\ todo[x] = {}
  /\ Write([status |-> "running", wave |-> wave[x] + 1, results |-> results[x]])
  /\ Head(x, wave[x] + 1, results[x])
  /\ UNCHANGED <<results, flags, crashes, pauses>>

Checkpoint_Misnamed(x) ==
  /\ Gathered(x) /\ todo[x] = {}
  /\ Write([status |-> "checkpointed", wave |-> wave[x] + 1, results |-> results[x]])
  /\ Head(x, wave[x] + 1, results[x])
  /\ UNCHANGED <<results, flags, crashes, pauses>>

\* The checkpoint of the wave is written, as "running" even if a node failed;
\* then FAILED, or the next wave.
Checkpoint(x) ==
  /\ Gathered(x) /\ todo[x] = {}
  /\ Write([status |-> "running", wave |-> wave[x] + 1, results |-> results[x]])
  /\ \/ /\ In(x, "failed") # {}
        /\ Conclude(x, "failed")
        /\ UNCHANGED <<wave, work, tries, todo>>
     \/ /\ In(x, "failed") = {}
        /\ Head(x, wave[x] + 1, results[x])
  /\ UNCHANGED <<results, flags, crashes, pauses>>

\* The final write; the flags are dropped and the call returns or raises.
Finish(x) ==
  /\ pc[x] = "final"
  /\ Write([status |-> status[x],
            wave |-> CASE status[x] = "killed"    -> 0
                       [] status[x] = "failed"    -> wave[x] + 1
                       [] status[x] = "completed" -> Waves,
            results |-> results[x]])
  /\ pc' = [pc EXCEPT ![x] = "done"]
  /\ UNCHANGED <<wave, status, results, work, tries, todo, flags, crashes, pauses>>

-----------------------------------------------------------------------------
(* The operators and the process.                                          *)

\* pause_workflow: PENDING or RUNNING, and the flags exist.
PauseWorkflow(x) ==
  /\ Live(x) /\ status[x] = "running" /\ ~pause[x] /\ pauses < MaxPauses
  /\ pauses' = pauses + 1
  /\ pause' = [pause EXCEPT ![x] = TRUE]
  /\ UNCHANGED <<row, pc, wave, status, results, work, tries, todo, kill,
                 faults, crashes>>

\* resume_workflow: the flag is cleared, the status set back to RUNNING.
ResumeWorkflow(x) ==
  /\ Live(x) /\ status[x] \in {"paused", "running"} /\ pause[x]
  /\ pause' = [pause EXCEPT ![x] = FALSE]
  /\ status' = [status EXCEPT ![x] = "running"]
  /\ UNCHANGED <<row, pc, wave, results, work, tries, todo, kill, used>>

\* kill_workflow: anything but COMPLETED and KILLED.
KillWorkflow(x) ==
  /\ Live(x) /\ status[x] \notin {"completed", "killed"} /\ ~kill[x]
  /\ kill' = [kill EXCEPT ![x] = TRUE]
  /\ UNCHANGED <<row, pc, wave, status, results, work, tries, todo, pause, used>>

\* The process dies: every runner is gone, the row stays.
Crash ==
  /\ crashes < MaxCrashes /\ \E x \in Runners : Live(x)
  /\ crashes' = crashes + 1
  /\ pc' = [x \in Runners |-> IF Live(x) THEN "done" ELSE pc[x]]
  /\ status' = [x \in Runners |-> IF Live(x) THEN "lost" ELSE status[x]]
  /\ work' = [x \in Runners |-> IF Live(x) THEN NoWork ELSE work[x]]
  /\ UNCHANGED <<row, wave, results, tries, todo, flags, faults, pauses>>

RunnerStep(x) ==
  \/ Created(x) \/ WakePaused(x) \/ Record(x) \/ Checkpoint(x) \/ Finish(x)

NodeStep(x, n) == Dispatch(x, n) \/ NodeReturns(x, n) \/ NodeRaises(x, n)

Next ==
  \/ Start
  \/ \E x \in Resumers : ResumeExecution(x)
  \/ \E x \in Runners : RunnerStep(x)
  \/ \E x \in Runners, n \in Nodes : NodeStep(x, n)
  \/ \E x \in Runners : PauseWorkflow(x) \/ ResumeWorkflow(x) \/ KillWorkflow(x)
  \/ Crash

\* asyncio resumes what is ready; a dispatch ends (Scheduler.dispatch puts it
\* under wait_for) and so do the writes; the semaphore wakes its waiters in turn.
Fairness ==
  \A x \in Runners : /\ WF_vars(RunnerStep(x))
                     /\ \A n \in Nodes : WF_vars(NodeStep(x, n))

Spec == Init /\ [][Next]_vars
FairSpec == Spec /\ Fairness

-----------------------------------------------------------------------------
NodeResult == {"none", "ok", "failed"}
ResultMap == [Nodes -> NodeResult]

\* Every variable keeps its type (WorkflowExecution and its row).
TypeOK ==
  /\ row \in [status : {"absent", "running", "failed", "completed", "killed"},
              wave : 0 .. Waves, results : ResultMap]
  /\ pc \in [Runners -> {"idle", "create", "paused", "gather", "final", "done"}]
  /\ wave \in [Runners -> 0 .. Waves]
  /\ status \in [Runners -> {"pending", "running", "paused", "failed",
                             "completed", "killed", "lost"}]
  /\ results \in [Runners -> ResultMap]
  /\ work \in [Runners -> [Nodes -> {"off", "queued", "running", "ok", "failed", "killed"}]]
  /\ tries \in [Runners -> [Nodes -> 0 .. Retries + 1]]
  /\ todo \in [Runners -> SUBSET Nodes]
  /\ kill \in [Runners -> BOOLEAN] /\ pause \in [Runners -> BOOLEAN]
  /\ faults \in 0 .. MaxFaults /\ crashes \in 0 .. MaxCrashes
  /\ pauses \in 0 .. MaxPauses

\* What a runner takes for a finished node.  start_workflow stops after a wave
\* with a failure; resume_execution starts behind the last checkpoint, which is
\* written for a wave that failed as well, and does not look at what failed.
Settled(x) == IF x = Starter THEN {"ok"} ELSE {"ok", "failed"}

\* A node is dispatched only when every node it depends on is through, and, by
\* start_workflow, has succeeded: what the waves of topological_sort, the stop
\* after a failed wave and the order of the checkpoint's writes are for.
DepsBeforeDispatch ==
  \A x \in Runners, n \in Nodes :
    work[x][n] = "running" => \A d \in Deps[n] : results[x][d] \in Settled(x)

\* COMPLETED says that every node was run, and, of start_workflow, that it
\* succeeded.
CompletedIsTrue ==
  \A x \in Runners :
    status[x] = "completed" => \A n \in Nodes : results[x][n] \in Settled(x)

\* Once a runner is told to stop, it dispatches nothing any more: neither a
\* node, nor a retry, nor the next wave; and a paused start_workflow starts no
\* wave ("pause at the next wave boundary").
KillAndPauseStopWork ==
  [][\A x \in Runners :
       /\ kill[x] => \A n \in Nodes :
            /\ tries'[x][n] <= tries[x][n]
            /\ work'[x][n] = "running" => work[x][n] = "running"
       /\ x = Starter /\ pause[x] /\ pause'[x] /\ todo'[x] # {} => todo[x] # {}]_vars

\* A success that is stored stays stored, and its node is not run again, through
\* crashes, failed writes and resumes.
SuccessIsFinal ==
  [][\A n \in Nodes : row.results[n] = "ok" =>
       /\ row'.results[n] = "ok"
       /\ \A x \in Runners : work'[x][n] = "running" => work[x][n] = "running"]_vars

\* Every runner comes to an end, unless it is paused; a killed one even then.
RunnersEnd ==
  \A x \in Runners : Live(x) ~> ~Live(x) \/ (pc[x] = "paused" /\ ~kill[x])
=============================================================================
