-------------------------- MODULE VAPipelineProofs --------------------------
(***************************************************************************)
(* Theorems about VAPipeline, for any number of requests, jobs and tasks,  *)
(* and about RedisKillSwitch, which its entry asks.                        *)
(***************************************************************************)
EXTENDS VAPipeline, RedisKillSwitch, FiniteSetTheorems, TLAPS

\* Every approval the configuration asks for.
Full == IF Confirm THEN {"human", "gate"} ELSE {"gate"}

\* What is behind a run that is suspended in pc[r]: the stages it completed and
\* the approvals it got.
Progress(r) ==
  /\ pc[r] \in {"idle", "start", "plan"} => completed[r] = 0
  /\ pc[r] \in {"confirm", "gate"} => completed[r] = 1
  /\ pc[r] = "execute" => completed[r] = 2
  /\ pc[r] \in {"review", "revise", "validate"} => completed[r] = 3
  /\ pc[r] = "ship" => completed[r] = 4

Approvals(r) ==
  /\ pc[r] \in {"idle", "start", "plan", "confirm"} => granted[r] = {}
  /\ pc[r] = "confirm" => Confirm
  /\ pc[r] = "gate" => granted[r] = IF Confirm THEN {"human"} ELSE {}
  /\ pc[r] \in {"idle", "start", "plan", "confirm", "gate"} =>
       calls[r] = 0 /\ r \notin shipped
  /\ pc[r] \in {"execute", "review", "revise", "validate", "ship"} =>
       granted[r] = Full
  /\ calls[r] > 0 \/ r \in shipped => granted[r] = Full

\* What a successful result rests on.
Delivery(r) ==
  /\ pc[r] \in {"validate", "ship"} /\ Quality => passed[r] = output[r]
  /\ pc[r] = "ship" => r \in shipped
  /\ result[r] = "success" =>
       /\ pc[r] \in {"persist", "done"}
       /\ completed[r] = 5
       /\ status[Obj(r)] = "completed"
       /\ r \in shipped
       /\ Quality => passed[r] = output[r]

RunInv(r) == Progress(r) /\ Approvals(r) /\ Delivery(r)

\* A task that was shipped never becomes shippable again.
ShippedStatus == {"shipping", "completed", "failed"}

ShippedIsOver == \A r \in shipped : status[Obj(r)] \in ShippedStatus

Inv ==
  /\ TypeOK
  /\ ShippedIsOver
  /\ ShipsOncePerObject
  /\ \A r \in Runs : RunInv(r)

-----------------------------------------------------------------------------
(* The transition table.                                                   *)

\* What Task._VALID_TRANSITIONS allows: only known statuses; shipping only from
\* validating; out of the shipped statuses only completed and failed; nothing
\* out of completed; executing only from gated, which may also fail.
LEMMA Table ==
  ASSUME NEW s \in Status, NEW to \in ValidTransitions[s]
  PROVE  /\ to \in Status
         /\ to = "shipping" => s = "validating"
         /\ s \in ShippedStatus => to \in {"completed", "failed"}
         /\ s # "completed"
         /\ to = "executing" => "failed" \in ValidTransitions[s]
  BY DEF ValidTransitions, Status, ShippedStatus

\* The object of a run under way exists.
LEMMA ObjType ==
  ASSUME TypeOK, NEW r \in Runs, pc[r] \notin {"idle", "done"}
  PROVE  Obj(r) \in Objects /\ status[Obj(r)] \in Status
  BY DEF TypeOK, Obj, Objects

\* The step of run r moves the task as the table allows, or not at all.
Moves(r) == \/ UNCHANGED status
            \/ \E to \in Status : CanMove(r, to) /\ Move(r, to)

\* However a run moves its task, statuses stay statuses, a shipped task stays
\* over and a completed one completed.
LEMMA StatusStep ==
  ASSUME TypeOK, NEW r \in Runs, pc[r] \notin {"idle", "done"}, Moves(r)
  PROVE  /\ status' \in [Objects -> Status]
         /\ \A o \in Objects :
              /\ status[o] \in ShippedStatus => status'[o] \in ShippedStatus
              /\ status[o] = "completed" => status'[o] = "completed"
<1>1. status \in [Objects -> Status]
  BY DEF TypeOK
<1>2. CASE UNCHANGED status
  BY <1>1, <1>2
<1>3. CASE \E to \in Status : CanMove(r, to) /\ Move(r, to)
  <2>1. PICK to \in Status : CanMove(r, to) /\ Move(r, to)
    BY <1>3
  <2>2. Obj(r) \in Objects /\ status[Obj(r)] \in Status
    BY ObjType
  <2>3. /\ status[Obj(r)] \in ShippedStatus => to \in ShippedStatus
        /\ status[Obj(r)] # "completed"
    BY <2>1, <2>2, Table DEF CanMove, ShippedStatus
  <2>4. status' = [status EXCEPT ![Obj(r)] = to]
    BY <2>1 DEF Move
  <2> QED
    BY <1>1, <2>2, <2>3, <2>4
<1> QED
  BY <1>2, <1>3 DEF Moves

-----------------------------------------------------------------------------
(* The steps of a run, seen from the other runs.                           *)

Suspended(r) == pc[r] \notin {"idle", "done"}

\* A step of run r changes nothing of the other runs but the task they share.
Alone(r) ==
  /\ UNCHANGED <<row, taskOf, halt>>
  /\ \A s \in Runs \ {r} :
       /\ pc'[s] = pc[s] /\ completed'[s] = completed[s]
       /\ granted'[s] = granted[s] /\ calls'[s] = calls[s]
       /\ output'[s] = output[s] /\ passed'[s] = passed[s]
       /\ result'[s] = result[s]

\* It ships, if it does, what was still to be shipped.
Ships(r) ==
  \/ UNCHANGED shipped
  \/ /\ shipped' = shipped \cup {r}
     /\ status[Obj(r)] = "validating" /\ status'[Obj(r)] = "shipping"

\* A step of that kind keeps the invariant if it keeps the run's own part.
LEMMA RunStep ==
  ASSUME Inv, NEW r \in Runs, Suspended(r), Moves(r), Alone(r), Ships(r),
         TypeOK', RunInv(r)'
  PROVE  Inv'
<1>1. \A s \in Runs : Obj(s)' = Obj(s)
  BY DEF Alone, Obj
<1>2. \A s \in Runs : s \in shipped => Obj(s) \in Objects
  BY DEF Inv, TypeOK, Obj, Objects
<1>3. \A o \in Objects :
        /\ status[o] \in ShippedStatus => status'[o] \in ShippedStatus
        /\ status[o] = "completed" => status'[o] = "completed"
  BY StatusStep DEF Inv, Suspended
<1>4. shipped \subseteq Runs /\ shipped' \subseteq Runs
  BY DEF Inv, TypeOK
<1>5. ShippedIsOver'
  BY <1>1, <1>2, <1>3, <1>4 DEF Inv, ShippedIsOver, Ships, ShippedStatus
<1>6. ShipsOncePerObject'
  <2>1. CASE UNCHANGED shipped
    BY <1>1, <1>4, <2>1 DEF Inv, ShipsOncePerObject
  <2>2. CASE shipped' = shipped \cup {r} /\ status[Obj(r)] = "validating"
    <3>1. \A s \in shipped : Obj(s) # Obj(r)
      BY <2>2 DEF Inv, ShippedIsOver, ShippedStatus
    <3> QED
      BY <1>1, <1>4, <2>2, <3>1 DEF Inv, ShipsOncePerObject
  <2> QED
    BY <2>1, <2>2 DEF Ships
<1>7. ASSUME NEW s \in Runs \ {r}
      PROVE  RunInv(s)'
  <2>1. s \in shipped' <=> s \in shipped
    BY DEF Ships
  <2>2. RunInv(s)
    BY DEF Inv
  <2>3. Progress(s)' /\ Approvals(s)'
    BY <2>1, <2>2 DEF RunInv, Progress, Approvals, Alone
  <2>4. Delivery(s)'
    BY <1>1, <1>2, <1>3, <2>1, <2>2 DEF RunInv, Delivery, Alone
  <2> QED
    BY <2>3, <2>4 DEF RunInv
<1> QED
  BY <1>5, <1>6, <1>7 DEF Inv

\* The run returns something else than success.
Ends(r) ==
  /\ Moves(r)
  /\ \E res \in Results \ {"success"}, p \in {"persist", "done"} :
       /\ result' = [result EXCEPT ![r] = res]
       /\ pc' = [pc EXCEPT ![r] = p]

LEMMA ReturnEnds ==
  ASSUME NEW r, NEW res \in Results \ {"success"}, Return(r, res), Moves(r)
  PROVE  Ends(r)
  BY DEF Return, Ends

\* A failing run ends.
LEMMA FailEnds ==
  ASSUME NEW r, Fail(r) \/ Refuse(r)
  PROVE  Ends(r)
<1>1. Moves(r)
  BY DEF Fail, Refuse, Moves, Status
<1>2. Return(r, "failed") \/ Return(r, "raised")
  BY DEF Fail, Refuse
<1> QED
  BY <1>1, <1>2, ReturnEnds DEF Results

\* A run enters its next stage, or it ends.
Enters(r, done, to, await) ==
  /\ completed'[r] = done /\ CanMove(r, to) /\ Move(r, to)
  /\ pc' = [pc EXCEPT ![r] = await]
  /\ UNCHANGED result

LEMMA EnterCases ==
  ASSUME NEW r, NEW done, NEW to, NEW await, Enter(r, done, to, await)
  PROVE  Enters(r, done, to, await) \/ Ends(r)
  BY FailEnds DEF Enter, Enters

\* An ended run keeps its part of the invariant if it keeps its approvals.
LEMMA EndInv ==
  ASSUME Inv, NEW r \in Runs, Ends(r),
         calls'[r] > 0 \/ r \in shipped' => granted'[r] = Full
  PROVE  RunInv(r)' /\ pc' \in [Runs -> Awaits] /\ result' \in [Runs -> Results]
<1>1. PICK res \in Results \ {"success"}, p \in {"persist", "done"} :
        result' = [result EXCEPT ![r] = res] /\ pc' = [pc EXCEPT ![r] = p]
  BY DEF Ends
<1>2. pc \in [Runs -> Awaits] /\ result \in [Runs -> Results]
  BY DEF Inv, TypeOK
<1>3. pc'[r] \in {"persist", "done"} /\ result'[r] # "success"
  BY <1>1, <1>2
<1>4. pc' \in [Runs -> Awaits] /\ result' \in [Runs -> Results]
  BY <1>1, <1>2 DEF Awaits
<1>5. RunInv(r)'
  BY <1>3 DEF RunInv, Progress, Approvals, Delivery
<1> QED
  BY <1>4, <1>5

\* The types of what a step of run r writes in its own book.
BookTypes ==
  /\ completed' \in [Runs -> 0 .. 5]
  /\ granted' \in [Runs -> SUBSET {"human", "gate"}]
  /\ calls' \in [Runs -> Nat] /\ output' \in [Runs -> Nat]
  /\ evidence' \in [Runs -> {0, 1}] /\ passed' \in [Runs -> Nat]

LEMMA TypeStep ==
  ASSUME TypeOK, NEW r \in Runs, Suspended(r), Moves(r), Alone(r), Ships(r),
         BookTypes, pc' \in [Runs -> Awaits], result' \in [Runs -> Results]
  PROVE  TypeOK'
<1>1. status' \in [Objects -> Status]
  BY StatusStep DEF Suspended
<1>2. taskOf'[r] \in Tasks /\ UNCHANGED <<row, taskOf, halt>>
  BY DEF TypeOK, Alone, Suspended
<1>3. \A s \in Runs : pc'[s] \notin {"idle", "done"} => taskOf'[s] \in Tasks
  BY <1>2 DEF TypeOK, Alone
<1>4. shipped' \subseteq Runs /\ \A s \in shipped' : taskOf'[s] \in Tasks
  BY <1>2 DEF TypeOK, Ships
<1> QED
  BY <1>1, <1>2, <1>3, <1>4 DEF TypeOK, BookTypes

\* A step that ends the run and ships nothing.
LEMMA EndStep ==
  ASSUME Inv, NEW r \in Runs, Suspended(r), Ends(r), Alone(r), BookTypes,
         UNCHANGED shipped,
         calls'[r] > 0 \/ r \in shipped => granted'[r] = Full
  PROVE  Inv'
<1>1. RunInv(r)' /\ pc' \in [Runs -> Awaits] /\ result' \in [Runs -> Results]
  BY EndInv
<1>2. Moves(r) /\ Ships(r)
  BY DEF Ends, Ships
<1>3. TypeOK'
  BY <1>1, <1>2, TypeStep DEF Inv
<1> QED
  BY <1>1, <1>2, <1>3, RunStep

\* A step that takes the run to its next stage.
LEMMA EnterStep ==
  ASSUME Inv, NEW r \in Runs, Suspended(r), NEW done, NEW to \in Status,
         NEW await \in Stages, Enters(r, done, to, await), Alone(r), Ships(r),
         BookTypes, RunInv(r)'
  PROVE  Inv'
<1>1. pc' \in [Runs -> Awaits] /\ result' \in [Runs -> Results]
  BY DEF Enters, Inv, TypeOK, Awaits, Stages
<1>2. Moves(r)
  BY DEF Enters, Moves
<1>3. TypeOK'
  BY <1>1, <1>2, TypeStep DEF Inv
<1> QED
  BY <1>2, <1>3, RunStep

\* A step within a stage: neither the task nor the result changes.
LEMMA StayStep ==
  ASSUME Inv, NEW r \in Runs, Suspended(r), UNCHANGED <<status, result, shipped>>,
         pc' \in [Runs -> Awaits], Alone(r), BookTypes, RunInv(r)'
  PROVE  Inv'
<1>1. Moves(r) /\ Ships(r) /\ result' \in [Runs -> Results]
  BY DEF Moves, Ships, Inv, TypeOK
<1>2. TypeOK'
  BY <1>1, TypeStep DEF Inv
<1> QED
  BY <1>1, <1>2, RunStep

-----------------------------------------------------------------------------
(* One lemma per action of a run.                                          *)

LEMMA AdmitKeeps ==
  ASSUME Inv, NEW r \in Runs, Admit(r)
  PROVE  Inv'
<1>1. /\ pc[r] = "start" /\ Suspended(r) /\ RunInv(r) /\ BookTypes /\ Ships(r)
      /\ UNCHANGED <<row, taskOf, halt, completed, granted, calls, output, passed, shipped>>
  BY DEF Admit, Inv, TypeOK, BookTypes, Suspended, Ships, world, book
<1>2. CASE Ends(r)
  <2>1. Alone(r)
    BY <1>1, <1>2 DEF Ends, Alone, Inv, TypeOK
  <2> QED
    BY <1>1, <1>2, <2>1, EndStep DEF RunInv, Approvals
<1>3. CASE Enters(r, 0, "planning", "plan")
  <2>1. Alone(r) /\ pc'[r] = "plan" /\ result'[r] = result[r]
    BY <1>1, <1>3 DEF Enters, Alone, Inv, TypeOK
  <2>2. RunInv(r)'
    BY <1>1, <2>1 DEF RunInv, Progress, Approvals, Delivery
  <2> QED
    BY <1>1, <1>3, <2>1, <2>2, EnterStep DEF Status, Stages
<1> QED
  BY <1>2, <1>3, FailEnds, EnterCases DEF Admit

LEMMA PlanReturnsKeeps ==
  ASSUME Inv, NEW r \in Runs, PlanReturns(r)
  PROVE  Inv'
<1>1. /\ pc[r] = "plan" /\ Suspended(r) /\ RunInv(r) /\ completed[r] = 0
      /\ completed' = [completed EXCEPT ![r] = @ + 1] /\ Ships(r)
      /\ UNCHANGED <<row, taskOf, halt, granted, calls, output, passed, shipped>>
  BY DEF PlanReturns, CompleteStage, Inv, RunInv, Progress, Suspended, Ships, world, book
<1>2. completed'[r] = 1 /\ BookTypes
  BY <1>1 DEF PlanReturns, Inv, TypeOK, BookTypes, book
<1>3. CASE Ends(r)
  <2>1. Alone(r)
    BY <1>1, <1>3 DEF Ends, Alone, Inv, TypeOK
  <2> QED
    BY <1>1, <1>2, <1>3, <2>1, EndStep DEF RunInv, Approvals
<1>4. CASE Confirm /\ Enters(r, 1, "awaiting_confirmation", "confirm")
  <2>1. Alone(r) /\ pc'[r] = "confirm" /\ result'[r] = result[r]
    BY <1>1, <1>4 DEF Enters, Alone, Inv, TypeOK
  <2>2. RunInv(r)'
    BY <1>1, <1>2, <1>4, <2>1 DEF RunInv, Progress, Approvals, Delivery
  <2> QED
    BY <1>1, <1>2, <1>4, <2>1, <2>2, EnterStep DEF Status, Stages
<1>5. CASE ~Confirm /\ Enters(r, 1, "gated", "gate")
  <2>1. Alone(r) /\ pc'[r] = "gate" /\ result'[r] = result[r]
    BY <1>1, <1>5 DEF Enters, Alone, Inv, TypeOK
  <2>2. RunInv(r)'
    BY <1>1, <1>2, <1>5, <2>1 DEF RunInv, Progress, Approvals, Delivery
  <2> QED
    BY <1>1, <1>2, <1>5, <2>1, <2>2, EnterStep DEF Status, Stages
<1> QED
  BY <1>3, <1>4, <1>5, EnterCases DEF PlanReturns

LEMMA HumanApprovesKeeps ==
  ASSUME Inv, NEW r \in Runs, HumanApproves(r)
  PROVE  Inv'
<1>1. /\ pc[r] = "confirm" /\ Suspended(r) /\ RunInv(r) /\ Ships(r) /\ Confirm
      /\ granted' = [granted EXCEPT ![r] = @ \cup {"human"}]
      /\ UNCHANGED <<row, taskOf, halt, completed, calls, output, passed, shipped>>
  BY DEF HumanApproves, Inv, RunInv, Approvals, Suspended, Ships, world
<1>2. granted'[r] = {"human"} /\ BookTypes
  BY <1>1 DEF HumanApproves, Inv, TypeOK, BookTypes, RunInv, Approvals
<1>3. CASE Ends(r)
  <2>1. Alone(r)
    BY <1>1, <1>3 DEF Ends, Alone, Inv, TypeOK
  <2> QED
    BY <1>1, <1>2, <1>3, <2>1, EndStep DEF RunInv, Approvals
<1>4. CASE Enters(r, 1, "gated", "gate")
  <2>1. Alone(r) /\ pc'[r] = "gate" /\ result'[r] = result[r]
    BY <1>1, <1>4 DEF Enters, Alone, Inv, TypeOK
  <2>2. RunInv(r)'
    BY <1>1, <1>2, <1>4, <2>1 DEF RunInv, Progress, Approvals, Delivery
  <2> QED
    BY <1>1, <1>2, <1>4, <2>1, <2>2, EnterStep DEF Status, Stages
<1> QED
  BY <1>3, <1>4, EnterCases DEF HumanApproves

LEMMA HumanRefusesKeeps ==
  ASSUME Inv, NEW r \in Runs, HumanRefuses(r)
  PROVE  Inv'
<1>1. /\ Suspended(r) /\ RunInv(r) /\ BookTypes
      /\ UNCHANGED <<row, taskOf, halt, completed, granted, calls, output, passed, shipped>>
  BY DEF HumanRefuses, Inv, TypeOK, BookTypes, Suspended, world, book
<1>2. Ends(r)
  BY FailEnds, ReturnEnds DEF HumanRefuses, Moves, Status, Results
<1>3. Alone(r)
  BY <1>1, <1>2 DEF Ends, Alone, Inv, TypeOK
<1> QED
  BY <1>1, <1>2, <1>3, EndStep DEF RunInv, Approvals

LEMMA GateApprovesKeeps ==
  ASSUME Inv, NEW r \in Runs, GateApproves(r)
  PROVE  Inv'
<1>1. /\ pc[r] = "gate" /\ Suspended(r) /\ RunInv(r) /\ Ships(r) /\ completed[r] = 1
      /\ completed' = [completed EXCEPT ![r] = @ + 1]
      /\ granted' = [granted EXCEPT ![r] = @ \cup {"gate"}]
      /\ UNCHANGED <<row, taskOf, halt, output, passed, shipped>>
      /\ \/ calls' = [calls EXCEPT ![r] = IF pc'[r] = "execute" THEN 1 ELSE 0]
         \/ UNCHANGED calls
  BY DEF GateApproves, CompleteStage, Inv, RunInv, Progress, Suspended, Ships, world
<1>2. completed'[r] = 2 /\ granted'[r] = Full /\ BookTypes
  BY <1>1 DEF GateApproves, Inv, TypeOK, BookTypes, RunInv, Approvals, Full
<1>3. CASE Ends(r)
  <2>1. Alone(r)
    BY <1>1, <1>3 DEF Ends, Alone, Inv, TypeOK
  <2> QED
    BY <1>1, <1>2, <1>3, <2>1, EndStep
<1>4. CASE Enters(r, 2, "executing", "execute")
  <2>1. Alone(r) /\ pc'[r] = "execute" /\ result'[r] = result[r]
    BY <1>1, <1>4 DEF Enters, Alone, Inv, TypeOK
  <2>2. RunInv(r)'
    BY <1>1, <1>2, <1>4, <2>1 DEF RunInv, Progress, Approvals, Delivery
  <2> QED
    BY <1>1, <1>2, <1>4, <2>1, <2>2, EnterStep DEF Status, Stages
<1>5. CASE CanMove(r, "executing") /\ Move(r, "failed") /\ Return(r, "failed")
  <2>1. CanMove(r, "failed")
    BY <1>1, <1>5, ObjType, Table DEF CanMove, Inv, Suspended
  <2>2. Ends(r)
    BY <1>5, <2>1, ReturnEnds DEF Moves, Status, Results
  <2> QED
    BY <1>3, <2>2
<1> QED
  BY <1>3, <1>4, <1>5, EnterCases DEF GateApproves

LEMMA GateRejectsKeeps ==
  ASSUME Inv, NEW r \in Runs, GateRejects(r)
  PROVE  Inv'
<1>1. /\ Suspended(r) /\ RunInv(r) /\ BookTypes
      /\ UNCHANGED <<row, taskOf, halt, completed, granted, calls, output, passed, shipped>>
  BY DEF GateRejects, Inv, TypeOK, BookTypes, Suspended, world, book
<1>2. Ends(r)
  BY ReturnEnds DEF GateRejects, Moves, Status, Results
<1>3. Alone(r)
  BY <1>1, <1>2 DEF Ends, Alone, Inv, TypeOK
<1> QED
  BY <1>1, <1>2, <1>3, EndStep DEF RunInv, Approvals

LEMMA ExecuteReturnsKeeps ==
  ASSUME Inv, NEW r \in Runs, ExecuteReturns(r)
  PROVE  Inv'
<1>1. /\ pc[r] = "execute" /\ Suspended(r) /\ RunInv(r) /\ Ships(r) /\ completed[r] = 2
      /\ completed' = [completed EXCEPT ![r] = @ + 1]
      /\ output' = [output EXCEPT ![r] = 1]
      /\ UNCHANGED <<row, taskOf, halt, granted, calls, passed, shipped>>
  BY DEF ExecuteReturns, CompleteStage, Inv, RunInv, Progress, Suspended, Ships, world
<1>2. completed'[r] = 3 /\ BookTypes
  BY <1>1 DEF ExecuteReturns, Inv, TypeOK, BookTypes
<1>3. CASE Ends(r)
  <2>1. Alone(r)
    BY <1>1, <1>3 DEF Ends, Alone, Inv, TypeOK
  <2> QED
    BY <1>1, <1>2, <1>3, <2>1, EndStep DEF RunInv, Approvals
<1>4. CASE ~Quality /\ Enters(r, 3, "validating", "validate")
  <2>1. Alone(r) /\ pc'[r] = "validate" /\ result'[r] = result[r]
    BY <1>1, <1>4 DEF Enters, Alone, Inv, TypeOK
  <2>2. RunInv(r)'
    BY <1>1, <1>2, <1>4, <2>1 DEF RunInv, Progress, Approvals, Delivery
  <2> QED
    BY <1>1, <1>2, <1>4, <2>1, <2>2, EnterStep DEF Status, Stages
<1>5. CASE pc' = [pc EXCEPT ![r] = "review"] /\ UNCHANGED <<status, result>>
  <2>1. Alone(r) /\ pc'[r] = "review" /\ pc' \in [Runs -> Awaits]
    BY <1>1, <1>5 DEF Alone, Inv, TypeOK, Awaits, Stages
  <2>2. RunInv(r)'
    BY <1>1, <1>2, <1>5, <2>1 DEF RunInv, Progress, Approvals, Delivery
  <2> QED
    BY <1>1, <1>2, <1>5, <2>1, <2>2, StayStep
<1> QED
  BY <1>3, <1>4, <1>5, EnterCases DEF ExecuteReturns

LEMMA ExecuteRetryKeeps ==
  ASSUME Inv, NEW r \in Runs, ExecuteRetry(r)
  PROVE  Inv'
<1>1. /\ pc[r] = "execute" /\ Suspended(r) /\ RunInv(r) /\ calls' = [calls EXCEPT ![r] = @ + 1]
      /\ UNCHANGED <<row, taskOf, halt, completed, granted, output, evidence,
                     passed, status, pc, result, shipped>>
  BY DEF ExecuteRetry, Inv, Suspended, world
<1>2. BookTypes /\ pc' \in [Runs -> Awaits]
  BY <1>1 DEF Inv, TypeOK, BookTypes
<1>3. Alone(r)
  BY <1>1 DEF Alone, Inv, TypeOK
<1>4. RunInv(r)'
  BY <1>1 DEF RunInv, Progress, Approvals, Delivery, Obj
<1> QED
  BY <1>1, <1>2, <1>3, <1>4, StayStep

LEMMA ReviewPassesKeeps ==
  ASSUME Inv, NEW r \in Runs, ReviewPasses(r)
  PROVE  Inv'
<1>1. /\ pc[r] = "review" /\ Suspended(r) /\ RunInv(r) /\ Ships(r)
      /\ passed' = [passed EXCEPT ![r] = output[r]]
      /\ UNCHANGED <<row, taskOf, halt, completed, granted, calls, output, shipped>>
  BY DEF ReviewPasses, Inv, Suspended, Ships, world
<1>2. passed'[r] = output[r] /\ BookTypes
  BY <1>1 DEF ReviewPasses, Inv, TypeOK, BookTypes
<1>3. CASE Ends(r)
  <2>1. Alone(r)
    BY <1>1, <1>3 DEF Ends, Alone, Inv, TypeOK
  <2> QED
    BY <1>1, <1>2, <1>3, <2>1, EndStep DEF RunInv, Approvals
<1>4. CASE Enters(r, 3, "validating", "validate")
  <2>1. Alone(r) /\ pc'[r] = "validate" /\ result'[r] = result[r]
    BY <1>1, <1>4 DEF Enters, Alone, Inv, TypeOK
  <2>2. RunInv(r)'
    BY <1>1, <1>2, <1>4, <2>1 DEF RunInv, Progress, Approvals, Delivery
  <2> QED
    BY <1>1, <1>2, <1>4, <2>1, <2>2, EnterStep DEF Status, Stages
<1> QED
  BY <1>3, <1>4, EnterCases DEF ReviewPasses

LEMMA ReviewFailsKeeps ==
  ASSUME Inv, NEW r \in Runs, ReviewFails(r)
  PROVE  Inv'
<1>1. /\ pc[r] = "review" /\ Suspended(r) /\ RunInv(r)
      /\ UNCHANGED <<row, taskOf, halt, completed, granted, output, evidence, passed, shipped>>
  BY DEF ReviewFails, Inv, Suspended, world
<1>2. CASE /\ pc' = [pc EXCEPT ![r] = "revise"]
           /\ calls' = [calls EXCEPT ![r] = @ + 1]
           /\ UNCHANGED <<status, result>>
  <2>1. Alone(r) /\ BookTypes /\ pc' \in [Runs -> Awaits] /\ pc'[r] = "revise"
    BY <1>1, <1>2 DEF Alone, BookTypes, Inv, TypeOK, Awaits, Stages
  <2>2. RunInv(r)'
    BY <1>1, <1>2, <2>1 DEF RunInv, Progress, Approvals, Delivery
  <2> QED
    BY <1>1, <1>2, <2>1, <2>2, StayStep
<1>3. CASE Fail(r) /\ UNCHANGED calls
  <2>1. Ends(r)
    BY <1>3, FailEnds
  <2>2. Alone(r) /\ BookTypes
    BY <1>1, <1>3, <2>1 DEF Ends, Alone, BookTypes, Inv, TypeOK
  <2> QED
    BY <1>1, <1>3, <2>1, <2>2, EndStep DEF RunInv, Approvals
<1> QED
  BY <1>2, <1>3 DEF ReviewFails

LEMMA ReviseReturnsKeeps ==
  ASSUME Inv, NEW r \in Runs, ReviseReturns(r)
  PROVE  Inv'
<1>1. /\ pc[r] = "revise" /\ Suspended(r) /\ RunInv(r)
      /\ output' = [output EXCEPT ![r] = @ + 1] /\ pc' = [pc EXCEPT ![r] = "review"]
      /\ UNCHANGED <<row, taskOf, halt, completed, granted, calls, evidence,
                     passed, status, result, shipped>>
  BY DEF ReviseReturns, Inv, Suspended, world
<1>2. BookTypes /\ pc' \in [Runs -> Awaits] /\ pc'[r] = "review"
  BY <1>1 DEF Inv, TypeOK, BookTypes, Awaits, Stages
<1>3. Alone(r)
  BY <1>1 DEF Alone, Inv, TypeOK
<1>4. RunInv(r)'
  BY <1>1, <1>2 DEF RunInv, Progress, Approvals, Delivery
<1> QED
  BY <1>1, <1>2, <1>3, <1>4, StayStep

LEMMA ValidateReturnsKeeps ==
  ASSUME Inv, NEW r \in Runs, ValidateReturns(r)
  PROVE  Inv'
<1>1. /\ pc[r] = "validate" /\ Suspended(r) /\ RunInv(r) /\ completed[r] = 3
      /\ completed' = [completed EXCEPT ![r] = @ + 1]
      /\ shipped' = IF pc'[r] = "ship" THEN shipped \cup {r} ELSE shipped
      /\ UNCHANGED <<row, taskOf, halt, granted, calls, output, evidence, passed>>
  BY DEF ValidateReturns, CompleteStage, Inv, RunInv, Progress, Suspended, world, book
<1>2. completed'[r] = 4 /\ BookTypes /\ granted[r] = Full
  BY <1>1 DEF Inv, TypeOK, BookTypes, RunInv, Approvals
<1>3. CASE Ends(r)
  <2>1. Alone(r) /\ UNCHANGED shipped
    BY <1>1, <1>3 DEF Ends, Alone, Inv, TypeOK
  <2> QED
    BY <1>1, <1>2, <1>3, <2>1, EndStep
<1>4. CASE Enters(r, 4, "shipping", "ship")
  <2>1. Alone(r) /\ pc'[r] = "ship" /\ result'[r] = result[r]
    BY <1>1, <1>4 DEF Enters, Alone, Inv, TypeOK
  <2>2. Obj(r) \in Objects /\ status[Obj(r)] \in Status
    BY <1>1, ObjType DEF Inv, Suspended
  <2>3. status[Obj(r)] = "validating" /\ status'[Obj(r)] = "shipping"
    BY <1>4, <2>2, Table DEF Enters, CanMove, Move, Inv, TypeOK
  <2>4. Ships(r)
    BY <1>1, <2>1, <2>3 DEF Ships
  <2>5. RunInv(r)'
    BY <1>1, <1>2, <1>4, <2>1 DEF RunInv, Progress, Approvals, Delivery
  <2> QED
    BY <1>1, <1>2, <1>4, <2>1, <2>4, <2>5, EnterStep DEF Status, Stages
<1> QED
  BY <1>3, <1>4, EnterCases DEF ValidateReturns

LEMMA ShipReturnsKeeps ==
  ASSUME Inv, NEW r \in Runs, ShipReturns(r)
  PROVE  Inv'
<1>1. /\ pc[r] = "ship" /\ Suspended(r) /\ RunInv(r) /\ completed[r] = 4
      /\ completed' = [completed EXCEPT ![r] = @ + 1]
      /\ r \in shipped /\ granted[r] = Full
      /\ UNCHANGED <<row, taskOf, halt, granted, calls, output, evidence, passed, shipped>>
  BY DEF ShipReturns, CompleteStage, Inv, RunInv, Progress, Approvals, Delivery,
         Suspended, world, book
<1>2. completed'[r] = 5 /\ BookTypes
  BY <1>1 DEF Inv, TypeOK, BookTypes
<1>3. CASE Fail(r)
  <2>1. Ends(r)
    BY <1>3, FailEnds
  <2>2. Alone(r)
    BY <1>1, <2>1 DEF Ends, Alone, Inv, TypeOK
  <2> QED
    BY <1>1, <1>2, <2>1, <2>2, EndStep
<1>4. CASE CanMove(r, "completed") /\ Move(r, "completed") /\ Return(r, "success")
  <2>1. /\ result' = [result EXCEPT ![r] = "success"]
        /\ \E p \in {"persist", "done"} : pc' = [pc EXCEPT ![r] = p]
    BY <1>4 DEF Return
  <2>2. /\ Alone(r) /\ Ships(r) /\ pc'[r] \in {"persist", "done"}
        /\ pc' \in [Runs -> Awaits] /\ result' \in [Runs -> Results]
    BY <1>1, <2>1 DEF Alone, Ships, Inv, TypeOK, Awaits, Results
  <2>3. Moves(r)
    BY <1>4 DEF Moves, Status
  <2>4. TypeOK'
    BY <1>1, <1>2, <2>2, <2>3, TypeStep DEF Inv
  <2>5. Obj(r) \in Objects /\ Obj(r)' = Obj(r)
    BY <1>1, ObjType DEF Inv, Suspended, Obj
  <2>6. status'[Obj(r)] = "completed"
    BY <1>4, <2>5 DEF Move, Inv, TypeOK
  <2>7. RunInv(r)'
    BY <1>1, <1>2, <2>2, <2>5, <2>6 DEF RunInv, Progress, Approvals, Delivery
  <2> QED
    BY <1>1, <2>2, <2>3, <2>4, <2>7, RunStep
<1> QED
  BY <1>3, <1>4 DEF ShipReturns

LEMMA StageRaisesKeeps ==
  ASSUME Inv, NEW r \in Runs, StageRaises(r)
  PROVE  Inv'
<1>1. /\ Suspended(r) /\ RunInv(r) /\ BookTypes
      /\ UNCHANGED <<row, taskOf, halt, completed, granted, calls, output, passed, shipped>>
  BY DEF StageRaises, Stages, Inv, TypeOK, BookTypes, Suspended, world, book
<1>2. Ends(r)
  BY FailEnds DEF StageRaises
<1>3. Alone(r)
  BY <1>1, <1>2 DEF Ends, Alone, Inv, TypeOK
<1> QED
  BY <1>1, <1>2, <1>3, EndStep DEF RunInv, Approvals

-----------------------------------------------------------------------------
(* The callers and the environment.                                        *)

\* A step outside the stages: runs start or are over, what is under way keeps
\* its task, its status and its book.
LEMMA QuietStep ==
  ASSUME Inv, TypeOK', UNCHANGED <<book, completed, shipped>>,
         \A s \in Runs :
           /\ \/ pc'[s] = pc[s]
              \/ pc[s] = "idle" /\ pc'[s] = "start"
              \/ pc'[s] = "done"
           /\ result'[s] = "success" => result[s] = "success"
           /\ pc[s] # "idle" => /\ Obj(s)' = Obj(s)
                                /\ status'[Obj(s)] = status[Obj(s)]
  PROVE  Inv'
<1>1. \A s \in shipped : pc[s] # "idle" /\ s \in Runs
  BY DEF Inv, RunInv, Approvals, TypeOK
<1>2. ShippedIsOver' /\ ShipsOncePerObject'
  BY <1>1 DEF Inv, ShippedIsOver, ShipsOncePerObject
<1>3. ASSUME NEW s \in Runs
      PROVE  RunInv(s)'
  <2>1. RunInv(s)
    BY DEF Inv
  <2>2. Progress(s)' /\ Approvals(s)'
    BY <2>1 DEF RunInv, Progress, Approvals, book
  <2>3. Delivery(s)'
    BY <2>1 DEF RunInv, Delivery, book
  <2> QED
    BY <2>2, <2>3 DEF RunInv
<1> QED
  BY <1>2, <1>3 DEF Inv

LEMMA CreateTaskKeeps ==
  ASSUME Inv, NEW t \in Tasks, CreateTask(t)
  PROVE  Inv'
<1>1. TypeOK'
  BY DEF Inv, TypeOK, CreateTask, book, Status
<1> QED
  BY <1>1, QuietStep DEF CreateTask, Obj

LEMMA ScheduleJobKeeps ==
  ASSUME Inv, NEW j \in Jobs, NEW t \in Tasks, ScheduleJob(j, t)
  PROVE  Inv'
<1>1. j \in Runs
  BY DEF Runs
<1>2. TypeOK'
  <2>1. /\ row' \in [Tasks -> Status \cup {"absent", "lost"}]
        /\ taskOf' \in [Runs -> Tasks \cup {NoTask}]
        /\ pc' \in [Runs -> Awaits]
    BY <1>1 DEF Inv, TypeOK, ScheduleJob, Status, Awaits
  <2>2. \A r \in Runs : pc'[r] \notin {"idle", "done"} => taskOf'[r] \in Tasks
    BY <1>1 DEF Inv, TypeOK, ScheduleJob
  <2>3. \A r \in shipped : taskOf'[r] \in Tasks
    BY <1>1 DEF Inv, TypeOK, ScheduleJob
  <2> QED
    BY <2>1, <2>2, <2>3 DEF Inv, TypeOK, ScheduleJob, book
<1>3. \A s \in Runs : \/ pc'[s] = pc[s] /\ taskOf'[s] = taskOf[s]
                      \/ pc[s] = "idle" /\ pc'[s] = "start"
  BY <1>1 DEF Inv, TypeOK, ScheduleJob
<1> QED
  BY <1>2, <1>3, QuietStep DEF ScheduleJob, Obj

LEMMA FetchKeeps ==
  ASSUME Inv, NEW q \in Requests, NEW t \in Tasks, Fetch(q, t)
  PROVE  Inv'
<1>1. q \in Runs /\ pc[q] = "idle"
  BY DEF Runs, Fetch
<1>2. CASE row[t] \in Status
  <2>1. /\ taskOf' = [taskOf EXCEPT ![q] = t] /\ pc' = [pc EXCEPT ![q] = "start"]
        /\ \/ OwnCopy /\ status' = [status EXCEPT ![q] = row[t]]
           \/ UNCHANGED status
        /\ UNCHANGED <<row, halt, book, completed, result, shipped>>
    BY <1>2 DEF Fetch
  <2>2. status' \in [Objects -> Status]
    BY <1>1, <1>2, <2>1 DEF Inv, TypeOK, Objects
  <2>3. /\ taskOf' \in [Runs -> Tasks \cup {NoTask}] /\ pc' \in [Runs -> Awaits]
        /\ \A r \in Runs : pc'[r] \notin {"idle", "done"} => taskOf'[r] \in Tasks
        /\ \A r \in shipped : taskOf'[r] \in Tasks
    BY <1>1, <2>1 DEF Inv, TypeOK, Awaits
  <2>4. TypeOK'
    BY <2>1, <2>2, <2>3 DEF Inv, TypeOK, book
  <2>5. \A s \in Runs : \/ s # q /\ pc'[s] = pc[s] /\ taskOf'[s] = taskOf[s]
                        \/ s = q /\ pc[s] = "idle" /\ pc'[s] = "start"
    BY <1>1, <2>1 DEF Inv, TypeOK
  <2>6. \A s \in Runs \ {q} : status'[Obj(s)] = status[Obj(s)]
    BY <1>1, <2>1 DEF Inv, TypeOK, Obj, Objects
  <2> QED
    BY <2>1, <2>4, <2>5, <2>6, QuietStep DEF Obj
<1>3. CASE row[t] \notin Status
  <2>1. /\ result' = [result EXCEPT ![q] = "not_found"]
        /\ pc' = [pc EXCEPT ![q] = "done"]
        /\ UNCHANGED <<row, halt, book, completed, status, taskOf, shipped>>
    BY <1>3 DEF Fetch
  <2>2. TypeOK'
    BY <1>1, <2>1 DEF Inv, TypeOK, book, Awaits, Results
  <2>3. \A s \in Runs : /\ pc'[s] = pc[s] \/ pc'[s] = "done"
                        /\ result'[s] = "success" => result[s] = "success"
    BY <1>1, <2>1 DEF Inv, TypeOK
  <2> QED
    BY <2>1, <2>2, <2>3, QuietStep DEF Obj
<1> QED
  BY <1>2, <1>3

LEMMA ConflictKeeps ==
  ASSUME Inv, NEW q \in Requests, Conflict(q)
  PROVE  Inv'
<1>1. /\ q \in Runs /\ pc[q] = "start" /\ Suspended(q) /\ RunInv(q) /\ BookTypes
      /\ UNCHANGED <<row, taskOf, halt, completed, granted, calls, output, passed, shipped>>
  BY DEF Conflict, Runs, Inv, TypeOK, BookTypes, Suspended, world, book
<1>2. Ends(q)
  BY ReturnEnds DEF Conflict, Moves, Results
<1>3. Alone(q)
  BY <1>1, <1>2 DEF Ends, Alone, Inv, TypeOK
<1> QED
  BY <1>1, <1>2, <1>3, EndStep DEF RunInv, Approvals

LEMMA PersistKeeps ==
  ASSUME Inv, NEW q \in Requests, Persist(q)
  PROVE  Inv'
<1>1. q \in Runs /\ taskOf[q] \in Tasks
  BY DEF Runs, Persist, Inv, TypeOK
<1>2. row' \in [Tasks -> Status \cup {"absent", "lost"}]
  BY <1>1 DEF Persist, Inv, TypeOK, Objects
<1>3. TypeOK'
  BY <1>1, <1>2 DEF Persist, Inv, TypeOK, book, Awaits
<1>4. \A s \in Runs : pc'[s] = pc[s] \/ pc'[s] = "done"
  BY <1>1 DEF Persist, Inv, TypeOK
<1> QED
  BY <1>3, <1>4, QuietStep DEF Persist, Obj

LEMMA ToggleHaltKeeps ==
  ASSUME Inv, ToggleHalt
  PROVE  Inv'
<1>1. TypeOK'
  BY DEF Inv, TypeOK, ToggleHalt, book
<1> QED
  BY <1>1, QuietStep DEF ToggleHalt, Obj

LEMMA RestartKeeps ==
  ASSUME Inv, Restart
  PROVE  Inv'
<1>1. /\ row' \in [Tasks -> Status \cup {"absent", "lost"}]
      /\ pc' \in [Runs -> Awaits] /\ result' \in [Runs -> Results]
      /\ halt' \in [memory : BOOLEAN, redis : BOOLEAN]
  BY DEF Inv, TypeOK, Restart, Awaits, Results
<1>2. \A s \in Runs : /\ pc'[s] = pc[s] \/ pc'[s] = "done"
                      /\ pc'[s] \in {"idle", "done"}
                      /\ result'[s] = "success" => result[s] = "success"
  BY DEF Restart
<1>3. TypeOK'
  BY <1>1, <1>2 DEF Inv, TypeOK, Restart, book
<1> QED
  BY <1>2, <1>3, QuietStep DEF Restart, Obj

-----------------------------------------------------------------------------
(* The theorems.                                                           *)

LEMMA InitInv == Init => Inv
<1> SUFFICES ASSUME Init
             PROVE  Inv
  OBVIOUS
<1>1. TypeOK
  BY DEF Init, TypeOK, Status, Awaits, Results
<1>2. \A r \in Runs : RunInv(r)
  BY DEF Init, RunInv, Progress, Approvals, Delivery
<1> QED
  BY <1>1, <1>2 DEF Init, Inv, ShippedIsOver, ShipsOncePerObject

LEMMA NextInv == Inv /\ [Next]_vars => Inv'
<1> SUFFICES ASSUME Inv, [Next]_vars
             PROVE  Inv'
  OBVIOUS
<1>1. ASSUME NEW t \in Tasks, CreateTask(t) PROVE Inv'
  BY <1>1, CreateTaskKeeps
<1>2. ASSUME NEW j \in Jobs, NEW t \in Tasks, ScheduleJob(j, t) PROVE Inv'
  BY <1>2, ScheduleJobKeeps
<1>3. ASSUME NEW q \in Requests, NEW t \in Tasks, Fetch(q, t) PROVE Inv'
  BY <1>3, FetchKeeps
<1>4. ASSUME NEW r \in Runs, Step(r) PROVE Inv'
  BY <1>4, AdmitKeeps, PlanReturnsKeeps, HumanApprovesKeeps, HumanRefusesKeeps,
     GateApprovesKeeps, GateRejectsKeeps, ExecuteReturnsKeeps, ExecuteRetryKeeps,
     ReviewPassesKeeps, ReviewFailsKeeps, ReviseReturnsKeeps,
     ValidateReturnsKeeps, ShipReturnsKeeps, StageRaisesKeeps DEF Step
<1>5. ASSUME NEW q \in Requests, RouteStep(q) PROVE Inv'
  BY <1>5, ConflictKeeps, PersistKeeps DEF RouteStep
<1>6. CASE ToggleHalt
  BY <1>6, ToggleHaltKeeps
<1>7. CASE Restart
  BY <1>7, RestartKeeps
<1>8. CASE UNCHANGED vars
  <2>1. UNCHANGED <<row, taskOf, halt, granted, calls, output, evidence, passed,
                    status, pc, completed, result, shipped>>
    BY <1>8 DEF vars, world, book
  <2>2. TypeOK'
    BY <2>1 DEF Inv, TypeOK
  <2> QED
    BY <2>1, <2>2, QuietStep DEF Obj, book
<1> QED
  BY <1>1, <1>2, <1>3, <1>4, <1>5, <1>6, <1>7, <1>8 DEF Next

\* The inductive invariant holds in every reachable state.
THEOREM Invariance == Spec => []Inv
  BY InitInv, NextInv, PTL DEF Spec

\* The variables keep their types: a task is in a status of the lifecycle, and a
\* run under way has its task, whatever the callers and the process do.
THEOREM TypeCorrect == Spec => []TypeOK
<1>1. Inv => TypeOK
  BY DEF Inv
<1> QED
  BY <1>1, Invariance, PTL

\* At every await the run has completed exactly the stages that precede it: the
\* StageSkipError of _assert_stage_order is never raised.
THEOREM StagesInOrder == Spec => [](\A r \in Runs : Progress(r))
<1>1. Inv => \A r \in Runs : Progress(r)
  BY DEF Inv, RunInv
<1> QED
  BY <1>1, Invariance, PTL

\* However many requests and jobs race for it, a Task object is shipped by one
\* run at most (Task.transition is the lock of the pipeline).
THEOREM ObjectShipsOnce == Spec => []ShipsOncePerObject
<1>1. Inv => ShipsOncePerObject
  BY DEF Inv
<1> QED
  BY <1>1, Invariance, PTL

\* In a process without a task store, where every caller gets the same object,
\* that means that a task is shipped once.
THEOREM SharedTaskShipsOnce ==
  ASSUME ~OwnCopy
  PROVE  Spec => []ShipsOnce
<1>1. Inv => ShipsOnce
  BY DEF Inv, ShipsOncePerObject, ShipsOnce, Obj
<1> QED
  BY <1>1, Invariance, PTL

\* No executor call and no shipment without every approval the configuration
\* asks for: Pipeline.run has no path around the human or the policy gate.
THEOREM Authorised == Spec => []AuthorisedBeforeEffect
<1>1. Inv => AuthorisedBeforeEffect
  BY DEF Inv, RunInv, Approvals, AuthorisedBeforeEffect, Full
<1> QED
  BY <1>1, Invariance, PTL

\* A successful result is only given for a task that is COMPLETED, was shipped
\* by the run itself after all five stages, and whose last output the quality
\* gate has passed.
THEOREM SuccessTold == Spec => []SuccessIsTrue
<1>1. Inv => SuccessIsTrue
  BY DEF Inv, RunInv, Delivery, SuccessIsTrue
<1> QED
  BY <1>1, Invariance, PTL

-----------------------------------------------------------------------------
(* What a step of a run does to its task.                                  *)

\* The task moves, if it does, to a status that is not shipping.
MovesQuietly(r) ==
  /\ UNCHANGED shipped
  /\ \/ UNCHANGED status
     \/ \E to \in Status \ {"shipping"} : CanMove(r, to) /\ Move(r, to)

\* The run ships the task.
MovesToShipping(r) ==
  /\ shipped' = shipped \cup {r}
  /\ status[Obj(r)] = "validating" /\ Move(r, "shipping")

LEMMA FailMoves ==
  ASSUME NEW r, Fail(r) \/ Refuse(r), UNCHANGED shipped
  PROVE  MovesQuietly(r)
  BY DEF Fail, Refuse, MovesQuietly, Status

LEMMA EnterMoves ==
  ASSUME NEW r, NEW done, NEW to \in Status \ {"shipping"}, NEW await,
         Enter(r, done, to, await), UNCHANGED shipped
  PROVE  MovesQuietly(r)
  BY FailMoves DEF Enter, MovesQuietly

\* Every await ends with a legal move of the run's own task, and moves it to
\* shipping exactly when the shipper is called.
LEMMA StepMoves ==
  ASSUME Inv, NEW r \in Runs, Step(r)
  PROVE  /\ Suspended(r)
         /\ UNCHANGED taskOf
         /\ MovesQuietly(r) \/ MovesToShipping(r)
<1>1. Suspended(r) /\ UNCHANGED taskOf
  BY DEF Step, Suspended, Stages, world, Admit, PlanReturns, HumanApproves,
     HumanRefuses, GateApproves, GateRejects, ExecuteReturns, ExecuteRetry,
     ReviewPasses, ReviewFails, ReviseReturns, ValidateReturns, ShipReturns,
     StageRaises
<1> SUFFICES MovesQuietly(r) \/ MovesToShipping(r)
  BY <1>1
<1>2. CASE Admit(r)
  BY <1>2, FailMoves, EnterMoves DEF Admit, Status
<1>3. CASE PlanReturns(r)
  BY <1>3, EnterMoves DEF PlanReturns, Status
<1>4. CASE HumanApproves(r) \/ ReviewPasses(r)
  BY <1>4, EnterMoves DEF HumanApproves, ReviewPasses, Status
<1>5. CASE HumanRefuses(r) \/ GateRejects(r)
  BY <1>5, FailMoves DEF HumanRefuses, GateRejects, MovesQuietly, Status
<1>6. CASE GateApproves(r)
  <2>1. CASE Enter(r, 2, "executing", "execute")
    BY <1>6, <2>1, EnterMoves DEF GateApproves, Status
  <2>2. CASE CanMove(r, "executing") /\ Move(r, "failed")
    <3>1. status[Obj(r)] \in Status
      BY <1>1, ObjType DEF Inv, Suspended
    <3>2. CanMove(r, "failed")
      BY <2>2, <3>1, Table DEF CanMove
    <3> QED
      BY <1>6, <2>2, <3>2 DEF GateApproves, MovesQuietly, Status
  <2> QED
    BY <1>6, <2>1, <2>2 DEF GateApproves
<1>7. CASE ExecuteReturns(r)
  <2>1. UNCHANGED shipped
    BY <1>7 DEF ExecuteReturns
  <2>2. UNCHANGED status \/ Enter(r, 3, "validating", "validate")
    BY <1>7 DEF ExecuteReturns
  <2> QED
    BY <2>1, <2>2, EnterMoves DEF MovesQuietly, Status
<1>8. CASE ExecuteRetry(r) \/ ReviseReturns(r)
  BY <1>8 DEF ExecuteRetry, ReviseReturns, MovesQuietly
<1>9. CASE ReviewFails(r)
  BY <1>9, FailMoves DEF ReviewFails, MovesQuietly
<1>10. CASE ValidateReturns(r)
  <2>1. status[Obj(r)] \in Status
    BY <1>1, ObjType DEF Inv, Suspended
  <2>2. pc \in [Runs -> Awaits]
    BY DEF Inv, TypeOK
  <2>3. CASE CanMove(r, "shipping") /\ Move(r, "shipping")
              /\ pc' = [pc EXCEPT ![r] = "ship"]
    BY <1>10, <2>1, <2>2, <2>3, Table DEF ValidateReturns, MovesToShipping, CanMove
  <2>4. CASE Fail(r)
    <3>1. pc'[r] # "ship"
      BY <2>2, <2>4 DEF Fail, Return
    <3> QED
      BY <1>10, <2>4, <3>1, FailMoves DEF ValidateReturns
  <2> QED
    BY <1>10, <2>3, <2>4 DEF ValidateReturns, Enter
<1>11. CASE ShipReturns(r)
  BY <1>11, FailMoves DEF ShipReturns, MovesQuietly, Status
<1>12. CASE StageRaises(r)
  BY <1>12, FailMoves DEF StageRaises
<1> QED
  BY <1>2, <1>3, <1>4, <1>5, <1>6, <1>7, <1>8, <1>9, <1>10, <1>11, <1>12 DEF Step

-----------------------------------------------------------------------------
(* The refinement.                                                         *)

\* The phase of a task is a function of its status.
LEMMA PhaseOf ==
  ASSUME NEW o \in Objects
  PROVE  /\ status[o] = "pending" => Phase[o] = "open"
         /\ status[o] = "shipping" => Phase[o] = "delivering"
         /\ status[o] \in {"completed", "failed", "rejected"} => Phase[o] = "closed"
         /\ status[o] \in {"planning", "awaiting_confirmation", "gated",
                           "executing", "validating"} => Phase[o] = "working"
  BY DEF Phase

\* When nobody ships, and only idle runs choose a task, no item is delivered.
LEMMA NothingDelivered ==
  ASSUME UNCHANGED shipped, \A s \in shipped : Obj(s)' = Obj(s)
  PROVE  Delivered' = Delivered
  BY DEF Delivered, Objects

\* A status that changes as the table allows, but not to shipping, claims an
\* open item, closes an item, or leaves a claimed item claimed.
LEMMA QuietMoveRefines ==
  ASSUME Inv, NEW r \in Runs, Suspended(r), UNCHANGED taskOf, MovesQuietly(r)
  PROVE  [Once!Next]_<<Phase, Delivered>>
<1>1. Delivered' = Delivered
  BY NothingDelivered DEF MovesQuietly, Obj
<1>2. CASE UNCHANGED status
  BY <1>1, <1>2 DEF Phase
<1>3. CASE \E to \in Status \ {"shipping"} : CanMove(r, to) /\ Move(r, to)
  <2>1. PICK to \in Status \ {"shipping"} : CanMove(r, to) /\ Move(r, to)
    BY <1>3
  <2> DEFINE o == Obj(r)
  <2>2. o \in Objects /\ status[o] \in Status
    BY ObjType DEF Inv, Suspended
  <2>3. status \in [Objects -> Status] /\ status' = [status EXCEPT ![o] = to]
    BY <2>1 DEF Move, Inv, TypeOK
  <2>4. \A p : Phase'[o] = p => Phase' = [Phase EXCEPT ![o] = p]
    BY <2>2, <2>3 DEF Phase
  <2>5. /\ to = "planning" => Phase'[o] = "working" /\ Phase[o] = "open"
        /\ to \in {"completed", "failed", "rejected"} =>
             Phase'[o] = "closed" /\ Phase[o] # "closed"
        /\ to \in {"awaiting_confirmation", "gated", "executing", "validating"} =>
             Phase'[o] = "working" /\ Phase[o] = "working"
    BY <2>1, <2>2, <2>3 DEF Phase, CanMove, ValidTransitions, Status
  <2>6. CASE to = "planning"
    <3>1. Once!Claim(o)
      BY <1>1, <2>4, <2>5, <2>6 DEF Once!Claim, Once!To
    <3> QED
      BY <2>2, <3>1 DEF Once!Next
  <2>7. CASE to \in {"completed", "failed", "rejected"}
    <3>1. Once!Close(o)
      BY <1>1, <2>4, <2>5, <2>7 DEF Once!Close, Once!To
    <3> QED
      BY <2>2, <3>1 DEF Once!Next
  <2>8. CASE to \in {"awaiting_confirmation", "gated", "executing", "validating"}
    <3>1. Phase' = Phase
      BY <2>4, <2>5, <2>8 DEF Phase
    <3> QED
      BY <1>1, <3>1
  <2>9. to # "pending"
    BY <2>1, <2>2 DEF CanMove, ValidTransitions, Status
  <2> QED
    BY <2>6, <2>7, <2>8, <2>9 DEF Status
<1> QED
  BY <1>2, <1>3 DEF MovesQuietly

\* The call of the shipper delivers the item of the run.
LEMMA ShippingRefines ==
  ASSUME Inv, NEW r \in Runs, Suspended(r), UNCHANGED taskOf, MovesToShipping(r)
  PROVE  Once!Next
<1> DEFINE o == Obj(r)
<1>1. o \in Objects
  BY ObjType DEF Inv, Suspended
<1>2. status \in [Objects -> Status] /\ status' = [status EXCEPT ![o] = "shipping"]
  BY DEF MovesToShipping, Move, Inv, TypeOK
<1>3. Phase[o] = "working" /\ Phase' = [Phase EXCEPT ![o] = "delivering"]
  BY <1>1, <1>2 DEF Phase, MovesToShipping
<1>4. Delivered' = [Delivered EXCEPT ![o] = @ \cup {r}]
  BY <1>1 DEF Delivered, MovesToShipping, Obj, Objects
<1>5. Once!Deliver(o, r)
  BY <1>3, <1>4 DEF Once!Deliver
<1> QED
  BY <1>1, <1>5 DEF Once!Next

\* Without a store a caller that picks its task leaves every item as it is.
LEMMA CallersStutter ==
  ASSUME ~OwnCopy, Inv,
         \/ \E t \in Tasks : CreateTask(t)
         \/ \E j \in Jobs, t \in Tasks : ScheduleJob(j, t)
         \/ \E q \in Requests, t \in Tasks : Fetch(q, t)
         \/ \E q \in Requests : RouteStep(q)
         \/ ToggleHalt
         \/ Restart
         \/ UNCHANGED vars
  PROVE  UNCHANGED <<Phase, Delivered>>
<1>1. UNCHANGED <<status, shipped>>
  BY DEF CreateTask, ScheduleJob, Fetch, RouteStep, Conflict, Persist, ToggleHalt,
     Restart, vars
<1>2. \A s \in shipped : s \in Runs /\ pc[s] # "idle"
  BY DEF Inv, TypeOK, RunInv, Approvals
<1>3. taskOf \in [Runs -> Tasks \cup {NoTask}]
  BY DEF Inv, TypeOK
<1>4. \A s \in shipped : taskOf'[s] = taskOf[s]
  BY <1>2, <1>3 DEF CreateTask, ScheduleJob, Fetch, RouteStep, Conflict, Persist,
     ToggleHalt, Restart, vars, world, Runs
<1>5. Delivered' = Delivered
  BY <1>1, <1>4, NothingDelivered DEF Obj
<1> QED
  BY <1>1, <1>5 DEF Phase

\* In a process without a task store, where every caller gets the same Task
\* object, racing calls of Pipeline.run claim, deliver and close a task as
\* TaskOnce says: it is delivered by one run at most and never reopened.
THEOREM SharedRefinesTaskOnce ==
  ASSUME ~OwnCopy
  PROVE  Spec => ImplementsTaskOnce
<1>1. Init => Once!Init
  BY DEF Init, Once!Init, Phase, Delivered
<1>2. ASSUME Inv, [Next]_vars
      PROVE  [Once!Next]_<<Phase, Delivered>>
  <2>1. ASSUME NEW r \in Runs, Step(r)
        PROVE  [Once!Next]_<<Phase, Delivered>>
    BY <1>2, <2>1, StepMoves, QuietMoveRefines, ShippingRefines
  <2> QED
    BY <1>2, <2>1, CallersStutter DEF Next
<1> QED
  BY <1>1, <1>2, Invariance, PTL DEF Spec, ImplementsTaskOnce, Once!Spec

-----------------------------------------------------------------------------
(* A step of a run, seen from the others.                                  *)

LEMMA StepAlone ==
  ASSUME Inv, NEW r \in Runs, Step(r), NEW s \in Runs \ {r}
  PROVE  pc'[s] = pc[s] /\ calls'[s] = calls[s] /\ output'[s] = output[s]
<1>1. /\ pc \in [Runs -> Awaits] /\ calls \in [Runs -> Nat] /\ output \in [Runs -> Nat]
  BY DEF Inv, TypeOK
<1>2. \E p : pc' = [pc EXCEPT ![r] = p]
  <2>1. pc' = [pc EXCEPT ![r] = pc[r]] \/ ~UNCHANGED pc
    BY <1>1
  <2> QED
    BY <2>1 DEF Step, Admit, PlanReturns, HumanApproves, HumanRefuses, GateApproves,
       GateRejects, ExecuteReturns, ExecuteRetry, ReviewPasses, ReviewFails,
       ReviseReturns, ValidateReturns, ShipReturns, StageRaises, Enter, Fail,
       Refuse, Return
<1>3. UNCHANGED calls \/ \E n : calls' = [calls EXCEPT ![r] = n]
  BY DEF Step, Admit, PlanReturns, HumanApproves, HumanRefuses, GateApproves,
     GateRejects, ExecuteReturns, ExecuteRetry, ReviewPasses, ReviewFails,
     ReviseReturns, ValidateReturns, ShipReturns, StageRaises, book
<1>4. UNCHANGED output \/ \E n : output' = [output EXCEPT ![r] = n]
  BY DEF Step, Admit, PlanReturns, HumanApproves, HumanRefuses, GateApproves,
     GateRejects, ExecuteReturns, ExecuteRetry, ReviewPasses, ReviewFails,
     ReviseReturns, ValidateReturns, ShipReturns, StageRaises, book
<1> QED
  BY <1>1, <1>2, <1>3, <1>4

\* A step that is not one of Step starts runs or ends them.
LEMMA OthersQuiet ==
  ASSUME Inv,
         \/ \E t \in Tasks : CreateTask(t)
         \/ \E j \in Jobs, t \in Tasks : ScheduleJob(j, t)
         \/ \E q \in Requests, t \in Tasks : Fetch(q, t)
         \/ \E q \in Requests : RouteStep(q)
         \/ ToggleHalt
         \/ Restart
         \/ UNCHANGED vars
  PROVE  /\ UNCHANGED <<calls, output, shipped>>
         /\ \A s \in Runs : pc'[s] \in {pc[s], "start", "done"}
<1>1. pc \in [Runs -> Awaits]
  BY DEF Inv, TypeOK
<1> QED
  BY <1>1 DEF CreateTask, ScheduleJob, Fetch, RouteStep, Conflict, Persist, Return,
     ToggleHalt, Restart, vars, world, book, Runs

-----------------------------------------------------------------------------
(* The calls of the executor.                                              *)

Limit == 1 + ExecuteRetries + (IF Quality THEN MaxRevisions ELSE 0)

\* While a run is reviewed the calls it has made are those of the attempts and
\* one for each revision.
CallInv(r) ==
  /\ pc[r] = "execute" => calls[r] <= 1 + ExecuteRetries
  /\ pc[r] = "review" => Quality /\ output[r] <= 1 + MaxRevisions
                                 /\ calls[r] <= ExecuteRetries + output[r]
  /\ pc[r] = "revise" => Quality /\ output[r] <= MaxRevisions
                                 /\ calls[r] <= ExecuteRetries + output[r] + 1
  /\ calls[r] <= Limit

Bounded == \A r \in Runs : CallInv(r)

LEMMA Numbers ==
  /\ ExecuteRetries \in Nat /\ MaxRevisions \in Nat /\ Limit \in Nat
  /\ 1 + ExecuteRetries <= Limit
  /\ Quality => Limit = 1 + ExecuteRetries + MaxRevisions
  BY ConfigAssumption DEF Limit

\* Where a run goes when it enters a stage or fails.
LEMMA EnterTo ==
  ASSUME pc \in [Runs -> Awaits], NEW r \in Runs, NEW done, NEW to, NEW await,
         Enter(r, done, to, await) \/ Fail(r) \/ Refuse(r)
  PROVE  pc'[r] \in {await, "persist", "done"}
  BY DEF Enter, Fail, Refuse, Return

LEMMA StepCalls ==
  ASSUME Inv, Bounded, NEW r \in Runs, Step(r)
  PROVE  CallInv(r)'
<1>1. /\ pc \in [Runs -> Awaits] /\ calls \in [Runs -> Nat] /\ output \in [Runs -> Nat]
      /\ CallInv(r) /\ calls[r] \in Nat /\ output[r] \in Nat
  BY DEF Inv, TypeOK, Bounded
<1>2. ASSUME UNCHANGED calls, pc'[r] \notin {"execute", "review", "revise"}
      PROVE  CallInv(r)'
  BY <1>1, <1>2 DEF CallInv
<1>3. CASE Admit(r)
  BY <1>1, <1>2, <1>3, EnterTo DEF Admit, book
<1>4. CASE PlanReturns(r)
  BY <1>1, <1>2, <1>4, EnterTo DEF PlanReturns, book
<1>5. CASE HumanApproves(r) \/ ReviewPasses(r)
  BY <1>1, <1>2, <1>5, EnterTo DEF HumanApproves, ReviewPasses
<1>6. CASE HumanRefuses(r) \/ GateRejects(r)
  BY <1>1, <1>2, <1>6, EnterTo DEF HumanRefuses, GateRejects, Return, book
<1>7. CASE GateApproves(r)
  <2>1. pc'[r] \in {"execute", "persist", "done"}
    BY <1>1, <1>7, EnterTo DEF GateApproves, Return
  <2>2. calls'[r] = calls[r] \/ calls'[r] \in {0, 1}
    BY <1>1, <1>7 DEF GateApproves
  <2>3. pc'[r] = "execute" => calls'[r] = 1
    BY <1>1, <1>7, <2>1 DEF GateApproves, Return
  <2> QED
    BY <1>1, <2>1, <2>2, <2>3, Numbers DEF CallInv
<1>8. CASE ExecuteReturns(r)
  <2>1. /\ pc[r] = "execute" /\ calls' = calls /\ output'[r] = 1
        /\ \/ Quality /\ pc'[r] = "review"
           \/ Enter(r, 3, "validating", "validate")
    BY <1>1, <1>8 DEF ExecuteReturns
  <2>2. CASE Quality /\ pc'[r] = "review"
    BY <1>1, <2>1, <2>2, Numbers DEF CallInv
  <2> QED
    BY <1>1, <1>2, <2>1, <2>2, EnterTo
<1>9. CASE ExecuteRetry(r)
  <2>1. /\ calls'[r] = calls[r] + 1 /\ calls[r] < 1 + ExecuteRetries /\ pc'[r] = "execute"
    BY <1>1, <1>9 DEF ExecuteRetry
  <2> QED
    BY <1>1, <2>1, Numbers DEF CallInv
<1>10. CASE ReviewFails(r)
  <2>1. CASE /\ output[r] <= MaxRevisions /\ pc'[r] = "revise"
             /\ calls'[r] = calls[r] + 1 /\ output' = output
    BY <1>1, <1>10, <2>1, Numbers DEF CallInv, ReviewFails
  <2>2. CASE Fail(r) /\ UNCHANGED calls
    BY <1>1, <1>2, <2>2, EnterTo
  <2> QED
    BY <1>1, <1>10, <2>1, <2>2 DEF ReviewFails
<1>11. CASE ReviseReturns(r)
  <2>1. pc[r] = "revise" /\ pc'[r] = "review" /\ output'[r] = output[r] + 1 /\ calls' = calls
    BY <1>1, <1>11 DEF ReviseReturns
  <2> QED
    BY <1>1, <2>1, Numbers DEF CallInv
<1>12. CASE ValidateReturns(r)
  <2>1. calls' = calls /\ Enter(r, 4, "shipping", "ship")
    BY <1>12 DEF ValidateReturns, book
  <2>2. pc'[r] \in {"ship", "persist", "done"}
    BY <1>1, <2>1, EnterTo
  <2> QED
    BY <1>2, <2>1, <2>2
<1>13. CASE ShipReturns(r)
  BY <1>1, <1>2, <1>13, EnterTo DEF ShipReturns, Return, book
<1>14. CASE StageRaises(r)
  <2>1. calls' = calls /\ (Fail(r) \/ Refuse(r))
    BY <1>14 DEF StageRaises, book
  <2>2. pc'[r] \in {"persist", "done"}
    BY <1>1, <2>1 DEF Fail, Refuse, Return
  <2> QED
    BY <1>2, <2>1, <2>2
<1> QED
  BY <1>3, <1>4, <1>5, <1>6, <1>7, <1>8, <1>9, <1>10, <1>11, <1>12, <1>13, <1>14 DEF Step

LEMMA NextCalls == Inv /\ Bounded /\ [Next]_vars => Bounded'
<1> SUFFICES ASSUME Inv, Bounded, [Next]_vars PROVE Bounded'
  OBVIOUS
<1>1. ASSUME NEW r \in Runs, Step(r) PROVE Bounded'
  <2>1. ASSUME NEW s \in Runs \ {r} PROVE CallInv(s)'
    <3>1. pc'[s] = pc[s] /\ calls'[s] = calls[s] /\ output'[s] = output[s]
      BY <1>1, <2>1, StepAlone
    <3> QED
      BY <3>1 DEF Bounded, CallInv, Limit
  <2> QED
    BY <1>1, <2>1, StepCalls DEF Bounded
<1>2. CASE \/ \E t \in Tasks : CreateTask(t)
           \/ \E j \in Jobs, t \in Tasks : ScheduleJob(j, t)
           \/ \E q \in Requests, t \in Tasks : Fetch(q, t)
           \/ \E q \in Requests : RouteStep(q)
           \/ ToggleHalt
           \/ Restart
           \/ UNCHANGED vars
  BY <1>2, OthersQuiet DEF Bounded, CallInv, Limit
<1> QED
  BY <1>1, <1>2 DEF Next

\* However the attempts of _execute_with_retry and the revisions of
\* _run_quality_gate interleave, a run costs a bounded number of executor calls.
THEOREM CallsAreBounded == Spec => []BoundedCalls
<1>1. Init => Bounded
  <2> SUFFICES ASSUME Init, NEW r \in Runs PROVE CallInv(r)
    BY DEF Bounded
  <2>1. pc[r] = "idle" /\ calls[r] = 0
    BY DEF Init
  <2> QED
    BY <2>1, Numbers DEF CallInv
<1>2. Bounded => BoundedCalls
  BY DEF Bounded, CallInv, BoundedCalls, Limit
<1> QED
  BY <1>1, <1>2, NextCalls, Invariance, PTL DEF Spec

-----------------------------------------------------------------------------
(* The rows of the task store.                                             *)

Over == {"completed", "failed", "rejected"}

\* The Task built for a request says "completed" of what the request shipped
\* itself, and is in a terminal status when the route stores it.
CopyInv(q) ==
  /\ pc[q] \in Stages \cup {"persist"} /\ status[q] \in {"shipping", "completed"}
       => q \in shipped
  /\ pc[q] = "persist" => status[q] \in Over

\* Without a store nothing is written but the creation of the task.
RowInv ==
  /\ RowTruth
  /\ IF OwnCopy THEN \A q \in Requests : CopyInv(q)
                ELSE \A t \in Tasks : row[t] \in {"absent", "pending", "lost"}

\* Out of every status that is not terminal there is a way to failed.
LEMMA FailTable ==
  ASSUME NEW s \in Status
  PROVE  /\ "failed" \notin ValidTransitions[s] => s \in Over
         /\ "completed" \in ValidTransitions[s] => s = "shipping"
  BY DEF ValidTransitions, Status, Over

LEMMA FailOver ==
  ASSUME Inv, OwnCopy, NEW q \in Requests, Suspended(q), Fail(q) \/ Refuse(q),
         pc'[q] = "persist"
  PROVE  status'[q] \in Over
<1>1. /\ q \in Runs /\ Obj(q) = q /\ q \in Objects /\ status[q] \in Status
      /\ status \in [Objects -> Status] /\ pc \in [Runs -> Awaits]
  BY ObjType DEF Runs, Obj, Inv, TypeOK, Suspended
<1>2. CASE Fail(q)
  BY <1>1, <1>2 DEF Fail, Return, Move, Over
<1>3. CASE Refuse(q)
  BY <1>1, <1>3, FailTable DEF Refuse, CanMove, Move, Over
<1> QED
  BY <1>2, <1>3

\* What a request that persists returned from run().
LEMMA StepOver ==
  ASSUME Inv, OwnCopy, NEW q \in Requests, Step(q), pc'[q] = "persist"
  PROVE  status'[q] \in Over
<1>1. /\ q \in Runs /\ Obj(q) = q /\ Suspended(q)
      /\ status \in [Objects -> Status] /\ q \in Objects /\ pc \in [Runs -> Awaits]
  BY StepMoves, ObjType DEF Runs, Obj, Inv, TypeOK, Suspended
<1>2. CASE Fail(q) \/ Refuse(q)
  BY <1>1, <1>2, FailOver
<1>3. ASSUME NEW done, NEW to, NEW await \in Stages, Enter(q, done, to, await)
      PROVE  status'[q] \in Over
  BY <1>1, <1>2, <1>3 DEF Enter, Stages
<1>4. ASSUME NEW to \in Over, Move(q, to)
      PROVE  status'[q] \in Over
  BY <1>1, <1>4 DEF Move
<1>5. CASE Admit(q) \/ PlanReturns(q) \/ HumanApproves(q) \/ ReviewPasses(q)
             \/ ValidateReturns(q)
  BY <1>2, <1>3, <1>5 DEF Admit, PlanReturns, HumanApproves, ReviewPasses,
     ValidateReturns, Stages
<1>6. CASE HumanRefuses(q) \/ ShipReturns(q) \/ StageRaises(q)
  BY <1>2, <1>4, <1>6 DEF HumanRefuses, ShipReturns, StageRaises, Over
<1>7. CASE GateApproves(q)
  BY <1>3, <1>4, <1>7 DEF GateApproves, Over, Stages
<1>8. CASE GateRejects(q)
  BY <1>1, <1>4, <1>8 DEF GateRejects, Return, Over
<1>9. CASE ExecuteReturns(q)
  BY <1>1, <1>3, <1>9 DEF ExecuteReturns, Stages
<1>10. CASE ExecuteRetry(q) \/ ReviseReturns(q)
  BY <1>1, <1>10 DEF ExecuteRetry, ReviseReturns
<1>11. CASE ReviewFails(q)
  BY <1>1, <1>2, <1>11 DEF ReviewFails
<1> QED
  BY <1>5, <1>6, <1>7, <1>8, <1>9, <1>10, <1>11 DEF Step

\* The request's own step keeps its Task truthful.
LEMMA StepCopy ==
  ASSUME Inv, OwnCopy, NEW q \in Requests, CopyInv(q), Step(q)
  PROVE  CopyInv(q)'
<1>1. /\ q \in Runs /\ Obj(q) = q /\ Suspended(q) /\ pc[q] \in Awaits
      /\ status \in [Objects -> Status] /\ q \in Objects /\ status[q] \in Status
  BY StepMoves, ObjType DEF Runs, Obj, Inv, TypeOK, Suspended
<1>2. pc[q] = "start" => status[q] = "pending"
  BY <1>1 DEF Step, Admit, PlanReturns, HumanApproves, HumanRefuses, GateApproves,
     GateRejects, ExecuteReturns, ExecuteRetry, ReviewPasses, ReviewFails,
     ReviseReturns, ValidateReturns, ShipReturns, StageRaises, Stages
<1>3. status[q] \in {"shipping", "completed"} => q \in shipped
  BY <1>1, <1>2 DEF CopyInv, Suspended, Awaits
<1>4. status'[q] \in {"shipping", "completed"} => q \in shipped'
  <2>1. CASE MovesQuietly(q)
    BY <1>1, <1>3, <2>1, FailTable DEF MovesQuietly, CanMove, Move
  <2>2. CASE MovesToShipping(q)
    BY <2>2 DEF MovesToShipping
  <2> QED
    BY <1>1, <2>1, <2>2, StepMoves
<1> QED
  BY <1>4, StepOver DEF CopyInv

\* A step of another run leaves it alone.
LEMMA OtherCopy ==
  ASSUME Inv, OwnCopy, NEW q \in Requests, NEW r \in Runs \ {q}, Step(r), CopyInv(q)
  PROVE  CopyInv(q)'
<1>1. /\ q \in Runs /\ Obj(r) = r /\ q \in Objects /\ status \in [Objects -> Status]
  BY DEF Runs, Obj, Objects, Inv, TypeOK
<1>2. pc'[q] = pc[q]
  BY <1>1, StepAlone
<1>3. status'[q] = status[q]
  BY <1>1, StepMoves DEF MovesQuietly, MovesToShipping, Move
<1>4. shipped \subseteq shipped'
  BY StepMoves DEF MovesQuietly, MovesToShipping
<1> QED
  BY <1>2, <1>3, <1>4 DEF CopyInv

\* Callers and the environment let the Task of a run under way alone.
LEMMA QuietCopy ==
  ASSUME Inv, OwnCopy, NEW q \in Requests, CopyInv(q),
         \/ \E t \in Tasks : CreateTask(t)
         \/ \E j \in Jobs, t \in Tasks : ScheduleJob(j, t)
         \/ \E p \in Requests, t \in Tasks : Fetch(p, t)
         \/ \E p \in Requests : RouteStep(p)
         \/ ToggleHalt
         \/ Restart
         \/ UNCHANGED vars
  PROVE  CopyInv(q)'
<1>1. /\ q \in Runs /\ q \in Objects /\ Objects = Runs
      /\ status \in [Runs -> Status] /\ pc \in [Runs -> Awaits]
  BY DEF Runs, Objects, Inv, TypeOK
<1>2. shipped' = shipped /\ pc'[q] \in {pc[q], "start", "done"}
  BY <1>1, OthersQuiet
<1>3. \/ status'[q] = status[q]
      \/ pc'[q] \in {"start", "done"}
  BY <1>1 DEF CreateTask, ScheduleJob, Fetch, RouteStep, Conflict, Persist,
     ToggleHalt, Restart, vars, Runs
<1> QED
  BY <1>2, <1>3 DEF CopyInv, Stages

\* The tasks of the runs that shipped stay what they are.
LEMMA ShippedTasks ==
  ASSUME Inv, [Next]_vars
  PROVE  /\ shipped \subseteq shipped'
         /\ \A s \in shipped : taskOf'[s] = taskOf[s]
<1>1. \A s \in shipped : s \in Runs /\ pc[s] # "idle"
  BY DEF Inv, TypeOK, RunInv, Approvals
<1>2. taskOf \in [Runs -> Tasks \cup {NoTask}]
  BY DEF Inv, TypeOK
<1>3. CASE \E r \in Runs : Step(r)
  BY <1>3, StepMoves DEF MovesQuietly, MovesToShipping
<1>4. CASE \/ \E t \in Tasks : CreateTask(t)
           \/ \E j \in Jobs, t \in Tasks : ScheduleJob(j, t)
           \/ \E q \in Requests, t \in Tasks : Fetch(q, t)
           \/ \E q \in Requests : RouteStep(q)
           \/ ToggleHalt
           \/ Restart
           \/ UNCHANGED vars
  BY <1>1, <1>2, <1>4 DEF CreateTask, ScheduleJob, Fetch, RouteStep, Conflict,
     Persist, ToggleHalt, Restart, vars, world, Runs
<1> QED
  BY <1>3, <1>4 DEF Next

\* What may be written into a row.
LEMMA RowWrites ==
  ASSUME Inv, RowInv, [Next]_vars, NEW t \in Tasks
  PROVE  \/ row'[t] = row[t]
         \/ row'[t] = "pending"
         \/ ~OwnCopy /\ row'[t] \in {"absent", "lost"}
         \/ /\ OwnCopy
            /\ \E q \in Requests : /\ taskOf[q] = t /\ row'[t] = status[q]
                                   /\ pc[q] = "persist" /\ status[q] \in Over
<1>1. row \in [Tasks -> Status \cup {"absent", "lost"}]
  BY DEF Inv, TypeOK
<1>2. ASSUME NEW q \in Requests, Persist(q), row'[t] # row[t]
      PROVE  /\ OwnCopy /\ taskOf[q] = t /\ row'[t] = status[q]
             /\ pc[q] = "persist" /\ status[q] \in Over
  <2>1. OwnCopy /\ pc[q] = "persist" /\ row' = [row EXCEPT ![taskOf[q]] = status[q]]
    BY <1>2 DEF Persist
  <2>2. CopyInv(q)
    BY <2>1 DEF RowInv
  <2> QED
    BY <1>1, <1>2, <2>1, <2>2 DEF CopyInv
<1>3. CASE \E r \in Runs : Step(r)
  BY <1>3 DEF Step, Admit, PlanReturns, HumanApproves, HumanRefuses, GateApproves,
     GateRejects, ExecuteReturns, ExecuteRetry, ReviewPasses, ReviewFails,
     ReviseReturns, ValidateReturns, ShipReturns, StageRaises, world
<1>4. CASE \E q \in Requests : RouteStep(q)
  BY <1>2, <1>4 DEF RouteStep, Conflict, world
<1>5. CASE \/ \E u \in Tasks : CreateTask(u)
           \/ \E j \in Jobs, u \in Tasks : ScheduleJob(j, u)
           \/ \E q \in Requests, u \in Tasks : Fetch(q, u)
           \/ ToggleHalt
           \/ Restart
           \/ UNCHANGED vars
  BY <1>1, <1>5 DEF CreateTask, ScheduleJob, Fetch, ToggleHalt, Restart, vars, world
<1> QED
  BY <1>3, <1>4, <1>5 DEF Next

LEMMA NextRows == Inv /\ RowInv /\ [Next]_vars => RowInv'
<1> SUFFICES ASSUME Inv, RowInv, [Next]_vars PROVE RowInv'
  OBVIOUS
<1>1. ASSUME OwnCopy, NEW q \in Requests PROVE CopyInv(q)'
  <2>1. CopyInv(q) /\ q \in Runs
    BY <1>1 DEF RowInv, Runs
  <2> QED
    BY <1>1, <2>1, StepCopy, OtherCopy, QuietCopy DEF Next
<1>2. ASSUME NEW t \in Tasks
      PROVE  /\ row'[t] \in {"absent", "pending", "completed", "failed", "rejected", "lost"}
             /\ row'[t] = "completed" => \E r \in shipped' : taskOf'[r] = t
             /\ ~OwnCopy => row'[t] \in {"absent", "pending", "lost"}
  <2>1. row'[t] = "completed" => \E r \in shipped : taskOf[r] = t
    BY RowWrites DEF RowInv, RowTruth, CopyInv
  <2>2. row'[t] = "completed" => \E r \in shipped' : taskOf'[r] = t
    BY <2>1, ShippedTasks
  <2> QED
    BY <2>2, RowWrites DEF RowInv, RowTruth, Over
<1> QED
  BY <1>1, <1>2 DEF RowInv, RowTruth

\* Whatever raced with it, failed or was lost in a restart, a stored row is
\* never left in the middle of the pipeline, and says completed only of a task
\* whose shipper was called.
THEOREM RowsTellTheTruth == Spec => []RowTruth
<1>1. Init => RowInv
  BY DEF Init, RowInv, RowTruth, CopyInv, Runs, Stages
<1>2. RowInv => RowTruth
  BY DEF RowInv
<1> QED
  BY <1>1, <1>2, NextRows, Invariance, PTL DEF Spec

-----------------------------------------------------------------------------
(* The kill switch that the workers share through Redis (RedisKillSwitch). *)

\* The workers that have pushed an entry and are about to trim the list.  One
\* that lost Redis may have pushed too: its fault pays for the entry.
Trimming == {w \in Workers : cmd[w] = "trim" /\ available[w]}

\* The list but for what is about to be trimmed.
LogBounded == log <= HistoryCap + faults + restarts + Cardinality(Trimming)

Flags ==
  /\ record \in BOOLEAN /\ standing \in BOOLEAN
  /\ available \in [Workers -> BOOLEAN]

Places ==
  /\ mem \in [Workers -> {"inactive", "active", "drill"}]
  /\ cmd \in [Workers -> Commands]
  /\ op \in [Workers -> {"none", "activate", "stored", "overlapped", "deactivate"}]
  /\ verdict \in [Workers -> {"none", "refused", "admitted"}]

Counts ==
  log \in Nat /\ faults \in 0 .. MaxFaults /\ restarts \in 0 .. MaxRestarts

SwitchTypes == Flags /\ Places /\ Counts

\* What the command of a worker says of its operation.
OpOfCommand(w) ==
  /\ cmd[w] = "set" => op[w] \in {"activate", "overlapped"}
  /\ cmd[w] \in {"get", "del"} => op[w] = "deactivate"

\* A stop that is stored, or is being stored, is beside no deactivation; and a
\* stored one is in Redis.
StopStored ==
  /\ standing \/ (\E w \in Workers : op[w] = "stored") => record
  /\ standing \/ (\E w \in Workers : op[w] \in {"activate", "stored"}) => ~Clearing

SwitchInv ==
  /\ SwitchTypes /\ LogBounded
  /\ \A w \in Workers : OpOfCommand(w)
  /\ StopStored

LEMMA TrimmingFinite ==
  ASSUME NEW S \in SUBSET Workers
  PROVE  IsFiniteSet(S) /\ Cardinality(S) \in Nat
  BY RedisAssumption, FS_Subset, FS_CardinalityType

\* One worker more or less moves the count by one at most.
LEMMA OneApart ==
  ASSUME NEW S \in SUBSET Workers, NEW T \in SUBSET Workers, NEW w \in Workers
  PROVE  /\ S \subseteq T => Cardinality(S) <= Cardinality(T)
         /\ S \subseteq T \cup {w} => Cardinality(S) <= Cardinality(T) + 1
         /\ w \in T /\ S \subseteq T \ {w} => Cardinality(S) <= Cardinality(T) - 1
         /\ w \notin S /\ S \cup {w} \subseteq T => Cardinality(S) + 1 <= Cardinality(T)
<1>1. \A U \in SUBSET Workers : IsFiniteSet(U) /\ Cardinality(U) \in Nat
  BY TrimmingFinite
<1>2. S \subseteq T => Cardinality(S) <= Cardinality(T)
  BY <1>1, FS_Subset
<1>3. T \cup {w} \in SUBSET Workers /\ Cardinality(T \cup {w}) <= Cardinality(T) + 1
  BY <1>1, FS_AddElement
<1>4. S \subseteq T \cup {w} => Cardinality(S) <= Cardinality(T) + 1
  <2>1. S \subseteq T \cup {w} => Cardinality(S) <= Cardinality(T \cup {w})
    BY <1>1, <1>3, FS_Subset
  <2> QED
    BY <1>1, <1>3, <2>1
<1>5. w \in T => Cardinality(T \ {w}) = Cardinality(T) - 1
  BY <1>1, FS_RemoveElement
<1>6. w \in T /\ S \subseteq T \ {w} => Cardinality(S) <= Cardinality(T) - 1
  BY <1>1, <1>5, FS_Subset
<1>7. w \notin S => Cardinality(S \cup {w}) = Cardinality(S) + 1
  BY <1>1, FS_AddElement
<1>8. w \notin S /\ S \cup {w} \subseteq T => Cardinality(S) + 1 <= Cardinality(T)
  BY <1>1, <1>7, FS_Subset
<1> QED
  BY <1>2, <1>4, <1>6, <1>8

\* The commands that may have been carried out although they failed.
LEMMA SetHaltMoves ==
  ASSUME NEW w, SetHalt(w)
  PROVE  /\ cmd[w] = "set"
         /\ \/ /\ NoFault /\ record' /\ Goto(w, "push")
               /\ op' = [op EXCEPT ![w] = IF @ = "activate" THEN "stored" ELSE @]
            \/ /\ NoFault \/ Fault(w)
               /\ (record => record') /\ Goto(w, "mirror") /\ UNCHANGED op
         /\ UNCHANGED <<log, mem, verdict, standing, restarts>>
<1>1. record' = TRUE => record'
  OBVIOUS
<1>2. record' \in {record, TRUE} => (record => record')
  BY Zenon
<1> QED
  BY Zenon, <1>1, <1>2 DEF SetHalt

LEMMA DelHaltMoves ==
  ASSUME NEW w, DelHalt(w)
  PROVE  /\ cmd[w] = "del" /\ Goto(w, "push")
         /\ NoFault \/ Fault(w)
         /\ UNCHANGED <<log, mem, op, verdict, standing, restarts>>
  BY Zenon DEF DelHalt

LEMMA SwitchInitInv == SwitchInit => SwitchInv
<1> SUFFICES ASSUME SwitchInit PROVE SwitchInv
  OBVIOUS
<1>1. Flags
  BY DEF SwitchInit, Flags
<1>2. Places /\ Counts
  BY RedisAssumption DEF SwitchInit, Places, Counts, Commands
<1>3. StopStored /\ \A w \in Workers : OpOfCommand(w)
  BY DEF SwitchInit, StopStored, OpOfCommand, Clearing
<1>4. LogBounded
  <2>1. Trimming \in SUBSET Workers
    BY DEF Trimming
  <2> QED
    BY <2>1, TrimmingFinite, RedisAssumption DEF SwitchInit, LogBounded
<1> QED
  BY <1>1, <1>2, <1>3, <1>4 DEF SwitchInv, SwitchTypes

\* The list and the counts, under every step.
LEMMA SwitchTypeStep ==
  ASSUME SwitchInv, SwitchNext
  PROVE  SwitchTypes'
<1>0. SwitchTypes /\ \A v \in Workers : OpOfCommand(v)
  BY DEF SwitchInv
<1>1. PICK w \in Workers :
    \/ Begin(w) \/ SetHalt(w) \/ GetHalt(w) \/ DelHalt(w)
    \/ PushHistory(w) \/ TrimHistory(w) \/ Mirror(w)
    \/ ApiActivate(w) \/ ApiDrill(w) \/ ApiDeactivate(w)
    \/ EntryCheck(w) \/ RunEnds(w) \/ WorkerRestart(w)
  BY DEF SwitchNext
<1>2. Flags'
  <2> USE <1>0 DEF SwitchTypes, Flags, Goto, NoFault, Fault, shared, budget
  <2>1. CASE Begin(w)
    BY <2>1 DEF Begin
  <2>2. CASE SetHalt(w)
    BY <2>2 DEF SetHalt
  <2>3. CASE GetHalt(w)
    BY <2>3 DEF GetHalt
  <2>4. CASE DelHalt(w)
    BY <2>4 DEF DelHalt
  <2>5. CASE PushHistory(w)
    BY <2>5 DEF PushHistory
  <2>6. CASE TrimHistory(w)
    BY <2>6 DEF TrimHistory
  <2>7. CASE Mirror(w)
    BY <2>7 DEF Mirror
  <2>8. CASE ApiActivate(w) \/ ApiDrill(w) \/ ApiDeactivate(w)
    BY <2>8 DEF ApiActivate, ApiDrill, ApiDeactivate
  <2>9. CASE EntryCheck(w)
    BY <2>9 DEF EntryCheck
  <2>10. CASE RunEnds(w)
    BY <2>10 DEF RunEnds
  <2>11. CASE WorkerRestart(w)
    BY <2>11 DEF WorkerRestart
  <2> QED
    BY <1>1, <2>1, <2>2, <2>3, <2>4, <2>5, <2>6,
       <2>7, <2>8, <2>9, <2>10, <2>11
<1>3. Places'
  <2> USE <1>0 DEF SwitchTypes, Places, Commands, Goto, NoFault, Fault, shared, budget
  <2>1. CASE Begin(w)
    BY <2>1 DEF Begin
  <2>2. CASE SetHalt(w)
    BY <2>2 DEF SetHalt
  <2>3. CASE GetHalt(w)
    BY <2>3 DEF GetHalt
  <2>4. CASE DelHalt(w)
    BY <2>4 DEF DelHalt
  <2>5. CASE PushHistory(w)
    BY <2>5 DEF PushHistory
  <2>6. CASE TrimHistory(w)
    BY <2>6 DEF TrimHistory
  <2>7. CASE Mirror(w)
    BY <2>7 DEF Mirror
  <2>8. CASE ApiActivate(w) \/ ApiDrill(w) \/ ApiDeactivate(w)
    BY <2>8 DEF ApiActivate, ApiDrill, ApiDeactivate
  <2>9. CASE EntryCheck(w)
    BY <2>9 DEF EntryCheck
  <2>10. CASE RunEnds(w)
    BY <2>10 DEF RunEnds
  <2>11. CASE WorkerRestart(w)
    BY <2>11 DEF WorkerRestart
  <2> QED
    BY <1>1, <2>1, <2>2, <2>3, <2>4, <2>5, <2>6,
       <2>7, <2>8, <2>9, <2>10, <2>11
<1>4. Counts'
  <2> USE <1>0, RedisAssumption DEF SwitchTypes, Counts, Goto, NoFault, Fault, shared, budget
  <2>1. CASE Begin(w)
    BY <2>1 DEF Begin
  <2>2. CASE SetHalt(w)
    BY <2>2, SetHaltMoves
  <2>3. CASE GetHalt(w)
    BY <2>3 DEF GetHalt
  <2>4. CASE DelHalt(w)
    BY <2>4, DelHaltMoves
  <2>5. CASE PushHistory(w)
    BY <2>5 DEF PushHistory
  <2>6. CASE TrimHistory(w)
    BY <2>6 DEF TrimHistory
  <2>7. CASE Mirror(w)
    BY <2>7 DEF Mirror
  <2>8. CASE ApiActivate(w) \/ ApiDrill(w) \/ ApiDeactivate(w)
    BY <2>8 DEF ApiActivate, ApiDrill, ApiDeactivate
  <2>9. CASE EntryCheck(w)
    BY <2>9 DEF EntryCheck
  <2>10. CASE RunEnds(w)
    BY <2>10 DEF RunEnds
  <2>11. CASE WorkerRestart(w)
    BY <2>11 DEF WorkerRestart
  <2> QED
    BY <1>1, <2>1, <2>2, <2>3, <2>4, <2>5, <2>6,
       <2>7, <2>8, <2>9, <2>10, <2>11
<1> QED
  BY <1>2, <1>3, <1>4 DEF SwitchTypes

LEMMA LogStep ==
  ASSUME SwitchInv, SwitchNext
  PROVE  SwitchTypes' /\ LogBounded'
<1>0. SwitchTypes /\ LogBounded /\ StopStored /\ \A v \in Workers : OpOfCommand(v)
  BY DEF SwitchInv
<1>1. PICK w \in Workers :
    \/ Begin(w) \/ SetHalt(w) \/ GetHalt(w) \/ DelHalt(w)
    \/ PushHistory(w) \/ TrimHistory(w) \/ Mirror(w)
    \/ ApiActivate(w) \/ ApiDrill(w) \/ ApiDeactivate(w)
    \/ EntryCheck(w) \/ RunEnds(w) \/ WorkerRestart(w)
  BY DEF SwitchNext
<1>2. SwitchTypes'
  BY SwitchTypeStep
<1> DEFINE S == Trimming
           T == Trimming'
<1> DEFINE Used == \/ faults' >= faults + 1 /\ restarts' >= restarts
                   \/ faults' >= faults /\ restarts' >= restarts + 1
<1>3. S \in SUBSET Workers /\ T \in SUBSET Workers
  BY DEF Trimming
<1>4. /\ S \subseteq T => Cardinality(S) <= Cardinality(T)
      /\ S \subseteq T \cup {w} => Cardinality(S) <= Cardinality(T) + 1
      /\ w \notin S /\ S \cup {w} \subseteq T => Cardinality(S) + 1 <= Cardinality(T)
      /\ Cardinality(S) \in Nat /\ Cardinality(T) \in Nat
  BY <1>3, OneApart, TrimmingFinite
<1>5. /\ log \in Nat /\ faults \in Nat /\ restarts \in Nat /\ HistoryCap \in Nat
      /\ log <= HistoryCap + faults + restarts + Cardinality(S)
  BY <1>0, RedisAssumption DEF SwitchTypes, Flags, Places, Counts, LogBounded
<1>6. \A v \in Workers : v /= w /\ (cmd'[v] = cmd[v]) /\ (available'[v] = available[v]) =>
        (v \in S <=> v \in T)
  BY DEF Trimming
<1>7. \/ S = T /\ log' = log /\ faults' >= faults /\ restarts' >= restarts
      \/ S \subseteq T \cup {w} /\ log' <= log
           /\ Used
      \/ w \notin S /\ S \cup {w} \subseteq T /\ log' = log + 1
           /\ UNCHANGED <<faults, restarts>>
      \/ S \subseteq T /\ log' <= log + 1 /\ faults' = faults + 1 /\ UNCHANGED restarts
      \/ log' <= HistoryCap /\ UNCHANGED <<faults, restarts>>
  <2> USE <1>0, <1>5 DEF SwitchTypes, Flags, Places, Counts, Goto, NoFault, Fault,
             shared, budget, Trimming
  <2>1. CASE Begin(w)
    BY <2>1 DEF Begin
  <2>2. CASE SetHalt(w)
    BY <2>2, SetHaltMoves
  <2>3. CASE GetHalt(w)
    BY <2>3 DEF GetHalt
  <2>4. CASE DelHalt(w)
    BY <2>4, DelHaltMoves
  <2>5. CASE PushHistory(w)
    BY <2>5 DEF PushHistory
  <2>6. CASE TrimHistory(w)
    BY <2>6, RedisAssumption DEF TrimHistory
  <2>7. CASE Mirror(w)
    BY <2>7 DEF Mirror
  <2>8. CASE ApiActivate(w) \/ ApiDrill(w) \/ ApiDeactivate(w)
    BY <2>8 DEF ApiActivate, ApiDrill, ApiDeactivate
  <2>9. CASE EntryCheck(w)
    BY <2>9 DEF EntryCheck
  <2>10. CASE RunEnds(w)
    BY <2>10 DEF RunEnds
  <2>11. CASE WorkerRestart(w)
    BY <2>11 DEF WorkerRestart
  <2> QED
    BY <1>1, <2>1, <2>2, <2>3, <2>4, <2>5, <2>6, <2>7, <2>8, <2>9, <2>10, <2>11
<1>8. log' \in Nat /\ faults' \in Nat /\ restarts' \in Nat
  BY <1>2 DEF SwitchTypes, Flags, Places, Counts
<1> HIDE DEF S, T
<1>9. \/ Cardinality(S) <= Cardinality(T) /\ log' = log
           /\ faults' >= faults /\ restarts' >= restarts
      \/ Cardinality(S) <= Cardinality(T) + 1 /\ log' <= log
           /\ Used
      \/ Cardinality(S) + 1 <= Cardinality(T) /\ log' = log + 1
           /\ faults' = faults /\ restarts' = restarts
      \/ Cardinality(S) <= Cardinality(T) /\ log' <= log + 1
           /\ faults' = faults + 1 /\ restarts' = restarts
      \/ log' <= HistoryCap /\ faults' = faults /\ restarts' = restarts
  BY <1>4, <1>7
<1>10. log' <= HistoryCap + faults' + restarts' + Cardinality(T)
  <2>1. Cardinality(S) \in Nat /\ Cardinality(T) \in Nat
    BY <1>4
  <2>2. /\ log \in Nat /\ faults \in Nat /\ restarts \in Nat /\ HistoryCap \in Nat
        /\ log' \in Nat /\ faults' \in Nat /\ restarts' \in Nat
    BY <1>5, <1>8
  <2>3. log <= HistoryCap + faults + restarts + Cardinality(S)
    BY <1>5
  <2> QED
    BY <2>1, <2>2, <2>3, <1>9
<1> QED
  BY <1>2, <1>10 DEF LogBounded, T

\* The operations, under every step.
LEMMA OperationStep ==
  ASSUME SwitchInv, SwitchNext
  PROVE  (\A v \in Workers : OpOfCommand(v))' /\ StopStored'
<1>0. SwitchTypes /\ LogBounded /\ StopStored /\ \A v \in Workers : OpOfCommand(v)
  BY DEF SwitchInv
<1>1. PICK w \in Workers :
    \/ Begin(w) \/ SetHalt(w) \/ GetHalt(w) \/ DelHalt(w)
    \/ PushHistory(w) \/ TrimHistory(w) \/ Mirror(w)
    \/ ApiActivate(w) \/ ApiDrill(w) \/ ApiDeactivate(w)
    \/ EntryCheck(w) \/ RunEnds(w) \/ WorkerRestart(w)
  BY DEF SwitchNext
<1> USE <1>0 DEF SwitchTypes, Flags, Places, Counts, Goto, OpOfCommand, StopStored, Clearing,
           shared, budget
<1>2. CASE Begin(w)
  BY <1>2 DEF Begin
<1>3. CASE SetHalt(w)
  BY <1>3, SetHaltMoves
<1>4. CASE GetHalt(w)
  BY <1>4 DEF GetHalt
<1>5. CASE DelHalt(w)
  BY <1>5, DelHaltMoves
<1>6. CASE PushHistory(w)
  BY <1>6 DEF PushHistory
<1>7. CASE TrimHistory(w)
  BY <1>7 DEF TrimHistory
<1>8. CASE Mirror(w)
  BY <1>8 DEF Mirror
<1>9. CASE ApiActivate(w) \/ ApiDrill(w) \/ ApiDeactivate(w)
  BY <1>9 DEF ApiActivate, ApiDrill, ApiDeactivate
<1>10. CASE EntryCheck(w)
  BY <1>10 DEF EntryCheck
<1>11. CASE RunEnds(w)
  BY <1>11 DEF RunEnds
<1>12. CASE WorkerRestart(w)
  BY <1>12 DEF WorkerRestart
<1> QED
  BY <1>1, <1>2, <1>3, <1>4, <1>5, <1>6, <1>7, <1>8, <1>9, <1>10, <1>11, <1>12

LEMMA SwitchStays == SwitchInv /\ UNCHANGED switchVars => SwitchInv'
  BY DEF switchVars, shared, budget, SwitchInv, SwitchTypes, Flags, Places, Counts,
         LogBounded, Trimming, OpOfCommand, StopStored, Clearing

LEMMA SwitchInvariance == SwitchSpec => []SwitchInv
<1>1. SwitchInv /\ [SwitchNext]_switchVars => SwitchInv'
  BY LogStep, OperationStep, SwitchStays DEF SwitchInv
<1> QED
  BY SwitchInitInv, <1>1, PTL DEF SwitchSpec

(* The variables of the shared switch keep their types, and the history list *)
(* is never longer than its cap by more than the entries that concurrent     *)
(* operations are about to trim and those a fault or a restart left behind.  *)
THEOREM HistoryCapped == SwitchSpec => []SwitchTypeOK
<1>1. SwitchInv => SwitchTypeOK
  <2> SUFFICES ASSUME SwitchInv PROVE SwitchTypeOK
    OBVIOUS
  <2> DEFINE S == Trimming
             T == {w \in Workers : cmd[w] = "trim"}
  <2>1. S \in SUBSET Workers /\ T \in SUBSET Workers /\ S \subseteq T
    BY DEF Trimming
  <2>2. Cardinality(S) <= Cardinality(T) /\ Cardinality(S) \in Nat /\ Cardinality(T) \in Nat
    BY <2>1, TrimmingFinite, FS_Subset
  <2>3. /\ log \in Nat /\ faults \in Nat /\ restarts \in Nat /\ HistoryCap \in Nat
        /\ log <= HistoryCap + faults + restarts + Cardinality(S)
    BY RedisAssumption DEF SwitchInv, SwitchTypes, Flags, Places, Counts, LogBounded
  <2> HIDE DEF S
  <2>4. log <= HistoryCap + faults + restarts + Cardinality(T)
    BY <2>2, <2>3
  <2> QED
    BY <2>4 DEF SwitchInv, SwitchTypes, Flags, Places, Counts, SwitchTypeOK
<1> QED
  BY SwitchInvariance, <1>1, PTL

(* No worker that gets an answer from Redis admits a run while a stop that   *)
(* activate() stored stands, whatever the other workers, their faults and    *)
(* restarts, the drills and the routes do.                                   *)
THEOREM StopIsObeyed == SwitchSpec => StopHolds
<1>1. SwitchInv /\ [SwitchNext]_switchVars =>
        [\A w \in Workers : standing /\ verdict[w] = "none" /\ available'[w]
           => verdict'[w] # "admitted"]_switchVars
  <2> SUFFICES ASSUME SwitchInv, SwitchNext, NEW v \in Workers,
                      standing, verdict[v] = "none", available'[v]
               PROVE  verdict'[v] # "admitted"
    OBVIOUS
  <2>1. record
    BY DEF SwitchInv, StopStored
  <2>2. PICK w \in Workers :
      \/ Begin(w) \/ SetHalt(w) \/ GetHalt(w) \/ DelHalt(w)
      \/ PushHistory(w) \/ TrimHistory(w) \/ Mirror(w)
      \/ ApiActivate(w) \/ ApiDrill(w) \/ ApiDeactivate(w)
      \/ EntryCheck(w) \/ RunEnds(w) \/ WorkerRestart(w)
    BY DEF SwitchNext
  <2>3. CASE EntryCheck(w)
    BY <2>1, <2>3 DEF EntryCheck, NoFault, Fault, SwitchInv, SwitchTypes, Flags, Places, Counts
  <2>4. CASE RunEnds(w) \/ WorkerRestart(w)
    BY <2>4 DEF RunEnds, WorkerRestart, SwitchInv, SwitchTypes, Flags, Places, Counts
  <2>5. CASE ~EntryCheck(w) /\ ~RunEnds(w) /\ ~WorkerRestart(w)
    <3>1. UNCHANGED verdict
      BY <2>2, <2>5 DEF Begin, SetHalt, GetHalt, DelHalt, PushHistory, TrimHistory, Mirror,
                        ApiActivate, ApiDrill, ApiDeactivate
    <3> QED
      BY <3>1
  <2> QED
    BY <2>2, <2>3, <2>4, <2>5
<1> QED
  BY SwitchInvariance, <1>1, PTL DEF SwitchSpec, StopHolds
=============================================================================
