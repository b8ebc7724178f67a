----------------------------- MODULE BrainFlow -----------------------------
(***************************************************************************)
(* Conversations with the Brain (orchestrator/brain_flow.py) and their     *)
(* rows (store/conversation_store.py, store/approval_store.py).            *)
(*                                                                         *)
(* Each message is one call of process_message, a coroutine that awaits    *)
(* the save of the conversation, the approval table, the tools and the     *)
(* pipeline runs of the plan's steps, and the save again.  Messages of one *)
(* user overlap at every await; users share nothing, so there is one.      *)
(* Nothing calls complete_task, and a pipeline is always wired: the        *)
(* deliver phase is not reached.                                           *)
(***************************************************************************)
EXTENDS Naturals, Sequences, FiniteSets, SequencesExt

CONSTANTS
  Messages,    \* calls of process_message
  Convs,       \* conversation ids, each used once (uuid4)
  MaxConvs,    \* MAX_CONVERSATIONS_PER_USER
  Steps,       \* steps of a plan
  None         \* no message, conversation or plan

ASSUME FlowAssumption == None \notin Messages \cup Convs /\ Steps \in Nat \ {0}

VARIABLES
  pc,          \* pc[m]: the await m is suspended in
  conv,        \* conv[m]: the conversation m persists
  on,          \* on[m]: the conversation m plans or dispatches
  snap,        \* snap[m]: what the save in flight writes
  at,          \* at[m]: the steps m has started
  agreed,      \* agreed[m]: the plan that was there when m said yes
  using,       \* using[m]: the plan m dispatches
  phase,       \* phase[c]: FlowPhase of the conversation
  plan,        \* plan[c]: execution_plan, named by the message that made it
  approved,    \* the conversations with plan_approved
  active,      \* _user_conversations of the user, the most recent last: the
               \* keys of _conversations
  stale,       \* the conversations whose is_expired() is true
  row,         \* row[c]: brain_conversations
  approval     \* approval[c]: status in pending_approvals

calls == <<pc, conv, on, snap, at, agreed, using>>
convs == <<phase, plan, approved>>
index == <<active, stale>>
db == <<row, approval>>
vars == <<calls, convs, index, db>>

Terminal == {"completed", "cancelled"}
Unborn == [phase |-> "none", plan |-> None, approved |-> FALSE]

Init ==
  /\ pc = [m \in Messages |-> "idle"]
  /\ conv = [m \in Messages |-> None]
  /\ on = [m \in Messages |-> None]
  /\ snap = [m \in Messages |-> Unborn]
  /\ at = [m \in Messages |-> 0]
  /\ agreed = [m \in Messages |-> None]
  /\ using = [m \in Messages |-> None]
  /\ phase = [c \in Convs |-> "none"]
  /\ plan = [c \in Convs |-> None]
  /\ approved = {}
  /\ active = <<>>
  /\ stale = {}
  /\ row = [c \in Convs |-> Unborn]
  /\ approval = [c \in Convs |-> "absent"]

Goto(m, await) == pc' = [pc EXCEPT ![m] = await]
Become(c, p) == phase' = [phase EXCEPT ![c] = p]

-----------------------------------------------------------------------------
(* _create_conversation for message m, in the list l: the oldest are evicted. *)

Kept(l) == IF Len(l) < MaxConvs THEN l ELSE SubSeq(l, Len(l) - MaxConvs + 2, Len(l))

Create(c, l) ==
  /\ phase[c] = "none"
  /\ active' = Append(Kept(l), c)

\* _expire_conversations: what is left of the user's list.
Fresh(c) == c \notin stale
Unexpired == SelectSeq(active, Fresh)

Going(c) == phase[c] \notin Terminal
Candidates == SelectSeq(Unexpired, Going)

\* The head of process_message, up to the first save.  A conversation that is
\* named and alive is used, then the last active one, then a new one.
Receive(m) ==
  /\ pc[m] = "idle"
  /\ \E c \in Convs :
       /\ IF c \in ToSet(Candidates)
          THEN /\ active' = Unexpired
               /\ UNCHANGED phase
          ELSE /\ Candidates = <<>>
               /\ Create(c, Unexpired)
               /\ Become(c, "intake")
       /\ conv' = [conv EXCEPT ![m] = c]
       /\ on' = [on EXCEPT ![m] = c]
       /\ stale' = stale \ {c}
       /\ snap' = [snap EXCEPT ![m] =
                     [phase |-> phase'[c], plan |-> plan[c], approved |-> c \in approved]]
  /\ Goto(m, "first")
  /\ UNCHANGED <<at, agreed, using, plan, approved, db>>

\* ConversationStore.save commits what it was called with, or fails unseen.
Commit(m) ==
  /\ pc[m] \in {"first", "last"}
  /\ \/ row' = [row EXCEPT ![conv[m]] = snap[m]]
     \/ UNCHANGED row
  /\ Goto(m, IF pc[m] = "first" THEN "handle" ELSE "done")
  /\ UNCHANGED <<conv, on, snap, at, agreed, using, convs, index, approval>>

\* The handler returns: the second save is called with what is there now.
Answer(m, c) ==
  /\ Goto(m, "last")
  /\ snap' = [snap EXCEPT ![m] =
                [phase |-> phase'[c], plan |-> plan'[c], approved |-> c \in approved']]

-----------------------------------------------------------------------------
(* The phase handlers.  c is the conversation of the message, n the one the
   handler plans for. *)

\* _create_plan: a plan of medium risk or more is saved for approval first.
CreatePlan(m, c, n) ==
  /\ plan' = [plan EXCEPT ![n] = m]
  /\ Become(n, "confirm")
  /\ on' = [on EXCEPT ![m] = n]
  /\ UNCHANGED approved
  /\ \/ Goto(m, "approvalSave") /\ UNCHANGED snap
     \/ Answer(m, c)

\* _handle_intake and _handle_understand: questions remain, or a plan is made.
Prepare(m, c, n) ==
  \/ /\ Become(n, "understand")
     /\ UNCHANGED <<on, plan, approved>>
     /\ Answer(m, c)
  \/ CreatePlan(m, c, n)

Handling(m) == pc[m] = "handle" /\ UNCHANGED <<at, using, db>>

HandleIntake(m) ==
  /\ Handling(m)
  /\ phase[conv[m]] \in {"intake", "understand"}
  /\ Prepare(m, conv[m], conv[m])
  /\ UNCHANGED <<conv, agreed, index>>

Confirming(m) == Handling(m) /\ phase[conv[m]] = "confirm"

\* A mutated form of SayYes: the phase changes when the tasks start.
SayYes_LatePhase(m) ==
  /\ Confirming(m)
  /\ approved' = approved \cup {conv[m]}
  /\ agreed' = [agreed EXCEPT ![m] = plan[conv[m]]]
  /\ Goto(m, "approvalUpdate")
  /\ UNCHANGED <<conv, on, snap, phase, plan, index>>
SayYes(m) ==
  /\ Confirming(m)
  /\ approved' = approved \cup {conv[m]}
  /\ Become(conv[m], "dispatch")
  /\ agreed' = [agreed EXCEPT ![m] = plan[conv[m]]]
  /\ Goto(m, "approvalUpdate")
  /\ UNCHANGED <<conv, on, snap, plan, index>>

SayNo(m) ==
  /\ Confirming(m)
  /\ Become(conv[m], "cancelled")
  /\ UNCHANGED <<conv, on, agreed, plan, approved, index>>
  /\ Answer(m, conv[m])

\* "modosit": the plan is kept and the question asked again.
AskWhatToModify(m) ==
  /\ Confirming(m)
  /\ UNCHANGED <<conv, on, agreed, convs, index>>
  /\ Answer(m, conv[m])

\* Any other text is a modification: a new plan.
Replan(m) ==
  /\ Confirming(m)
  /\ CreatePlan(m, conv[m], conv[m])
  /\ UNCHANGED <<conv, agreed, index>>

Monitoring(m) == Handling(m) /\ phase[conv[m]] \in {"dispatch", "monitor"}

Stop(m) ==
  /\ Monitoring(m)
  /\ Become(conv[m], "cancelled")
  /\ UNCHANGED <<conv, on, agreed, plan, approved, index>>
  /\ Answer(m, conv[m])

AskStatus(m) ==
  /\ Monitoring(m)
  /\ Become(conv[m], "monitor")
  /\ UNCHANGED <<conv, on, agreed, plan, approved, index>>
  /\ Answer(m, conv[m])

\* Intake of a conversation created within the handler: n, while c is persisted.
Begin(m, c, n, keep) ==
  /\ Create(n, active)
  /\ stale' = stale \ {n}
  /\ conv' = [conv EXCEPT ![m] = c]
  /\ UNCHANGED <<agreed, approved>>
  /\ \/ /\ phase' = [keep EXCEPT ![n] = "understand"]
        /\ UNCHANGED <<on, plan>>
        /\ Answer(m, c)
     \/ /\ phase' = [keep EXCEPT ![n] = "confirm"]
        /\ plan' = [plan EXCEPT ![n] = m]
        /\ on' = [on EXCEPT ![m] = n]
        /\ \/ Goto(m, "approvalSave") /\ UNCHANGED snap
           \/ Answer(m, c)

\* An unrelated message: the old conversation is what is persisted.
StartAnother(m) ==
  /\ Monitoring(m)
  /\ \E n \in Convs :
       Begin(m, conv[m], n, [phase EXCEPT ![conv[m]] = "monitor"])

\* The conversation ended during the first save: the new one takes its place.
HandleEnded(m) ==
  /\ Handling(m)
  /\ phase[conv[m]] \in Terminal
  /\ \E n \in Convs : Begin(m, n, n, phase)

-----------------------------------------------------------------------------
(* The awaits inside the handlers. *)

\* Failures of the approval table are logged and forgotten.
ApprovalSaved(m) ==
  /\ pc[m] = "approvalSave"
  /\ \/ approval' = [approval EXCEPT ![on[m]] = "pending"]
     \/ UNCHANGED approval
  /\ UNCHANGED <<conv, on, at, agreed, using, convs, index, row>>
  /\ Answer(m, conv[m])

\* update_status writes a row that is there; then the plan is read.
ApprovalUpdated(m) ==
  /\ pc[m] = "approvalUpdate"
  /\ \/ approval' = [approval EXCEPT ![on[m]] =
                       IF @ = "absent" THEN @ ELSE "approved"]
     \/ UNCHANGED approval
  /\ using' = [using EXCEPT ![m] = plan[on[m]]]
  /\ Goto(m, "context")
  /\ UNCHANGED <<conv, on, snap, at, agreed, convs, index, row>>

\* _gather_tool_context or a pipeline run returns, and the next step starts.
StartStep(m) ==
  /\ pc[m] \in {"context", "step"}
  /\ at[m] < Steps
  /\ at' = [at EXCEPT ![m] = @ + 1]
  /\ Goto(m, "step")
  /\ UNCHANGED <<conv, on, snap, agreed, using, convs, index, db>>

\* A mutated form of FinishDispatch: the last run is not waited for.
FinishDispatch_Early(m) ==
  /\ pc[m] = "step"
  /\ Become(on[m], "completed")
  /\ UNCHANGED <<conv, on, at, agreed, using, plan, approved, index, db>>
  /\ Answer(m, conv[m])
\* The phase is set whatever it is by now.
FinishDispatch(m) ==
  /\ pc[m] = "step"
  /\ at[m] = Steps
  /\ Become(on[m], "completed")
  /\ UNCHANGED <<conv, on, at, agreed, using, plan, approved, index, db>>
  /\ Answer(m, conv[m])

\* CONVERSATION_EXPIRY_SECONDS pass without a message for c.
Age(c) ==
  /\ phase[c] \notin {"none", "gone"}
  /\ stale' = stale \cup {c}
  /\ UNCHANGED <<calls, convs, active, db>>

Loadable(c) == row[c].phase \notin Terminal \cup {"none"} /\ c \notin stale

\* The process restarts: load_active_conversations.  What was in memory is gone,
\* old rows are deleted (completed ones are not), the rest come in any order.
Restart ==
  LET loaded == {c \in Convs : Loadable(c)}
      deleted == {c \in stale : row[c].phase /= "completed"}
      forgotten == {c \in Convs : phase[c] /= "none"} \ loaded IN
  /\ pc' = [m \in Messages |-> IF pc[m] \in {"idle", "done"} THEN pc[m] ELSE "lost"]
  /\ phase' = [c \in Convs |-> IF c \in loaded THEN row[c].phase
                               ELSE IF c \in forgotten THEN "gone" ELSE phase[c]]
  /\ plan' = [c \in Convs |-> IF c \in loaded THEN row[c].plan ELSE None]
  /\ approved' = {c \in loaded : row[c].approved}
  /\ active' \in SetToSeqs(loaded)
  /\ stale' = {}
  /\ row' = [c \in Convs |-> IF c \in deleted THEN Unborn ELSE row[c]]
  /\ at' = [m \in Messages |-> 0]
  /\ agreed' = [m \in Messages |-> None]
  /\ using' = [m \in Messages |-> None]
  /\ UNCHANGED <<conv, on, snap, approval>>

Call(m) ==
  \/ Receive(m) \/ Commit(m) \/ HandleIntake(m)
  \/ SayYes(m) \/ SayNo(m) \/ AskWhatToModify(m) \/ Replan(m)
  \/ Stop(m) \/ AskStatus(m) \/ StartAnother(m) \/ HandleEnded(m)
  \/ ApprovalSaved(m) \/ ApprovalUpdated(m) \/ StartStep(m) \/ FinishDispatch(m)

Next == (\E m \in Messages : Call(m)) \/ (\E c \in Convs : Age(c)) \/ Restart

Spec == Init /\ [][Next]_vars

-----------------------------------------------------------------------------
Phases == Terminal \cup {"none", "intake", "understand", "confirm", "dispatch", "monitor"}
Snapshots == [phase : Phases, plan : Messages \cup {None}, approved : BOOLEAN]

(* Every variable keeps its type (the fields of BrainConversation and of
   BrainConversationRow, the locals of process_message). *)
TypeOK ==
  /\ pc \in [Messages -> {"idle", "first", "handle", "approvalSave",
                          "approvalUpdate", "context", "step", "last", "done", "lost"}]
  /\ conv \in [Messages -> Convs \cup {None}]
  /\ on \in [Messages -> Convs \cup {None}]
  /\ snap \in [Messages -> Snapshots]
  /\ at \in [Messages -> 0 .. Steps]
  /\ agreed \in [Messages -> Messages \cup {None}]
  /\ using \in [Messages -> Messages \cup {None}]
  /\ phase \in [Convs -> Phases \cup {"gone"}]
  /\ plan \in [Convs -> Messages \cup {None}]
  /\ approved \subseteq Convs
  /\ active \in Seq(Convs) /\ IsInjective(active)
  /\ stale \subseteq Convs
  /\ row \in [Convs -> Snapshots]
  /\ approval \in [Convs -> {"absent", "pending", "approved"}]

(* Two overlapping messages never both dispatch one conversation: a second
   "igen" finds the phase changed, as _handle_confirm sets it before its first
   await (a process that restarts forgets the first). *)
DispatchedOnce ==
  \A m, w \in Messages :
    using[m] /= None /\ using[w] /= None /\ on[m] = on[w] => m = w

(* What is dispatched is the plan that was there when the human said yes:
   _dispatch_tasks reads execution_plan after an await in which other messages
   may plan again. *)
ApprovedPlanRuns ==
  \A m \in Messages : using[m] /= None =>
    using[m] = agreed[m] /\ on[m] \in approved

(* A conversation is COMPLETED only when every step of its plan has run to the
   end, whatever messages came meanwhile. *)
CompletedIsTrue ==
  \A c \in Convs : phase[c] = "completed" =>
    \E m \in Messages :
      on[m] = c /\ using[m] /= None /\ at[m] = Steps /\ pc[m] /= "step"
=============================================================================
