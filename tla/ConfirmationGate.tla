-------------------------- MODULE ConfirmationGate --------------------------
(***************************************************************************)
(* The human approval gate (adapters/confirmation_gate.py) with the table  *)
(* of pending approvals (store/approval_store.py).                         *)
(*                                                                         *)
(* Each request is one call of request_confirmation, a coroutine with four *)
(* awaits: the save, the message, the wait for the answer, the notice of a *)
(* timeout.  handle_response is not a coroutine: a reply is one action.    *)
(***************************************************************************)
EXTENDS Naturals, Sequences

CONSTANTS
  Requests,   \* calls of request_confirmation
  Tasks, Chats,
  None        \* no request, task or chat

ASSUME GateAssumption == None \notin Requests \cup Tasks \cup Chats

VARIABLES
  pc,        \* pc[r]: the await r is suspended in
  of,        \* of[r]: the task and the chat of r
  status,    \* status[r]: PendingConfirmation.status of r
  result,    \* result[r]: what request_confirmation returned or raised
  pending,   \* _pending: task -> the request registered for it
  chatTask,  \* _chat_to_task: chat -> task
  row,       \* row[t]: status of the pending_approvals row of t, or "absent"
  updates,   \* the update_status tasks scheduled: [req, decision]
  arrivals   \* the requests in the order they registered

maps == <<pending, chatTask>>
db == <<row, updates>>
vars == <<pc, of, status, result, maps, db, arrivals>>

Init ==
  /\ pc = [r \in Requests |-> "idle"]
  /\ of = [r \in Requests |-> [task |-> None, chat |-> None]]
  /\ status = [r \in Requests |-> "pending"]
  /\ result = [r \in Requests |-> "none"]
  /\ pending = [t \in Tasks |-> None]
  /\ chatTask = [c \in Chats |-> None]
  /\ row = [t \in Tasks |-> "absent"]
  /\ updates = {}
  /\ arrivals = <<>>

Goto(r, await) == pc' = [pc EXCEPT ![r] = await]

End(r, res) ==
  /\ Goto(r, "done")
  /\ result' = [result EXCEPT ![r] = res]

\* A mutated form of Cleanup: the chat's entry is dropped whosever it is.
Cleanup_AnyTask(r) ==
  /\ pending' = [pending EXCEPT ![of[r].task] = None]
  /\ chatTask' = [chatTask EXCEPT ![of[r].chat] = None]

\* _cleanup: the task's entry goes, whichever request it belongs to; the chat's
\* entry goes if it still names this task.
Cleanup(r) ==
  /\ pending' = [pending EXCEPT ![of[r].task] = None]
  /\ chatTask' = [chatTask EXCEPT ![of[r].chat] =
                    IF @ = of[r].task THEN None ELSE @]

-----------------------------------------------------------------------------
(* request_confirmation                                                    *)

\* LOW risk: nothing is registered, nobody is asked.
AutoApprove(r) ==
  /\ pc[r] = "idle"
  /\ End(r, "auto_approved")
  /\ UNCHANGED <<of, status, maps, db, arrivals>>

\* The request registers itself in both maps, over whatever was there.
Register(r, t, c) ==
  /\ pc[r] = "idle"
  /\ Goto(r, "save")
  /\ of' = [of EXCEPT ![r] = [task |-> t, chat |-> c]]
  /\ pending' = [pending EXCEPT ![t] = r]
  /\ chatTask' = [chatTask EXCEPT ![c] = t]
  /\ arrivals' = Append(arrivals, r)
  /\ UNCHANGED <<status, result, db>>

\* ApprovalStore.save upserts a pending row; an error is logged and ignored.
Saved(r) ==
  /\ pc[r] = "save"
  /\ Goto(r, "send")
  /\ \/ row' = [row EXCEPT ![of[r].task] = "pending"]
     \/ UNCHANGED row
  /\ UNCHANGED <<of, status, result, maps, updates, arrivals>>

\* The message with the plan reaches the chat.
Sent(r) ==
  /\ pc[r] = "send"
  /\ Goto(r, "wait")
  /\ UNCHANGED <<of, status, result, maps, db, arrivals>>

\* A mutated form of SendFails: a state nobody handles.
SendFails_Parked(r) ==
  /\ pc[r] = "send"
  /\ Goto(r, "unsent")
  /\ UNCHANGED <<of, status, result, maps, db, arrivals>>

\* The sender raises: so does request_confirmation, without a cleanup.
SendFails(r) ==
  /\ pc[r] = "send"
  /\ End(r, "error")
  /\ UNCHANGED <<of, status, maps, db, arrivals>>

\* A mutated form of Wake: any answer lets the task through.
Wake_Approves(r) ==
  /\ pc[r] = "wait" /\ status[r] # "pending"
  /\ End(r, "approved")
  /\ Cleanup(r)
  /\ UNCHANGED <<of, status, db, arrivals>>

\* The event is set: the decision of the reply is the result.
Wake(r) ==
  /\ pc[r] = "wait" /\ status[r] # "pending"
  /\ End(r, status[r])
  /\ Cleanup(r)
  /\ UNCHANGED <<of, status, db, arrivals>>

\* A mutated form of Timeout: the wait has no time limit.
Timeout_Never(r) == pc[r] = "wait" /\ FALSE /\ UNCHANGED vars

\* wait_for raises TimeoutError.  The timer and a reply may fall into the same
\* turn of the event loop: the cancellation then wins, and the decision the
\* reply has left in the status is overwritten.
Timeout(r) ==
  /\ pc[r] = "wait"
  /\ status' = [status EXCEPT ![r] = "timeout"]
  /\ Cleanup(r)
  /\ Goto(r, "notify")
  /\ UNCHANGED <<of, result, db, arrivals>>

\* The notice of the timeout is sent, or its sender raises.
Notified(r) ==
  /\ pc[r] = "notify"
  /\ End(r, "timeout") \/ End(r, "error")
  /\ UNCHANGED <<of, status, maps, db, arrivals>>

-----------------------------------------------------------------------------
(* handle_response and the store                                           *)

\* The request a reply in chat c goes to: chat -> task -> request.
Addressee(c) == IF chatTask[c] = None THEN None ELSE pending[chatTask[c]]

\* The human answers in chat c.  A reply that
\* finds no undecided request changes nothing.
Reply(c, decision) ==
  LET r == Addressee(c)
  IN /\ r # None /\ status[r] = "pending"
     /\ status' = [status EXCEPT ![r] = decision]
     /\ updates' = updates \cup {[req |-> r, decision |-> decision]}
     /\ UNCHANGED <<pc, of, result, maps, row, arrivals>>

\* The scheduled update_status writes the decision of the reply; it finds no
\* row if the save has not been committed, and then it does nothing.
UpdateRow(u) ==
  /\ updates' = updates \ {u}
  /\ row' = [row EXCEPT ![of[u.req].task] =
               IF @ = "absent" THEN @ ELSE u.decision]
  /\ UNCHANGED <<pc, of, status, result, maps, arrivals>>

\* The process dies and is started again: the waiters and the maps are gone;
\* cleanup_expired deletes pending rows that are past their time.
Restart ==
  /\ \E r \in Requests : pc[r] \notin {"idle", "done"}
  /\ pc' = [r \in Requests |-> IF pc[r] = "idle" THEN "idle" ELSE "done"]
  /\ result' = [r \in Requests |->
                  IF pc[r] \in {"idle", "done"} THEN result[r] ELSE "lost"]
  /\ pending' = [t \in Tasks |-> None]
  /\ chatTask' = [c \in Chats |-> None]
  /\ updates' = {}
  /\ \E expired \in SUBSET {t \in Tasks : row[t] = "pending"} :
       row' = [t \in Tasks |-> IF t \in expired THEN "absent" ELSE row[t]]
  /\ UNCHANGED <<of, status, arrivals>>

Step(r) ==
  \/ Saved(r) \/ Sent(r) \/ SendFails(r)
  \/ Wake(r) \/ Timeout(r) \/ Notified(r)

Next ==
  \/ \E r \in Requests :
       \/ AutoApprove(r) \/ Step(r)
       \/ \E t \in Tasks, c \in Chats : Register(r, t, c)
  \/ \E u \in updates : UpdateRow(u)
  \/ \E c \in Chats, decision \in {"approved", "rejected"} : Reply(c, decision)
  \/ Restart

\* The awaits end (HTTP timeouts, the 300 s of wait_for) and asyncio resumes
\* what is ready; nobody has to reply.
Fairness == \A r \in Requests : WF_vars(Step(r))

Spec == Init /\ [][Next]_vars
FairSpec == Spec /\ Fairness

-----------------------------------------------------------------------------
\* Every variable keeps its type (PendingConfirmation, its row, the locals of
\* request_confirmation).
TypeOK ==
  /\ pc \in [Requests -> {"idle", "save", "send", "wait", "notify", "done"}]
  /\ of \in [Requests -> [task : Tasks \cup {None}, chat : Chats \cup {None}]]
  /\ \A r \in Requests :
       pc[r] \notin {"idle", "done"} => of[r].task \in Tasks /\ of[r].chat \in Chats
  /\ status \in [Requests -> {"pending", "approved", "rejected", "timeout"}]
  /\ result \in [Requests -> {"none", "auto_approved", "approved", "rejected",
                              "timeout", "error", "lost"}]
  /\ pending \in [Tasks -> Requests \cup {None}]
  /\ chatTask \in [Chats -> Tasks \cup {None}]
  /\ row \in [Tasks -> {"absent", "pending", "approved", "rejected"}]
  /\ updates \subseteq [req : Requests, decision : {"approved", "rejected"}]
  /\ arrivals \in Seq(Requests)

Live(r) == pc[r] \notin {"idle", "done"}

Position(r) == CHOOSE i \in 1 .. Len(arrivals) : arrivals[i] = r

\* What other requests do, and how they end, neither unhooks nor parks a chat
\* (the condition in _cleanup).  The newest request of a chat can be answered
\* for as long as it waits, if its task was requested once; and neither map
\* keeps an entry of a request that is over, but for the one whose message could
\* not be sent, so that a chat is not left in confirmation mode.
NewestIsAnswerable ==
  /\ \A r \in Requests :
       /\ pc[r] = "wait" /\ status[r] = "pending"
       /\ \A q \in Requests \ {r} :
            /\ of[q].task # of[r].task
            /\ of[q].chat = of[r].chat => Position(q) < Position(r)
       => Addressee(of[r].chat) = r
  /\ \A c \in Chats :
       chatTask[c] # None =>
         \E r \in Requests : /\ of[r] = [task |-> chatTask[c], chat |-> c]
                             /\ Live(r) \/ result[r] = "error"

\* Beyond LOW risk an approval is a reply: whoever is told "approved" has the
\* decision in its own record, and the row says "approved" only after that.
ApprovalIsExplicit ==
  /\ \A r \in Requests : result[r] = "approved" => status[r] = "approved"
  /\ \A t \in Tasks :
       row[t] = "approved" =>
         \E r \in Requests : of[r].task = t /\ status[r] \in {"approved", "timeout"}

\* Every request comes to an end, answered or not.
EveryRequestEnds == \A r \in Requests : Live(r) ~> pc[r] = "done"
=============================================================================
