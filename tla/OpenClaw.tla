------------------------------ MODULE OpenClaw ------------------------------
(***************************************************************************)
(* The client of the OpenClaw gateway (adapters/openclaw_executor.py): one *)
(* WebSocket shared by all calls, its receive loop, its reconnect loop,    *)
(* and the circuit breaker of the executor.                                *)
(*                                                                         *)
(* Everything runs on one event loop: an action is what happens between    *)
(* two awaits.  The gateway and the network are the environment.  Closing  *)
(* the client (the end of the process) and the requests EventBridge sends  *)
(* on the same socket are not modelled.  What a task has spent is not      *)
(* kept: the budget may refuse any call.                                   *)
(***************************************************************************)
EXTENDS Naturals, Sequences, FiniteSets, SequencesExt

CONSTANTS
  Execs,       \* calls of OpenClawExecutor.execute
  Loop,        \* _auto_reconnect_loop
  Attempts,    \* reconnect_max_attempts
  Threshold    \* cb_failure_threshold

Actors == Execs \cup {Loop}

ASSUME ClawAssumption ==
  /\ Attempts \in Nat \ {0} /\ Threshold \in Nat \ {0}
  /\ Loop \notin Execs

VARIABLES
  pc,          \* pc[a]: the await of a call or of the reconnect loop
  tries,       \* tries[e]: the attempts of _ensure_connected
  queue,       \* _lock: its holder, then those who wait, in order
  connected, authenticated,
  readers,     \* the receive loops that run
  pending,     \* the calls with an entry in _pending
  reply,       \* reply[c]: the future of c in _pending
  completions, \* the calls with an entry in _chat_completions
  final,       \* final[e]: the completion future of e
  breaker, failures,
  up,          \* the gateway can be reached
  link,        \* the socket in _ws: "none", "open" or "closed"
  inbox,       \* what the gateway sent and nothing has read: <<kind, call>>
  asked,       \* the calls whose request reached the gateway
  running      \* the calls whose agent the gateway runs

conn == <<queue, connected, authenticated, readers>>
futures == <<pending, reply, completions, final>>
circuit == <<breaker, failures>>
gateway == <<up, link, inbox, asked, running>>
vars == <<pc, tries, conn, futures, circuit, gateway>>

IsConnected == connected /\ authenticated
Over == {"done", "failed", "refused", "cancelled"}

Init ==
  /\ pc = [a \in Actors |-> "idle"]
  /\ tries = [e \in Execs |-> 0]
  /\ queue = <<>>
  /\ connected = FALSE /\ authenticated = FALSE
  /\ readers = 0
  /\ pending = {} /\ completions = {}
  /\ reply = [c \in Execs |-> "unset"]
  /\ final = [e \in Execs |-> "unset"]
  /\ breaker = "closed" /\ failures = 0
  /\ up = TRUE /\ link = "none" /\ inbox = <<>>
  /\ asked = {} /\ running = {}

Goto(a, await) == pc' = [pc EXCEPT ![a] = await]

-----------------------------------------------------------------------------
(* CircuitBreaker *)

RecordSuccess == breaker' = "closed" /\ failures' = 0

\* The count stops mattering at the threshold.
RecordFailure ==
  /\ failures' = IF failures < Threshold THEN failures + 1 ELSE failures
  /\ breaker' = IF failures + 1 >= Threshold THEN "open" ELSE breaker

\* cb_recovery_timeout has passed when the state is read.
Recover ==
  /\ breaker = "open"
  /\ breaker' = "half_open"
  /\ UNCHANGED <<pc, tries, conn, futures, failures, gateway>>

-----------------------------------------------------------------------------
(* connect, under the lock *)

\* execute fails on the breaker before anything else, and is not counted.
Refused(e) ==
  /\ pc[e] = "idle"
  /\ breaker = "open"
  /\ Goto(e, "refused")
  /\ UNCHANGED <<tries, conn, futures, circuit, gateway>>

\* send_request: the entry is there before the frame is sent.
Send(c) ==
  /\ Goto(c, "sending")
  /\ pending' = pending \cup {c}
  /\ UNCHANGED <<reply, completions, final>>

\* The budget refuses the call, which is not a failure of the gateway.
OverBudget(c) == Goto(c, "refused") /\ UNCHANGED futures

\* execute, once connected.
Proceed(c) == Send(c) \/ OverBudget(c)

Begin(e) ==
  /\ pc[e] = "idle"
  /\ breaker /= "open"
  /\ IF IsConnected
     THEN Proceed(e) /\ UNCHANGED queue
     ELSE /\ Goto(e, "lock")
          /\ queue' = Append(queue, e)
          /\ UNCHANGED futures
  /\ UNCHANGED <<tries, connected, authenticated, readers, circuit, gateway>>

\* The reconnect loop has slept: it sees the connection lost.
Wake ==
  /\ pc[Loop] = "idle"
  /\ ~IsConnected
  /\ Goto(Loop, "lock")
  /\ queue' = Append(queue, Loop)
  /\ UNCHANGED <<tries, connected, authenticated, readers, futures, circuit, gateway>>

\* The lock is released; an executor goes on to send, the loop to sleep.
Connected(a) ==
  /\ queue' = Tail(queue)
  /\ IF a \in Execs THEN Proceed(a) ELSE Goto(a, "idle") /\ UNCHANGED futures

HasLock(a) == pc[a] = "lock" /\ queue /= <<>> /\ Head(queue) = a

FoundConnected(a) ==
  /\ HasLock(a)
  /\ IsConnected
  /\ Connected(a)
  /\ UNCHANGED <<tries, connected, authenticated, readers, circuit, gateway>>

\* A mutated form of MustDial: the check before the lock is trusted.
MustDial_Always(a) == HasLock(a)
MustDial(a) == HasLock(a) /\ ~IsConnected

Dial(a) ==
  /\ MustDial(a)
  /\ up
  /\ Goto(a, "auth")
  /\ connected' = TRUE
  /\ link' = "open" /\ inbox' = <<>>
  /\ UNCHANGED <<tries, queue, authenticated, readers, futures, circuit, up, asked, running>>

Authenticate(a) ==
  /\ pc[a] = "auth"
  /\ link = "open"
  /\ authenticated' = TRUE
  /\ readers' = readers + 1
  /\ Connected(a)
  /\ UNCHANGED <<tries, connected, circuit, gateway>>

\* A mutated form of GiveUp: the reconnect loop ends at its first failure.
GiveUp_EndsLoop(a) ==
  /\ queue' = Tail(queue)
  /\ Goto(a, "cancelled")
  /\ UNCHANGED <<tries, circuit>>
\* A mutated form of GiveUp: the lock is kept by whoever failed.
GiveUp_KeepsLock(a) ==
  /\ Goto(a, "backoff")
  /\ UNCHANGED <<queue, tries, circuit>>
\* The lock is released with an error: the loop sleeps, an executor retries.
GiveUp(a) ==
  /\ queue' = Tail(queue)
  /\ IF a = Loop
     THEN Goto(a, "idle") /\ UNCHANGED <<tries, circuit>>
     ELSE /\ tries' = [tries EXCEPT ![a] = @ + 1]
          /\ IF tries'[a] < Attempts
             THEN Goto(a, "backoff") /\ UNCHANGED circuit
             ELSE Goto(a, "failed") /\ RecordFailure

DialFails(a) ==
  /\ MustDial(a)
  /\ ~up
  /\ connected' = FALSE
  /\ GiveUp(a)
  /\ UNCHANGED <<authenticated, readers, futures, gateway>>

\* The challenge or the answer does not come (the token is right); the socket is
\* left as it is.
AuthFails(a) ==
  /\ pc[a] = "auth"
  /\ link = "closed" \/ ~up
  /\ connected' = FALSE
  /\ GiveUp(a)
  /\ UNCHANGED <<authenticated, readers, futures, gateway>>

Retry(e) ==
  /\ pc[e] = "backoff"
  /\ Goto(e, "lock")
  /\ queue' = Append(queue, e)
  /\ UNCHANGED <<tries, connected, authenticated, readers, futures, circuit, gateway>>

-----------------------------------------------------------------------------
(* send_request and send_chat *)

\* The futures and the locals of a call that is over are dropped.
Forget(e) ==
  /\ reply' = [reply EXCEPT ![e] = "unset"]
  /\ final' = [final EXCEPT ![e] = "unset"]
  /\ tries' = [tries EXCEPT ![e] = 0]

\* A call ends; what it had in _pending and _chat_completions is removed.
End(c, how) ==
  /\ Goto(c, how)
  /\ pending' = pending \ {c}
  /\ completions' = completions \ {c}
  /\ Forget(c)
  /\ IF how = "failed" THEN RecordFailure ELSE RecordSuccess
  /\ UNCHANGED <<conn, gateway>>

\* The answer is there; one without a text is looked up in the session file.
Succeed(c) == End(c, "done") \/ End(c, "fetch")

Sent(c) ==
  /\ pc[c] = "sending"
  /\ link = "open"
  /\ Goto(c, "reply")
  /\ asked' = asked \cup {c}
  /\ UNCHANGED <<tries, conn, futures, circuit, up, link, inbox, running>>

SendFails(c) ==
  /\ pc[c] = "sending"
  /\ link /= "open"
  /\ End(c, "failed")

\* The reply has come.  send_chat registers for the final event only now; a
\* reply without a run id is the answer.
Replied(c) ==
  /\ pc[c] = "reply"
  /\ reply[c] = "ok"
  /\ \/ Succeed(c)
     \/ /\ Goto(c, "final")
        /\ completions' = completions \cup {c}
        /\ UNCHANGED <<tries, conn, pending, reply, final, circuit, gateway>>

ReplyFails(c) ==
  /\ pc[c] = "reply"
  /\ reply[c] \in {"error", "unset"}    \* an error, a lost connection, a timeout
  /\ End(c, "failed")

Complete(e) ==
  /\ pc[e] = "final"
  /\ final[e] = "set"
  /\ Succeed(e)

\* _fetch_session_text returns, with or without a text.
Fetched(e) ==
  /\ pc[e] = "fetch"
  /\ Goto(e, "done")
  /\ UNCHANGED <<tries, conn, futures, circuit, gateway>>

\* A mutated form of FinalTimeout: the wait is given up with the connection.
FinalTimeout_Lost(e) ==
  /\ pc[e] = "final"
  /\ final[e] = "unset"
  /\ ~IsConnected
  /\ End(e, "failed")
FinalTimeout(e) ==
  /\ pc[e] = "final"
  /\ final[e] = "unset"
  /\ End(e, "failed")

\* The task around execute is cancelled (wait_for in the scheduler and in the
\* multi-agent orchestrator): no handler of the client catches that.
Cancel(e) ==
  /\ pc[e] \notin Over \cup {"idle"}
  /\ Goto(e, "cancelled")
  /\ queue' = RemoveFirst(queue, e)
  /\ Forget(e)
  /\ UNCHANGED <<pending, completions, connected, authenticated, readers, circuit, gateway>>

-----------------------------------------------------------------------------
(* _receive_loop *)

\* The future of a call that was cancelled is done.
Waits(c) == pc[c] \notin Over

Reads(kind) == readers > 0 /\ inbox /= <<>> /\ Head(inbox)[1] = kind

ReadReply ==
  /\ \E kind \in {"ok", "error"} :
       /\ Reads(kind)
       /\ LET c == Head(inbox)[2] IN
          IF c \in pending
          THEN /\ pending' = pending \ {c}
               /\ reply' = [reply EXCEPT ![c] = IF Waits(c) THEN kind ELSE @]
          ELSE UNCHANGED <<pending, reply>>
  /\ inbox' = Tail(inbox)
  /\ UNCHANGED <<pc, tries, conn, completions, final, circuit, up, link, asked, running>>

ReadFinal ==
  /\ Reads("final")
  /\ LET e == Head(inbox)[2] IN
     IF e \in completions
     THEN /\ completions' = completions \ {e}
          /\ final' = [final EXCEPT ![e] = IF Waits(e) THEN "set" ELSE @]
     ELSE UNCHANGED <<completions, final>>
  /\ inbox' = Tail(inbox)
  /\ UNCHANGED <<pc, tries, conn, pending, reply, circuit, up, link, asked, running>>

\* A mutated form of LoseConnection: the waiting requests are only forgotten.
LoseConnection_Silent ==
  /\ readers > 0
  /\ link = "closed" /\ inbox = <<>>
  /\ connected' = FALSE /\ authenticated' = FALSE
  /\ readers' = readers - 1
  /\ pending' = {}
  /\ UNCHANGED <<pc, tries, queue, reply, completions, final, circuit, gateway>>
\* The socket is closed and read to its end: the waiting requests fail, not the
\* calls that wait for a final event.
LoseConnection ==
  /\ readers > 0
  /\ link = "closed" /\ inbox = <<>>
  /\ connected' = FALSE /\ authenticated' = FALSE
  /\ readers' = readers - 1
  /\ reply' = [c \in Execs |->
                 IF c \in pending /\ Waits(c) /\ reply[c] = "unset" THEN "error" ELSE reply[c]]
  /\ pending' = {}
  /\ UNCHANGED <<pc, tries, queue, completions, final, circuit, gateway>>

-----------------------------------------------------------------------------
(* The gateway and the network *)

Toggle ==
  /\ up' = ~up
  /\ UNCHANGED <<pc, tries, conn, futures, circuit, link, inbox, asked, running>>

\* The socket breaks while the gateway is away; what was not read may be lost.
Drop ==
  /\ ~up
  /\ link = "open"
  /\ link' = "closed"
  /\ \E k \in 0 .. Len(inbox) : inbox' = SubSeq(inbox, 1, k)
  /\ asked' = {}
  /\ UNCHANGED <<pc, tries, conn, futures, circuit, up, running>>

\* chat.send is accepted and the agent starts, or it is refused.
GatewayReplies(c) ==
  /\ link = "open" /\ IsConnected
  /\ c \in asked
  /\ asked' = asked \ {c}
  /\ \/ /\ inbox' = Append(inbox, <<"ok", c>>)
        /\ running' = running \cup {c}
     \/ inbox' = Append(inbox, <<"error", c>>) /\ UNCHANGED running
  /\ UNCHANGED <<pc, tries, conn, futures, circuit, up, link>>

\* The final event goes to whatever connection there is then.
AgentEnds(e) ==
  /\ e \in running
  /\ running' = running \ {e}
  /\ inbox' = IF link = "open" /\ authenticated THEN Append(inbox, <<"final", e>>) ELSE inbox
  /\ UNCHANGED <<pc, tries, conn, futures, circuit, up, link, asked>>

Connecting(a) ==
  FoundConnected(a) \/ Dial(a) \/ Authenticate(a) \/ DialFails(a) \/ AuthFails(a)

Exec(e) ==
  \/ Refused(e) \/ Begin(e) \/ Connecting(e) \/ Retry(e)
  \/ Complete(e) \/ FinalTimeout(e) \/ Fetched(e)

Call(c) == Sent(c) \/ SendFails(c) \/ Replied(c) \/ ReplyFails(c)

Reader == ReadReply \/ ReadFinal \/ LoseConnection
Reconnect == Wake \/ Connecting(Loop)

Environment ==
  \/ Toggle \/ Drop
  \/ \E c \in Execs : GatewayReplies(c)
  \/ \E e \in Execs : AgentEnds(e)

Next ==
  \/ \E e \in Execs : Exec(e) \/ Call(e) \/ Cancel(e)
  \/ Reader \/ Reconnect \/ Recover \/ Environment

Spec == Init /\ [][Next]_vars

\* Every await of the code ends: each has a timeout, and the event loop runs
\* what is ready.  Nothing is assumed of the gateway or of the callers.
Fairness ==
  /\ \A e \in Execs : WF_vars((pc[e] /= "idle" /\ Exec(e)) \/ Call(e))
  /\ WF_vars(Reader) /\ WF_vars(Reconnect)

FairSpec == Spec /\ Fairness

-----------------------------------------------------------------------------
(* Every variable keeps its type (the fields of OpenClawConnection and of
   CircuitBreaker). *)
TypeOK ==
  /\ pc \in [Actors -> Over \cup
       {"idle", "lock", "auth", "backoff", "sending", "reply", "final", "fetch"}]
  /\ tries \in [Execs -> 0 .. Attempts]
  /\ queue \in Seq(Actors) /\ IsInjective(queue)
  /\ connected \in BOOLEAN /\ authenticated \in BOOLEAN
  /\ readers \in Nat
  /\ pending \subseteq Execs /\ completions \subseteq Execs
  /\ reply \in [Execs -> {"unset", "ok", "error"}]
  /\ final \in [Execs -> {"unset", "set"}]
  /\ breaker \in {"closed", "open", "half_open"} /\ failures \in 0 .. Threshold
  /\ up \in BOOLEAN /\ link \in {"none", "open", "closed"}
  /\ inbox \in Seq({"ok", "error", "final"} \X Execs)
  /\ asked \subseteq Execs /\ running \subseteq Execs

(* A connection that says it is connected is read by exactly one receive loop,
   and one that does not is read by none, whoever connects at the same time: the
   executors retrying, the reconnect loop, a call cancelled half-way. *)
OneReader == readers = IF IsConnected THEN 1 ELSE 0

(* A request an executor waits for can be answered: its entry is in _pending
   and the connection is read, or its future is already decided.  A lost
   connection fails them all (_receive_loop's finally) and no reconnection
   leaves one behind. *)
RequestsAreReachable ==
  \A e \in Execs : pc[e] \in {"sending", "reply"} /\ reply[e] = "unset" =>
    e \in pending /\ IsConnected

(* Every execute returns or raises, whatever the gateway does. *)
EveryExecuteEnds == \A e \in Execs : pc[e] /= "idle" ~> pc[e] \in Over

(* If the gateway stays up, the client ends up connected to it and stays so
   (_auto_reconnect_loop). *)
Reconnects == <>[]up => <>[]IsConnected
=============================================================================
