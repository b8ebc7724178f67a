---------------------------- MODULE EventBridge ----------------------------
(***************************************************************************)
(* The bridge from the chats of the OpenClaw gateway to the pipeline       *)
(* (adapters/event_bridge.py), on one chat session of a user.              *)
(*                                                                         *)
(* Every message a user or the bridge sends starts a run of the gateway's  *)
(* agent, and the run ends with a chat.final event.  The bridge answers an *)
(* event by reading the chat and handling its last user message; what it   *)
(* sends back is a user message of the same chat.  The agent's own answers *)
(* are left out, as is what a message says beyond "a command or not".      *)
(***************************************************************************)
EXTENDS Naturals, Sequences, FiniteSets, SequencesExt

CONSTANTS
  Messages,     \* what users may send, each once
  Commands      \* those _extract_intent finds an intent in

Echo == "echo"      \* a message that starts as the bridge's replies do
None == "none"

ASSUME BridgeAssumption ==
  Commands \subseteq Messages /\ {Echo, None} \cap Messages = {}

VARIABLES
  chat,     \* the user messages of the session, oldest first
  run,      \* run[i]: the agent's run of chat[i], and what the bridge made of it
  handled,  \* handled[i]: the message routed for the final event of chat[i]
  hasty     \* history: a user has written before the chat was quiet

bridgeVars == <<chat, run, handled, hasty>>

Ended == {"missed", "dropped", "skipped", "failed", "done"}

BridgeInit == chat = <<>> /\ run = <<>> /\ handled = <<>> /\ hasty = FALSE

Quiet == \A i \in DOMAIN run : run[i] \in Ended

\* A message joins the chat and the gateway runs its agent on it.
Join(m) ==
  /\ chat' = Append(chat, m)
  /\ handled' = Append(handled, None)

UserSends(m) ==
  /\ m \notin ToSet(chat)
  /\ Join(m)
  /\ hasty' = (hasty \/ ~Quiet)
  /\ run' = Append(run, "agent")

-----------------------------------------------------------------------------
(* One final event *)

Step(i, state) == run' = [run EXCEPT ![i] = state]

\* _on_chat_event: the event of this session becomes a task of its own; what
\* is sent while the connection is down is missed.
ChatFinal(i) ==
  /\ run[i] = "agent"
  /\ Step(i, "asking") \/ Step(i, "missed")
  /\ UNCHANGED <<chat, handled, hasty>>

\* Wrong: echoes are passed over in search of a message of the user.
LastMessage_NotEcho ==
  chat[CHOOSE j \in DOMAIN chat :
         chat[j] /= Echo /\ \A k \in DOMAIN chat : k > j => chat[k] = Echo]

\* Wrong: the oldest message of the answer.
LastMessage_First == Head(chat)

\* The last user message of the history the gateway answers with.
LastMessage == Last(chat)

\* The end of _process_chat_final for an echo, and for words that ask nothing.
Skip(i) ==
  /\ run[i] = "asking"
  /\ LastMessage \notin Commands
  /\ Step(i, "skipped")
  /\ UNCHANGED <<chat, handled, hasty>>

\* _route_to_brain: a task is made of the message, and the pipeline runs.
Route(i) ==
  /\ run[i] = "asking"
  /\ LastMessage \in Commands
  /\ handled' = [handled EXCEPT ![i] = LastMessage]
  /\ Step(i, "running")
  /\ UNCHANGED <<chat, hasty>>

\* chat.history answers with an error, or not at all.
HistoryFails(i) ==
  /\ run[i] = "asking"
  /\ Step(i, "dropped")
  /\ UNCHANGED <<chat, handled, hasty>>

\* Wrong: a message whose pipeline raised is tried again, without a limit.
PipelineRaises_Retried(i) ==
  /\ run[i] = "running"
  /\ Step(i, "asking")
  /\ UNCHANGED <<chat, handled, hasty>>

\* The pipeline raises: the error is logged and nobody is told.
PipelineRaises(i) ==
  /\ run[i] = "running"
  /\ Step(i, "failed")
  /\ UNCHANGED <<chat, handled, hasty>>

\* _send_result_to_telegram, whatever the result; chat.send is accepted.
Reply(i) ==
  /\ run[i] = "running"
  /\ Join(Echo)
  /\ run' = Append([run EXCEPT ![i] = "done"], "agent")
  /\ UNCHANGED hasty

ReplyLost(i) ==
  /\ run[i] = "running"
  /\ Step(i, "done")
  /\ UNCHANGED <<chat, handled, hasty>>

Bridge(i) ==
  \/ Skip(i) \/ Route(i) \/ HistoryFails(i)
  \/ PipelineRaises(i) \/ Reply(i) \/ ReplyLost(i)

BridgeNext ==
  \/ \E m \in Messages : UserSends(m)
  \/ \E i \in DOMAIN run : ChatFinal(i) \/ Bridge(i)

BridgeSpec == BridgeInit /\ [][BridgeNext]_bridgeVars

(* The gateway ends its runs and answers or the request times out; the      *)
(* pipeline returns; nobody makes a user write.                             *)
FairBridgeSpec ==
  BridgeSpec /\ WF_bridgeVars(\E i \in DOMAIN run : ChatFinal(i) \/ Bridge(i))

-----------------------------------------------------------------------------
(* Properties *)

Runs(m) == {i \in DOMAIN handled : handled[i] = m}
Place(m) == Cardinality({i \in 1..SelectLastInSeq(chat, LAMBDA x : x = m) :
                           chat[i] /= Echo})

(* "This calls chat.history to get the user's original message": for users   *)
(* who wait for the answers every event is handled with its own message, no  *)
(* command is run twice, and once it is quiet each has been run unless its   *)
(* event was missed or the history not answered.                             *)
OnceForThePatient ==
  ~hasty =>
    /\ \A i \in DOMAIN handled : handled[i] \in {None, chat[i]}
    /\ \A m \in Commands : Cardinality(Runs(m)) <= 1
    /\ Quiet => \A i \in DOMAIN chat :
         chat[i] \in Commands => handled[i] /= None \/ run[i] \in {"missed", "dropped"}

(* The replies of the bridge end as events of the same chat.  They cannot    *)
(* feed the bridge for ever: the k-th message of a user, however fast the    *)
(* messages come, is run k times at most, and nothing but commands is run.   *)
RunsBounded ==
  /\ ToSet(handled) \subseteq Commands \cup {None}
  /\ \A m \in Commands \cap ToSet(chat) : Cardinality(Runs(m)) <= Place(m)

(* The conversation settles: from some moment on no agent runs and no task   *)
(* of the bridge is left.                                                    *)
Settles == <>[]Quiet
=============================================================================
