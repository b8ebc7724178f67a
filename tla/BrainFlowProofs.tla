-------------------------- MODULE BrainFlowProofs --------------------------
(***************************************************************************)
(* Proofs about BrainFlow for any set of messages and conversations, any   *)
(* limit of conversations and plans of any length: what is dispatched was  *)
(* agreed to, once, and COMPLETED is true.                                 *)
(***************************************************************************)
EXTENDS BrainFlow, TLAPS

(* What a save may write: nothing is at "confirm" without a plan. *)
Saved ==
  {s \in [phase : Phases \cup {"gone"}, plan : Messages \cup {None},
           approved : BOOLEAN] : s.phase = "confirm" => s.plan /= None}

(* The locals of the calls. *)
Locals ==
  /\ pc \in [Messages -> {"idle", "first", "handle", "approvalSave",
                          "approvalUpdate", "context", "step", "last", "done", "lost"}]
  /\ conv \in [Messages -> Convs \cup {None}]
  /\ on \in [Messages -> Convs \cup {None}]
  /\ at \in [Messages -> 0 .. Steps]
  /\ agreed \in [Messages -> Messages \cup {None}]
  /\ using \in [Messages -> Messages \cup {None}]

(* The conversations in memory: what is confirmed has a plan. *)
Memory ==
  /\ phase \in [Convs -> Phases \cup {"gone"}]
  /\ plan \in [Convs -> Messages \cup {None}]
  /\ approved \subseteq Convs
  /\ \A c \in Convs : phase[c] = "confirm" => plan[c] /= None

Saves == snap \in [Messages -> Saved] /\ row \in [Convs -> Saved]

(* Where a message stands, and what its locals hold there. *)
Places ==
  \A m \in Messages :
    /\ pc[m] /= "idle" => conv[m] \in Convs /\ on[m] \in Convs
    /\ pc[m] \in {"first", "handle"} => on[m] = conv[m]
    /\ pc[m] \in {"idle", "first", "handle", "approvalSave"} => using[m] = None
    /\ pc[m] \in {"context", "step"} => using[m] /= None

(* m has heard the yes. *)
Acts(m) ==
  pc[m] \in {"approvalUpdate", "context", "step"} \/ using[m] /= None

(* Its conversation is past the phases in which plans are made. *)
Agreed ==
  \A m \in Messages : Acts(m) =>
    /\ phase[on[m]] \in {"dispatch", "monitor", "completed", "cancelled"}
    /\ on[m] \in approved
    /\ agreed[m] = plan[on[m]] /\ agreed[m] /= None
    /\ using[m] \in {None, agreed[m]}

Single ==
  \A m, w \in Messages : Acts(m) /\ Acts(w) /\ on[m] = on[w] => m = w

Finished ==
  \A c \in Convs : phase[c] = "completed" =>
    \E m \in Messages : /\ on[m] = c /\ using[m] /= None
                        /\ at[m] = Steps /\ pc[m] \in {"last", "done"}

Inv == Locals /\ Memory /\ Saves /\ Places /\ Agreed /\ Single /\ Finished

-----------------------------------------------------------------------------
LEMMA InitHolds == Init => Inv
<1> USE FlowAssumption DEF Init
<1> SUFFICES ASSUME Init PROVE Inv
  OBVIOUS
<1>1. Unborn \in Saved
  BY DEF Unborn, Saved, Phases
<1>2. Saves
  BY <1>1 DEF Saves
<1>3. Locals
  BY DEF Locals
<1>4. Memory
  BY DEF Memory, Phases
<1>5. Places /\ Agreed /\ Single /\ Finished
  BY DEF Places, Agreed, Acts, Single, Finished
<1> QED
  BY <1>2, <1>3, <1>4, <1>5 DEF Inv

(* A save is called with what is in memory. *)
LEMMA MemoryIsSaved ==
  ASSUME NEW p \in Phases \cup {"gone"}, NEW q \in Messages \cup {None},
         NEW b \in BOOLEAN, p = "confirm" => q /= None
  PROVE  [phase |-> p, plan |-> q, approved |-> b] \in Saved
  BY DEF Saved

LEMMA AnswerKeeps ==
  ASSUME NEW m \in Messages, NEW c \in Convs, Saves, Memory', Answer(m, c),
         UNCHANGED row
  PROVE  Saves'
<1> DEFINE s == [phase |-> phase'[c], plan |-> plan'[c], approved |-> c \in approved']
<1>1. s \in Saved
  <2>1. /\ phase'[c] \in Phases \cup {"gone"}
        /\ plan'[c] \in Messages \cup {None}
        /\ (c \in approved') \in BOOLEAN
        /\ phase'[c] = "confirm" => plan'[c] /= None
    BY DEF Memory
  <2> QED
    BY <2>1, MemoryIsSaved
<1>2. snap' = [snap EXCEPT ![m] = s]
  BY DEF Answer
<1> HIDE DEF s
<1> QED
  BY <1>1, <1>2 DEF Saves

LEMMA ReceiveKeeps ==
  ASSUME Inv, NEW m \in Messages, Receive(m)
  PROVE  Inv'
<1> USE FlowAssumption DEF Inv
<1>1. Locals'
  BY DEF Locals, Memory, Places, Receive, Create, Become, Goto, db
<1>2. Memory'
  BY DEF Locals, Memory, Places, Phases, Terminal, Receive, Create, Become, Goto, db
<1>3. Saves'
  <2>1. PICK c \in Convs : snap' = [snap EXCEPT ![m] =
                 [phase |-> phase'[c], plan |-> plan[c], approved |-> c \in approved]]
    BY DEF Receive
  <2> DEFINE s == [phase |-> phase'[c], plan |-> plan[c], approved |-> c \in approved]
  <2>2. s \in Saved
    <3>1. /\ phase'[c] \in Phases \cup {"gone"}
          /\ plan[c] \in Messages \cup {None}
          /\ (c \in approved) \in BOOLEAN
          /\ phase'[c] = "confirm" => plan[c] /= None
      BY <1>2 DEF Memory, Receive
    <3> QED
      BY <3>1, MemoryIsSaved
  <2>3. UNCHANGED row
    BY DEF Receive, db
  <2> HIDE DEF s
  <2> QED
    BY <2>1, <2>2, <2>3 DEF Saves, s
<1>4. Places'
  BY DEF Locals, Places, Agreed, Acts, Receive, Create, Become, Goto, db
<1>5. Agreed'
  BY DEF Locals, Memory, Phases, Terminal, Agreed, Acts, Places, Receive, Create,
     Become, Goto, db
<1>6. Single'
  BY DEF Locals, Memory, Single, Agreed, Acts, Places, Terminal, Receive, Create,
     Become, Goto, db
<1>7. Finished'
  BY DEF Locals, Memory, Finished, Places, Terminal, Receive, Create, Become,
     Goto, db
<1> QED
  BY <1>1, <1>2, <1>3, <1>4, <1>5, <1>6, <1>7

LEMMA CommitKeeps ==
  ASSUME Inv, NEW m \in Messages, Commit(m)
  PROVE  Inv'
<1> USE FlowAssumption DEF Inv
<1>1. Locals'
  BY DEF Locals, Memory, Places, Commit, Goto, convs, index
<1>2. Memory'
  BY DEF Locals, Memory, Places, Phases, Terminal, Commit, Goto, convs, index
<1>3. Saves'
  BY DEF Inv, Saves, Commit, Goto, convs, index
<1>4. Places'
  BY DEF Locals, Places, Agreed, Acts, Commit, Goto, convs, index
<1>5. Agreed'
  BY DEF Locals, Memory, Phases, Terminal, Agreed, Acts, Places, Commit, Goto,
     convs, index
<1>6. Single'
  BY DEF Locals, Memory, Single, Agreed, Acts, Places, Terminal, Commit, Goto,
     convs, index
<1>7. Finished'
  BY DEF Locals, Memory, Finished, Places, Terminal, Commit, Goto, convs, index
<1> QED
  BY <1>1, <1>2, <1>3, <1>4, <1>5, <1>6, <1>7

LEMMA HandleIntakeKeeps ==
  ASSUME Inv, NEW m \in Messages, HandleIntake(m)
  PROVE  Inv'
<1> USE FlowAssumption DEF Inv
<1>1. Locals'
  BY DEF Locals, Memory, Places, HandleIntake, Handling, Prepare, CreatePlan,
     Answer, Become, Goto, index, db
<1>2. Memory'
  BY DEF Locals, Memory, Places, Phases, Terminal, HandleIntake, Handling,
     Prepare, CreatePlan, Answer, Become, Goto, index, db
<1>3. Saves'
  <2>1. conv[m] \in Convs /\ UNCHANGED row
    BY DEF Places, HandleIntake, Handling, Prepare, CreatePlan, index, db
  <2>2. CASE UNCHANGED snap
    BY <2>1, <2>2 DEF Inv, Saves
  <2>3. CASE Answer(m, conv[m])
    BY <1>2, <2>1, <2>3, AnswerKeeps DEF Inv
  <2> QED
    BY <2>2, <2>3 DEF HandleIntake, Handling, Prepare, CreatePlan, index, db
<1>4. Places'
  BY DEF Locals, Places, Agreed, Acts, HandleIntake, Handling, Prepare,
     CreatePlan, Answer, Become, Goto, index, db
<1>5. Agreed'
  BY DEF Locals, Memory, Phases, Terminal, Agreed, Acts, Places, HandleIntake,
     Handling, Prepare, CreatePlan, Answer, Become, Goto, index, db
<1>6. Single'
  BY DEF Locals, Memory, Single, Agreed, Acts, Places, Terminal, HandleIntake,
     Handling, Prepare, CreatePlan, Answer, Become, Goto, index, db
<1>7. Finished'
  BY DEF Locals, Memory, Finished, Places, Terminal, HandleIntake, Handling,
     Prepare, CreatePlan, Answer, Become, Goto, index, db
<1> QED
  BY <1>1, <1>2, <1>3, <1>4, <1>5, <1>6, <1>7

LEMMA SayYesKeeps ==
  ASSUME Inv, NEW m \in Messages, SayYes(m)
  PROVE  Inv'
<1> USE FlowAssumption DEF Inv
<1>1. Locals'
  BY DEF Locals, Memory, Places, SayYes, Confirming, Handling, Become, Goto,
     index, db
<1>2. Memory'
  BY DEF Locals, Memory, Places, Phases, Terminal, SayYes, Confirming, Handling,
     Become, Goto, index, db
<1>3. Saves'
  BY DEF Inv, Saves, SayYes, Confirming, Handling, Become, Goto, index, db
<1>4. Places'
  BY DEF Locals, Places, Agreed, Acts, SayYes, Confirming, Handling, Become, Goto,
     index, db
<1>5. Agreed'
  BY DEF Locals, Memory, Phases, Terminal, Agreed, Acts, Places, SayYes,
     Confirming, Handling, Become, Goto, index, db
<1>6. Single'
  BY DEF Locals, Memory, Single, Agreed, Acts, Places, Terminal, SayYes,
     Confirming, Handling, Become, Goto, index, db
<1>7. Finished'
  BY DEF Locals, Memory, Finished, Places, Terminal, SayYes, Confirming, Handling,
     Become, Goto, index, db
<1> QED
  BY <1>1, <1>2, <1>3, <1>4, <1>5, <1>6, <1>7

LEMMA SayNoKeeps ==
  ASSUME Inv, NEW m \in Messages, SayNo(m)
  PROVE  Inv'
<1> USE FlowAssumption DEF Inv
<1>1. Locals'
  BY DEF Locals, Memory, Places, SayNo, Confirming, Handling, Answer, Become,
     Goto, index, db
<1>2. Memory'
  BY DEF Locals, Memory, Places, Phases, Terminal, SayNo, Confirming, Handling,
     Answer, Become, Goto, index, db
<1>3. Saves'
  <2>1. conv[m] \in Convs /\ Answer(m, conv[m]) /\ UNCHANGED row
    BY DEF Places, SayNo, Confirming, Handling, index, db
  <2> QED
    BY <1>2, <2>1, AnswerKeeps DEF Inv
<1>4. Places'
  BY DEF Locals, Places, Agreed, Acts, SayNo, Confirming, Handling, Answer,
     Become, Goto, index, db
<1>5. Agreed'
  BY DEF Locals, Memory, Phases, Terminal, Agreed, Acts, Places, SayNo,
     Confirming, Handling, Answer, Become, Goto, index, db
<1>6. Single'
  BY DEF Locals, Memory, Single, Agreed, Acts, Places, Terminal, SayNo,
     Confirming, Handling, Answer, Become, Goto, index, db
<1>7. Finished'
  BY DEF Locals, Memory, Finished, Places, Terminal, SayNo, Confirming, Handling,
     Answer, Become, Goto, index, db
<1> QED
  BY <1>1, <1>2, <1>3, <1>4, <1>5, <1>6, <1>7

LEMMA AskWhatToModifyKeeps ==
  ASSUME Inv, NEW m \in Messages, AskWhatToModify(m)
  PROVE  Inv'
<1> USE FlowAssumption DEF Inv
<1>1. Locals'
  BY DEF Locals, Memory, Places, AskWhatToModify, Confirming, Handling, Answer,
     Goto, convs, index, db
<1>2. Memory'
  BY DEF Locals, Memory, Places, Phases, Terminal, AskWhatToModify, Confirming,
     Handling, Answer, Goto, convs, index, db
<1>3. Saves'
  <2>1. conv[m] \in Convs /\ Answer(m, conv[m]) /\ UNCHANGED row
    BY DEF Places, AskWhatToModify, Confirming, Handling, convs, index, db
  <2> QED
    BY <1>2, <2>1, AnswerKeeps DEF Inv
<1>4. Places'
  BY DEF Locals, Places, Agreed, Acts, AskWhatToModify, Confirming, Handling,
     Answer, Goto, convs, index, db
<1>5. Agreed'
  BY DEF Locals, Memory, Phases, Terminal, Agreed, Acts, Places, AskWhatToModify,
     Confirming, Handling, Answer, Goto, convs, index, db
<1>6. Single'
  BY DEF Locals, Memory, Single, Agreed, Acts, Places, Terminal, AskWhatToModify,
     Confirming, Handling, Answer, Goto, convs, index, db
<1>7. Finished'
  BY DEF Locals, Memory, Finished, Places, Terminal, AskWhatToModify, Confirming,
     Handling, Answer, Goto, convs, index, db
<1> QED
  BY <1>1, <1>2, <1>3, <1>4, <1>5, <1>6, <1>7

LEMMA ReplanKeeps ==
  ASSUME Inv, NEW m \in Messages, Replan(m)
  PROVE  Inv'
<1> USE FlowAssumption DEF Inv
<1>1. Locals'
  BY DEF Locals, Memory, Places, Replan, Confirming, Handling, CreatePlan, Answer,
     Become, Goto, index, db
<1>2. Memory'
  BY DEF Locals, Memory, Places, Phases, Terminal, Replan, Confirming, Handling,
     CreatePlan, Answer, Become, Goto, index, db
<1>3. Saves'
  <2>1. conv[m] \in Convs /\ UNCHANGED row
    BY DEF Places, Replan, Confirming, Handling, CreatePlan, index, db
  <2>2. CASE UNCHANGED snap
    BY <2>1, <2>2 DEF Inv, Saves
  <2>3. CASE Answer(m, conv[m])
    BY <1>2, <2>1, <2>3, AnswerKeeps DEF Inv
  <2> QED
    BY <2>2, <2>3 DEF Replan, Confirming, Handling, CreatePlan, index, db
<1>4. Places'
  BY DEF Locals, Places, Agreed, Acts, Replan, Confirming, Handling, CreatePlan,
     Answer, Become, Goto, index, db
<1>5. Agreed'
  BY DEF Locals, Memory, Phases, Terminal, Agreed, Acts, Places, Replan,
     Confirming, Handling, CreatePlan, Answer, Become, Goto, index, db
<1>6. Single'
  BY DEF Locals, Memory, Single, Agreed, Acts, Places, Terminal, Replan,
     Confirming, Handling, CreatePlan, Answer, Become, Goto, index, db
<1>7. Finished'
  BY DEF Locals, Memory, Finished, Places, Terminal, Replan, Confirming, Handling,
     CreatePlan, Answer, Become, Goto, index, db
<1> QED
  BY <1>1, <1>2, <1>3, <1>4, <1>5, <1>6, <1>7

LEMMA StopKeeps ==
  ASSUME Inv, NEW m \in Messages, Stop(m)
  PROVE  Inv'
<1> USE FlowAssumption DEF Inv
<1>1. Locals'
  BY DEF Locals, Memory, Places, Stop, Monitoring, Handling, Answer, Become, Goto,
     index, db
<1>2. Memory'
  BY DEF Locals, Memory, Places, Phases, Terminal, Stop, Monitoring, Handling,
     Answer, Become, Goto, index, db
<1>3. Saves'
  <2>1. conv[m] \in Convs /\ Answer(m, conv[m]) /\ UNCHANGED row
    BY DEF Places, Stop, Monitoring, Handling, index, db
  <2> QED
    BY <1>2, <2>1, AnswerKeeps DEF Inv
<1>4. Places'
  BY DEF Locals, Places, Agreed, Acts, Stop, Monitoring, Handling, Answer, Become,
     Goto, index, db
<1>5. Agreed'
  BY DEF Locals, Memory, Phases, Terminal, Agreed, Acts, Places, Stop, Monitoring,
     Handling, Answer, Become, Goto, index, db
<1>6. Single'
  BY DEF Locals, Memory, Single, Agreed, Acts, Places, Terminal, Stop, Monitoring,
     Handling, Answer, Become, Goto, index, db
<1>7. Finished'
  BY DEF Locals, Memory, Finished, Places, Terminal, Stop, Monitoring, Handling,
     Answer, Become, Goto, index, db
<1> QED
  BY <1>1, <1>2, <1>3, <1>4, <1>5, <1>6, <1>7

LEMMA AskStatusKeeps ==
  ASSUME Inv, NEW m \in Messages, AskStatus(m)
  PROVE  Inv'
<1> USE FlowAssumption DEF Inv
<1>1. Locals'
  BY DEF Locals, Memory, Places, AskStatus, Monitoring, Handling, Answer, Become,
     Goto, index, db
<1>2. Memory'
  BY DEF Locals, Memory, Places, Phases, Terminal, AskStatus, Monitoring,
     Handling, Answer, Become, Goto, index, db
<1>3. Saves'
  <2>1. conv[m] \in Convs /\ Answer(m, conv[m]) /\ UNCHANGED row
    BY DEF Places, AskStatus, Monitoring, Handling, index, db
  <2> QED
    BY <1>2, <2>1, AnswerKeeps DEF Inv
<1>4. Places'
  BY DEF Locals, Places, Agreed, Acts, AskStatus, Monitoring, Handling, Answer,
     Become, Goto, index, db
<1>5. Agreed'
  BY DEF Locals, Memory, Phases, Terminal, Agreed, Acts, Places, AskStatus,
     Monitoring, Handling, Answer, Become, Goto, index, db
<1>6. Single'
  BY DEF Locals, Memory, Single, Agreed, Acts, Places, Terminal, AskStatus,
     Monitoring, Handling, Answer, Become, Goto, index, db
<1>7. Finished'
  BY DEF Locals, Memory, Finished, Places, Terminal, AskStatus, Monitoring,
     Handling, Answer, Become, Goto, index, db
<1> QED
  BY <1>1, <1>2, <1>3, <1>4, <1>5, <1>6, <1>7

(* A conversation begun in the handler: keep is what becomes of the others. *)
LEMMA BeginKeeps ==
  ASSUME Inv, NEW m \in Messages, Handling(m), NEW c \in Convs, NEW n \in Convs,
         NEW keep \in [Convs -> Phases \cup {"gone"}],
         \A x \in Convs : \/ keep[x] = phase[x]
                          \/ phase[x] \in {"dispatch", "monitor"} /\ keep[x] = "monitor",
         c = n \/ c = conv[m],
         Begin(m, c, n, keep)
  PROVE  Inv'
<1> USE FlowAssumption DEF Inv
<1>a. /\ \/ /\ phase' = [keep EXCEPT ![n] = "understand"]
            /\ UNCHANGED <<on, plan>>
         \/ /\ phase' = [keep EXCEPT ![n] = "confirm"]
            /\ plan' = [plan EXCEPT ![n] = m]
            /\ on' = [on EXCEPT ![m] = n]
      /\ pc' = [pc EXCEPT ![m] = "approvalSave"] \/ pc' = [pc EXCEPT ![m] = "last"]
      /\ conv' = [conv EXCEPT ![m] = c]
      /\ UNCHANGED <<agreed, approved, at, using, row>>
      /\ phase[n] = "none" /\ pc[m] = "handle"
  BY DEF Handling, Begin, Create, Answer, Goto, db
<1>b. ~ Acts(m) /\ using[m] = None /\ on[m] \in Convs
  BY <1>a DEF Places, Acts
<1>1. Locals'
  BY <1>a DEF Locals
<1>2. Memory'
  BY <1>a DEF Memory, Phases
<1>3. Saves'
  <2>1. CASE UNCHANGED snap
    BY <1>a, <2>1 DEF Saves
  <2>2. CASE Answer(m, c)
    BY <1>a, <1>2, <2>2, AnswerKeeps
  <2> QED
    BY <2>1, <2>2 DEF Begin
<1>4. Places'
  BY <1>a, <1>b DEF Locals, Places
<1>5. Agreed'
  <2>1. \A w \in Messages : Acts(w)' => w /= m /\ Acts(w) /\ on'[w] = on[w]
    BY <1>a, <1>b DEF Locals, Acts
  <2>2. \A w \in Messages : Acts(w) => on[w] \in Convs /\ on[w] /= n
    BY <1>a DEF Agreed, Places, Acts, Locals
  <2> QED
    BY <1>a, <2>1, <2>2 DEF Locals, Memory, Agreed
<1>6. Single'
  BY <1>a, <1>b DEF Locals, Single, Acts
<1>7. Finished'
  BY <1>a, <1>b DEF Locals, Memory, Finished
<1> QED
  BY <1>1, <1>2, <1>3, <1>4, <1>5, <1>6, <1>7

LEMMA StartAnotherKeeps ==
  ASSUME Inv, NEW m \in Messages, StartAnother(m)
  PROVE  Inv'
<1> DEFINE keep == [phase EXCEPT ![conv[m]] = "monitor"]
<1>1. Handling(m) /\ conv[m] \in Convs /\ phase[conv[m]] \in {"dispatch", "monitor"}
  BY DEF StartAnother, Monitoring, Handling, Inv, Places
<1>2. PICK n \in Convs : Begin(m, conv[m], n, keep)
  BY DEF StartAnother
<1>3. keep \in [Convs -> Phases \cup {"gone"}]
  BY DEF Inv, Memory, Phases
<1>4. \A x \in Convs : \/ keep[x] = phase[x]
                       \/ phase[x] \in {"dispatch", "monitor"} /\ keep[x] = "monitor"
  BY <1>1 DEF Inv, Memory
<1> HIDE DEF keep
<1> QED
  BY <1>1, <1>2, <1>3, <1>4, BeginKeeps

LEMMA HandleEndedKeeps ==
  ASSUME Inv, NEW m \in Messages, HandleEnded(m)
  PROVE  Inv'
<1>1. PICK n \in Convs : Begin(m, n, n, phase)
  BY DEF HandleEnded
<1>2. Handling(m) /\ phase \in [Convs -> Phases \cup {"gone"}]
  BY DEF HandleEnded, Inv, Memory
<1> QED
  BY <1>1, <1>2, BeginKeeps

LEMMA ApprovalSavedKeeps ==
  ASSUME Inv, NEW m \in Messages, ApprovalSaved(m)
  PROVE  Inv'
<1> USE FlowAssumption DEF Inv
<1>1. Locals'
  BY DEF Locals, Memory, Places, ApprovalSaved, Answer, Goto, convs, index
<1>2. Memory'
  BY DEF Locals, Memory, Places, Phases, Terminal, ApprovalSaved, Answer, Goto,
     convs, index
<1>3. Saves'
  <2>1. conv[m] \in Convs /\ Answer(m, conv[m]) /\ UNCHANGED row
    BY DEF Places, ApprovalSaved, convs, index
  <2> QED
    BY <1>2, <2>1, AnswerKeeps DEF Inv
<1>4. Places'
  BY DEF Locals, Places, Agreed, Acts, ApprovalSaved, Answer, Goto, convs, index
<1>5. Agreed'
  BY DEF Locals, Memory, Phases, Terminal, Agreed, Acts, Places, ApprovalSaved,
     Answer, Goto, convs, index
<1>6. Single'
  BY DEF Locals, Memory, Single, Agreed, Acts, Places, Terminal, ApprovalSaved,
     Answer, Goto, convs, index
<1>7. Finished'
  BY DEF Locals, Memory, Finished, Places, Terminal, ApprovalSaved, Answer, Goto,
     convs, index
<1> QED
  BY <1>1, <1>2, <1>3, <1>4, <1>5, <1>6, <1>7

LEMMA ApprovalUpdatedKeeps ==
  ASSUME Inv, NEW m \in Messages, ApprovalUpdated(m)
  PROVE  Inv'
<1> USE FlowAssumption DEF Inv
<1>1. Locals'
  BY DEF Locals, Memory, Places, ApprovalUpdated, Goto, convs, index
<1>2. Memory'
  BY DEF Locals, Memory, Places, Phases, Terminal, ApprovalUpdated, Goto, convs,
     index
<1>3. Saves'
  BY DEF Inv, Saves, ApprovalUpdated, Goto, convs, index
<1>4. Places'
  BY DEF Locals, Places, Agreed, Acts, ApprovalUpdated, Goto, convs, index
<1>5. Agreed'
  BY DEF Locals, Memory, Phases, Terminal, Agreed, Acts, Places, ApprovalUpdated,
     Goto, convs, index
<1>6. Single'
  BY DEF Locals, Memory, Single, Agreed, Acts, Places, Terminal, ApprovalUpdated,
     Goto, convs, index
<1>7. Finished'
  BY DEF Locals, Memory, Finished, Places, Terminal, ApprovalUpdated, Goto, convs,
     index
<1> QED
  BY <1>1, <1>2, <1>3, <1>4, <1>5, <1>6, <1>7

LEMMA StartStepKeeps ==
  ASSUME Inv, NEW m \in Messages, StartStep(m)
  PROVE  Inv'
<1> USE FlowAssumption DEF Inv
<1>1. Locals'
  BY DEF Locals, Memory, Places, StartStep, Goto, convs, index, db
<1>2. Memory'
  BY DEF Locals, Memory, Places, Phases, Terminal, StartStep, Goto, convs, index, db
<1>3. Saves'
  BY DEF Inv, Saves, StartStep, Goto, convs, index, db
<1>4. Places'
  BY DEF Locals, Places, Agreed, Acts, StartStep, Goto, convs, index, db
<1>5. Agreed'
  BY DEF Locals, Memory, Phases, Terminal, Agreed, Acts, Places, StartStep, Goto,
     convs, index, db
<1>6. Single'
  BY DEF Locals, Memory, Single, Agreed, Acts, Places, Terminal, StartStep, Goto,
     convs, index, db
<1>7. Finished'
  BY DEF Locals, Memory, Finished, Places, Terminal, StartStep, Goto, convs,
     index, db
<1> QED
  BY <1>1, <1>2, <1>3, <1>4, <1>5, <1>6, <1>7

LEMMA FinishDispatchKeeps ==
  ASSUME Inv, NEW m \in Messages, FinishDispatch(m)
  PROVE  Inv'
<1> USE FlowAssumption DEF Inv
<1>1. Locals'
  BY DEF Locals, Memory, Places, FinishDispatch, Answer, Become, Goto, index, db
<1>2. Memory'
  BY DEF Locals, Memory, Places, Phases, Terminal, FinishDispatch, Answer, Become,
     Goto, index, db
<1>3. Saves'
  <2>1. conv[m] \in Convs /\ Answer(m, conv[m]) /\ UNCHANGED row
    BY DEF Places, FinishDispatch, index, db
  <2> QED
    BY <1>2, <2>1, AnswerKeeps DEF Inv
<1>4. Places'
  BY DEF Locals, Places, Agreed, Acts, FinishDispatch, Answer, Become, Goto,
     index, db
<1>5. Agreed'
  BY DEF Locals, Memory, Phases, Terminal, Agreed, Acts, Places, FinishDispatch,
     Answer, Become, Goto, index, db
<1>6. Single'
  BY DEF Locals, Memory, Single, Agreed, Acts, Places, Terminal, FinishDispatch,
     Answer, Become, Goto, index, db
<1>7. Finished'
  BY DEF Locals, Memory, Finished, Places, Terminal, FinishDispatch, Answer,
     Become, Goto, index, db
<1> QED
  BY <1>1, <1>2, <1>3, <1>4, <1>5, <1>6, <1>7

LEMMA AgeKeeps ==
  ASSUME Inv, NEW c \in Convs, Age(c)
  PROVE  Inv'
<1> USE FlowAssumption DEF Inv
<1>1. Locals'
  BY DEF Locals, Memory, Places, Age, calls, convs, db
<1>2. Memory'
  BY DEF Locals, Memory, Places, Phases, Terminal, Age, calls, convs, db
<1>3. Saves'
  BY DEF Inv, Saves, Age, calls, convs, db
<1>4. Places'
  BY DEF Locals, Places, Agreed, Acts, Age, calls, convs, db
<1>5. Agreed'
  BY DEF Locals, Memory, Phases, Terminal, Agreed, Acts, Places, Age, calls,
     convs, db
<1>6. Single'
  BY DEF Locals, Memory, Single, Agreed, Acts, Places, Terminal, Age, calls,
     convs, db
<1>7. Finished'
  BY DEF Locals, Memory, Finished, Places, Terminal, Age, calls, convs, db
<1> QED
  BY <1>1, <1>2, <1>3, <1>4, <1>5, <1>6, <1>7

LEMMA RestartKeeps ==
  ASSUME Inv, Restart
  PROVE  Inv'
<1> USE FlowAssumption DEF Inv
<1>1. Locals'
  BY DEF Locals, Memory, Places, Restart, Loadable, Unborn
<1>2. Memory'
  BY DEF Locals, Memory, Saves, Saved, Places, Agreed, Phases, Terminal, Restart,
     Loadable, Unborn
<1>3. Saves'
  <2>1. Unborn \in Saved
    BY DEF Unborn, Saved, Phases
  <2> QED
    BY <2>1 DEF Inv, Saves, Restart
<1>4. Places'
  BY DEF Locals, Places, Agreed, Acts, Restart, Loadable, Unborn
<1>5. Agreed'
  BY DEF Locals, Memory, Phases, Terminal, Agreed, Acts, Places, Restart,
     Loadable, Unborn
<1>6. Single'
  BY DEF Locals, Memory, Single, Agreed, Acts, Places, Terminal, Restart,
     Loadable, Unborn
<1>7. Finished'
  BY DEF Locals, Memory, Finished, Places, Terminal, Restart, Loadable, Unborn
<1> QED
  BY <1>1, <1>2, <1>3, <1>4, <1>5, <1>6, <1>7

LEMMA StepKeeps == Inv /\ [Next]_vars => Inv'
<1> SUFFICES ASSUME Inv, [Next]_vars PROVE Inv'
  OBVIOUS
<1>1. ASSUME NEW m \in Messages, Call(m) PROVE Inv'
  <2>1. CASE Receive(m)
    BY <2>1, ReceiveKeeps
  <2>2. CASE Commit(m)
    BY <2>2, CommitKeeps
  <2>3. CASE HandleIntake(m)
    BY <2>3, HandleIntakeKeeps
  <2>4. CASE SayYes(m)
    BY <2>4, SayYesKeeps
  <2>5. CASE SayNo(m)
    BY <2>5, SayNoKeeps
  <2>6. CASE AskWhatToModify(m)
    BY <2>6, AskWhatToModifyKeeps
  <2>7. CASE Replan(m)
    BY <2>7, ReplanKeeps
  <2>8. CASE Stop(m)
    BY <2>8, StopKeeps
  <2>9. CASE AskStatus(m)
    BY <2>9, AskStatusKeeps
  <2>10. CASE StartAnother(m)
    BY <2>10, StartAnotherKeeps
  <2>11. CASE HandleEnded(m)
    BY <2>11, HandleEndedKeeps
  <2>12. CASE ApprovalSaved(m)
    BY <2>12, ApprovalSavedKeeps
  <2>13. CASE ApprovalUpdated(m)
    BY <2>13, ApprovalUpdatedKeeps
  <2>14. CASE StartStep(m)
    BY <2>14, StartStepKeeps
  <2>15. CASE FinishDispatch(m)
    BY <2>15, FinishDispatchKeeps
  <2> QED
    BY <1>1, <2>1, <2>2, <2>3, <2>4, <2>5, <2>6, <2>7, <2>8, <2>9, <2>10, <2>11,
       <2>12, <2>13, <2>14, <2>15 DEF Call
<1>2. ASSUME NEW c \in Convs, Age(c) PROVE Inv'
  BY <1>2, AgeKeeps
<1>3. CASE Restart
  BY <1>3, RestartKeeps
<1>4. CASE UNCHANGED vars
  BY <1>4 DEF vars, calls, convs, index, db, Inv, Locals, Memory, Saves,
              Places, Agreed, Acts, Single, Finished
<1> QED
  BY <1>1, <1>2, <1>3, <1>4 DEF Next

LEMMA Always == Spec => []Inv
  BY InitHolds, StepKeeps, PTL DEF Spec

(* Two overlapping messages never both dispatch one conversation. *)
THEOREM DispatchesOnce == Spec => []DispatchedOnce
<1>1. Inv => DispatchedOnce
  BY DEF Inv, Single, Acts, DispatchedOnce
<1> QED  BY <1>1, Always, PTL

(* The plan that is dispatched is the one the yes was about, although it is
   read again after an await (_dispatch_tasks). *)
THEOREM DispatchesTheAgreedPlan == Spec => []ApprovedPlanRuns
<1>1. Inv => ApprovedPlanRuns
  BY DEF Inv, Locals, Agreed, Acts, ApprovedPlanRuns
<1> QED  BY <1>1, Always, PTL

(* A COMPLETED conversation has run every step of its plan. *)
THEOREM CompletedWasRun == Spec => []CompletedIsTrue
<1>1. Inv => CompletedIsTrue
  BY DEF Inv, Finished, CompletedIsTrue
<1> QED  BY <1>1, Always, PTL
=============================================================================
