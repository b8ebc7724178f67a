--------------------------- MODULE AutoDevProofs ---------------------------
(***************************************************************************)
(* Proofs about AutoDev for any set of runs and any daily limits: what the *)
(* run, its request, its worktree and its branch say agrees.               *)
(***************************************************************************)
EXTENDS AutoDev, TLAPS

(* What the properties rest on: a run that has not been submitted has no
   request, one that has not been built has no worktree and no branch, and only
   a medium risk waits for a human. *)
Early ==
  \A r \in Runs :
    /\ st[r] \in {"none", "proposed", "building", "forgotten"} => req[r] = "none"
    /\ st[r] \in {"none", "proposed"} => r \notin worktree /\ r \notin branch
    /\ st[r] = "awaiting_approval" => risk[r] = "medium"

Inv == TypeOK /\ RunMatchesRequest /\ NothingLeftBehind /\ Early

-----------------------------------------------------------------------------
LEMMA InitHolds == Init => Inv
  BY LimitsAssumption
  DEF Init, Inv, TypeOK, RunMatchesRequest, NothingLeftBehind, Early, Terminal, FreshUsage

(* A build that comes to nothing: BuildFails, RiskRejects, OverBudget. *)
LEMMA DiscardKeeps ==
  ASSUME Inv, NEW r \in Runs, NEW s \in {"failed", "rejected"}, Discard(r, s),
         NEW l \in {"none", "low", "medium"}, risk' = [risk EXCEPT ![r] = l],
         UNCHANGED usage
  PROVE  Inv'
<1> USE DEF Discard, Cleanup, CleanupRaises, Building, Become, approvals
<1>1. TypeOK'
  BY DEF Inv, TypeOK, Terminal
<1>2. RunMatchesRequest'
  BY DEF Inv, TypeOK, Terminal, RunMatchesRequest, Early
<1>3. NothingLeftBehind'
  BY DEF Inv, TypeOK, Terminal, NothingLeftBehind, Early
<1>4. Early'
  BY DEF Inv, TypeOK, Terminal, Early, RunMatchesRequest
<1> QED  BY <1>1, <1>2, <1>3, <1>4 DEF Inv

LEMMA ProposeKeeps ==
  ASSUME Inv, NEW r \in Runs, Propose(r)
  PROVE  Inv'
<1> USE LimitsAssumption DEF Propose, CanStart, Become, approvals, disk
<1>1. TypeOK'
  BY DEF Inv, TypeOK, Terminal
<1>2. RunMatchesRequest'
  BY DEF Inv, TypeOK, Terminal, RunMatchesRequest, Early
<1>3. NothingLeftBehind'
  BY DEF Inv, TypeOK, Terminal, NothingLeftBehind, Early
<1>4. Early'
  BY DEF Inv, TypeOK, Terminal, Early, RunMatchesRequest
<1> QED  BY <1>1, <1>2, <1>3, <1>4 DEF Inv

LEMMA CreateFailsKeeps ==
  ASSUME Inv, NEW r \in Runs, CreateFails(r)
  PROVE  Inv'
<1> USE LimitsAssumption DEF CreateFails, Building, Become, approvals, disk
<1>1. TypeOK'
  BY DEF Inv, TypeOK, Terminal
<1>2. RunMatchesRequest'
  BY DEF Inv, TypeOK, Terminal, RunMatchesRequest, Early
<1>3. NothingLeftBehind'
  BY DEF Inv, TypeOK, Terminal, NothingLeftBehind, Early
<1>4. Early'
  BY DEF Inv, TypeOK, Terminal, Early, RunMatchesRequest
<1> QED  BY <1>1, <1>2, <1>3, <1>4 DEF Inv

LEMMA SubmitLowKeeps ==
  ASSUME Inv, NEW r \in Runs, SubmitLow(r)
  PROVE  Inv'
<1> USE LimitsAssumption DEF SubmitLow, Submit, Building, Request, Become, approvals, disk
<1>1. TypeOK'
  BY DEF Inv, TypeOK, Terminal
<1>2. RunMatchesRequest'
  BY DEF Inv, TypeOK, Terminal, RunMatchesRequest, Early
<1>3. NothingLeftBehind'
  BY DEF Inv, TypeOK, Terminal, NothingLeftBehind, Early
<1>4. Early'
  BY DEF Inv, TypeOK, Terminal, Early, RunMatchesRequest
<1> QED  BY <1>1, <1>2, <1>3, <1>4 DEF Inv

LEMMA SubmitMediumKeeps ==
  ASSUME Inv, NEW r \in Runs, SubmitMedium(r)
  PROVE  Inv'
<1> USE LimitsAssumption
    DEF SubmitMedium, CanSubmitMedium, Submit, Building, Request, Become, approvals, disk
<1>1. TypeOK'
  BY DEF Inv, TypeOK, Terminal
<1>2. RunMatchesRequest'
  BY DEF Inv, TypeOK, Terminal, RunMatchesRequest, Early
<1>3. NothingLeftBehind'
  BY DEF Inv, TypeOK, Terminal, NothingLeftBehind, Early
<1>4. Early'
  BY DEF Inv, TypeOK, Terminal, Early, RunMatchesRequest
<1> QED  BY <1>1, <1>2, <1>3, <1>4 DEF Inv

LEMMA ApproveKeeps ==
  ASSUME Inv, NEW r \in Runs, Approve(r)
  PROVE  Inv'
<1> USE LimitsAssumption DEF Approve, Resolve, Request, Become, approvals, disk
<1>1. TypeOK'
  BY DEF Inv, TypeOK, Terminal
<1>2. RunMatchesRequest'
  BY DEF Inv, TypeOK, Terminal, RunMatchesRequest, Early
<1>3. NothingLeftBehind'
  BY DEF Inv, TypeOK, Terminal, NothingLeftBehind, Early
<1>4. Early'
  BY DEF Inv, TypeOK, Terminal, Early, RunMatchesRequest
<1> QED  BY <1>1, <1>2, <1>3, <1>4 DEF Inv

LEMMA RejectKeeps ==
  ASSUME Inv, NEW r \in Runs, Reject(r)
  PROVE  Inv'
<1> USE LimitsAssumption DEF Reject, Resolve, Request, Become, Cleanup, CleanupRaises, approvals, disk
<1>1. TypeOK'
  BY DEF Inv, TypeOK, Terminal
<1>2. RunMatchesRequest'
  BY DEF Inv, TypeOK, Terminal, RunMatchesRequest, Early
<1>3. NothingLeftBehind'
  BY DEF Inv, TypeOK, Terminal, NothingLeftBehind, Early
<1>4. Early'
  BY DEF Inv, TypeOK, Terminal, Early, RunMatchesRequest
<1> QED  BY <1>1, <1>2, <1>3, <1>4 DEF Inv

LEMMA FinalizeMergeKeeps ==
  ASSUME Inv, NEW r \in Runs, FinalizeMerge(r)
  PROVE  Inv'
<1> USE LimitsAssumption DEF FinalizeMerge, Become, Cleanup, CleanupRaises, approvals, disk
<1>1. TypeOK'
  BY DEF Inv, TypeOK, Terminal
<1>2. RunMatchesRequest'
  BY DEF Inv, TypeOK, Terminal, RunMatchesRequest, Early
<1>3. NothingLeftBehind'
  BY DEF Inv, TypeOK, Terminal, NothingLeftBehind, Early
<1>4. Early'
  BY DEF Inv, TypeOK, Terminal, Early, RunMatchesRequest
<1> QED  BY <1>1, <1>2, <1>3, <1>4 DEF Inv

LEMMA CancelKeeps ==
  ASSUME Inv, NEW r \in Runs, Cancel(r)
  PROVE  Inv'
<1> USE LimitsAssumption DEF Cancel, Become, Cleanup, CleanupRaises, approvals, disk
<1>1. TypeOK'
  BY DEF Inv, TypeOK, Terminal
<1>2. RunMatchesRequest'
  BY DEF Inv, TypeOK, Terminal, RunMatchesRequest, Early
<1>3. NothingLeftBehind'
  BY DEF Inv, TypeOK, Terminal, NothingLeftBehind, Early
<1>4. Early'
  BY DEF Inv, TypeOK, Terminal, Early, RunMatchesRequest
<1> QED  BY <1>1, <1>2, <1>3, <1>4 DEF Inv

LEMMA ExpireKeeps ==
  ASSUME Inv, NEW r \in Runs, Expire(r)
  PROVE  Inv'
<1> USE LimitsAssumption DEF Expire, approvals, disk
<1>1. TypeOK'
  BY DEF Inv, TypeOK, Terminal
<1>2. RunMatchesRequest'
  BY DEF Inv, TypeOK, Terminal, RunMatchesRequest, Early
<1>3. NothingLeftBehind'
  BY DEF Inv, TypeOK, Terminal, NothingLeftBehind, Early
<1>4. Early'
  BY DEF Inv, TypeOK, Terminal, Early, RunMatchesRequest
<1> QED  BY <1>1, <1>2, <1>3, <1>4 DEF Inv

LEMMA CleanupExpiredKeeps ==
  ASSUME Inv, CleanupExpired
  PROVE  Inv'
<1> USE LimitsAssumption DEF CleanupExpired, approvals, disk
<1>1. TypeOK'
  BY DEF Inv, TypeOK, Terminal
<1>2. RunMatchesRequest'
  BY DEF Inv, TypeOK, Terminal, RunMatchesRequest, Early
<1>3. NothingLeftBehind'
  BY DEF Inv, TypeOK, Terminal, NothingLeftBehind, Early
<1>4. Early'
  BY DEF Inv, TypeOK, Terminal, Early, RunMatchesRequest
<1> QED  BY <1>1, <1>2, <1>3, <1>4 DEF Inv

LEMMA NewDayKeeps ==
  ASSUME Inv, NewDay
  PROVE  Inv'
<1> USE LimitsAssumption DEF NewDay, FreshUsage, approvals, disk
<1>1. TypeOK'
  BY DEF Inv, TypeOK, Terminal
<1>2. RunMatchesRequest'
  BY DEF Inv, TypeOK, Terminal, RunMatchesRequest, Early
<1>3. NothingLeftBehind'
  BY DEF Inv, TypeOK, Terminal, NothingLeftBehind, Early
<1>4. Early'
  BY DEF Inv, TypeOK, Terminal, Early, RunMatchesRequest
<1> QED  BY <1>1, <1>2, <1>3, <1>4 DEF Inv

LEMMA ToggleOpenKeeps ==
  ASSUME Inv, ToggleOpen
  PROVE  Inv'
<1> USE LimitsAssumption DEF ToggleOpen, approvals, disk
<1>1. TypeOK'
  BY DEF Inv, TypeOK, Terminal
<1>2. RunMatchesRequest'
  BY DEF Inv, TypeOK, Terminal, RunMatchesRequest, Early
<1>3. NothingLeftBehind'
  BY DEF Inv, TypeOK, Terminal, NothingLeftBehind, Early
<1>4. Early'
  BY DEF Inv, TypeOK, Terminal, Early, RunMatchesRequest
<1> QED  BY <1>1, <1>2, <1>3, <1>4 DEF Inv

LEMMA RestartKeeps ==
  ASSUME Inv, Restart
  PROVE  Inv'
<1> USE LimitsAssumption DEF Restart, FreshUsage, approvals, disk
<1>1. TypeOK'
  BY DEF Inv, TypeOK, Terminal
<1>2. RunMatchesRequest'
  BY DEF Inv, TypeOK, Terminal, RunMatchesRequest, Early
<1>3. NothingLeftBehind'
  BY DEF Inv, TypeOK, Terminal, NothingLeftBehind, Early
<1>4. Early'
  BY DEF Inv, TypeOK, Terminal, Early, RunMatchesRequest
<1> QED  BY <1>1, <1>2, <1>3, <1>4 DEF Inv

LEMMA StepKeeps == Inv /\ [Next]_vars => Inv'
<1> SUFFICES ASSUME Inv, [Next]_vars PROVE Inv'
  OBVIOUS
<1>1. ASSUME NEW r \in Runs, Propose(r) PROVE Inv'
  BY <1>1, ProposeKeeps
<1>2. ASSUME NEW r \in Runs, CreateFails(r) PROVE Inv'
  BY <1>2, CreateFailsKeeps
<1>3. ASSUME NEW r \in Runs, SubmitLow(r) PROVE Inv'
  BY <1>3, SubmitLowKeeps
<1>4. ASSUME NEW r \in Runs, SubmitMedium(r) PROVE Inv'
  BY <1>4, SubmitMediumKeeps
<1>5. ASSUME NEW r \in Runs, Approve(r) PROVE Inv'
  BY <1>5, ApproveKeeps
<1>6. ASSUME NEW r \in Runs, Reject(r) PROVE Inv'
  BY <1>6, RejectKeeps
<1>7. ASSUME NEW r \in Runs, FinalizeMerge(r) PROVE Inv'
  BY <1>7, FinalizeMergeKeeps
<1>8. ASSUME NEW r \in Runs, Cancel(r) PROVE Inv'
  BY <1>8, CancelKeeps
<1>9. ASSUME NEW r \in Runs, Expire(r) PROVE Inv'
  BY <1>9, ExpireKeeps
<1>10. ASSUME NEW r \in Runs, BuildFails(r) PROVE Inv'
  BY <1>10, DiscardKeeps DEF BuildFails
<1>11. ASSUME NEW r \in Runs, RiskRejects(r) PROVE Inv'
  BY <1>11, DiscardKeeps DEF RiskRejects
<1>12. ASSUME NEW r \in Runs, OverBudget(r) PROVE Inv'
  BY <1>12, DiscardKeeps DEF OverBudget
<1>13. CASE CleanupExpired
  BY <1>13, CleanupExpiredKeeps
<1>14. CASE NewDay
  BY <1>14, NewDayKeeps
<1>15. CASE ToggleOpen
  BY <1>15, ToggleOpenKeeps
<1>16. CASE Restart
  BY <1>16, RestartKeeps
<1>17. CASE UNCHANGED vars
  BY <1>17
     DEF vars, approvals, disk, Inv, TypeOK, RunMatchesRequest, NothingLeftBehind, Early
<1> QED
  BY <1>1, <1>2, <1>3, <1>4, <1>5, <1>6, <1>7, <1>8, <1>9, <1>10, <1>11, <1>12, <1>13,
     <1>14, <1>15, <1>16, <1>17 DEF Next

LEMMA Always == Spec => []Inv
  BY InitHolds, StepKeeps, PTL DEF Spec

(* Every variable keeps its type and the counters of a day stay within the
   daily limits, for any limits (rate_budget_tracker.py). *)
THEOREM TypeCorrect == Spec => []TypeOK
  BY Always, PTL DEF Inv

(* A run is approved or merged only by its request, above a low risk by a
   human, and no swept, rejected or cancelled request is overruled
   (approval_queue.py, resolve_approval). *)
THEOREM RunsMatchRequests == Spec => []RunMatchesRequest
  BY Always, PTL DEF Inv

(* Whatever a run that is over has left on the disk is the branch of a merged run,
   or was left by a git command that failed unheard; no interrupted cleanup is
   forgotten; and what is or may be merged has its branch
   (SandboxWorktree.cleanup and its callers in autodev/orchestrator.py). *)
THEOREM NothingIsLeftBehind == Spec => []NothingLeftBehind
  BY Always, PTL DEF Inv
=============================================================================
