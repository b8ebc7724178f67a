------------------------------ MODULE AutoDev ------------------------------
(***************************************************************************)
(* The AutoDev pipeline: runs (autodev/orchestrator.py), their approval    *)
(* requests (approval_queue.py), the daily budget                          *)
(* (rate_budget_tracker.py) and the worktrees (sandbox_worktree.py),       *)
(* reached through api/routes/autodev.py.                                  *)
(*                                                                         *)
(* The routes are coroutines with no await in them, and the orchestrator   *)
(* is synchronous: a request is one action, and building, verifying and    *)
(* merging are seen from outside only when a cleanup raised in them.       *)
(* Runs, requests and counters live in the process; worktrees and branches *)
(* are on the disk, where git, which is external, may fail at any command. *)
(***************************************************************************)
EXTENDS Naturals, FiniteSets

CONSTANTS
  Runs,        \* run ids, each used once (uuid4)
  MaxRuns,     \* BudgetLimits.max_runs_per_day
  MaxMedium    \* BudgetLimits.max_medium_plus_proposals_per_day

ASSUME LimitsAssumption == MaxRuns \in Nat /\ MaxMedium \in Nat

VARIABLES
  st,          \* st[r]: AutoDevRun.state
  risk,        \* risk[r]: risk_assessment.risk_level, "low" or "medium" and up
  req,         \* req[r]: ApprovalRequest.state of appr-<r>
  expired,     \* the requests whose expires_at has passed
  worktree,    \* the runs whose directory exists; it holds the diff
  branch,      \* the runs whose autodev/<r> branch exists
  botched,     \* history variable: the runs for which a git command failed,
               \* left something behind, and was not heard
  usage,       \* DailyUsage
  open         \* the flag is on and the kill switch is inactive

disk == <<worktree, branch, botched>>
approvals == <<req, expired>>
vars == <<st, risk, approvals, disk, usage, open>>

Terminal == {"merged", "rejected", "failed", "cancelled"}
FreshUsage == [runs_started |-> 0, low_risk_merges |-> 0, medium_plus |-> 0]

Init ==
  /\ st = [r \in Runs |-> "none"]
  /\ risk = [r \in Runs |-> "none"]
  /\ req = [r \in Runs |-> "none"]
  /\ expired = {}
  /\ worktree = {} /\ branch = {} /\ botched = {}
  /\ usage = FreshUsage
  /\ open = TRUE

Become(r, s) == st' = [st EXCEPT ![r] = s]

Request(r, s) == req' = [req EXCEPT ![r] = s]

\* SandboxWorktree.cleanup of a run, from these directories and branches.  It
\* does not look at the exit codes of git (check=False): the directory, with
\* the diff in it, and the branch are gone or not, and the handle is marked.
Cleanup(r, dirs, refs, keepBranch) ==
  /\ worktree' \in {dirs, dirs \ {r}}
  /\ branch' \in IF keepBranch THEN {refs} ELSE {refs, refs \ {r}}
  /\ botched' = IF r \in worktree' \/ (~keepBranch /\ r \in branch')
                THEN botched \cup {r} ELSE botched

\* It raises, because git cannot be started; the handle is not marked, and the
\* caller is left before it records the transition.
CleanupRaises(r, dirs, refs) ==
  /\ worktree' \in {dirs, dirs \ {r}}
  /\ branch' = refs
  /\ UNCHANGED botched

CanStart == usage.runs_started < MaxRuns

Propose(r) ==
  /\ open
  /\ st[r] = "none"
  /\ CanStart
  /\ Become(r, "proposed")
  /\ usage' = [usage EXCEPT !.runs_started = @ + 1]
  /\ UNCHANGED <<risk, approvals, disk, open>>

Building(r) == open /\ st[r] = "proposed"

\* git worktree add -b fails, after it has made a branch or a directory or
\* before: without a handle nobody will remove them.
CreateFails(r) ==
  /\ Building(r)
  /\ worktree' \in {worktree, worktree \cup {r}}
  /\ branch' \in {branch, branch \cup {r}}
  /\ botched' = IF r \in worktree' \cup branch' THEN botched \cup {r} ELSE botched
  /\ Become(r, "failed")
  /\ UNCHANGED <<risk, approvals, usage, open>>

\* A mutated form of Discard: the transition is recorded before the cleanup.
Discard_RecordsFirst(r, s) ==
  /\ Building(r)
  /\ LET dirs == worktree \cup {r}  refs == branch \cup {r} IN
       Cleanup(r, dirs, refs, FALSE) \/ CleanupRaises(r, dirs, refs)
  /\ Become(r, s)
  /\ UNCHANGED <<approvals, open>>

\* A worktree and its branch are added, and cleaned up in the same request.  A
\* cleanup that raises leaves the run where it was, building or verifying.
Discard(r, s) ==
  /\ Building(r)
  /\ LET dirs == worktree \cup {r}  refs == branch \cup {r} IN
       \/ Cleanup(r, dirs, refs, FALSE) /\ Become(r, s)
       \/ CleanupRaises(r, dirs, refs) /\ Become(r, "building")
  /\ UNCHANGED <<approvals, open>>

\* The diff does not apply, a stage raises, or the verification fails.
BuildFails(r) ==
  /\ Discard(r, "failed")
  /\ \E l \in {"none", "low", "medium"} : risk' = [risk EXCEPT ![r] = l]
  /\ UNCHANGED usage

RiskRejects(r) ==
  /\ Discard(r, "rejected")
  /\ risk' = [risk EXCEPT ![r] = "medium"]
  /\ UNCHANGED usage

CanSubmitMedium == usage.medium_plus < MaxMedium

OverBudget(r) ==
  /\ ~CanSubmitMedium
  /\ Discard(r, "rejected")
  /\ risk' = [risk EXCEPT ![r] = "medium"]
  /\ UNCHANGED usage

\* ApprovalQueue.submit: a low risk is approved at once.
Submit(r, level) ==
  /\ Building(r)
  /\ risk' = [risk EXCEPT ![r] = level]
  /\ worktree' = worktree \cup {r} /\ branch' = branch \cup {r}
  /\ Request(r, IF level = "low" THEN "auto_approved" ELSE "pending")
  /\ Become(r, IF level = "low" THEN "approved" ELSE "awaiting_approval")
  /\ UNCHANGED <<expired, botched, open>>

SubmitLow(r) == Submit(r, "low") /\ UNCHANGED usage

SubmitMedium(r) ==
  /\ CanSubmitMedium
  /\ Submit(r, "medium")
  /\ usage' = [usage EXCEPT !.medium_plus = @ + 1]

\* A mutated form of Resolve: the answer of the queue is not looked at.
Resolve_AnyRequest(r, decision) ==
  /\ open
  /\ st[r] = "awaiting_approval"
  /\ req' = [req EXCEPT ![r] = IF @ = "pending" THEN decision ELSE @]
  /\ UNCHANGED <<expired, risk, usage, open>>

\* ApprovalQueue._resolve: a request that is over cannot be decided again.
Resolve(r, decision) ==
  /\ open
  /\ st[r] = "awaiting_approval"
  /\ req[r] = "pending"
  /\ Request(r, decision)
  /\ UNCHANGED <<expired, risk, usage, open>>

\* The deadline is not read: an expired request nobody swept is approved.
Approve(r) == Resolve(r, "approved") /\ Become(r, "approved") /\ UNCHANGED disk

\* The request is decided before the cleanup: when that raises, a rejected
\* request has a run that still waits for it.
Reject(r) ==
  /\ Resolve(r, "rejected")
  /\ \/ Cleanup(r, worktree, branch, FALSE) /\ Become(r, "rejected")
     \/ CleanupRaises(r, worktree, branch) /\ UNCHANGED st

FinalizeMerge(r) ==
  /\ open
  /\ st[r] = "approved"
  /\ \/ /\ Cleanup(r, worktree, branch, TRUE)
        /\ Become(r, "merged")
        /\ usage' = [usage EXCEPT
             !.low_risk_merges = @ + (IF risk[r] = "low" THEN 1 ELSE 0)]
     \/ /\ CleanupRaises(r, worktree, branch)
        /\ Become(r, "merging")
        /\ UNCHANGED usage
  /\ UNCHANGED <<risk, approvals, open>>

\* The request of the run is left as it is.  A proposed run has no handle, so
\* there is nothing to clean; a cleanup that raises can be tried again.
Cancel(r) ==
  /\ open
  /\ st[r] \notin Terminal \cup {"none", "forgotten"}
  /\ \/ st[r] = "proposed" /\ UNCHANGED disk /\ Become(r, "cancelled")
     \/ /\ st[r] # "proposed"
        /\ \/ Cleanup(r, worktree, branch, FALSE) /\ Become(r, "cancelled")
           \/ CleanupRaises(r, worktree, branch) /\ UNCHANGED st
  /\ UNCHANGED <<risk, approvals, usage, open>>

\* Time passes a request's deadline.
Expire(r) ==
  /\ req[r] = "pending"
  /\ expired' = expired \cup {r}
  /\ UNCHANGED <<st, risk, req, disk, usage, open>>

\* Only GET /daily-check sweeps, and the runs are not told.
CleanupExpired ==
  /\ req' = [r \in Runs |->
               IF req[r] = "pending" /\ r \in expired THEN "timeout" ELSE req[r]]
  /\ UNCHANGED <<st, risk, expired, disk, usage, open>>

\* Midnight, as the next _rollover_if_needed sees it.
NewDay ==
  /\ usage' = FreshUsage
  /\ UNCHANGED <<st, risk, approvals, disk, open>>

\* The flag l6.autodev.enabled or the kill switch changes.
ToggleOpen ==
  /\ open' = ~open
  /\ UNCHANGED <<st, risk, approvals, disk, usage>>

\* The process restarts: the disk alone is kept.
Restart ==
  /\ st' = [r \in Runs |-> IF st[r] = "none" THEN "none" ELSE "forgotten"]
  /\ risk' = [r \in Runs |-> "none"]
  /\ req' = [r \in Runs |-> "none"]
  /\ expired' = {}
  /\ usage' = FreshUsage
  /\ UNCHANGED <<disk, open>>

Next ==
  \/ \E r \in Runs :
       \/ Propose(r) \/ CreateFails(r) \/ BuildFails(r)
       \/ RiskRejects(r) \/ OverBudget(r) \/ SubmitLow(r) \/ SubmitMedium(r)
       \/ Approve(r) \/ Reject(r) \/ FinalizeMerge(r) \/ Cancel(r) \/ Expire(r)
  \/ CleanupExpired \/ NewDay \/ ToggleOpen \/ Restart

Spec == Init /\ [][Next]_vars

-----------------------------------------------------------------------------
(* Every variable keeps its type (the fields of AutoDevRun, ApprovalRequest
   and DailyUsage); the counters of the day stay within its limits. *)
TypeOK ==
  /\ st \in [Runs -> Terminal \cup
       {"none", "proposed", "building", "awaiting_approval", "approved",
        "merging", "forgotten"}]
  /\ risk \in [Runs -> {"none", "low", "medium"}]
  /\ req \in [Runs -> {"none", "pending", "approved", "auto_approved",
                       "rejected", "timeout"}]
  /\ expired \subseteq Runs
  /\ worktree \subseteq Runs /\ branch \subseteq Runs /\ botched \subseteq Runs
  /\ usage \in [runs_started : 0 .. MaxRuns, low_risk_merges : Nat,
               medium_plus : 0 .. MaxMedium]
  /\ open \in BOOLEAN

(* The run and its request tell one story, though they are kept in two places
   and decided by resolve_approval, cancel and the sweep of expired requests in
   any order, and a cleanup may raise between the two records of a rejection: a
   run is approved or merged only by a request that is, a medium risk by a
   human; a swept or rejected request never approves its run afterwards; and a
   decision taken in the queue is the run's, unless it was cancelled. *)
RunMatchesRequest ==
  \A r \in Runs :
    /\ st[r] \in {"approved", "merging", "merged"} =>
         req[r] = IF risk[r] = "low" THEN "auto_approved" ELSE "approved"
    /\ st[r] = "awaiting_approval" => req[r] \in {"pending", "timeout", "rejected"}
    /\ req[r] \in {"approved", "auto_approved"} =>
         st[r] \in {"approved", "merging", "merged", "cancelled"}
    /\ req[r] = "rejected" =>
         st[r] \in {"awaiting_approval", "rejected", "cancelled"}

(* Whatever way a run ends, what it leaves on the disk is the branch of a merged
   run, or was left by a git command that failed unheard: cleanup is called on
   seven paths of execute_build_and_verify, by resolve_approval, finalize_merge
   and cancel, and one that raises leaves the run open, so that a cancellation
   cleans up again.  A merged run has its branch whatever fails, and so has every
   run that may still be merged. *)
NothingLeftBehind ==
  \A r \in Runs :
    /\ st[r] \in Terminal /\ r \notin botched =>
         /\ r \notin worktree
         /\ r \in branch => st[r] = "merged"
    /\ st[r] \in {"awaiting_approval", "approved", "merging", "merged"} => r \in branch
=============================================================================
