--------------------------- MODULE RedisKillSwitch ---------------------------
(***************************************************************************)
(* The kill switch shared by the worker processes through Redis            *)
(* (evaluation/kill_switch_redis.py), each worker's in-memory mirror       *)
(* (evaluation/kill_switch.py), the governance routes that flip only the   *)
(* mirror, and the two checks at the entry of Pipeline.run.                *)
(*                                                                         *)
(* Workers are processes: an action is one Redis command of one worker     *)
(* with the code up to its next one.  A worker executes one operation at a *)
(* time (the commands block its event loop).                               *)
(***************************************************************************)
EXTENDS Integers, Sequences, FiniteSets

CONSTANTS
  Workers,
  HistoryCap,   \* HISTORY_CAP
  MaxFaults,    \* bound: Redis commands that fail
  MaxRestarts   \* bound: worker restarts

ASSUME RedisAssumption ==
  /\ IsFiniteSet(Workers)
  /\ HistoryCap \in Nat \ {0}
  /\ MaxFaults \in Nat /\ MaxRestarts \in Nat

VARIABLES
  record,     \* the key occp:agent:halt holds an ACTIVE record
  log,        \* Len of the list occp:agent:halt:history
  available,  \* available[w]: RedisKillSwitch._available
  mem,        \* mem[w]: the state of the in-memory switch of w
  cmd,        \* cmd[w]: the Redis command w is about to send, or "idle"
  op,         \* op[w]: the operation w executes: "activate", "stored" once its
              \* record is in Redis, "overlapped" if some deactivate overlaps it
  verdict,    \* verdict[w]: what the entry check of w's last run answered
  standing,   \* activate() has stored a stop and returned, and no deactivation
              \* overlapped it or has begun since
  faults, restarts   \* what was used of the bounds

shared == <<record, log>>
budget == <<faults, restarts>>
switchVars == <<shared, available, mem, cmd, op, verdict, standing, budget>>

Commands == {"idle", "set", "get", "del", "push", "trim", "mirror"}

SwitchInit ==
  /\ record = FALSE /\ log = 0
  /\ available = [w \in Workers |-> TRUE]
  /\ mem = [w \in Workers |-> "inactive"]
  /\ cmd = [w \in Workers |-> "idle"]
  /\ op = [w \in Workers |-> "none"]
  /\ verdict = [w \in Workers |-> "none"]
  /\ standing = FALSE
  /\ faults = 0 /\ restarts = 0

Goto(w, command) == cmd' = [cmd EXCEPT ![w] = command]

\* _safe_call raises: the exception is logged and this worker never asks Redis
\* again.
Fault(w) ==
  /\ available[w] /\ faults < MaxFaults
  /\ faults' = faults + 1
  /\ available' = [available EXCEPT ![w] = FALSE]

NoFault == UNCHANGED <<available, faults>>

\* Some worker is executing deactivate.
Clearing == \E v \in Workers : op[v] = "deactivate"

-----------------------------------------------------------------------------
(* The operations of RedisKillSwitch.                                      *)

Begin(w) ==
  /\ cmd[w] = "idle"
  /\ \/ /\ op' = [op EXCEPT ![w] = IF Clearing THEN "overlapped" ELSE "activate"]
        /\ Goto(w, "set") /\ UNCHANGED standing
     \/ /\ op' = [v \in Workers |-> IF v = w THEN "deactivate"
                                    ELSE IF op[v] \in {"activate", "stored"} THEN "overlapped"
                                    ELSE op[v]]
        /\ Goto(w, "get") /\ standing' = FALSE
  /\ UNCHANGED <<shared, available, mem, verdict, budget>>

\* activate: SET halt.  A command that times out may have been carried out.
SetHalt(w) ==
  /\ cmd[w] = "set"
  /\ \/ /\ available[w] /\ NoFault /\ record' = TRUE /\ Goto(w, "push")
        /\ op' = [op EXCEPT ![w] = IF @ = "activate" THEN "stored" ELSE @]
     \/ ~available[w] /\ NoFault /\ UNCHANGED <<record, op>> /\ Goto(w, "mirror")
     \/ Fault(w) /\ record' \in {record, TRUE} /\ UNCHANGED op /\ Goto(w, "mirror")
  /\ UNCHANGED <<log, mem, verdict, standing, restarts>>

\* deactivate: GET halt.  Nothing there, or nobody to ask: only the memory
\* switch is cleared, and the operation ends.
GetHalt(w) ==
  /\ cmd[w] = "get"
  /\ \/ available[w] /\ record /\ NoFault /\ Goto(w, "del") /\ UNCHANGED <<mem, op>>
     \/ /\ \/ available[w] /\ ~record /\ NoFault
           \/ ~available[w] /\ NoFault
           \/ Fault(w)
        /\ mem' = [mem EXCEPT ![w] = "inactive"]
        /\ op' = [op EXCEPT ![w] = "none"] /\ Goto(w, "idle")
  /\ UNCHANGED <<shared, verdict, standing, restarts>>

DelHalt(w) ==
  /\ cmd[w] = "del"
  /\ Goto(w, "push")
  /\ \/ NoFault /\ record' = FALSE
     \/ Fault(w) /\ record' \in {record, FALSE}
  /\ UNCHANGED <<log, mem, op, verdict, standing, restarts>>

\* LPUSH history, or nothing once Redis failed.
PushHistory(w) ==
  /\ cmd[w] = "push"
  /\ Goto(w, "trim")
  /\ \/ available[w] /\ NoFault /\ log' = log + 1
     \/ ~available[w] /\ NoFault /\ UNCHANGED log
     \/ Fault(w) /\ log' \in {log, log + 1}
  /\ UNCHANGED <<record, mem, op, verdict, standing, restarts>>

\* A mutated form of TrimHistory: one entry too many is kept.
TrimHistory_OneMore(w) ==
  /\ cmd[w] = "trim"
  /\ Goto(w, "mirror")
  /\ NoFault
  /\ log' = IF log > HistoryCap + 1 THEN HistoryCap + 1 ELSE log
  /\ UNCHANGED <<record, mem, op, verdict, standing, restarts>>

\* LTRIM history 0 HISTORY_CAP-1
TrimHistory(w) ==
  /\ cmd[w] = "trim"
  /\ Goto(w, "mirror")
  /\ LET trimmed == IF log > HistoryCap THEN HistoryCap ELSE log
     IN \/ available[w] /\ NoFault /\ log' = trimmed
        \/ ~available[w] /\ NoFault /\ UNCHANGED log
        \/ Fault(w) /\ log' \in {log, trimmed}
  /\ UNCHANGED <<record, mem, op, verdict, standing, restarts>>

\* The end of activate and deactivate: the memory switch follows.
Mirror(w) ==
  /\ cmd[w] = "mirror"
  /\ Goto(w, "idle") /\ op' = [op EXCEPT ![w] = "none"]
  /\ mem' = [mem EXCEPT ![w] =
               IF op[w] = "deactivate" THEN "inactive" ELSE "active"]
  /\ standing' = (standing \/ op[w] = "stored")
  /\ UNCHANGED <<shared, available, verdict, budget>>

-----------------------------------------------------------------------------
(* The governance routes, the pipeline, the process.                       *)

\* POST /governance/kill_switch/activate, drill and deactivate know only the
\* memory switch of the worker that answers.
ApiActivate(w) ==
  /\ cmd[w] = "idle"
  /\ mem' = [mem EXCEPT ![w] = "active"]
  /\ UNCHANGED <<shared, available, cmd, op, verdict, standing, budget>>

ApiDrill(w) ==
  /\ cmd[w] = "idle"
  /\ mem' = [mem EXCEPT ![w] = "drill"]
  /\ UNCHANGED <<shared, available, cmd, op, verdict, standing, budget>>

ApiDeactivate(w) ==
  /\ cmd[w] = "idle"
  /\ mem' = [mem EXCEPT ![w] = "inactive"]
  /\ standing' = FALSE
  /\ UNCHANGED <<shared, available, cmd, op, verdict, budget>>

\* A mutated form of EntryCheck: "a failing probe must not stop the pipeline".
EntryCheck_MemoryFirst(w) ==
  /\ cmd[w] = "idle" /\ verdict[w] = "none"
  /\ NoFault
  /\ verdict' = [verdict EXCEPT ![w] =
                   IF mem[w] = "active" THEN "refused" ELSE "admitted"]
  /\ UNCHANGED <<shared, mem, cmd, op, standing, restarts>>

\* The entry of Pipeline.run with the redis backend: require_inactive on the
\* memory switch, then RedisKillSwitch.is_active, which answers from memory when
\* Redis fails.
EntryCheck(w) ==
  /\ cmd[w] = "idle" /\ verdict[w] = "none"
  /\ \/ /\ mem[w] = "active" /\ NoFault
        /\ verdict' = [verdict EXCEPT ![w] = "refused"]
     \/ /\ mem[w] # "active" /\ available[w] /\ NoFault
        /\ verdict' = [verdict EXCEPT ![w] =
                         IF record THEN "refused" ELSE "admitted"]
     \/ /\ mem[w] # "active"
        /\ Fault(w) \/ (~available[w] /\ NoFault)
        /\ verdict' = [verdict EXCEPT ![w] = "admitted"]
  /\ UNCHANGED <<shared, mem, cmd, op, standing, restarts>>

\* The run is over (or was refused); the worker is ready for the next one.
RunEnds(w) ==
  /\ verdict[w] # "none"
  /\ verdict' = [verdict EXCEPT ![w] = "none"]
  /\ UNCHANGED <<shared, available, mem, cmd, op, standing, budget>>

\* The container of w is killed and started again: its memory is gone, and the
\* new RedisKillSwitch pings Redis once.
WorkerRestart(w) ==
  /\ restarts < MaxRestarts
  /\ restarts' = restarts + 1
  /\ cmd' = [cmd EXCEPT ![w] = "idle"] /\ op' = [op EXCEPT ![w] = "none"]
  /\ mem' = [mem EXCEPT ![w] = "inactive"]
  /\ verdict' = [verdict EXCEPT ![w] = "none"]
  /\ \/ available' = [available EXCEPT ![w] = TRUE] /\ UNCHANGED faults
     \/ /\ faults < MaxFaults /\ faults' = faults + 1
        /\ available' = [available EXCEPT ![w] = FALSE]
  /\ UNCHANGED <<shared, standing>>

SwitchNext ==
  \E w \in Workers :
    \/ Begin(w) \/ SetHalt(w) \/ GetHalt(w) \/ DelHalt(w)
    \/ PushHistory(w) \/ TrimHistory(w) \/ Mirror(w)
    \/ ApiActivate(w) \/ ApiDrill(w) \/ ApiDeactivate(w)
    \/ EntryCheck(w) \/ RunEnds(w) \/ WorkerRestart(w)

SwitchSpec == SwitchInit /\ [][SwitchNext]_switchVars

-----------------------------------------------------------------------------
(* Types; and the history list exceeds its cap only by the entries that
   concurrent operations are about to trim, and those a fault or a restart left
   untrimmed. *)
SwitchTypeOK ==
  /\ log <= HistoryCap + faults + restarts
             + Cardinality({w \in Workers : cmd[w] = "trim"})
  /\ record \in BOOLEAN /\ log \in Nat
  /\ available \in [Workers -> BOOLEAN]
  /\ mem \in [Workers -> {"inactive", "active", "drill"}]
  /\ cmd \in [Workers -> Commands]
  /\ op \in [Workers -> {"none", "activate", "stored", "overlapped", "deactivate"}]
  /\ verdict \in [Workers -> {"none", "refused", "admitted"}]
  /\ standing \in BOOLEAN
  /\ faults \in 0 .. MaxFaults /\ restarts \in 0 .. MaxRestarts

\* A stop that activate() has stored is obeyed, until somebody starts to
\* deactivate, by every worker that gets an answer from Redis: whatever other
\* workers do at the same time, their faults, the restarts, the drills and the
\* routes that know only a memory switch.
StopHolds ==
  [][\A w \in Workers :
       standing /\ verdict[w] = "none" /\ available'[w]
         => verdict'[w] # "admitted"]_switchVars
=============================================================================
