------------------------- MODULE BudgetPolicyProofs -------------------------
(***************************************************************************)
(* Theorems about BudgetPolicy, for any number of processes, calls and     *)
(* tasks and any budget.                                                   *)
(***************************************************************************)
EXTENDS BudgetPolicy, FiniteSetTheorems, WellFoundedInduction, TLAPS

IsRecording(c) == call[c].pc = "recording"

\* The event loop: one call of a process at a time is inside record_spend.
OnePerProcess ==
  \A c, d \in Calls : IsRecording(c) /\ IsRecording(d) /\ ProcOf[c] = ProcOf[d] => c = d

\* Nothing has gone wrong yet.
Smooth == epochs = 0 /\ clashes = 0

\* Before the first outage all processes use the same backend.
SameBackend ==
  epochs = 0 => \A p, q \in Procs : backend[p] = backend[q]

OnePerTask ==
  Smooth => \A c, d \in Calls :
    IsRecording(c) /\ IsRecording(d) /\ call[c].task = call[d].task => c = d

\* What a call has read is still there when it writes.
ReadIsFresh ==
  Smooth => \A c \in Calls :
    IsRecording(c) /\ backend[ProcOf[c]] = "redis" => call[c].read = redis[call[c].task]

Inv ==
  TypeOK /\ OnePerProcess /\ SameBackend /\ OnePerTask /\ ReadIsFresh /\ Accounted

State == [pc : {"idle", "sent", "recording"}, task : Tasks, read : Nat, cost : Nat]

LEMMA Types ==
  ASSUME TypeOK
  PROVE  /\ redis \in [Tasks -> Nat] /\ memory \in [Procs -> [Tasks -> Nat]]
         /\ backend \in [Procs -> {"redis", "memory"}] /\ call \in [Calls -> State]
         /\ faults \in 0..MaxFaults /\ restarts \in 0..MaxRestarts
         /\ spent \in [Tasks -> Nat] /\ epochs \in Nat /\ clashes \in Nat
         /\ ProcOf \in [Calls -> Procs] /\ MaxFaults \in Nat /\ MaxRestarts \in Nat
         /\ Costs \subseteq Nat /\ Zero \in [Tasks -> Nat]
  BY BudgetAssumption DEF TypeOK, State, Zero

LEMMA IdleState ==
  ASSUME NEW t \in Tasks
  PROVE  Idle(t) \in State /\ Idle(t).pc = "idle" /\ Idle(t).task = t
  BY DEF Idle, State

\* A read: it works and changes nothing, or fails and ends the smooth days.
LEMMA GetType ==
  ASSUME TypeOK, NEW p \in Procs, GetWorks(p) \/ GetFails(p)
  PROVE  /\ backend' \in [Procs -> {"redis", "memory"}]
         /\ memory' \in [Procs -> [Tasks -> Nat]]
         /\ faults' \in 0..MaxFaults /\ epochs' \in Nat
         /\ epochs' = 0 => epochs = 0 /\ UNCHANGED <<backend, memory>>
<1>1. CASE GetWorks(p)
  BY <1>1, Types DEF GetWorks
<1>2. CASE GetFails(p)
  BY <1>2, Types DEF GetFails
<1> QED
  BY <1>1, <1>2

\* A step that leaves Redis and the bill alone and starts no recording.
LEMMA QuietStep ==
  ASSUME Inv, call' \in [Calls -> State],
         \A c \in Calls : IsRecording(c)' => call'[c] = call[c],
         UNCHANGED <<redis, spent, clashes>>,
         backend' \in [Procs -> {"redis", "memory"}],
         memory' \in [Procs -> [Tasks -> Nat]],
         faults' \in 0..MaxFaults, restarts' \in 0..MaxRestarts, epochs' \in Nat,
         epochs' = 0 => epochs = 0 /\ UNCHANGED backend
  PROVE  Inv'
<1>1. \A c \in Calls : IsRecording(c)' => IsRecording(c) /\ call'[c] = call[c]
  BY DEF IsRecording
<1>2. TypeOK'
  BY Types DEF Inv, TypeOK, State
<1>3. OnePerProcess'
  BY <1>1 DEF Inv, OnePerProcess
<1>4. SameBackend'
  BY DEF Inv, SameBackend
<1>5. Smooth' => Smooth /\ UNCHANGED backend
  BY DEF Smooth
<1>6. OnePerTask'
  BY <1>1, <1>5 DEF Inv, OnePerTask
<1>7. ReadIsFresh'
  BY <1>1, <1>5 DEF Inv, ReadIsFresh
<1>8. Accounted'
  BY <1>5 DEF Inv, Accounted, Smooth
<1> QED
  BY <1>2, <1>3, <1>4, <1>6, <1>7, <1>8 DEF Inv

\* What Update makes of a call.
LEMMA Updated ==
  ASSUME TypeOK, NEW c \in Calls, NEW pc \in {"idle", "sent", "recording"},
         NEW read \in Nat, NEW cost \in Nat, Update(c, pc, read, cost)
  PROVE  /\ call' \in [Calls -> State]
         /\ call'[c] = [pc |-> pc, task |-> call[c].task, read |-> read, cost |-> cost]
         /\ \A d \in Calls \ {c} : call'[d] = call[d]
<1>1. call \in [Calls -> State] /\ call[c] \in State
  BY Types
<1>2. [pc |-> pc, task |-> call[c].task, read |-> read, cost |-> cost] \in State
  BY <1>1 DEF State
<1> QED
  BY <1>1, <1>2 DEF Update

LEMMA SeenType ==
  ASSUME TypeOK, NEW p \in Procs, NEW t \in Tasks
  PROVE  Seen(p, t) \in Nat
  BY Types DEF Seen

LEMMA AttachKeeps ==
  ASSUME Inv, NEW c \in Calls, Attach(c) \/ Refuse(c)
  PROVE  Inv'
<1>1. ProcOf[c] \in Procs /\ TypeOK
  BY Types DEF Inv
<1>2. GetFails(ProcOf[c]) /\ UNCHANGED <<redis, call, restarts, spent, clashes>>
  BY DEF Attach, Refuse
<1>3. call' \in [Calls -> State] /\ restarts' \in 0..MaxRestarts
  BY <1>1, <1>2, Types
<1> QED
  BY <1>1, <1>2, <1>3, GetType, QuietStep

LEMMA CheckKeeps ==
  ASSUME Inv, NEW c \in Calls, Check(c)
  PROVE  Inv'
<1>1. ProcOf[c] \in Procs /\ TypeOK
  BY Types DEF Inv
<1>2. /\ GetWorks(ProcOf[c]) \/ GetFails(ProcOf[c])
      /\ Update(c, "sent", 0, 0)
      /\ UNCHANGED <<redis, restarts, spent, clashes>>
  BY DEF Check
<1>3. /\ call' \in [Calls -> State] /\ call'[c].pc = "sent"
      /\ \A d \in Calls \ {c} : call'[d] = call[d]
  <2>1. Update(c, "sent", 0, 0) /\ "sent" \in {"idle", "sent", "recording"} /\ 0 \in Nat
    BY <1>2
  <2>2. call'[c] = [pc |-> "sent", task |-> call[c].task, read |-> 0, cost |-> 0]
    BY <1>1, <2>1, Updated
  <2> QED
    BY <1>1, <2>1, <2>2, Updated
<1>4. \A d \in Calls : IsRecording(d)' => call'[d] = call[d]
  BY <1>3 DEF IsRecording
<1>5. restarts' \in 0..MaxRestarts
  BY <1>1, <1>2, Types
<1> QED
  BY <1>1, <1>2, <1>3, <1>4, <1>5, GetType, QuietStep

LEMMA CallFailsKeeps ==
  ASSUME Inv, NEW c \in Calls, CallFails(c)
  PROVE  Inv'
<1>1. TypeOK
  BY DEF Inv
<1>2. PICK t \in Tasks : call' = [call EXCEPT ![c] = Idle(t)]
  BY DEF CallFails
<1>3. UNCHANGED <<redis, backend, memory, faults, restarts, spent, epochs, clashes>>
  BY DEF CallFails
<1>4. call' \in [Calls -> State]
  BY <1>1, <1>2, Types, IdleState
<1>5. \A d \in Calls : IsRecording(d)' => call'[d] = call[d]
  BY <1>1, <1>2, Types, IdleState DEF IsRecording
<1> QED
  BY <1>1, <1>3, <1>4, <1>5, Types, QuietStep

LEMMA RestartKeeps ==
  ASSUME Inv, NEW p \in Procs, Restart(p)
  PROVE  Inv'
<1>1. TypeOK
  BY DEF Inv
<1>2. /\ call' = [c \in Calls |-> IF ProcOf[c] = p THEN Idle(call[c].task) ELSE call[c]]
      /\ UNCHANGED <<redis, spent, clashes>>
      /\ restarts < MaxRestarts /\ restarts' = restarts + 1
      /\ memory' = [memory EXCEPT ![p] = Zero]
      /\ epochs' = IF backend[p] = "redis" /\ backend'[p] = "redis"
                   THEN epochs ELSE epochs + 1
  BY DEF Restart
<1>3. \A c \in Calls : call[c] \in State /\ call[c].task \in Tasks
  BY <1>1, Types DEF State
<1>4. call' \in [Calls -> State]
  BY <1>2, <1>3, IdleState
<1>5. \A c \in Calls : IsRecording(c)' => call'[c] = call[c]
  BY <1>2, <1>3, IdleState DEF IsRecording
<1>6. PICK b \in {"redis", "memory"} :
        /\ backend' = [backend EXCEPT ![p] = b]
        /\ \/ faults' = faults
           \/ faults < MaxFaults /\ faults' = faults + 1
  BY DEF Restart
<1>7. backend' \in [Procs -> {"redis", "memory"}] /\ faults' \in 0..MaxFaults
  BY <1>1, <1>6, Types
<1>8. memory' \in [Procs -> [Tasks -> Nat]] /\ restarts' \in 0..MaxRestarts /\ epochs' \in Nat
  BY <1>1, <1>2, Types
<1>9. epochs' = 0 => epochs = 0 /\ UNCHANGED backend
  BY <1>1, <1>2, <1>6, Types
<1> QED
  BY <1>2, <1>4, <1>5, <1>7, <1>8, <1>9, QuietStep

LEMMA RecordReadsKeeps ==
  ASSUME Inv, NEW c \in Calls, NEW cost \in Costs, RecordReads(c, cost)
  PROVE  Inv'
<1> DEFINE p == ProcOf[c]
           t == call[c].task
<1>1. TypeOK /\ p \in Procs /\ call[c] \in State /\ t \in Tasks /\ cost \in Nat
  BY Types DEF Inv, State
<1>2. /\ ~Blocked(p) /\ UNCHANGED <<redis, restarts, spent>>
      /\ clashes' = IF Overlapped(p, t) THEN clashes + 1 ELSE clashes
      /\ GetWorks(p) \/ GetFails(p)
  BY DEF RecordReads
<1>3. PICK read \in Nat :
        /\ Update(c, "recording", read, cost)
        /\ read = Seen(p, t) \/ GetFails(p)
  BY <1>1, SeenType DEF RecordReads
<1>4. /\ call' \in [Calls -> State]
      /\ call'[c] = [pc |-> "recording", task |-> t, read |-> read, cost |-> cost]
      /\ \A d \in Calls \ {c} : call'[d] = call[d]
  <2>1. "recording" \in {"idle", "sent", "recording"}
    OBVIOUS
  <2> QED
    BY <1>1, <1>3, <2>1, Updated
<1>5. /\ backend' \in [Procs -> {"redis", "memory"}] /\ memory' \in [Procs -> [Tasks -> Nat]]
      /\ faults' \in 0..MaxFaults /\ epochs' \in Nat
      /\ epochs' = 0 => epochs = 0 /\ UNCHANGED <<backend, memory>>
  BY <1>1, <1>2, GetType
<1>6. \A d \in Calls \ {c} : IsRecording(d)' => IsRecording(d) /\ ProcOf[d] /= p
  BY <1>2, <1>4 DEF IsRecording, Blocked
<1>7. Smooth' => Smooth /\ UNCHANGED backend /\ ~Overlapped(p, t)
  BY <1>1, <1>2, <1>5, Types DEF Smooth
<1>8. TypeOK'
  <2>1. clashes' \in Nat
    BY <1>1, <1>2, Types
  <2> QED
    BY <1>1, <1>2, <1>4, <1>5, <2>1, Types DEF TypeOK, State
<1>9. OnePerProcess'
  BY <1>6 DEF Inv, OnePerProcess
<1>10. SameBackend'
  BY <1>5 DEF Inv, SameBackend
<1>11. OnePerTask'
  <2>1. \A d \in Calls \ {c} : IsRecording(d)' /\ Smooth' => call[d].task /= t
    BY <1>6, <1>7 DEF Overlapped, IsRecording
  <2> QED
    BY <1>4, <1>6, <1>7, <2>1 DEF Inv, OnePerTask
<1>12. ReadIsFresh'
  <2>1. GetFails(p) => ~Smooth'
    BY <1>1, Types DEF GetFails, Smooth
  <2>2. Smooth' /\ backend[p] = "redis" => read = redis[t]
    BY <1>3, <2>1 DEF Seen
  <2> QED
    BY <1>2, <1>4, <1>6, <1>7, <2>2 DEF Inv, ReadIsFresh
<1>13. Accounted'
  BY <1>2, <1>7 DEF Inv, Accounted, Smooth
<1> QED
  BY <1>8, <1>9, <1>10, <1>11, <1>12, <1>13 DEF Inv

LEMMA RecordWritesKeeps ==
  ASSUME Inv, NEW c \in Calls, RecordWrites(c)
  PROVE  Inv'
<1> DEFINE p == ProcOf[c]
           k == call[c]
<1>1. /\ TypeOK /\ p \in Procs /\ k \in State /\ k.task \in Tasks
      /\ k.read \in Nat /\ k.cost \in Nat /\ Total(k) = k.read + k.cost /\ Total(k) \in Nat
  BY Types DEF Inv, State, Total
<1>2. /\ IsRecording(c) /\ UNCHANGED <<restarts, clashes>>
      /\ SetWorks(p, k.task, Total(k)) \/ SetFails(p, k.task, Total(k))
      /\ spent' = [spent EXCEPT ![k.task] = @ + k.cost]
  BY DEF RecordWrites, IsRecording
<1>3. PICK u \in Tasks : call' = [call EXCEPT ![c] = Idle(u)]
  BY DEF RecordWrites
<1>4. /\ call' \in [Calls -> State]
      /\ \A d \in Calls : IsRecording(d)' => d /= c /\ IsRecording(d) /\ call'[d] = call[d]
  BY <1>1, <1>3, Types, IdleState DEF IsRecording
<1>5. TypeOK'
  <2>1. spent' \in [Tasks -> Nat]
    BY <1>1, <1>2, Types
  <2>2. CASE SetWorks(p, k.task, Total(k))
    <3>1. redis' \in [Tasks -> Nat] /\ memory' \in [Procs -> [Tasks -> Nat]]
      <4>1. CASE backend[p] = "redis"
        BY <1>1, <2>2, <4>1, Types DEF SetWorks
      <4>2. CASE backend[p] /= "redis"
        BY <1>1, <2>2, <4>2, Types DEF SetWorks
      <4> QED
        BY <4>1, <4>2
    <3> QED
      BY <1>1, <1>2, <1>4, <2>1, <2>2, <3>1, Types DEF SetWorks, TypeOK, State
  <2>3. CASE SetFails(p, k.task, Total(k))
    <3>1. [Zero EXCEPT ![k.task] = Total(k)] \in [Tasks -> Nat]
      BY <1>1, Types
    <3> QED
      BY <1>1, <1>2, <1>4, <2>1, <2>3, <3>1, Types DEF SetFails, TypeOK, State
  <2> QED
    BY <1>2, <2>2, <2>3
<1>6. OnePerProcess'
  BY <1>4 DEF Inv, OnePerProcess
<1>7. epochs' = 0 => epochs = 0 /\ SetWorks(p, k.task, Total(k)) /\ UNCHANGED backend
  BY <1>1, <1>2, Types DEF SetWorks, SetFails
<1>8. SameBackend'
  BY <1>7 DEF Inv, SameBackend
<1>9. Smooth' => Smooth /\ SetWorks(p, k.task, Total(k)) /\ UNCHANGED backend
  BY <1>2, <1>7 DEF Smooth
<1>10. OnePerTask'
  BY <1>4, <1>9 DEF Inv, OnePerTask
<1>11. CASE ~Smooth'
  BY <1>5, <1>6, <1>8, <1>10, <1>11 DEF Inv, ReadIsFresh, Accounted, Smooth
<1>12. CASE Smooth' /\ backend[p] = "memory"
  <2>1. \A q \in Procs : backend'[q] = "memory"
    BY <1>1, <1>9, <1>12 DEF Inv, SameBackend, Smooth
  <2>2. ReadIsFresh' /\ Accounted'
    BY <2>1, Types DEF ReadIsFresh, Accounted, Inv
  <2> QED
    BY <1>5, <1>6, <1>8, <1>10, <2>2 DEF Inv
<1>13. CASE Smooth' /\ backend[p] = "redis"
  <2>1. redis' = [redis EXCEPT ![k.task] = k.read + k.cost]
    BY <1>1, <1>9, <1>13 DEF SetWorks
  <2>2. k.read = redis[k.task] /\ redis[k.task] = spent[k.task]
    BY <1>1, <1>2, <1>9, <1>13 DEF Inv, ReadIsFresh, Accounted, Smooth
  <2>3. Accounted'
    BY <1>1, <1>2, <1>9, <1>13, <2>1, <2>2, Types DEF Inv, Accounted, Smooth
  <2>4. \A d \in Calls : IsRecording(d)' => call[d].task \in Tasks /\ call[d].task /= k.task
    BY <1>1, <1>2, <1>4, <1>9, <1>13, Types DEF Inv, OnePerTask, State
  <2>5. ReadIsFresh'
    BY <1>1, <1>4, <1>9, <1>13, <2>1, <2>4, Types DEF Inv, ReadIsFresh
  <2> QED
    BY <1>5, <1>6, <1>8, <1>10, <2>3, <2>5 DEF Inv
<1> QED
  BY <1>1, <1>11, <1>12, <1>13, Types

-----------------------------------------------------------------------------
(* The theorems *)

LEMMA InitInv == Init => Inv
<1> SUFFICES ASSUME Init PROVE Inv
  OBVIOUS
<1>1. PICK b \in {"redis", "memory"} : backend = [q \in Procs |-> b]
  BY DEF Init
<1>2. /\ redis = Zero /\ memory = [q \in Procs |-> Zero] /\ spent = Zero
      /\ faults = 0 /\ restarts = 0 /\ epochs = 0 /\ clashes = 0
      /\ Zero \in [Tasks -> Nat]
  BY DEF Init, Zero
<1>3. call \in [Calls -> State] /\ \A c \in Calls : ~IsRecording(c)
  <2>1. \A c \in Calls : call[c] \in {Idle(t) : t \in Tasks}
    BY DEF Init
  <2>2. \A c \in Calls : call[c] \in State /\ call[c].pc = "idle"
    BY <2>1, IdleState
  <2>3. call = [c \in Calls |-> call[c]]
    BY DEF Init
  <2> QED
    BY <2>2, <2>3 DEF IsRecording
<1>4. TypeOK
  BY <1>1, <1>2, <1>3, BudgetAssumption DEF TypeOK, State
<1>5. OnePerProcess /\ OnePerTask /\ ReadIsFresh
  BY <1>3 DEF OnePerProcess, OnePerTask, ReadIsFresh
<1>6. SameBackend /\ Accounted
  BY <1>1, <1>2 DEF SameBackend, Accounted
<1> QED
  BY <1>4, <1>5, <1>6 DEF Inv

LEMMA NextInv == Inv /\ [Next]_vars => Inv'
<1> SUFFICES ASSUME Inv, [Next]_vars PROVE Inv'
  OBVIOUS
<1>1. CASE UNCHANGED vars
  <2>1. UNCHANGED <<redis, backend, memory, call, faults, restarts, spent, epochs, clashes>>
    BY <1>1 DEF vars
  <2> QED
    BY <2>1 DEF Inv, TypeOK, OnePerProcess, SameBackend, OnePerTask, ReadIsFresh, Accounted,
                Smooth, IsRecording
<1>2. CASE Next
  <2>1. ASSUME NEW c \in Calls, Attach(c) \/ Refuse(c) PROVE Inv'
    BY <2>1, AttachKeeps
  <2>2. ASSUME NEW c \in Calls, Check(c) PROVE Inv'
    BY <2>2, CheckKeeps
  <2>3. ASSUME NEW c \in Calls, RecordWrites(c) PROVE Inv'
    BY <2>3, RecordWritesKeeps
  <2>4. ASSUME NEW c \in Calls, CallFails(c) PROVE Inv'
    BY <2>4, CallFailsKeeps
  <2>5. ASSUME NEW c \in Calls, NEW cost \in Costs, RecordReads(c, cost) PROVE Inv'
    BY <2>5, RecordReadsKeeps
  <2>6. ASSUME NEW p \in Procs, Restart(p) PROVE Inv'
    BY <2>6, RestartKeeps
  <2> QED
    BY <1>2, <2>1, <2>2, <2>3, <2>4, <2>5, <2>6 DEF Next
<1> QED
  BY <1>1, <1>2

(* The inductive invariant holds in every state.                            *)
THEOREM Invariance == Spec => []Inv
<1>1. Init => Inv
  BY InitInv
<1>2. Inv /\ [Next]_vars => Inv'
  BY NextInv
<1> QED
  BY <1>1, <1>2, PTL DEF Spec

(* Every variable of the budget keeps its type, whatever fails.             *)
THEOREM TypeCorrect == Spec => []TypeOK
<1>1. Inv => TypeOK
  BY DEF Inv
<1> QED
  BY <1>1, Invariance, PTL

(* Until a process loses sight of the spend, or two of them record at once, *)
(* Redis holds what the calls that returned have cost: record_spend loses   *)
(* nothing of the calls of one process, however they interleave.            *)
THEOREM SpendAccounted == Spec => []Accounted
<1>1. Inv => Accounted
  BY DEF Inv
<1> QED
  BY <1>1, Invariance, PTL

-----------------------------------------------------------------------------
(* Counting: finite sets, the largest cost and the sum of a function.      *)

\* Among finite sets some are minimal.
LEMMA SmallestSubset ==
  ASSUME NEW S, NEW C, C \subseteq FiniteSubsetsOf(S), C # {}
  PROVE  \E T \in C : \A U \in C : U \subseteq T => U = T
<1>1. PICK T \in C : \A U \in C : ~(<<U, T>> \in StrictSubsetOrdering(S))
  BY FS_StrictSubsetOrderingWellFounded, WFMin, Zenon
<1> QED
  BY <1>1 DEF StrictSubsetOrdering, FiniteSubsetsOf

\* A set of sets that holds {} and grows by any element holds every finite set.
LEMMA Grows ==
  ASSUME NEW S, IsFiniteSet(S), NEW Good, {} \in Good,
         \A T \in SUBSET S, x \in S : T \in Good /\ x \notin T => T \cup {x} \in Good
  PROVE  S \in Good
<1> DEFINE Bad == {T \in SUBSET S : T \notin Good}
<1> SUFFICES ASSUME Bad # {}  PROVE FALSE
  OBVIOUS
<1>1. Bad \subseteq FiniteSubsetsOf(S)
  BY FS_FiniteSubsetsOfFinite
<1>2. PICK T \in Bad : \A U \in Bad : U \subseteq T => U = T
  <2> HIDE DEF Bad
  <2> QED
    BY <1>1, SmallestSubset
<1>3. PICK x \in T : TRUE
  BY <1>2
<1>4. T \ {x} \in SUBSET S /\ x \in S /\ x \notin T \ {x} /\ (T \ {x}) \cup {x} = T
  BY <1>2, <1>3
<1>5. T \ {x} \in Good
  BY <1>2, <1>3, <1>4
<1>6. (T \ {x}) \cup {x} \in Good
  BY <1>4, <1>5
<1> QED
  BY <1>2, <1>4, <1>6

LEMMA MaxCostIsMax == MaxCost \in Nat /\ \A cost \in Costs : cost <= MaxCost
<1> DEFINE HasMax(T) == \E m \in T : \A k \in T : m >= k
           Good == {T \in SUBSET Costs : T = {} \/ HasMax(T)}
<1>1. Costs \subseteq Nat /\ Costs # {} /\ IsFiniteSet(Costs)
  BY BudgetAssumption
<1>2. ASSUME NEW T \in SUBSET Costs, NEW x \in Costs, T \in Good, x \notin T
      PROVE  T \cup {x} \in Good
  <2>1. CASE T = {}
    BY <1>1, <2>1
  <2>2. CASE T # {}
    <3>1. PICK m \in T : \A k \in T : m >= k
      BY <1>2, <2>2
    <3>2. CASE x >= m
      <4>1. \A k \in T \cup {x} : x >= k
        BY <1>1, <3>1, <3>2
      <4> QED
        BY <4>1
    <3>3. CASE ~(x >= m)
      <4>1. \A k \in T \cup {x} : m >= k
        BY <1>1, <3>1, <3>3
      <4> QED
        BY <4>1
    <3> QED
      BY <3>2, <3>3
  <2> QED
    BY <2>1, <2>2
<1>3. Costs \in Good
  <2>1. {} \in Good
    OBVIOUS
  <2> HIDE DEF Good
  <2> QED
    BY <1>1, <1>2, <2>1, Grows
<1>4. HasMax(Costs)
  BY <1>1, <1>3
<1>5. MaxCost \in Costs /\ \A cost \in Costs : MaxCost >= cost
  BY <1>4, Zenon DEF MaxCost, Max
<1> QED
  BY <1>1, <1>5

\* What the calls of C may cost together.
Weight(C) == Cardinality(C) * MaxCost

LEMMA Weights ==
  /\ Weight({}) = 0
  /\ \A c : Weight({c}) = MaxCost
  /\ \A C \in SUBSET Calls : Weight(C) \in Nat
  /\ \A C \in SUBSET Calls : \A c \in Calls \ C : Weight(C \cup {c}) = Weight(C) + MaxCost
  /\ \A C \in SUBSET Calls : \A B \in SUBSET C : Weight(B) <= Weight(C)
<1>1. MaxCost \in Nat
  BY MaxCostIsMax
<1>2. \A C \in SUBSET Calls : IsFiniteSet(C) /\ Cardinality(C) \in Nat
  BY FS_Subset, FS_CardinalityType, BudgetAssumption
<1>3. \A C \in SUBSET Calls : Weight(C) \in Nat
  BY <1>1, <1>2 DEF Weight
<1>4. Weight({}) = 0 /\ \A c : Weight({c}) = MaxCost
  <2>1. 0 * MaxCost = 0 /\ 1 * MaxCost = MaxCost
    BY <1>1
  <2> QED
    BY <2>1, FS_EmptySet, FS_Singleton, Zenon DEF Weight
<1>5. ASSUME NEW C \in SUBSET Calls, NEW c \in Calls \ C
      PROVE  Weight(C \cup {c}) = Weight(C) + MaxCost
  <2>1. Cardinality(C \cup {c}) = Cardinality(C) + 1
    BY <1>2, FS_AddElement
  <2>2. \A n \in Nat : (n + 1) * MaxCost = n * MaxCost + MaxCost
    BY <1>1
  <2> QED
    BY <1>2, <2>1, <2>2 DEF Weight
<1>6. ASSUME NEW C \in SUBSET Calls, NEW B \in SUBSET C
      PROVE  Weight(B) <= Weight(C)
  <2>1. Cardinality(B) <= Cardinality(C) /\ Cardinality(B) \in Nat /\ Cardinality(C) \in Nat
    BY <1>2, FS_Subset
  <2>2. \A m, n \in Nat : m <= n => m * MaxCost <= n * MaxCost
    BY <1>1
  <2> QED
    BY <2>1, <2>2 DEF Weight
<1> QED
  BY <1>3, <1>4, <1>5, <1>6

LEMMA WeightOfUnion ==
  ASSUME NEW B \in SUBSET Calls, NEW C \in SUBSET Calls, B \cap C = {}
  PROVE  Weight(B \cup C) = Weight(B) + Weight(C)
<1>1. IsFiniteSet(B) /\ IsFiniteSet(C)
  BY FS_Subset, BudgetAssumption
<1>2. Cardinality(B) \in Nat /\ Cardinality(C) \in Nat /\ Cardinality(B \cap C) = 0
  BY <1>1, FS_CardinalityType, FS_EmptySet
<1>3. Cardinality(B \cup C) = Cardinality(B) + Cardinality(C)
  <2>1. Cardinality(B \cup C) = Cardinality(B) + Cardinality(C) - Cardinality(B \cap C)
    BY <1>1, FS_Union, Zenon
  <2> QED
    BY <1>2, <2>1
<1>4. \A m, n \in Nat : (m + n) * MaxCost = m * MaxCost + n * MaxCost
  BY MaxCostIsMax
<1> QED
  BY <1>2, <1>3, <1>4 DEF Weight

\* The sum of h over the processes of P, as the number of pairs <<p, k>>.
Pairs(h, P) == UNION {{p} \X (1 .. h[p]) : p \in P}
Sum(h, P) == Cardinality(Pairs(h, P))

LEMMA SumGrows ==
  ASSUME NEW h \in [Procs -> Nat], NEW P \in SUBSET Procs
  PROVE  /\ Sum(h, {}) = 0
         /\ Sum(h, P) \in Nat
         /\ \A p \in Procs \ P : Sum(h, P \cup {p}) = Sum(h, P) + h[p]
<1> DEFINE Pile(p) == {p} \X (1 .. h[p])
<1>1. ASSUME NEW p \in Procs
      PROVE  IsFiniteSet(Pile(p)) /\ Cardinality(Pile(p)) = h[p]
  <2>1. IsFiniteSet(1 .. h[p]) /\ Cardinality(1 .. h[p]) = h[p]
    BY FS_Interval
  <2>2. IsFiniteSet({p}) /\ Cardinality({p}) = 1
    BY FS_Singleton
  <2> QED
    BY <2>1, <2>2, FS_Product
<1>2. Pairs(h, {}) = {}
  BY DEF Pairs
<1>3. ASSUME NEW Q, NEW p
      PROVE  Pairs(h, Q \cup {p}) = Pairs(h, Q) \cup Pile(p)
  BY DEF Pairs
<1>4. ASSUME NEW Q, NEW p, p \notin Q
      PROVE  Pairs(h, Q) \cap Pile(p) = {}
  BY <1>4 DEF Pairs
<1> HIDE DEF Pile
<1>5. ASSUME NEW Q \in SUBSET Procs
      PROVE  IsFiniteSet(Pairs(h, Q))
  <2> DEFINE Good == {R \in SUBSET Q : IsFiniteSet(Pairs(h, R))}
  <2>1. IsFiniteSet(Q)
    BY FS_Subset, BudgetAssumption
  <2>2. {} \in Good
    BY <1>2, FS_EmptySet
  <2>3. ASSUME NEW R \in SUBSET Q, NEW p \in Q, R \in Good
        PROVE  R \cup {p} \in Good
    <3>1. IsFiniteSet(Pairs(h, R)) /\ IsFiniteSet(Pile(p))
      BY <1>1, <2>3
    <3>2. IsFiniteSet(Pairs(h, R) \cup Pile(p))
      BY <3>1, FS_Union
    <3> QED
      BY <1>3, <3>2
  <2>4. Q \in Good
    <3> HIDE DEF Good
    <3> QED
      BY <2>1, <2>2, <2>3, Grows
  <2> QED
    BY <2>4
<1>6. Sum(h, P) \in Nat
  BY <1>5, FS_CardinalityType DEF Sum
<1>7. ASSUME NEW p \in Procs \ P
      PROVE  Sum(h, P \cup {p}) = Sum(h, P) + h[p]
  <2>1. IsFiniteSet(Pairs(h, P)) /\ IsFiniteSet(Pile(p)) /\ Cardinality(Pile(p)) = h[p]
    BY <1>1, <1>5
  <2>2. Cardinality(Pairs(h, P) \cap Pile(p)) = 0
    BY <1>4, FS_EmptySet
  <2>3. Cardinality(Pairs(h, P) \cup Pile(p))
          = Cardinality(Pairs(h, P)) + Cardinality(Pile(p)) - 0
    BY <2>1, <2>2, FS_Union
  <2>4. Cardinality(Pairs(h, P)) \in Nat /\ h[p] \in Nat
    BY <2>1, FS_CardinalityType
  <2>5. Sum(h, P \cup {p}) = Cardinality(Pairs(h, P) \cup Pile(p))
    BY <1>3, Zenon DEF Sum
  <2> QED
    BY <2>1, <2>3, <2>4, <2>5 DEF Sum
<1>8. Sum(h, {}) = 0
  BY <1>2, FS_EmptySet DEF Sum
<1> QED
  BY <1>6, <1>7, <1>8

\* Two functions that differ at one place.
LEMMA SumChanges ==
  ASSUME NEW h \in [Procs -> Nat], NEW g \in [Procs -> Nat], NEW p \in Procs,
         \A q \in Procs \ {p} : g[q] = h[q]
  PROVE  /\ Sum(h, Procs) \in Nat /\ Sum(h, Procs) >= h[p]
         /\ Sum(g, Procs) = Sum(h, Procs) - h[p] + g[p]
<1> DEFINE P == Procs \ {p}
<1>1. P \in SUBSET Procs /\ p \in Procs \ P /\ P \cup {p} = Procs
  OBVIOUS
<1>2. Pairs(g, P) = Pairs(h, P)
  BY DEF Pairs
<1>3. Sum(g, P) = Sum(h, P)
  BY <1>2 DEF Sum
<1> HIDE DEF P
<1>4. Sum(g, Procs) = Sum(g, P) + g[p] /\ Sum(h, Procs) = Sum(h, P) + h[p] /\ Sum(h, P) \in Nat
  BY <1>1, SumGrows
<1> QED
  BY <1>3, <1>4

-----------------------------------------------------------------------------
(* Ledgers.  Redis, and the dict of every process that fell back to it, is *)
(* a ledger: a total of task t that the calls of some processes check and  *)
(* write.  What the calls may still spend before the total stops them is   *)
(* its headroom: the total and the headroom are at least a floor, which    *)
(* leaves the cost of all its calls beyond the room of the budget, and     *)
(* the headroom pays for every call that is under way.                     *)

Room == Budget - Estimate
CallsOf(P) == {c \in Calls : ProcOf[c] \in P}

Busy(k, t, C) == {c \in C : k[c].pc # "idle" /\ k[c].task = t}
Recording(k, t, C) == {c \in C : k[c].pc = "recording" /\ k[c].task = t}

Ledger(k, t, C, total, headroom, floor) ==
  /\ total + headroom >= floor
  /\ headroom >= Weight(Busy(k, t, C))
  /\ \A c \in Recording(k, t, C) : k[c].read + headroom >= floor

LEMMA WeightOfBusy ==
  ASSUME NEW C \in SUBSET Calls, NEW k, NEW t
  PROVE  /\ Busy(k, t, C) \in SUBSET C /\ Recording(k, t, C) \in SUBSET Busy(k, t, C)
         /\ Weight(C) \in Nat
         /\ Weight(Busy(k, t, C)) \in Nat /\ Weight(Busy(k, t, C)) <= Weight(C)
         /\ Weight(Recording(k, t, C)) \in Nat
         /\ Weight(Recording(k, t, C)) <= Weight(Busy(k, t, C))
<1>1. /\ Busy(k, t, C) \in SUBSET C /\ Recording(k, t, C) \in SUBSET Busy(k, t, C)
      /\ Busy(k, t, C) \in SUBSET Calls /\ Recording(k, t, C) \in SUBSET Calls
  BY DEF Busy, Recording
<1> QED
  BY <1>1, Weights

\* No call begins, and none begins to record.
LEMMA LedgerQuiet ==
  ASSUME NEW C \in SUBSET Calls, NEW D \in SUBSET Calls, NEW k, NEW l, NEW t,
         NEW total \in Nat, NEW headroom \in Nat, NEW floor \in Nat,
         Ledger(k, t, C, total, headroom, floor),
         \A c \in D : l[c].pc # "idle" /\ l[c].task = t =>
           c \in C /\ k[c].pc # "idle" /\ k[c].task = t,
         \A c \in D : l[c].pc = "recording" /\ l[c].task = t => l[c] = k[c]
  PROVE  /\ Ledger(l, t, D, total, headroom, floor)
         /\ Weight(Recording(l, t, D)) <= Weight(Recording(k, t, C))
<1>1. Busy(l, t, D) \in SUBSET Busy(k, t, C) /\ Recording(l, t, D) \in SUBSET Recording(k, t, C)
  BY DEF Busy, Recording
<1>2. Busy(k, t, C) \in SUBSET Calls /\ Recording(k, t, C) \in SUBSET Calls
  BY DEF Busy, Recording
<1>3. /\ Weight(Busy(l, t, D)) <= Weight(Busy(k, t, C))
      /\ Weight(Busy(l, t, D)) \in Nat /\ Weight(Busy(k, t, C)) \in Nat
      /\ Weight(Recording(l, t, D)) <= Weight(Recording(k, t, C))
  BY <1>1, <1>2, Weights
<1>4. \A c \in Recording(l, t, D) : l[c] = k[c]
  BY DEF Recording
<1> QED
  BY <1>1, <1>3, <1>4 DEF Ledger

\* A new ledger, with the headroom of its floor.
LEMMA LedgerNew ==
  ASSUME NEW C \in SUBSET Calls, NEW k \in [Calls -> State], NEW t,
         NEW total \in Nat, NEW floor \in Nat, floor >= Weight(C)
  PROVE  Ledger(k, t, C, total, floor, floor)
<1>1. floor >= Weight(Busy(k, t, C))
  BY WeightOfBusy
<1>2. \A c \in Recording(k, t, C) : k[c].read \in Nat
  BY DEF Recording, State
<1> QED
  BY <1>1, <1>2 DEF Ledger

\* A check passes: the total leaves room for an estimate.
LEMMA LedgerSend ==
  ASSUME NEW C \in SUBSET Calls, NEW k, NEW l, NEW t,
         NEW total \in Nat, NEW headroom \in Nat, NEW floor \in Nat,
         Ledger(k, t, C, total, headroom, floor),
         total <= Room, Room \in Nat, floor >= Room + Weight(C),
         \A c \in C : l[c].pc = "recording" /\ l[c].task = t => l[c] = k[c]
  PROVE  /\ Ledger(l, t, C, total, headroom, floor)
         /\ Weight(Recording(l, t, C)) <= Weight(Recording(k, t, C))
<1>1. Recording(l, t, C) \in SUBSET Recording(k, t, C) /\ Recording(k, t, C) \in SUBSET Calls
  BY DEF Recording
<1>2. Weight(Recording(l, t, C)) <= Weight(Recording(k, t, C))
  BY <1>1, Weights
<1>3. headroom >= Weight(Busy(l, t, C))
  BY WeightOfBusy DEF Ledger
<1>4. \A c \in Recording(l, t, C) : l[c] = k[c]
  BY DEF Recording
<1> QED
  BY <1>1, <1>2, <1>3, <1>4 DEF Ledger

\* A call that was sent begins to record, and has read the total.
LEMMA LedgerRead ==
  ASSUME NEW C \in SUBSET Calls, NEW k, NEW l, NEW t,
         NEW total \in Nat, NEW headroom \in Nat, NEW floor \in Nat,
         Ledger(k, t, C, total, headroom, floor),
         NEW c \in C, k[c].pc = "sent", k[c].task = t,
         l[c].pc = "recording", l[c].task = t, l[c].read = total,
         \A d \in C \ {c} : l[d] = k[d]
  PROVE  /\ Ledger(l, t, C, total, headroom, floor)
         /\ Recording(l, t, C) = Recording(k, t, C) \cup {c}
         /\ Weight(Recording(l, t, C)) = Weight(Recording(k, t, C)) + MaxCost
<1>1. /\ Busy(l, t, C) = Busy(k, t, C)
      /\ Recording(l, t, C) = Recording(k, t, C) \cup {c}
      /\ c \in Calls \ Recording(k, t, C) /\ Recording(k, t, C) \in SUBSET Calls
  BY DEF Busy, Recording
<1>2. \A d \in Recording(k, t, C) : l[d] = k[d]
  BY DEF Recording
<1>3. \A d \in Recording(l, t, C) : l[d].read + headroom >= floor
  BY <1>1, <1>2 DEF Ledger
<1> QED
  BY <1>1, <1>3, Weights DEF Ledger

\* Both sides of a ledger are raised.
LEMMA LedgerRaised ==
  ASSUME NEW C \in SUBSET Calls, NEW k \in [Calls -> State], NEW t,
         NEW total \in Nat, NEW headroom \in Nat, NEW floor \in Nat, NEW x \in Nat,
         Ledger(k, t, C, total, headroom, floor)
  PROVE  Ledger(k, t, C, total, headroom + x, floor + x)
<1>1. \A c \in Recording(k, t, C) : k[c].read \in Nat
  BY DEF Recording, State
<1>2. Weight(Busy(k, t, C)) \in Nat
  BY WeightOfBusy
<1> QED
  BY <1>1, <1>2 DEF Ledger

\* The headroom pays for a call that records.
LEMMA LedgerPays ==
  ASSUME NEW C \in SUBSET Calls, NEW k, NEW t,
         NEW total \in Nat, NEW headroom \in Nat, NEW floor \in Nat,
         Ledger(k, t, C, total, headroom, floor),
         NEW c \in Recording(k, t, C)
  PROVE  headroom >= MaxCost
<1>1. {c} \in SUBSET Busy(k, t, C) /\ Busy(k, t, C) \in SUBSET Calls
  BY DEF Busy, Recording
<1>2. Weight(Busy(k, t, C)) \in Nat /\ MaxCost <= Weight(Busy(k, t, C)) /\ MaxCost \in Nat
  BY <1>1, Weights, MaxCostIsMax
<1> QED
  BY <1>2 DEF Ledger

\* A call that recorded weighs no longer.
LEMMA WriteWeighs ==
  ASSUME NEW C \in SUBSET Calls, NEW k, NEW l, NEW t,
         NEW c \in Recording(k, t, C), l[c].pc = "idle", \A d \in C \ {c} : l[d] = k[d]
  PROVE  /\ Weight(Recording(l, t, C)) + MaxCost = Weight(Recording(k, t, C))
         /\ Weight(Busy(l, t, C)) + MaxCost = Weight(Busy(k, t, C))
         /\ Weight(Busy(l, t, C)) \in Nat
         /\ Recording(l, t, C) = Recording(k, t, C) \ {c}
<1>1. /\ Recording(l, t, C) = Recording(k, t, C) \ {c}
      /\ Recording(l, t, C) \in SUBSET Calls /\ c \in Calls \ Recording(l, t, C)
      /\ Recording(k, t, C) = Recording(l, t, C) \cup {c}
  BY DEF Recording
<1>2. /\ Busy(l, t, C) \in SUBSET Calls /\ c \in Calls \ Busy(l, t, C)
      /\ Busy(k, t, C) = Busy(l, t, C) \cup {c}
  BY DEF Busy, Recording
<1> QED
  BY <1>1, <1>2, Weights

\* A call writes what it read and its cost: it pays with the headroom.  Other
\* calls have read a total that is overwritten, for which the floor sinks.
LEMMA LedgerWrite ==
  ASSUME NEW C \in SUBSET Calls, NEW k \in [Calls -> State], NEW l, NEW t,
         NEW total \in Nat, NEW headroom \in Nat, NEW floor \in Nat,
         Ledger(k, t, C, total, headroom, floor),
         NEW c \in Recording(k, t, C), k[c].cost <= MaxCost,
         l[c].pc = "idle", \A d \in C \ {c} : l[d] = k[d],
         NEW written \in Nat, written = k[c].read + k[c].cost,
         NEW left \in Nat, left + k[c].cost = headroom,
         NEW low \in Nat, low <= floor,
         low + MaxCost <= floor \/ Recording(k, t, C) = {c}
  PROVE  Ledger(l, t, C, written, left, low)
<1>1. /\ k[c].read \in Nat /\ k[c].cost \in Nat /\ MaxCost \in Nat
      /\ \A d \in Recording(k, t, C) : k[d].read \in Nat
  BY MaxCostIsMax DEF Recording, State
<1>2. /\ Recording(l, t, C) = Recording(k, t, C) \ {c}
      /\ Weight(Busy(l, t, C)) + MaxCost = Weight(Busy(k, t, C))
      /\ Weight(Busy(l, t, C)) \in Nat
  <2>1. Recording(l, t, C) = Recording(k, t, C) \ {c}
    BY DEF Recording
  <2>2. Weight(Busy(l, t, C)) + MaxCost = Weight(Busy(k, t, C))
    BY WriteWeighs
  <2>3. Weight(Busy(l, t, C)) \in Nat
    BY WeightOfBusy
  <2> QED
    BY <2>1, <2>2, <2>3
<1>3. left >= Weight(Busy(l, t, C))
  <2>1. headroom >= Weight(Busy(k, t, C))
    BY DEF Ledger
  <2> QED
    BY <1>1, <1>2, <2>1
<1>4. written + left >= low
  BY <1>1 DEF Ledger
<1>5. ASSUME NEW d \in Recording(l, t, C)
      PROVE  l[d].read + left >= low
  <2>1. d \in Recording(k, t, C) /\ d # c /\ l[d] = k[d]
    BY <1>2 DEF Recording
  <2>2. low + MaxCost <= floor /\ k[d].read + headroom >= floor /\ k[d].read \in Nat
    BY <1>1, <2>1 DEF Ledger
  <2> QED
    BY <1>1, <2>1, <2>2
<1> QED
  BY <1>3, <1>4, <1>5 DEF Ledger

-----------------------------------------------------------------------------
(* What a task may cost, divided among the ledgers.                        *)

OnRedis == {p \in Procs : backend[p] = "redis"}

\* The floor of the ledger of p, and of the one in Redis.
Mine(p) == Room + Weight(CallsOf({p}))
Share == Room + Weight(Calls)

\* The bound of OverrunBounded.
Allowed(e, x) == Cardinality(Procs) * Room + Weight(Calls) + e * Share + x * MaxCost

\* h[p] is the headroom of the dict of p, r that of Redis; s is what calls that
\* record at once would overwrite.
Covered(t, h, r, s) ==
  /\ h \in [Procs -> Nat] /\ r \in Nat /\ s \in Nat
  /\ spent[t] + Sum(h, Procs) + r <= Allowed(epochs, clashes)
  /\ \A p \in Procs \ OnRedis : Ledger(call, t, CallsOf({p}), memory[p][t], h[p], Mine(p))
  /\ OnRedis # {} =>
       /\ Ledger(call, t, CallsOf(OnRedis), redis[t], r, Share + s)
       /\ Weight(Recording(call, t, CallsOf(OnRedis))) <= s + MaxCost

IsCovered(t) == \E h, r, s : Covered(t, h, r, s)

LEMMA Amounts ==
  ASSUME Estimate <= Budget
  PROVE  /\ Room \in Nat /\ MaxCost \in Nat
         /\ Share \in Nat /\ Share = Room + Weight(Calls) /\ Weight(Calls) \in Nat
BY BudgetAssumption, MaxCostIsMax, Weights DEF Room, Share

LEMMA Floors ==
  ASSUME Estimate <= Budget, NEW p
  PROVE  /\ CallsOf({p}) \in SUBSET Calls
         /\ Mine(p) \in Nat /\ Mine(p) <= Share
         /\ Weight(CallsOf({p})) \in Nat /\ Mine(p) >= Weight(CallsOf({p}))
         /\ Mine(p) = Room + Weight(CallsOf({p}))
<1>1. CallsOf({p}) \in SUBSET Calls
  BY DEF CallsOf
<1>2. Weight(CallsOf({p})) \in Nat /\ Weight(CallsOf({p})) <= Weight(Calls)
  BY <1>1, Weights
<1> QED
  BY <1>1, <1>2, Amounts DEF Mine

LEMMA AllowedGrows ==
  ASSUME Estimate <= Budget, NEW e \in Nat, NEW x \in Nat
  PROVE  /\ Allowed(e, x) \in Nat
         /\ Allowed(e + 1, x) = Allowed(e, x) + Share
         /\ Allowed(e, x + 1) = Allowed(e, x) + MaxCost
<1> DEFINE A == Cardinality(Procs) * Room
           B == e * Share
           C == x * MaxCost
<1>1. Room \in Nat /\ MaxCost \in Nat /\ Share \in Nat /\ Weight(Calls) \in Nat
  BY Amounts
<1>2. \A a, b \in Nat : (a + 1) * b = a * b + b /\ a * b \in Nat
  OBVIOUS
<1>3. (e + 1) * Share = B + Share /\ (x + 1) * MaxCost = C + MaxCost
  BY <1>1, <1>2
<1>4. A \in Nat /\ B \in Nat /\ C \in Nat
  BY <1>1, <1>2, FS_CardinalityType, BudgetAssumption
<1>5. /\ Allowed(e, x) = A + Weight(Calls) + B + C
      /\ Allowed(e + 1, x) = A + Weight(Calls) + (B + Share) + C
      /\ Allowed(e, x + 1) = A + Weight(Calls) + B + (C + MaxCost)
  BY <1>3 DEF Allowed
<1> HIDE DEF A, B, C
<1> QED
  BY <1>1, <1>4, <1>5

LEMMA CallsOfType == \A P : CallsOf(P) \in SUBSET Calls
BY DEF CallsOf

\* A ledger whose calls do not change.
LEMMA LedgerSame ==
  ASSUME NEW C \in SUBSET Calls, NEW D \in SUBSET C, NEW k, NEW l, NEW t,
         NEW total \in Nat, NEW headroom \in Nat, NEW floor \in Nat,
         Ledger(k, t, C, total, headroom, floor), \A c \in D : l[c] = k[c]
  PROVE  /\ Ledger(l, t, D, total, headroom, floor)
         /\ Weight(Recording(l, t, D)) <= Weight(Recording(k, t, C))
  BY LedgerQuiet

\* A step of p, which is in its fallback afterwards, with a ledger of its own.
LEMMA MemoryStep ==
  ASSUME Estimate <= Budget, TypeOK, TypeOK', NEW t \in Tasks,
         NEW h, NEW r, NEW s, Covered(t, h, r, s),
         NEW p \in Procs, backend' = [backend EXCEPT ![p] = "memory"],
         \A q \in Procs \ {p} : memory'[q][t] = memory[q][t],
         redis'[t] = redis[t],
         \A c \in Calls : ProcOf[c] # p => call'[c] = call[c],
         NEW v \in Nat, Ledger(call', t, CallsOf({p}), memory'[p][t], v, Mine(p)),
         spent'[t] + v + Allowed(epochs, clashes)
           <= spent[t] + h[p] + Allowed(epochs', clashes')
  PROVE  IsCovered(t)'
<1> DEFINE g == [h EXCEPT ![p] = v]
<1>1. h \in [Procs -> Nat] /\ r \in Nat /\ s \in Nat
  BY DEF Covered
<1>2. /\ g \in [Procs -> Nat] /\ Sum(h, Procs) \in Nat /\ h[p] \in Nat
      /\ Sum(g, Procs) = Sum(h, Procs) - h[p] + v
      /\ g[p] = v /\ \A q \in Procs \ {p} : g[q] = h[q]
  <2>1. g \in [Procs -> Nat] /\ g[p] = v /\ \A q \in Procs \ {p} : g[q] = h[q]
    BY <1>1
  <2> HIDE DEF g
  <2> QED
    BY <1>1, <2>1, SumChanges
<1> HIDE DEF g
<1>3. OnRedis' = OnRedis \ {p}
  BY Types DEF OnRedis
<1>4. spent'[t] + Sum(g, Procs) + r <= Allowed(epochs', clashes')
  <2>1. /\ spent[t] \in Nat /\ spent'[t] \in Nat
        /\ Allowed(epochs, clashes) \in Nat /\ Allowed(epochs', clashes') \in Nat
    BY AllowedGrows DEF TypeOK
  <2>2. spent[t] + Sum(h, Procs) + r <= Allowed(epochs, clashes)
    BY DEF Covered
  <2> QED
    BY <1>1, <1>2, <2>1, <2>2
<1>5. ASSUME NEW q \in Procs \ OnRedis'
      PROVE  Ledger(call', t, CallsOf({q}), memory'[q][t], g[q], Mine(q))
  <2>1. CASE q = p
    BY <1>2, <2>1
  <2>2. CASE q # p
    <3> DEFINE C == CallsOf({q})
    <3>1. /\ Ledger(call, t, C, memory[q][t], h[q], Mine(q))
          /\ g[q] = h[q] /\ memory'[q][t] = memory[q][t]
      BY <1>2, <1>3, <2>2 DEF Covered
    <3>2. \A c \in C : call'[c] = call[c]
      BY <2>2 DEF CallsOf
    <3>3. C \in SUBSET Calls /\ memory[q][t] \in Nat /\ h[q] \in Nat /\ Mine(q) \in Nat
      BY <1>1, Types, Floors
    <3>4. Ledger(call', t, C, memory[q][t], h[q], Mine(q))
      <4> HIDE DEF C
      <4> QED
        BY <3>1, <3>2, <3>3, LedgerSame
    <3> QED
      BY <3>1, <3>4
  <2> QED
    BY <2>1, <2>2
<1>6. ASSUME OnRedis' # {}
      PROVE  /\ Ledger(call', t, CallsOf(OnRedis'), redis'[t], r, Share + s)
             /\ Weight(Recording(call', t, CallsOf(OnRedis'))) <= s + MaxCost
  <2>1. /\ Ledger(call, t, CallsOf(OnRedis), redis[t], r, Share + s)
        /\ Weight(Recording(call, t, CallsOf(OnRedis))) <= s + MaxCost
    BY <1>3, <1>6 DEF Covered
  <2>2. /\ CallsOf(OnRedis') \in SUBSET CallsOf(OnRedis) /\ CallsOf(OnRedis) \in SUBSET Calls
        /\ \A c \in CallsOf(OnRedis') : call'[c] = call[c]
    BY <1>3 DEF CallsOf
  <2>3. redis[t] \in Nat
    BY Types
  <2>4. Share + s \in Nat /\ MaxCost \in Nat
    BY <1>1, Amounts
  <2>5. /\ Ledger(call', t, CallsOf(OnRedis'), redis[t], r, Share + s)
        /\ Weight(Recording(call', t, CallsOf(OnRedis')))
             <= Weight(Recording(call, t, CallsOf(OnRedis)))
    BY <1>1, <2>1, <2>2, <2>3, <2>4, LedgerSame
  <2>6. /\ Weight(Recording(call', t, CallsOf(OnRedis'))) \in Nat
        /\ Weight(Recording(call, t, CallsOf(OnRedis))) \in Nat
    BY CallsOfType, WeightOfBusy
  <2> QED
    BY <1>1, <2>1, <2>4, <2>5, <2>6
<1>7. Covered(t, g, r, s)'
  BY <1>1, <1>2, <1>4, <1>5, <1>6 DEF Covered
<1> QED
  BY <1>7 DEF IsCovered

\* A step of p, which is on Redis afterwards.
LEMMA RedisStep ==
  ASSUME Estimate <= Budget, TypeOK, TypeOK', NEW t \in Tasks,
         NEW h, NEW r, NEW s, Covered(t, h, r, s),
         NEW p \in Procs, backend' = [backend EXCEPT ![p] = "redis"],
         \A q \in Procs \ {p} : memory'[q][t] = memory[q][t],
         \A c \in Calls : ProcOf[c] # p => call'[c] = call[c],
         NEW v \in Nat, NEW z \in Nat,
         Ledger(call', t, CallsOf(OnRedis'), redis'[t], v, Share + z),
         Weight(Recording(call', t, CallsOf(OnRedis'))) <= z + MaxCost,
         spent'[t] + v + Allowed(epochs, clashes)
           <= spent[t] + r + Allowed(epochs', clashes')
  PROVE  IsCovered(t)'
<1>1. h \in [Procs -> Nat] /\ r \in Nat /\ s \in Nat /\ Sum(h, Procs) \in Nat
  BY SumGrows DEF Covered
<1>2. OnRedis' = OnRedis \cup {p}
  BY Types DEF OnRedis
<1>3. spent'[t] + Sum(h, Procs) + v <= Allowed(epochs', clashes')
  <2>1. /\ spent[t] \in Nat /\ spent'[t] \in Nat
        /\ Allowed(epochs, clashes) \in Nat /\ Allowed(epochs', clashes') \in Nat
    BY AllowedGrows DEF TypeOK
  <2>2. spent[t] + Sum(h, Procs) + r <= Allowed(epochs, clashes)
    BY DEF Covered
  <2> QED
    BY <1>1, <2>1, <2>2
<1>4. ASSUME NEW q \in Procs \ OnRedis'
      PROVE  Ledger(call', t, CallsOf({q}), memory'[q][t], h[q], Mine(q))
  <2>1. /\ Ledger(call, t, CallsOf({q}), memory[q][t], h[q], Mine(q))
        /\ q # p /\ memory'[q][t] = memory[q][t]
    BY <1>2 DEF Covered
  <2>2. \A c \in CallsOf({q}) : call'[c] = call[c]
    BY <2>1 DEF CallsOf
  <2>3. memory[q][t] \in Nat /\ h[q] \in Nat /\ Mine(q) \in Nat /\ CallsOf({q}) \in SUBSET Calls
    BY <1>1, Types, Floors
  <2> QED
    BY <2>1, <2>2, <2>3, LedgerSame
<1>5. Covered(t, h, v, z)'
  BY <1>1, <1>3, <1>4 DEF Covered
<1> QED
  BY <1>5 DEF IsCovered

\* A step in which no ledger changes and no call begins.
LEMMA QuietCovered ==
  ASSUME Estimate <= Budget, TypeOK, TypeOK', NEW t \in Tasks, IsCovered(t),
         UNCHANGED backend, redis'[t] = redis[t], spent'[t] = spent[t], epochs' = epochs,
         clashes' = clashes \/ clashes' = clashes + 1,
         \A q \in Procs \ OnRedis : memory'[q][t] = memory[q][t],
         \A c \in Calls : call'[c].pc # "idle" /\ call'[c].task = t =>
           call[c].pc # "idle" /\ call[c].task = t,
         \A c \in Calls : call'[c].pc = "recording" /\ call'[c].task = t => call'[c] = call[c]
  PROVE  IsCovered(t)'
<1>1. PICK h, r, s : Covered(t, h, r, s)
  BY DEF IsCovered
<1>2. h \in [Procs -> Nat] /\ r \in Nat /\ s \in Nat /\ Sum(h, Procs) \in Nat
  BY <1>1, SumGrows DEF Covered
<1>3. OnRedis' = OnRedis
  BY DEF OnRedis
<1>4. spent'[t] + Sum(h, Procs) + r <= Allowed(epochs', clashes')
  <2>1. /\ Allowed(epochs, clashes) \in Nat /\ MaxCost \in Nat
        /\ Allowed(epochs, clashes + 1) = Allowed(epochs, clashes) + MaxCost
    BY AllowedGrows, Amounts DEF TypeOK
  <2>2. Allowed(epochs', clashes') >= Allowed(epochs, clashes)
    BY <2>1
  <2>3. Allowed(epochs', clashes') \in Nat /\ spent[t] \in Nat
    BY AllowedGrows DEF TypeOK
  <2> QED
    BY <1>1, <1>2, <2>1, <2>2, <2>3 DEF Covered
<1>5. ASSUME NEW q \in Procs \ OnRedis
      PROVE  Ledger(call', t, CallsOf({q}), memory[q][t], h[q], Mine(q))
  <2> DEFINE C == CallsOf({q})
  <2>1. Ledger(call, t, C, memory[q][t], h[q], Mine(q))
    BY <1>1 DEF Covered
  <2>2. C \in SUBSET Calls /\ memory[q][t] \in Nat /\ h[q] \in Nat /\ Mine(q) \in Nat
    BY <1>2, Types, Floors
  <2> HIDE DEF C
  <2>3. Ledger(call', t, C, memory[q][t], h[q], Mine(q))
    BY <2>1, <2>2, LedgerQuiet
  <2> QED
    BY <2>3 DEF C
<1>6. ASSUME OnRedis # {}
      PROVE  /\ Ledger(call', t, CallsOf(OnRedis), redis[t], r, Share + s)
             /\ Weight(Recording(call', t, CallsOf(OnRedis))) <= s + MaxCost
  <2> DEFINE C == CallsOf(OnRedis)
  <2>1. /\ Ledger(call, t, C, redis[t], r, Share + s)
        /\ Weight(Recording(call, t, C)) <= s + MaxCost
    BY <1>1, <1>6 DEF Covered
  <2>2. redis[t] \in Nat
    BY Types
  <2>3. C \in SUBSET Calls /\ Share + s \in Nat /\ MaxCost \in Nat
    BY <1>2, Amounts, CallsOfType
  <2> HIDE DEF C
  <2>4. /\ Ledger(call', t, C, redis[t], r, Share + s)
        /\ Weight(Recording(call', t, C)) <= Weight(Recording(call, t, C))
    BY <1>2, <2>1, <2>2, <2>3, LedgerQuiet
  <2>5. Weight(Recording(call', t, C)) \in Nat /\ Weight(Recording(call, t, C)) \in Nat
    BY <2>3, WeightOfBusy
  <2> QED
    BY <1>2, <2>1, <2>3, <2>4, <2>5 DEF C
<1>7. Covered(t, h, r, s)'
  BY <1>2, <1>3, <1>4, <1>5, <1>6 DEF Covered
<1> QED
  BY <1>7 DEF IsCovered

\* A process loses sight of what was spent: it opens a ledger, which the bound
\* allows once more.
LEMMA LostCovered ==
  ASSUME Estimate <= Budget, TypeOK, TypeOK', NEW t \in Tasks, IsCovered(t),
         NEW p \in Procs, backend' = [backend EXCEPT ![p] = "memory"],
         \A q \in Procs \ {p} : memory'[q][t] = memory[q][t],
         redis'[t] = redis[t], spent'[t] = spent[t], epochs' = epochs + 1,
         clashes' = clashes \/ clashes' = clashes + 1,
         \A c \in Calls : ProcOf[c] # p => call'[c] = call[c]
  PROVE  IsCovered(t)'
<1>1. PICK h, r, s : Covered(t, h, r, s)
  BY DEF IsCovered
<1>2. h[p] \in Nat
  BY <1>1 DEF Covered
<1>3. /\ Mine(p) \in Nat /\ Mine(p) <= Share /\ Share \in Nat
      /\ Mine(p) >= Weight(CallsOf({p})) /\ CallsOf({p}) \in SUBSET Calls
  BY Amounts, Floors
<1>4. Ledger(call', t, CallsOf({p}), memory'[p][t], Mine(p), Mine(p))
  <2>1. call' \in [Calls -> State] /\ memory'[p][t] \in Nat
    BY DEF TypeOK, State
  <2> QED
    BY <1>3, <2>1, LedgerNew
<1>5. spent'[t] + Mine(p) + Allowed(epochs, clashes)
        <= spent[t] + h[p] + Allowed(epochs', clashes')
  <2>1. /\ epochs \in Nat /\ epochs + 1 \in Nat /\ clashes \in Nat /\ spent[t] \in Nat
    BY Types
  <2>2. /\ Allowed(epochs + 1, clashes) = Allowed(epochs, clashes) + Share
        /\ Allowed(epochs, clashes) \in Nat
    BY <2>1, AllowedGrows
  <2>3. /\ Allowed(epochs + 1, clashes + 1) = Allowed(epochs + 1, clashes) + MaxCost
        /\ MaxCost \in Nat
    BY <2>1, AllowedGrows, Amounts
  <2> QED
    BY <1>2, <1>3, <2>1, <2>2, <2>3
<1> QED
  BY <1>1, <1>3, <1>4, <1>5, MemoryStep

LEMMA GetFailsCovered ==
  ASSUME Estimate <= Budget, TypeOK, TypeOK', NEW t \in Tasks, IsCovered(t),
         NEW p \in Procs, GetFails(p), UNCHANGED <<redis, spent>>,
         clashes' = clashes \/ clashes' = clashes + 1,
         \A c \in Calls : ProcOf[c] # p => call'[c] = call[c]
  PROVE  IsCovered(t)'
<1>1. /\ backend' = [backend EXCEPT ![p] = "memory"] /\ epochs' = epochs + 1
      /\ \A q \in Procs \ {p} : memory'[q][t] = memory[q][t]
  BY Types DEF GetFails
<1> QED
  BY <1>1, LostCovered

LEMMA AttachCovered ==
  ASSUME Estimate <= Budget, TypeOK, TypeOK', NEW t \in Tasks, IsCovered(t),
         NEW c \in Calls, Attach(c) \/ Refuse(c)
  PROVE  IsCovered(t)'
<1>1. ProcOf[c] \in Procs
  BY Types
<1> QED
  BY <1>1, GetFailsCovered DEF Attach, Refuse

LEMMA CallFailsCovered ==
  ASSUME Estimate <= Budget, TypeOK, TypeOK', NEW t \in Tasks, IsCovered(t),
         NEW c \in Calls, CallFails(c)
  PROVE  IsCovered(t)'
<1>1. PICK u \in Tasks : call' = [call EXCEPT ![c] = Idle(u)]
  BY DEF CallFails
<1>2. call'[c].pc = "idle" /\ \A d \in Calls \ {c} : call'[d] = call[d]
  BY <1>1, Types, IdleState
<1> QED
  BY <1>2, QuietCovered DEF CallFails

LEMMA CheckCovered ==
  ASSUME Estimate <= Budget, TypeOK, TypeOK', NEW t \in Tasks, IsCovered(t),
         NEW c \in Calls, Check(c)
  PROVE  IsCovered(t)'
<1> DEFINE p == ProcOf[c]
<1>1. /\ p \in Procs /\ call[c].pc = "idle" /\ call[c].task \in Tasks
      /\ call'[c].pc = "sent" /\ call'[c].task = call[c].task
      /\ \A d \in Calls \ {c} : call'[d] = call[d]
      /\ UNCHANGED <<redis, restarts, spent, clashes>>
  BY Types DEF Check, Update, State
<1>2. CASE GetFails(p)
  BY <1>1, <1>2, GetFailsCovered
<1>3. CASE GetWorks(p) /\ call[c].task # t
  BY <1>1, <1>3, QuietCovered DEF GetWorks
<1>4. CASE GetWorks(p) /\ call[c].task = t /\ Fits(Seen(p, t))
  <2>1. PICK h, r, s : Covered(t, h, r, s)
    BY DEF IsCovered
  <2>2. /\ h \in [Procs -> Nat] /\ r \in Nat /\ s \in Nat
        /\ Room \in Nat /\ Share \in Nat /\ MaxCost \in Nat
        /\ Seen(p, t) \in Nat /\ Seen(p, t) <= Room
    BY <1>1, <1>4, <2>1, Amounts, SeenType, BudgetAssumption DEF Covered, Fits, Room
  <2>3. /\ UNCHANGED <<backend, memory, epochs>> /\ OnRedis' = OnRedis
        /\ \A d \in Calls : ProcOf[d] # p => call'[d] = call[d]
        /\ \A d \in Calls : call'[d].pc = "recording" /\ call'[d].task = t => call'[d] = call[d]
    BY <1>1, <1>4 DEF GetWorks, OnRedis
  <2>4. spent[t] \in Nat /\ Allowed(epochs, clashes) \in Nat
    BY AllowedGrows DEF TypeOK
  <2>5. CASE p \notin OnRedis
    <3> DEFINE C == CallsOf({p})
    <3>1. /\ Ledger(call, t, C, memory[p][t], h[p], Mine(p)) /\ Seen(p, t) = memory[p][t]
      BY <1>1, <2>1, <2>5, Types DEF Covered, Seen, OnRedis
    <3>2. /\ C \in SUBSET Calls /\ Mine(p) \in Nat /\ h[p] \in Nat /\ memory[p][t] \in Nat
          /\ Mine(p) = Room + Weight(C)
          /\ \A d \in C : call'[d].pc = "recording" /\ call'[d].task = t => call'[d] = call[d]
      BY <1>1, <2>2, <2>3, Floors, Types
    <3>3. Mine(p) >= Room + Weight(C)
      BY <2>2, <3>2
    <3>4. Ledger(call', t, C, memory[p][t], h[p], Mine(p))
      <4> HIDE DEF C
      <4> QED
        BY <2>2, <3>1, <3>2, <3>3, LedgerSend
    <3>5. backend' = [backend EXCEPT ![p] = "memory"]
      BY <1>1, <2>3, <2>5, Types DEF OnRedis
    <3>6. spent'[t] + h[p] + Allowed(epochs, clashes)
            <= spent[t] + h[p] + Allowed(epochs', clashes')
      BY <1>1, <2>3, <2>4, <3>2
    <3> QED
      BY <1>1, <2>1, <2>3, <3>2, <3>4, <3>5, <3>6, MemoryStep
  <2>6. CASE p \in OnRedis
    <3> DEFINE C == CallsOf(OnRedis)
    <3>1. /\ Ledger(call, t, C, redis[t], r, Share + s) /\ Seen(p, t) = redis[t]
          /\ Weight(Recording(call, t, C)) <= s + MaxCost
      BY <1>1, <2>1, <2>6, Types DEF Covered, Seen, OnRedis
    <3>2. C \in SUBSET Calls /\ redis[t] \in Nat
      BY CallsOfType, Types
    <3>3. \A d \in C : call'[d].pc = "recording" /\ call'[d].task = t => call'[d] = call[d]
      BY <2>3, <3>2
    <3>4. Share + s \in Nat /\ Share + s >= Room + Weight(C)
      <4>1. Weight(C) \in Nat /\ Weight(Calls) \in Nat /\ Weight(C) <= Weight(Calls)
        BY <3>2, Weights
      <4>2. Share = Room + Weight(Calls)
        BY Amounts
      <4> QED
        BY <2>2, <4>1, <4>2
    <3> HIDE DEF C
    <3>5. /\ Ledger(call', t, C, redis[t], r, Share + s)
          /\ Weight(Recording(call', t, C)) <= Weight(Recording(call, t, C))
      BY <2>2, <3>1, <3>2, <3>3, <3>4, LedgerSend
    <3>6. Weight(Recording(call', t, C)) <= s + MaxCost
      <4>1. Weight(Recording(call', t, C)) \in Nat /\ Weight(Recording(call, t, C)) \in Nat
        BY <3>2, WeightOfBusy
      <4> QED
        BY <2>2, <3>1, <3>5, <4>1
    <3>7. backend' = [backend EXCEPT ![p] = "redis"]
      BY <1>1, <2>3, <2>6, Types DEF OnRedis
    <3>8. spent'[t] + r + Allowed(epochs, clashes) <= spent[t] + r + Allowed(epochs', clashes')
      BY <1>1, <2>2, <2>3, <2>4
    <3> QED
      BY <1>1, <2>1, <2>2, <2>3, <3>5, <3>6, <3>7, <3>8, RedisStep DEF C
  <2> QED
    BY <2>5, <2>6
<1> QED
  BY <1>2, <1>3, <1>4 DEF Check

LEMMA RecordReadsCovered ==
  ASSUME Estimate <= Budget, TypeOK, TypeOK', OnePerProcess', NEW t \in Tasks, IsCovered(t),
         NEW c \in Calls, NEW cost \in Costs, RecordReads(c, cost)
  PROVE  IsCovered(t)'
<1> DEFINE p == ProcOf[c]
<1>1. /\ p \in Procs /\ call[c].pc = "sent" /\ call[c].task \in Tasks
      /\ call'[c].pc = "recording" /\ call'[c].task = call[c].task
      /\ \A d \in Calls \ {c} : call'[d] = call[d]
      /\ UNCHANGED <<redis, restarts, spent>>
      /\ clashes' = IF Overlapped(p, call[c].task) THEN clashes + 1 ELSE clashes
      /\ GetFails(p) \/ (GetWorks(p) /\ call'[c].read = Seen(p, call[c].task))
  BY Types DEF RecordReads, Update, State
<1>2. CASE GetFails(p)
  BY <1>1, <1>2, GetFailsCovered
<1>3. CASE GetWorks(p) /\ call[c].task # t
  BY <1>1, <1>3, QuietCovered DEF GetWorks
<1>4. CASE GetWorks(p) /\ call[c].task = t /\ call'[c].read = Seen(p, t)
  <2>1. PICK h, r, s : Covered(t, h, r, s)
    BY DEF IsCovered
  <2>2. /\ h \in [Procs -> Nat] /\ r \in Nat /\ s \in Nat
        /\ Room \in Nat /\ Share \in Nat /\ MaxCost \in Nat
    BY <2>1, Amounts DEF Covered
  <2>3. /\ UNCHANGED <<backend, memory, epochs>> /\ OnRedis' = OnRedis
        /\ \A d \in Calls : ProcOf[d] # p => call'[d] = call[d]
    BY <1>1, <1>4 DEF GetWorks, OnRedis
  <2>4. /\ spent[t] \in Nat /\ spent'[t] = spent[t] /\ Allowed(epochs, clashes) \in Nat
        /\ Allowed(epochs, clashes + 1) = Allowed(epochs, clashes) + MaxCost
    BY <1>1, AllowedGrows DEF TypeOK
  <2>5. Allowed(epochs', clashes') >= Allowed(epochs, clashes)
    BY <1>1, <2>2, <2>3, <2>4
  <2>6. CASE p \notin OnRedis
    <3> DEFINE C == CallsOf({p})
    <3>1. /\ Ledger(call, t, C, memory[p][t], h[p], Mine(p)) /\ Seen(p, t) = memory[p][t]
      BY <1>1, <2>1, <2>6, Types DEF Covered, Seen, OnRedis
    <3>2. C \in SUBSET Calls /\ Mine(p) \in Nat /\ h[p] \in Nat /\ memory[p][t] \in Nat
      BY <1>1, <2>2, Floors, Types
    <3>3. c \in C /\ \A d \in C \ {c} : call'[d] = call[d]
      BY <1>1 DEF CallsOf
    <3>4. Ledger(call', t, C, memory[p][t], h[p], Mine(p))
      <4> HIDE DEF C
      <4> QED
        BY <1>1, <1>4, <3>1, <3>2, <3>3, LedgerRead
    <3>5. backend' = [backend EXCEPT ![p] = "memory"]
      BY <1>1, <2>3, <2>6, Types DEF OnRedis
    <3>6. spent'[t] + h[p] + Allowed(epochs, clashes)
            <= spent[t] + h[p] + Allowed(epochs', clashes')
      <4>1. Allowed(epochs', clashes') \in Nat
        BY AllowedGrows DEF TypeOK
      <4> QED
        BY <2>4, <2>5, <3>2, <4>1
    <3> QED
      BY <1>1, <2>1, <2>3, <3>2, <3>4, <3>5, <3>6, MemoryStep
  <2>7. CASE p \in OnRedis
    <3> DEFINE C == CallsOf(OnRedis)
    <3>1. /\ Ledger(call, t, C, redis[t], r, Share + s) /\ Seen(p, t) = redis[t]
          /\ Weight(Recording(call, t, C)) <= s + MaxCost
      BY <1>1, <2>1, <2>7, Types DEF Covered, Seen, OnRedis
    <3>2. /\ C \in SUBSET Calls /\ redis[t] \in Nat /\ Share + s \in Nat
          /\ c \in C /\ \A d \in C \ {c} : call'[d] = call[d]
      <4>1. redis[t] \in Nat
        BY Types
      <4>2. C \in SUBSET Calls /\ c \in C
        BY <2>7, CallsOfType DEF CallsOf
      <4> QED
        BY <1>1, <2>2, <4>1, <4>2
    <3>3. /\ Ledger(call', t, C, redis[t], r, Share + s)
          /\ Recording(call', t, C) = Recording(call, t, C) \cup {c}
          /\ Weight(Recording(call', t, C)) = Weight(Recording(call, t, C)) + MaxCost
      <4>1. /\ call[c].pc = "sent" /\ call[c].task = t
            /\ call'[c].pc = "recording" /\ call'[c].task = t /\ call'[c].read = redis[t]
        BY <1>1, <1>4, <3>1
      <4> HIDE DEF C
      <4> QED
        BY <2>2, <3>1, <3>2, <4>1, LedgerRead
    <3>4. Weight(Recording(call, t, C)) \in Nat
      <4> HIDE DEF C
      <4> QED
        BY <3>2, WeightOfBusy
    <3>5. backend' = [backend EXCEPT ![p] = "redis"]
      BY <1>1, <2>3, <2>7, Types DEF OnRedis
    <3>6. CASE Overlapped(p, t)
      <4>1. call' \in [Calls -> State]
        BY DEF TypeOK, State
      <4>2. Ledger(call', t, C, redis[t], r + MaxCost, Share + s + MaxCost)
        <5> HIDE DEF C
        <5> QED
          BY <2>2, <3>2, <3>3, <4>1, LedgerRaised
      <4>3. /\ Share + s + MaxCost = Share + (s + MaxCost)
            /\ s + MaxCost \in Nat /\ r + MaxCost \in Nat
        BY <2>2
      <4>4. Weight(Recording(call', t, C)) <= (s + MaxCost) + MaxCost
        BY <2>2, <3>1, <3>3, <3>4
      <4>5. spent'[t] + (r + MaxCost) + Allowed(epochs, clashes)
              <= spent[t] + r + Allowed(epochs', clashes')
        BY <1>1, <1>4, <2>2, <2>3, <2>4, <3>6
      <4>6. Ledger(call', t, CallsOf(OnRedis'), redis'[t], r + MaxCost, Share + (s + MaxCost))
        BY <1>1, <2>3, <4>2, <4>3
      <4>7. Weight(Recording(call', t, CallsOf(OnRedis'))) <= (s + MaxCost) + MaxCost
        BY <2>3, <4>4
      <4> HIDE DEF C
      <4> QED
        BY <1>1, <2>1, <2>3, <3>5, <4>3, <4>5, <4>6, <4>7, RedisStep
    <3>7. CASE ~Overlapped(p, t)
      <4>1. Recording(call, t, C) = {}
        <5> SUFFICES ASSUME NEW d \in Recording(call, t, C)  PROVE FALSE
          OBVIOUS
        <5>1. d \in Calls /\ call[d].pc = "recording" /\ call[d].task = t /\ d # c
          BY <1>1, <3>2 DEF Recording
        <5>2. ProcOf[d] = p
          BY <3>7, <5>1 DEF Overlapped
        <5> QED
          BY <1>1, <5>1, <5>2 DEF OnePerProcess, IsRecording
      <4>2. Weight(Recording(call, t, C)) = 0
        BY <4>1, Weights
      <4>3. Weight(Recording(call', t, C)) <= s + MaxCost
        BY <2>2, <3>3, <4>2
      <4>4. spent'[t] + r + Allowed(epochs, clashes) <= spent[t] + r + Allowed(epochs', clashes')
        BY <1>1, <1>4, <2>2, <2>3, <2>4, <3>7
      <4>5. /\ Ledger(call', t, CallsOf(OnRedis'), redis'[t], r, Share + s)
            /\ Weight(Recording(call', t, CallsOf(OnRedis'))) <= s + MaxCost
        BY <1>1, <2>3, <3>3, <4>3
      <4> HIDE DEF C
      <4> QED
        BY <1>1, <2>1, <2>2, <2>3, <3>5, <4>4, <4>5, RedisStep
    <3> QED
      BY <3>6, <3>7
  <2> QED
    BY <2>6, <2>7
<1> QED
  BY <1>1, <1>2, <1>3, <1>4

LEMMA RecordWritesCovered ==
  ASSUME Estimate <= Budget, TypeOK, TypeOK', OnePerProcess, NEW t \in Tasks, IsCovered(t),
         NEW c \in Calls, call[c].cost \in Costs, RecordWrites(c)
  PROVE  IsCovered(t)'
<1> DEFINE p == ProcOf[c]
           k == call[c]
<1>1. /\ p \in Procs /\ k.pc = "recording" /\ k.task \in Tasks
      /\ k.read \in Nat /\ k.cost \in Nat
      /\ k.cost <= MaxCost /\ MaxCost \in Nat /\ Total(k) = k.read + k.cost
      /\ SetWorks(p, k.task, Total(k)) \/ SetFails(p, k.task, Total(k))
      /\ spent' = [spent EXCEPT ![k.task] = @ + k.cost]
      /\ UNCHANGED <<restarts, clashes>>
  BY Types, MaxCostIsMax DEF RecordWrites, State, Total
<1>2. /\ call'[c].pc = "idle" /\ \A d \in Calls \ {c} : call'[d] = call[d]
      /\ \A d \in Calls : ProcOf[d] # p => call'[d] = call[d]
      /\ call \in [Calls -> State] /\ call' \in [Calls -> State]
  <2>1. PICK u \in Tasks : call' = [call EXCEPT ![c] = Idle(u)]
    BY DEF RecordWrites
  <2>2. call' \in [Calls -> State]
    BY DEF TypeOK, State
  <2> QED
    BY <2>1, <2>2, Types, IdleState
<1>3. spent[t] \in Nat /\ spent'[t] = IF k.task = t THEN spent[t] + k.cost ELSE spent[t]
  BY <1>1, Types
<1>4. CASE k.task # t /\ SetWorks(p, k.task, Total(k))
  <2>1. /\ UNCHANGED <<backend, epochs>> /\ redis'[t] = redis[t]
        /\ \A q \in Procs : memory'[q][t] = memory[q][t]
    BY <1>1, <1>4, Types DEF SetWorks
  <2> QED
    BY <1>1, <1>2, <1>3, <1>4, <2>1, QuietCovered
<1>5. CASE k.task # t /\ SetFails(p, k.task, Total(k))
  <2>1. /\ backend' = [backend EXCEPT ![p] = "memory"] /\ epochs' = epochs + 1
        /\ UNCHANGED redis /\ \A q \in Procs \ {p} : memory'[q][t] = memory[q][t]
    BY <1>1, <1>5, Types DEF SetFails
  <2> QED
    BY <1>1, <1>2, <1>3, <1>5, <2>1, LostCovered
<1>6. ASSUME k.task = t  PROVE IsCovered(t)'
  <2>1. PICK h, r, s : Covered(t, h, r, s)
    BY DEF IsCovered
  <2>2. /\ h \in [Procs -> Nat] /\ r \in Nat /\ s \in Nat
        /\ Room \in Nat /\ Share \in Nat /\ MaxCost \in Nat
        /\ Allowed(epochs, clashes) \in Nat /\ spent'[t] = spent[t] + k.cost
    BY <1>3, <1>6, <2>1, Amounts, AllowedGrows DEF Covered, TypeOK
  <2>3. \A d \in Calls : call[d].pc = "recording" /\ ProcOf[d] = p => d = c
    BY <1>1 DEF OnePerProcess, IsRecording
  <2>4. CASE SetFails(p, t, Total(k))
    <3> DEFINE C == CallsOf({p})
    <3>1. /\ backend' = [backend EXCEPT ![p] = "memory"] /\ epochs' = epochs + 1
          /\ UNCHANGED redis /\ \A q \in Procs \ {p} : memory'[q][t] = memory[q][t]
          /\ memory'[p][t] = k.read + k.cost
      BY <1>1, <2>4, Types DEF SetFails, Zero
    <3>2. /\ C \in SUBSET Calls /\ c \in C /\ h[p] \in Nat /\ Mine(p) \in Nat
          /\ Mine(p) >= Weight(C) /\ Mine(p) <= Share /\ Weight(C) \in Nat
      BY <1>1, <2>2, Floors DEF CallsOf
    <3>3. Busy(call', t, C) \in SUBSET (C \ {c}) /\ Recording(call', t, C) = {}
      <4>1. Busy(call', t, C) \in SUBSET (C \ {c})
        BY <1>2 DEF Busy
      <4>2. Recording(call', t, C) = {}
        BY <1>2, <2>3 DEF Recording, CallsOf
      <4> QED
        BY <4>1, <4>2
    <3>4. /\ Weight(Busy(call', t, C)) <= Weight(C \ {c}) /\ Weight(C \ {c}) + MaxCost = Weight(C)
          /\ Weight(Busy(call', t, C)) \in Nat /\ Weight(C \ {c}) \in Nat
      <4> HIDE DEF C
      <4>1. C \ {c} \in SUBSET Calls /\ c \in Calls \ (C \ {c}) /\ (C \ {c}) \cup {c} = C
        BY <3>2
      <4>2. Busy(call', t, C) \in SUBSET Calls
        BY <3>2, <3>3
      <4> QED
        BY <3>3, <4>1, <4>2, Weights
    <3> DEFINE v == Mine(p) - k.cost
    <3>5. v \in Nat /\ v >= Weight(Busy(call', t, C)) /\ k.read + k.cost + v >= Mine(p)
      BY <1>1, <3>2, <3>4
    <3>6. Ledger(call', t, C, memory'[p][t], v, Mine(p))
      BY <3>1, <3>3, <3>5 DEF Ledger
    <3>7. spent'[t] + v + Allowed(epochs, clashes) <= spent[t] + h[p] + Allowed(epochs', clashes')
      <4>1. Allowed(epochs + 1, clashes) = Allowed(epochs, clashes) + Share
        BY AllowedGrows DEF TypeOK
      <4> QED
        BY <1>1, <1>3, <2>2, <3>1, <3>2, <4>1
    <3> HIDE DEF v
    <3> QED
      BY <1>1, <1>2, <2>1, <3>1, <3>5, <3>6, <3>7, MemoryStep
  <2>5. CASE SetWorks(p, t, Total(k)) /\ p \notin OnRedis
    <3> DEFINE C == CallsOf({p})
               v == h[p] - k.cost
    <3>1. /\ UNCHANGED <<backend, epochs, redis>> /\ memory'[p][t] = k.read + k.cost
          /\ \A q \in Procs \ {p} : memory'[q][t] = memory[q][t]
          /\ backend' = [backend EXCEPT ![p] = "memory"]
      BY <1>1, <2>5, Types DEF SetWorks, OnRedis
    <3>2. /\ C \in SUBSET Calls /\ Mine(p) \in Nat /\ h[p] \in Nat /\ memory[p][t] \in Nat
          /\ Ledger(call, t, C, memory[p][t], h[p], Mine(p))
      BY <1>1, <2>1, <2>2, <2>5, Floors, Types DEF Covered
    <3>3. Recording(call, t, C) = {c} /\ \A d \in C \ {c} : call'[d] = call[d]
      BY <1>1, <1>2, <1>6, <2>3 DEF Recording, CallsOf
    <3> HIDE DEF C
    <3>4. c \in Recording(call, t, C) /\ h[p] >= MaxCost
      BY <3>2, <3>3, LedgerPays
    <3>5. v \in Nat /\ v + k.cost = h[p]
      BY <1>1, <3>2, <3>4
    <3> HIDE DEF v
    <3>6. spent'[t] + v + Allowed(epochs, clashes) <= spent[t] + h[p] + Allowed(epochs', clashes')
      BY <1>1, <1>3, <2>2, <3>1, <3>2, <3>5
    <3>7. Ledger(call', t, C, Total(k), v, Mine(p))
      <4> DEFINE total == Total(k)
      <4>1. /\ total \in Nat /\ total = call[c].read + call[c].cost
            /\ call[c].cost <= MaxCost /\ v + call[c].cost = h[p]
            /\ Mine(p) <= Mine(p)
        BY <1>1, <3>2, <3>5
      <4>2. call \in [Calls -> State] /\ call'[c].pc = "idle"
        BY <1>2
      <4> HIDE DEF k, p, total
      <4>3. Ledger(call', t, C, total, v, Mine(p))
        BY <3>2, <3>3, <3>4, <3>5, <4>1, <4>2, LedgerWrite
      <4> QED
        BY <4>3 DEF total
    <3>8. Ledger(call', t, CallsOf({p}), memory'[p][t], v, Mine(p))
      BY <1>1, <3>1, <3>7 DEF C
    <3> QED
      BY <1>1, <1>2, <2>1, <3>1, <3>5, <3>6, <3>8, MemoryStep
  <2>6. CASE SetWorks(p, t, Total(k)) /\ p \in OnRedis
    <3> DEFINE C == CallsOf(OnRedis)
               v == r - k.cost
               z == IF s >= MaxCost THEN s - MaxCost ELSE 0
    <3>1. /\ UNCHANGED <<backend, epochs, memory>> /\ redis'[t] = k.read + k.cost
          /\ backend' = [backend EXCEPT ![p] = "redis"] /\ OnRedis' = OnRedis
      BY <1>1, <2>6, Types DEF SetWorks, OnRedis
    <3>2. /\ Ledger(call, t, C, redis[t], r, Share + s)
          /\ Weight(Recording(call, t, C)) <= s + MaxCost
      BY <2>1, <2>6 DEF Covered
    <3>3. C \in SUBSET Calls /\ redis[t] \in Nat
      BY CallsOfType, Types
    <3>4. c \in Recording(call, t, C) /\ \A d \in C \ {c} : call'[d] = call[d]
      BY <1>1, <1>2, <1>6, <2>6, <3>3 DEF Recording, CallsOf
    <3> HIDE DEF C
    <3>5. z \in Nat /\ Share + z \in Nat /\ Share + s \in Nat /\ Share + z <= Share + s
      BY <2>2
    <3>6. Share + z + MaxCost <= Share + s \/ Recording(call, t, C) = {c}
      <4>1. CASE s >= MaxCost
        BY <2>2, <4>1
      <4>2. CASE ~(s >= MaxCost)
        <5> SUFFICES ASSUME NEW d \in Recording(call, t, C), d # c  PROVE FALSE
          BY <3>4
        <5>1. /\ {c} \in SUBSET Calls /\ d \in Calls \ {c}
              /\ {c} \cup {d} \in SUBSET Recording(call, t, C)
              /\ Recording(call, t, C) \in SUBSET Calls
          BY <3>3, <3>4 DEF Recording
        <5>2. Weight({c} \cup {d}) = MaxCost + MaxCost
          BY <5>1, Weights
        <5>3. /\ Weight({c} \cup {d}) <= Weight(Recording(call, t, C))
              /\ Weight(Recording(call, t, C)) \in Nat
          BY <5>1, Weights
        <5>4. MaxCost + MaxCost <= s + MaxCost
          <6>1. Weight(Recording(call, t, C)) <= s + MaxCost
            BY <3>2
          <6> QED
            BY <2>2, <5>2, <5>3, <6>1
        <5> QED
          BY <2>2, <4>2, <5>4
      <4> QED
        BY <4>1, <4>2
    <3>7. v \in Nat /\ v + k.cost = r
      <4>1. r >= MaxCost
        BY <2>2, <3>2, <3>3, <3>4, <3>5, LedgerPays
      <4> QED
        BY <1>1, <2>2, <4>1
    <3> HIDE DEF v
    <3>8. /\ Ledger(call', t, C, Total(k), v, Share + z)
          /\ Weight(Recording(call', t, C)) + MaxCost = Weight(Recording(call, t, C))
      <4> DEFINE total == Total(k)
      <4>1. /\ total \in Nat /\ total = call[c].read + call[c].cost
            /\ call[c].cost <= MaxCost /\ v + call[c].cost = r
        BY <1>1, <3>7
      <4>2. call \in [Calls -> State] /\ call'[c].pc = "idle" /\ r \in Nat /\ v \in Nat
        BY <1>2, <2>2, <3>7
      <4> HIDE DEF z, k, p, total
      <4>3. Ledger(call', t, C, total, v, Share + z)
        BY <3>2, <3>3, <3>4, <3>5, <3>6, <4>1, <4>2, LedgerWrite
      <4>4. Weight(Recording(call', t, C)) + MaxCost = Weight(Recording(call, t, C))
        BY <3>3, <3>4, <4>2, WriteWeighs
      <4> QED
        BY <4>3, <4>4 DEF total
    <3>9. Weight(Recording(call', t, C)) <= z + MaxCost
      <4>1. Weight(Recording(call', t, C)) \in Nat
        BY <3>3, WeightOfBusy
      <4> QED
        BY <2>2, <3>2, <3>8, <4>1
    <3> HIDE DEF z
    <3>10. spent'[t] + v + Allowed(epochs, clashes) <= spent[t] + r + Allowed(epochs', clashes')
      BY <1>1, <1>3, <2>2, <3>1, <3>7
    <3>11. /\ Ledger(call', t, CallsOf(OnRedis'), redis'[t], v, Share + z)
           /\ Weight(Recording(call', t, CallsOf(OnRedis'))) <= z + MaxCost
      BY <1>1, <3>1, <3>8, <3>9 DEF C
    <3> QED
      BY <1>1, <1>2, <2>1, <3>1, <3>5, <3>7, <3>10, <3>11, RedisStep
  <2> QED
    BY <1>1, <1>6, <2>4, <2>5, <2>6
<1> QED
  BY <1>1, <1>4, <1>5, <1>6

LEMMA RestartCovered ==
  ASSUME Estimate <= Budget, TypeOK, TypeOK', NEW t \in Tasks, IsCovered(t),
         NEW p \in Procs, Restart(p)
  PROVE  IsCovered(t)'
<1>1. /\ \A c \in Calls : ProcOf[c] = p => call'[c].pc = "idle"
      /\ \A c \in Calls : ProcOf[c] # p => call'[c] = call[c]
      /\ \A q \in Procs \ {p} : memory'[q] = memory[q]
      /\ UNCHANGED <<redis, spent, clashes>>
      /\ epochs' = IF backend[p] = "redis" /\ backend'[p] = "redis" THEN epochs ELSE epochs + 1
  BY Types DEF Restart, Idle
<1>2. CASE backend' = [backend EXCEPT ![p] = "memory"]
  <2>1. epochs' = epochs + 1
    BY <1>1, <1>2, Types
  <2> QED
    BY <1>1, <1>2, <2>1, LostCovered
<1>3. CASE backend' = [backend EXCEPT ![p] = "redis"] /\ backend[p] = "redis"
  <2>1. backend' = backend /\ epochs' = epochs /\ p \in OnRedis
    BY <1>1, <1>3, Types DEF OnRedis
  <2> QED
    BY <1>1, <2>1, QuietCovered
<1>4. CASE backend' = [backend EXCEPT ![p] = "redis"] /\ backend[p] # "redis"
  <2>1. PICK h, r, s : Covered(t, h, r, s)
    BY DEF IsCovered
  <2>2. OnRedis' = OnRedis \cup {p} /\ p \notin OnRedis /\ epochs' = epochs + 1
    BY <1>1, <1>4, Types DEF OnRedis
  <2>3. /\ r \in Nat /\ s \in Nat /\ Share \in Nat /\ MaxCost \in Nat
        /\ spent[t] \in Nat /\ redis[t] \in Nat
        /\ Allowed(epochs, clashes) \in Nat
        /\ Allowed(epochs + 1, clashes) = Allowed(epochs, clashes) + Share
    BY <2>1, Amounts, AllowedGrows DEF Covered, TypeOK
  <2>4. \A c \in CallsOf(OnRedis') :
          call'[c].pc # "idle" => c \in CallsOf(OnRedis) /\ call'[c] = call[c]
    BY <1>1, <2>2 DEF CallsOf
  <2>5. CASE OnRedis = {}
    <3> DEFINE C == CallsOf(OnRedis')
    <3>1. C \in SUBSET Calls /\ Share >= Weight(C)
      <4>1. C \in SUBSET Calls
        BY CallsOfType
      <4>2. Weight(C) \in Nat /\ Weight(C) <= Weight(Calls)
        BY <4>1, Weights
      <4> QED
        BY <4>1, <4>2, Amounts
    <3>2. Recording(call', t, C) = {}
      BY <2>4, <2>5 DEF Recording, CallsOf
    <3>3. Weight(Recording(call', t, C)) <= 0 + MaxCost
      BY <2>3, <3>2, Weights
    <3>4. Ledger(call', t, C, redis'[t], Share, Share + 0)
      <4>1. call' \in [Calls -> State]
        BY DEF TypeOK, State
      <4>2. Share + 0 = Share
        BY <2>3
      <4> HIDE DEF C
      <4> QED
        BY <1>1, <2>3, <3>1, <4>1, <4>2, LedgerNew
    <3>5. spent'[t] + Share + Allowed(epochs, clashes) <= spent[t] + r + Allowed(epochs', clashes')
      BY <1>1, <2>2, <2>3
    <3> QED
      BY <1>1, <1>4, <2>1, <2>3, <3>3, <3>4, <3>5, RedisStep
  <2>6. CASE OnRedis # {}
    <3> DEFINE C == CallsOf(OnRedis)
               D == CallsOf(OnRedis')
    <3>1. /\ Ledger(call, t, C, redis[t], r, Share + s)
          /\ Weight(Recording(call, t, C)) <= s + MaxCost
      BY <2>1, <2>6 DEF Covered
    <3>2. C \in SUBSET Calls /\ D \in SUBSET Calls /\ Share + s \in Nat
      BY <2>3, CallsOfType
    <3> HIDE DEF C
    <3>3. /\ \A c \in D : call'[c].pc # "idle" /\ call'[c].task = t =>
               c \in C /\ call[c].pc # "idle" /\ call[c].task = t
          /\ \A c \in D : call'[c].pc = "recording" /\ call'[c].task = t => call'[c] = call[c]
      BY <2>4 DEF C
    <3> HIDE DEF D
    <3>4. /\ Ledger(call', t, D, redis[t], r, Share + s)
          /\ Weight(Recording(call', t, D)) <= Weight(Recording(call, t, C))
      BY <2>3, <3>1, <3>2, <3>3, LedgerQuiet
    <3>5. Weight(Recording(call', t, D)) <= s + MaxCost
      <4>1. Weight(Recording(call', t, D)) \in Nat /\ Weight(Recording(call, t, C)) \in Nat
        BY <3>2, WeightOfBusy
      <4> QED
        BY <2>3, <3>1, <3>4, <4>1
    <3>6. spent'[t] + r + Allowed(epochs, clashes) <= spent[t] + r + Allowed(epochs', clashes')
      BY <1>1, <2>2, <2>3
    <3> QED
      BY <1>1, <1>4, <2>1, <2>3, <3>4, <3>5, <3>6, RedisStep DEF D
  <2> QED
    BY <2>5, <2>6
<1> QED
  BY <1>2, <1>3, <1>4 DEF Restart

\* The floors of all the dicts are the first line of the bound.
LEMMA FloorsAddUp ==
  ASSUME Estimate <= Budget
  PROVE  Sum([p \in Procs |-> Mine(p)], Procs) = Cardinality(Procs) * Room + Weight(Calls)
<1> DEFINE h == [p \in Procs |-> Mine(p)]
           Good == {P \in SUBSET Procs :
                      Sum(h, P) = Cardinality(P) * Room + Weight(CallsOf(P))}
<1>1. h \in [Procs -> Nat] /\ Room \in Nat /\ IsFiniteSet(Procs)
  BY Floors, Amounts, BudgetAssumption
<1>2. {} \in Good
  <2>1. CallsOf({}) = {}
    BY DEF CallsOf
  <2>2. Sum(h, {}) = 0
    <3> HIDE DEF h
    <3> QED
      BY <1>1, SumGrows
  <2>3. Cardinality({}) * Room = 0
    BY <1>1, FS_EmptySet
  <2> QED
    BY <2>1, <2>2, <2>3, Weights
<1>3. ASSUME NEW P \in SUBSET Procs, NEW p \in Procs, P \in Good, p \notin P
      PROVE  P \cup {p} \in Good
  <2>1. Sum(h, P \cup {p}) = Sum(h, P) + h[p] /\ Sum(h, P) \in Nat
    <3> HIDE DEF h
    <3> QED
      BY <1>1, <1>3, SumGrows
  <2>2. h[p] = Room + Weight(CallsOf({p})) /\ Weight(CallsOf({p})) \in Nat
    BY Floors
  <2>3. Weight(CallsOf(P \cup {p})) = Weight(CallsOf(P)) + Weight(CallsOf({p}))
    <3>1. /\ CallsOf(P \cup {p}) = CallsOf(P) \cup CallsOf({p})
          /\ CallsOf(P) \cap CallsOf({p}) = {}
      BY <1>3 DEF CallsOf
    <3> QED
      BY <3>1, CallsOfType, WeightOfUnion
  <2>4. Cardinality(P \cup {p}) = Cardinality(P) + 1 /\ Cardinality(P) \in Nat
    BY <1>1, <1>3, FS_Subset, FS_AddElement, FS_CardinalityType
  <2>5. /\ Cardinality(P \cup {p}) * Room = Cardinality(P) * Room + Room
        /\ Cardinality(P) * Room \in Nat
    <3>1. \A n \in Nat : (n + 1) * Room = n * Room + Room /\ n * Room \in Nat
      BY <1>1
    <3> QED
      BY <2>4, <3>1
  <2>6. Weight(CallsOf(P)) \in Nat
    BY CallsOfType, Weights
  <2>7. Sum(h, P) = Cardinality(P) * Room + Weight(CallsOf(P))
    BY <1>3
  <2> DEFINE a == Sum(h, P)
             b == Cardinality(P) * Room
  <2>8. a + h[p] = (b + Room) + (Weight(CallsOf(P)) + Weight(CallsOf({p})))
    <3>1. a = b + Weight(CallsOf(P)) /\ b \in Nat
      BY <2>5, <2>7
    <3> HIDE DEF a, b, h
    <3> QED
      BY <1>1, <2>2, <2>6, <3>1
  <2> QED
    BY <2>1, <2>3, <2>5, <2>8
<1>4. Procs \in Good
  <2> HIDE DEF Good
  <2> QED
    BY <1>1, <1>2, <1>3, Grows
<1>5. CallsOf(Procs) = Calls
  BY BudgetAssumption DEF CallsOf
<1> QED
  BY <1>4, <1>5

-----------------------------------------------------------------------------
(* The bound holds.                                                        *)

CostsKnown == \A c \in Calls : IsRecording(c) => call[c].cost \in Costs

\* Every task is covered, unless a budget has no room for any call.
WithinBound ==
  /\ Estimate <= Budget => \A t \in Tasks : IsCovered(t)
  /\ ~(Estimate <= Budget) => spent = Zero /\ \A c \in Calls : call[c].pc = "idle"

LEMMA CostsKnownKept ==
  ASSUME Inv, CostsKnown, [Next]_vars
  PROVE  CostsKnown'
<1>1. \A c \in Calls : IsRecording(c)' =>
        \/ call'[c] = call[c]
        \/ \E cost \in Costs : call'[c].cost = cost
  <2>1. call \in [Calls -> State] /\ \A c \in Calls : call[c] \in State
    BY Types DEF Inv
  <2>2. ASSUME NEW d \in Calls, Attach(d) \/ Refuse(d)  PROVE UNCHANGED call
    BY <2>2 DEF Attach, Refuse
  <2>3. ASSUME NEW d \in Calls, Check(d)
        PROVE  call'[d].pc = "sent" /\ \A c \in Calls \ {d} : call'[c] = call[c]
    BY <2>1, <2>3 DEF Check, Update
  <2>4. ASSUME NEW d \in Calls, RecordWrites(d) \/ CallFails(d)
        PROVE  call'[d].pc = "idle" /\ \A c \in Calls \ {d} : call'[c] = call[c]
    BY <2>1, <2>4 DEF RecordWrites, CallFails, Idle
  <2>5. ASSUME NEW d \in Calls, NEW cost \in Costs, RecordReads(d, cost)
        PROVE  call'[d].cost = cost /\ \A c \in Calls \ {d} : call'[c] = call[c]
    BY <2>1, <2>5 DEF RecordReads, Update
  <2>6. ASSUME NEW p \in Procs, Restart(p)
        PROVE  \A c \in Calls : call'[c].pc = "idle" \/ call'[c] = call[c]
    BY <2>1, <2>6 DEF Restart, Idle
  <2>7. CASE UNCHANGED vars
    BY <2>7 DEF vars
  <2>8. CASE Next
    BY <2>2, <2>3, <2>4, <2>5, <2>6, <2>8 DEF Next, IsRecording
  <2> QED
    BY <2>7, <2>8
<1>2. \A c \in Calls : IsRecording(c)' /\ call'[c] = call[c] => IsRecording(c)
  BY DEF IsRecording
<1> QED
  BY <1>1, <1>2 DEF CostsKnown

LEMMA CoveredKept ==
  ASSUME Estimate <= Budget, Inv, Inv', CostsKnown, NEW t \in Tasks, IsCovered(t), [Next]_vars
  PROVE  IsCovered(t)'
<1>1. TypeOK /\ TypeOK' /\ OnePerProcess /\ OnePerProcess'
  BY DEF Inv
<1>2. CASE UNCHANGED vars
  BY <1>1, <1>2, QuietCovered DEF vars
<1>3. ASSUME NEW c \in Calls, Attach(c) \/ Refuse(c) PROVE IsCovered(t)'
  BY <1>1, <1>3, AttachCovered
<1>4. ASSUME NEW c \in Calls, Check(c) PROVE IsCovered(t)'
  BY <1>1, <1>4, CheckCovered
<1>5. ASSUME NEW c \in Calls, RecordWrites(c) PROVE IsCovered(t)'
  <2>1. call[c].cost \in Costs
    BY <1>5 DEF CostsKnown, RecordWrites, IsRecording
  <2> QED
    BY <1>1, <1>5, <2>1, RecordWritesCovered
<1>6. ASSUME NEW c \in Calls, CallFails(c) PROVE IsCovered(t)'
  BY <1>1, <1>6, CallFailsCovered
<1>7. ASSUME NEW c \in Calls, NEW cost \in Costs, RecordReads(c, cost) PROVE IsCovered(t)'
  BY <1>1, <1>7, RecordReadsCovered
<1>8. ASSUME NEW p \in Procs, Restart(p) PROVE IsCovered(t)'
  BY <1>1, <1>8, RestartCovered
<1> QED
  BY <1>2, <1>3, <1>4, <1>5, <1>6, <1>7, <1>8 DEF Next

\* With an estimate above the budget no check passes.
LEMMA NothingFits ==
  ASSUME ~(Estimate <= Budget), TypeOK,
         spent = Zero, \A c \in Calls : call[c].pc = "idle", [Next]_vars
  PROVE  spent' = Zero /\ \A c \in Calls : call'[c].pc = "idle"
<1>1. \A n \in Nat : ~Fits(n)
  BY BudgetAssumption DEF Fits
<1>2. CASE UNCHANGED vars
  BY <1>2 DEF vars
<1>3. ASSUME NEW c \in Calls, Attach(c) \/ Refuse(c)
      PROVE  UNCHANGED <<spent, call>>
  BY <1>3 DEF Attach, Refuse
<1>4. ASSUME NEW c \in Calls, Check(c) PROVE FALSE
  <2>1. Seen(ProcOf[c], call[c].task) \in Nat /\ 0 \in Nat
    BY SeenType, Types DEF State
  <2> QED
    BY <1>1, <1>4, <2>1 DEF Check
<1>5. ASSUME NEW c \in Calls, RecordWrites(c) \/ CallFails(c) PROVE FALSE
  BY <1>5 DEF RecordWrites, CallFails
<1>6. ASSUME NEW c \in Calls, NEW cost \in Costs, RecordReads(c, cost) PROVE FALSE
  BY <1>6 DEF RecordReads
<1>7. ASSUME NEW p \in Procs, Restart(p)
      PROVE  UNCHANGED spent /\ \A c \in Calls : call'[c].pc = "idle"
  BY <1>7 DEF Restart, Idle
<1> QED
  BY <1>2, <1>3, <1>4, <1>5, <1>6, <1>7 DEF Next

LEMMA InitCovered ==
  ASSUME Estimate <= Budget, Init, TypeOK, NEW t \in Tasks
  PROVE  IsCovered(t)
<1>1. /\ \A c \in Calls : call[c].pc = "idle"
      /\ spent[t] = 0 /\ epochs = 0 /\ clashes = 0
      /\ redis[t] = 0 /\ \A p \in Procs : memory[p][t] = 0
  BY DEF Init, Zero, Idle
<1>2. PICK b \in {"redis", "memory"} : backend = [p \in Procs |-> b]
  BY DEF Init
<1>3. /\ Room \in Nat /\ Share \in Nat /\ MaxCost \in Nat
      /\ Share = Room + Weight(Calls) /\ Weight(Calls) \in Nat
  BY Amounts
<1> DEFINE A == Cardinality(Procs) * Room
<1>4. Allowed(epochs, clashes) = A + Weight(Calls) /\ A \in Nat /\ Cardinality(Procs) \in Nat
  <2>1. Cardinality(Procs) \in Nat /\ \A m, n \in Nat : m * n \in Nat
    BY FS_CardinalityType, BudgetAssumption
  <2>2. A \in Nat
    BY <1>3, <2>1
  <2>3. 0 * Share = 0 /\ 0 * MaxCost = 0
    BY <1>3
  <2>4. Allowed(epochs, clashes) = A + Weight(Calls) + 0 + 0
    BY <1>1, <2>3 DEF Allowed
  <2> QED
    BY <1>3, <2>1, <2>2, <2>4
<1>5. \A C \in SUBSET Calls : Recording(call, t, C) = {}
  BY <1>1 DEF Recording
<1>6. ASSUME NEW C \in SUBSET Calls, NEW floor \in Nat, floor >= Weight(C)
      PROVE  Ledger(call, t, C, 0, floor, floor)
  BY <1>6, Types, LedgerNew
<1>7. CASE OnRedis = {}
  <2> DEFINE h == [p \in Procs |-> Mine(p)]
  <2>1. h \in [Procs -> Nat] /\ Sum(h, Procs) = A + Weight(Calls)
    BY Floors, FloorsAddUp
  <2>2. ASSUME NEW p \in Procs
        PROVE  Ledger(call, t, CallsOf({p}), memory[p][t], h[p], Mine(p))
    <3>1. CallsOf({p}) \in SUBSET Calls /\ Mine(p) \in Nat /\ Mine(p) >= Weight(CallsOf({p}))
      BY Floors
    <3> QED
      BY <1>1, <1>6, <3>1
  <2> HIDE DEF h
  <2>3. spent[t] + Sum(h, Procs) + 0 <= Allowed(epochs, clashes)
    BY <1>1, <1>3, <1>4, <2>1
  <2>4. Covered(t, h, 0, 0)
    BY <1>7, <2>1, <2>2, <2>3 DEF Covered
  <2> QED
    BY <2>4 DEF IsCovered
<1>8. CASE OnRedis # {}
  <2> DEFINE h == [p \in Procs |-> 0]
  <2>1. OnRedis = Procs
    BY <1>2, <1>8 DEF OnRedis
  <2>2. h \in [Procs -> Nat] /\ Sum(h, Procs) = 0
    <3>1. Pairs(h, Procs) = {}
      BY DEF Pairs
    <3> QED
      BY <3>1, FS_EmptySet DEF Sum
  <2>3. A >= Room
    <3>1. Cardinality(Procs) # 0
      BY <1>8, <2>1, FS_EmptySet, BudgetAssumption
    <3>2. PICK n \in Nat : Cardinality(Procs) = n + 1
      BY <1>4, <3>1
    <3>3. (n + 1) * Room = n * Room + Room /\ n * Room \in Nat
      BY <1>3
    <3> QED
      BY <1>3, <3>2, <3>3
  <2>4. /\ Ledger(call, t, CallsOf(OnRedis), redis[t], Share, Share + 0)
        /\ Weight(Recording(call, t, CallsOf(OnRedis))) <= 0 + MaxCost
    <3> DEFINE C == CallsOf(OnRedis)
    <3>1. C \in SUBSET Calls
      BY CallsOfType
    <3> HIDE DEF C
    <3>2. Weight(C) \in Nat /\ Weight(C) <= Weight(Calls)
      BY <3>1, Weights
    <3>3. Share >= Weight(C) /\ Share + 0 = Share
      BY <1>3, <3>2
    <3>4. Weight(Recording(call, t, C)) <= 0 + MaxCost
      BY <1>3, <1>5, <3>1, Weights
    <3> QED
      BY <1>1, <1>3, <1>6, <3>1, <3>3, <3>4 DEF C
  <2> HIDE DEF h, A
  <2>5. spent[t] + Sum(h, Procs) + Share <= Allowed(epochs, clashes)
    BY <1>1, <1>3, <1>4, <2>2, <2>3
  <2>6. Covered(t, h, Share, 0)
    BY <1>3, <2>1, <2>2, <2>4, <2>5 DEF Covered
  <2> QED
    BY <2>6 DEF IsCovered
<1> QED
  BY <1>7, <1>8

BoundInv == Inv /\ CostsKnown /\ WithinBound

(* However processes fall back, restart and overlap, a task spends no more  *)
(* than its budget for each time a process lost sight of what was spent,    *)
(* the calls in flight, and one cost for each overlap of record_spend.      *)
THEOREM OverrunIsBounded == Spec => []OverrunBounded
<1>1. Init => BoundInv
  <2> SUFFICES ASSUME Init PROVE BoundInv
    OBVIOUS
  <2>1. Inv /\ TypeOK
    BY InitInv DEF Inv
  <2>2. spent = Zero /\ \A c \in Calls : call[c].pc = "idle"
    BY DEF Init, Idle
  <2>3. CostsKnown
    BY <2>2 DEF CostsKnown, IsRecording
  <2>4. WithinBound
    BY <2>1, <2>2, InitCovered DEF WithinBound
  <2> QED
    BY <2>1, <2>3, <2>4 DEF BoundInv
<1>2. BoundInv /\ [Next]_vars => BoundInv'
  <2> SUFFICES ASSUME BoundInv, [Next]_vars PROVE BoundInv'
    OBVIOUS
  <2>1. Inv /\ Inv' /\ TypeOK /\ CostsKnown /\ WithinBound
    BY NextInv DEF BoundInv, Inv
  <2>2. CostsKnown'
    BY <2>1, CostsKnownKept
  <2>3. ASSUME Estimate <= Budget, NEW t \in Tasks
        PROVE  IsCovered(t)'
    BY <2>1, <2>3, CoveredKept DEF WithinBound
  <2>4. ~(Estimate <= Budget) => spent' = Zero /\ \A c \in Calls : call'[c].pc = "idle"
    BY <2>1, NothingFits DEF WithinBound
  <2>5. WithinBound'
    BY <2>3, <2>4 DEF WithinBound
  <2> QED
    BY <2>1, <2>2, <2>5 DEF BoundInv
<1>3. BoundInv => OverrunBounded
  <2> SUFFICES ASSUME BoundInv, NEW t \in Tasks, spent[t] > 0
               PROVE  spent[t] <= Allowed(epochs, clashes)
    BY DEF OverrunBounded, Allowed, Share, Room, Weight
  <2>1. TypeOK /\ WithinBound
    BY DEF BoundInv, Inv
  <2>2. Estimate <= Budget
    BY <2>1 DEF WithinBound, Zero
  <2>3. PICK h, r, s : Covered(t, h, r, s)
    BY <2>1, <2>2 DEF WithinBound, IsCovered
  <2>4. Sum(h, Procs) \in Nat /\ r \in Nat /\ spent[t] \in Nat
    BY <2>1, <2>3, SumGrows, Types DEF Covered
  <2>5. /\ spent[t] + Sum(h, Procs) + r <= Allowed(epochs, clashes)
        /\ Allowed(epochs, clashes) \in Nat
    BY <2>1, <2>2, <2>3, AllowedGrows DEF Covered, TypeOK
  <2> QED
    BY <2>4, <2>5
<1> QED
  BY <1>1, <1>2, <1>3, PTL DEF Spec
=============================================================================
