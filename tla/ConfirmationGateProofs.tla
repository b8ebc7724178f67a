----------------------- MODULE ConfirmationGateProofs -----------------------
(***************************************************************************)
(* Theorems about ConfirmationGate, for any number of requests, tasks and  *)
(* chats.                                                                  *)
(***************************************************************************)
EXTENDS ConfirmationGate, TLAPS

\* The request is between its registration and its cleanup.
Registered(r) == pc[r] \in {"save", "send", "wait"}

\* What a request knows of itself.
RequestInv(r) ==
  /\ pc[r] = "idle" => of[r] = [task |-> None, chat |-> None] /\ status[r] = "pending"
  /\ result[r] # "none" => pc[r] = "done"
  /\ result[r] = "approved" => status[r] = "approved"

\* An approval in the table, or on its way there, is the one of a request.
Decided(r) == status[r] \in {"approved", "timeout"}

RowsInv ==
  /\ \A u \in updates : u.decision = "approved" => Decided(u.req)
  /\ \A t \in Tasks : row[t] = "approved" => \E r \in Requests : of[r].task = t /\ Decided(r)

\* arrivals lists the requests that registered, once each.
Order ==
  /\ \A i \in 1 .. Len(arrivals) : pc[arrivals[i]] # "idle"
  /\ \A i, j \in 1 .. Len(arrivals) : arrivals[i] = arrivals[j] => i = j
  /\ \A r \in Requests : of[r].chat # None => \E i \in 1 .. Len(arrivals) : arrivals[i] = r

\* What the entries of the maps stand for.
Entries ==
  /\ \A t \in Tasks : pending[t] # None =>
       pc[pending[t]] # "idle" /\ of[pending[t]].task = t
  /\ \A c \in Chats : chatTask[c] # None =>
       \E r \in Requests : /\ of[r] = [task |-> chatTask[c], chat |-> c]
                           /\ Registered(r) \/ result[r] = "error"

\* Which entries a registered request can count on.
OnlyOneFor(r) == \A q \in Requests \ {r} : of[q].task # of[r].task

Newest(r) ==
  \A q \in Requests \ {r} : of[q].chat = of[r].chat => Position(q) < Position(r)

Hooked(r) ==
  Registered(r) /\ OnlyOneFor(r) =>
    /\ pending[of[r].task] = r
    /\ Newest(r) => chatTask[of[r].chat] = of[r].task

Inv ==
  /\ TypeOK
  /\ \A r \in Requests : RequestInv(r)
  /\ RowsInv
  /\ Order
  /\ Entries
  /\ \A r \in Requests : Hooked(r)

-----------------------------------------------------------------------------
(* Steps that leave the maps alone.                                        *)

\* No request registers and none is cleaned up.
MapsAlone ==
  /\ UNCHANGED <<of, maps, arrivals>>
  /\ \A r \in Requests :
       /\ pc'[r] = "idle" => pc[r] = "idle"
       /\ Registered(r)' => Registered(r)
       /\ Registered(r) => Registered(r)' \/ result'[r] = "error"
       /\ result[r] = "error" => result'[r] = "error"

LEMMA MapsKept ==
  ASSUME Inv, MapsAlone
  PROVE  Order' /\ Entries' /\ \A r \in Requests : Hooked(r)'
<1>1. Order'
  BY DEF Inv, MapsAlone, Order, TypeOK
<1>2. Entries'
  BY DEF Inv, MapsAlone, Entries, TypeOK, maps
<1>3. ASSUME NEW r \in Requests PROVE Hooked(r)'
  BY <1>3 DEF Inv, MapsAlone, Hooked, OnlyOneFor, Newest, Position, maps
<1> QED
  BY <1>1, <1>2, <1>3

\* The decisions stand, and so do the rows.
LEMMA RowsKept ==
  ASSUME Inv, UNCHANGED db,
         \A r \in Requests : Decided(r) => Decided(r)' /\ of'[r] = of[r]
  PROVE  RowsInv'
  BY DEF Inv, TypeOK, RowsInv, db

\* A request that goes on or ends.
LEMMA GoesOn ==
  ASSUME Inv, NEW r \in Requests,
         NEW p \in {"save", "send", "wait", "notify", "done"}, Goto(r, p)
  PROVE  /\ pc' \in [Requests -> {"idle", "save", "send", "wait", "notify", "done"}]
         /\ pc'[r] = p /\ \A q \in Requests \ {r} : pc'[q] = pc[q]
  BY DEF Inv, TypeOK, Goto

LEMMA Ended ==
  ASSUME Inv, NEW r \in Requests,
         NEW res \in {"auto_approved", "approved", "rejected", "timeout", "error"},
         End(r, res)
  PROVE  /\ pc' \in [Requests -> {"idle", "save", "send", "wait", "notify", "done"}]
         /\ pc'[r] = "done" /\ \A q \in Requests \ {r} : pc'[q] = pc[q]
         /\ result' \in [Requests -> {"none", "auto_approved", "approved", "rejected",
                                      "timeout", "error", "lost"}]
         /\ result'[r] = res /\ \A q \in Requests \ {r} : result'[q] = result[q]
  BY DEF Inv, TypeOK, End, Goto

-----------------------------------------------------------------------------
(* One lemma per action.                                                   *)

LEMMA AutoApproveKeeps ==
  ASSUME Inv, NEW r \in Requests, AutoApprove(r)
  PROVE  Inv'
<1>1. /\ pc[r] = "idle" /\ End(r, "auto_approved")
      /\ UNCHANGED <<of, status, maps, db, arrivals>>
  BY DEF AutoApprove
<1>2. TypeOK'
  BY <1>1, Ended DEF Inv, TypeOK, maps, db
<1>3. MapsAlone
  BY <1>1, Ended DEF MapsAlone, Registered, Inv, RequestInv
<1>4. RowsInv'
  BY <1>1, RowsKept DEF Decided
<1>5. \A q \in Requests : RequestInv(q)'
  BY <1>1, Ended DEF Inv, RequestInv
<1> QED
  BY <1>2, <1>3, <1>4, <1>5, MapsKept DEF Inv

LEMMA SavedKeeps ==
  ASSUME Inv, NEW r \in Requests, Saved(r)
  PROVE  Inv'
<1>1. /\ pc[r] = "save" /\ Goto(r, "send")
      /\ UNCHANGED <<of, status, result, maps, updates, arrivals>>
      /\ row' = [row EXCEPT ![of[r].task] = "pending"] \/ UNCHANGED row
  BY DEF Saved
<1>2. TypeOK'
  BY <1>1, GoesOn DEF Inv, TypeOK, maps
<1>3. MapsAlone
  BY <1>1, GoesOn DEF MapsAlone, Registered
<1>4. RowsInv'
  BY <1>1 DEF Inv, TypeOK, RowsInv, Decided
<1>5. \A q \in Requests : RequestInv(q)'
  BY <1>1, GoesOn DEF Inv, RequestInv
<1> QED
  BY <1>2, <1>3, <1>4, <1>5, MapsKept DEF Inv

LEMMA SentKeeps ==
  ASSUME Inv, NEW r \in Requests, Sent(r)
  PROVE  Inv'
<1>1. /\ pc[r] = "send" /\ Goto(r, "wait")
      /\ UNCHANGED <<of, status, result, maps, db, arrivals>>
  BY DEF Sent
<1>2. TypeOK'
  BY <1>1, GoesOn DEF Inv, TypeOK, maps, db
<1>3. MapsAlone
  BY <1>1, GoesOn DEF MapsAlone, Registered
<1>4. RowsInv'
  BY <1>1, RowsKept DEF Decided
<1>5. \A q \in Requests : RequestInv(q)'
  BY <1>1, GoesOn DEF Inv, RequestInv
<1> QED
  BY <1>2, <1>3, <1>4, <1>5, MapsKept DEF Inv

LEMMA SendFailsKeeps ==
  ASSUME Inv, NEW r \in Requests, SendFails(r)
  PROVE  Inv'
<1>1. /\ pc[r] = "send" /\ End(r, "error")
      /\ UNCHANGED <<of, status, maps, db, arrivals>>
  BY DEF SendFails
<1>2. TypeOK'
  BY <1>1, Ended DEF Inv, TypeOK, maps, db
<1>3. MapsAlone
  BY <1>1, Ended DEF MapsAlone, Registered
<1>4. RowsInv'
  BY <1>1, RowsKept DEF Decided
<1>5. \A q \in Requests : RequestInv(q)'
  BY <1>1, Ended DEF Inv, RequestInv
<1> QED
  BY <1>2, <1>3, <1>4, <1>5, MapsKept DEF Inv

LEMMA NotifiedKeeps ==
  ASSUME Inv, NEW r \in Requests, Notified(r)
  PROVE  Inv'
<1>1. PICK res \in {"timeout", "error"} :
        /\ pc[r] = "notify" /\ End(r, res)
        /\ UNCHANGED <<of, status, maps, db, arrivals>>
  BY DEF Notified
<1>2. TypeOK'
  BY <1>1, Ended DEF Inv, TypeOK, maps, db
<1>3. MapsAlone
  BY <1>1, Ended DEF MapsAlone, Registered, Inv, RequestInv
<1>4. RowsInv'
  BY <1>1, RowsKept DEF Decided
<1>5. \A q \in Requests : RequestInv(q)'
  BY <1>1, Ended DEF Inv, RequestInv
<1> QED
  BY <1>2, <1>3, <1>4, <1>5, MapsKept DEF Inv

\* A reply decides a request that is registered for its task, and undecided.
LEMMA ReplyKeeps ==
  ASSUME Inv, NEW c \in Chats, NEW decision \in {"approved", "rejected"},
         Reply(c, decision)
  PROVE  Inv'
<1> DEFINE r == Addressee(c)
<1>1. /\ r # None /\ status[r] = "pending"
      /\ status' = [status EXCEPT ![r] = decision]
      /\ updates' = updates \cup {[req |-> r, decision |-> decision]}
      /\ UNCHANGED <<pc, of, result, maps, row, arrivals>>
  BY DEF Reply
<1>2. r \in Requests /\ pc[r] # "idle"
  BY <1>1 DEF Addressee, Inv, TypeOK, Entries
<1>3. /\ status'[r] = decision
      /\ \A q \in Requests \ {r} : status'[q] = status[q]
      /\ status' \in [Requests -> {"pending", "approved", "rejected", "timeout"}]
  BY <1>1, <1>2 DEF Inv, TypeOK
<1> HIDE DEF r
<1>4. TypeOK'
  BY <1>1, <1>2, <1>3 DEF Inv, TypeOK, maps
<1>5. MapsAlone
  BY <1>1 DEF MapsAlone, Registered
<1>6. \A q \in Requests : Decided(q) => Decided(q)'
  BY <1>1, <1>3 DEF Decided
<1>7. RowsInv'
  BY <1>1, <1>2, <1>3, <1>6 DEF Inv, TypeOK, RowsInv, Decided
<1>8. \A q \in Requests : RequestInv(q)'
  BY <1>1, <1>2, <1>3 DEF Inv, RequestInv
<1> QED
  BY <1>4, <1>5, <1>7, <1>8, MapsKept DEF Inv

LEMMA UpdateRowKeeps ==
  ASSUME Inv, NEW u \in updates, UpdateRow(u)
  PROVE  Inv'
<1>1. u.req \in Requests /\ u.decision \in {"approved", "rejected"}
  BY DEF Inv, TypeOK
<1>2. /\ updates' = updates \ {u}
      /\ \A t \in Tasks : row'[t] = IF t = of[u.req].task /\ row[t] # "absent"
                                    THEN u.decision ELSE row[t]
      /\ row' \in [Tasks -> {"absent", "pending", "approved", "rejected"}]
      /\ UNCHANGED <<pc, of, status, result, maps, arrivals>>
  BY <1>1 DEF UpdateRow, Inv, TypeOK
<1>3. TypeOK'
  BY <1>2 DEF Inv, TypeOK, maps
<1>4. MapsAlone
  BY <1>2 DEF MapsAlone, Registered
<1>5. RowsInv'
  BY <1>1, <1>2 DEF Inv, RowsInv, Decided
<1>6. \A q \in Requests : RequestInv(q)'
  BY <1>2 DEF Inv, RequestInv
<1> QED
  BY <1>3, <1>4, <1>5, <1>6, MapsKept DEF Inv

-----------------------------------------------------------------------------
(* Steps that change the maps.                                             *)

\* A waiting request that cleans up takes away its own entries only: not the
\* entry of the chat once another task has taken it, and not the entry of the
\* task of a request that is the only one for its task.
LEMMA CleanupKeeps ==
  ASSUME Inv, NEW r \in Requests, pc[r] = "wait", Cleanup(r),
         UNCHANGED <<of, arrivals>>, pc'[r] \in {"notify", "done"},
         \A q \in Requests \ {r} : pc'[q] = pc[q] /\ result'[q] = result[q]
  PROVE  /\ pending' \in [Tasks -> Requests \cup {None}]
         /\ chatTask' \in [Chats -> Tasks \cup {None}]
         /\ Order' /\ Entries' /\ \A q \in Requests : Hooked(q)'
<1>1. /\ of[r].task \in Tasks /\ of[r].chat \in Chats
      /\ pending \in [Tasks -> Requests \cup {None}]
      /\ chatTask \in [Chats -> Tasks \cup {None}]
  BY DEF Inv, TypeOK
<1>2. /\ \A t \in Tasks : pending'[t] = IF t = of[r].task THEN None ELSE pending[t]
      /\ \A c \in Chats : chatTask'[c] = IF c = of[r].chat /\ chatTask[c] = of[r].task
                                         THEN None ELSE chatTask[c]
      /\ pending' \in [Tasks -> Requests \cup {None}]
      /\ chatTask' \in [Chats -> Tasks \cup {None}]
  BY <1>1 DEF Cleanup
<1>3. Order'
  BY DEF Inv, Order, TypeOK
<1>4. Entries'
  <2>1. ASSUME NEW t \in Tasks, pending'[t] # None
        PROVE  pc'[pending'[t]] # "idle" /\ of'[pending'[t]].task = t
    BY <1>1, <1>2, <2>1 DEF Inv, Entries
  <2>2. ASSUME NEW c \in Chats, chatTask'[c] # None
        PROVE  \E q \in Requests : /\ of'[q] = [task |-> chatTask'[c], chat |-> c]
                                   /\ Registered(q)' \/ result'[q] = "error"
    <3>1. chatTask'[c] = chatTask[c] /\ chatTask[c] # None
      BY <1>2, <2>2
    <3>2. PICK q \in Requests : /\ of[q] = [task |-> chatTask[c], chat |-> c]
                                /\ Registered(q) \/ result[q] = "error"
      BY <3>1 DEF Inv, Entries
    <3>3. q # r
      BY <1>2, <2>2, <3>1, <3>2
    <3>4. pc'[q] = pc[q] /\ result'[q] = result[q]
      BY <3>3
    <3> QED
      BY <3>1, <3>2, <3>4 DEF Registered
  <2> QED
    BY <2>1, <2>2 DEF Entries
<1>5. ASSUME NEW q \in Requests PROVE Hooked(q)'
  <2>1. CASE q = r
    BY <2>1 DEF Hooked, Registered
  <2>2. CASE q # r
    <3>1. SUFFICES ASSUME Registered(q)', OnlyOneFor(q)'
                   PROVE  /\ pending'[of[q].task] = q
                          /\ Newest(q) => chatTask'[of[q].chat] = of[q].task
      BY DEF Hooked, Newest, Position
    <3>2. Registered(q) /\ OnlyOneFor(q) /\ Hooked(q)
      BY <2>2, <3>1 DEF Registered, OnlyOneFor, Inv
    <3>3. of[q].task \in Tasks /\ of[q].chat \in Chats /\ of[q].task # of[r].task
      BY <2>2, <3>2 DEF Inv, TypeOK, Registered, OnlyOneFor
    <3> QED
      BY <1>2, <3>2, <3>3 DEF Hooked
  <2> QED
    BY <2>1, <2>2
<1> QED
  BY <1>2, <1>3, <1>4, <1>5

LEMMA WakeKeeps ==
  ASSUME Inv, NEW r \in Requests, Wake(r)
  PROVE  Inv'
<1>1. /\ pc[r] = "wait" /\ status[r] \in {"approved", "rejected", "timeout"}
      /\ End(r, status[r]) /\ Cleanup(r)
      /\ UNCHANGED <<of, status, db, arrivals>>
  BY DEF Wake, Inv, TypeOK
<1>2. /\ pending' \in [Tasks -> Requests \cup {None}]
      /\ chatTask' \in [Chats -> Tasks \cup {None}]
      /\ Order' /\ Entries' /\ \A q \in Requests : Hooked(q)'
  BY <1>1, Ended, CleanupKeeps
<1>3. TypeOK'
  BY <1>1, <1>2, Ended DEF Inv, TypeOK, db
<1>4. RowsInv'
  BY <1>1, RowsKept DEF Decided
<1>5. \A q \in Requests : RequestInv(q)'
  BY <1>1, Ended DEF Inv, RequestInv
<1> QED
  BY <1>2, <1>3, <1>4, <1>5 DEF Inv

LEMMA TimeoutKeeps ==
  ASSUME Inv, NEW r \in Requests, Timeout(r)
  PROVE  Inv'
<1>1. /\ pc[r] = "wait" /\ Goto(r, "notify") /\ Cleanup(r)
      /\ UNCHANGED <<of, result, db, arrivals>>
      /\ status' = [status EXCEPT ![r] = "timeout"]
  BY DEF Timeout
<1>2. /\ pending' \in [Tasks -> Requests \cup {None}]
      /\ chatTask' \in [Chats -> Tasks \cup {None}]
      /\ Order' /\ Entries' /\ \A q \in Requests : Hooked(q)'
  BY <1>1, GoesOn, CleanupKeeps
<1>3. /\ status' \in [Requests -> {"pending", "approved", "rejected", "timeout"}]
      /\ status'[r] = "timeout" /\ \A q \in Requests \ {r} : status'[q] = status[q]
  BY <1>1 DEF Inv, TypeOK
<1>4. TypeOK'
  BY <1>1, <1>2, <1>3, GoesOn DEF Inv, TypeOK, db
<1>5. RowsInv'
  BY <1>1, <1>3, RowsKept DEF Decided
<1>6. \A q \in Requests : RequestInv(q)'
  BY <1>1, <1>3, GoesOn DEF Inv, RequestInv
<1> QED
  BY <1>2, <1>4, <1>5, <1>6 DEF Inv

\* arrivals with a newcomer at its end: everybody else keeps its position,
\* before the newcomer's.
LEMMA Arrivals ==
  ASSUME Inv, NEW r \in Requests, pc[r] = "idle", arrivals' = Append(arrivals, r)
  PROVE  /\ arrivals' \in Seq(Requests) /\ Len(arrivals') = Len(arrivals) + 1
         /\ arrivals'[Len(arrivals) + 1] = r
         /\ \A i \in 1 .. Len(arrivals) : arrivals'[i] = arrivals[i] /\ arrivals[i] # r
         /\ \A i, j \in 1 .. Len(arrivals') : arrivals'[i] = arrivals'[j] => i = j
         /\ Position(r)' = Len(arrivals) + 1
         /\ \A q \in Requests : of[q].chat # None =>
              Position(q)' = Position(q) /\ Position(q) \in 1 .. Len(arrivals)
<1>1. /\ arrivals \in Seq(Requests) /\ Len(arrivals) \in Nat
      /\ arrivals' \in Seq(Requests) /\ Len(arrivals') = Len(arrivals) + 1
      /\ arrivals'[Len(arrivals) + 1] = r
      /\ \A i \in 1 .. Len(arrivals) : arrivals'[i] = arrivals[i]
  BY DEF Inv, TypeOK
<1>2. \A i \in 1 .. Len(arrivals) : arrivals[i] # r
  BY DEF Inv, Order
<1>3. \A i, j \in 1 .. Len(arrivals') : arrivals'[i] = arrivals'[j] => i = j
  <2> SUFFICES ASSUME NEW i \in 1 .. Len(arrivals) + 1, NEW j \in 1 .. Len(arrivals) + 1,
                      arrivals'[i] = arrivals'[j]
               PROVE  i = j
    BY <1>1
  <2>1. CASE i = Len(arrivals) + 1 \/ j = Len(arrivals) + 1
    BY <1>1, <1>2, <2>1
  <2>2. CASE i \in 1 .. Len(arrivals) /\ j \in 1 .. Len(arrivals)
    BY <1>1, <2>2 DEF Inv, Order
  <2> QED
    BY <1>1, <2>1, <2>2
<1>4. \A q \in Requests, i \in 1 .. Len(arrivals') : arrivals'[i] = q => Position(q)' = i
  BY <1>3 DEF Position
<1>5. \A q \in Requests, i \in 1 .. Len(arrivals) : arrivals[i] = q => Position(q) = i
  BY DEF Position, Inv, Order
<1>6. Position(r)' = Len(arrivals) + 1
  BY <1>1, <1>4
<1>7. ASSUME NEW q \in Requests, of[q].chat # None
      PROVE  Position(q)' = Position(q) /\ Position(q) \in 1 .. Len(arrivals)
  <2>1. PICK i \in 1 .. Len(arrivals) : arrivals[i] = q
    BY <1>7 DEF Inv, Order
  <2> QED
    BY <1>1, <1>4, <1>5, <2>1
<1> QED
  BY <1>1, <1>2, <1>3, <1>6, <1>7

LEMMA RegisterKeeps ==
  ASSUME Inv, NEW r \in Requests, NEW t \in Tasks, NEW c \in Chats, Register(r, t, c)
  PROVE  Inv'
<1>1. /\ pc[r] = "idle" /\ of[r] = [task |-> None, chat |-> None]
      /\ status[r] = "pending" /\ result[r] = "none"
      /\ Goto(r, "save") /\ arrivals' = Append(arrivals, r)
      /\ UNCHANGED <<status, result, db>>
  BY DEF Register, Inv, TypeOK, RequestInv
<1>2. /\ of' \in [Requests -> [task : Tasks \cup {None}, chat : Chats \cup {None}]]
      /\ of'[r] = [task |-> t, chat |-> c]
      /\ \A q \in Requests \ {r} : of'[q] = of[q]
      /\ pending' \in [Tasks -> Requests \cup {None}]
      /\ pending'[t] = r /\ \A u \in Tasks \ {t} : pending'[u] = pending[u]
      /\ chatTask' \in [Chats -> Tasks \cup {None}]
      /\ chatTask'[c] = t /\ \A d \in Chats \ {c} : chatTask'[d] = chatTask[d]
  BY DEF Register, Inv, TypeOK
<1>3. t # None /\ c # None /\ r # None
  BY GateAssumption
<1>4. TypeOK'
  <2>1. \A q \in Requests : pc'[q] \notin {"idle", "done"} =>
          of'[q].task \in Tasks /\ of'[q].chat \in Chats
    <3> SUFFICES ASSUME NEW q \in Requests, pc'[q] \notin {"idle", "done"}
                 PROVE  of'[q].task \in Tasks /\ of'[q].chat \in Chats
      OBVIOUS
    <3>1. CASE q = r
      BY <1>2, <3>1
    <3>2. CASE q # r
      BY <1>1, <1>2, <3>2, GoesOn DEF Inv, TypeOK
    <3> QED
      BY <3>1, <3>2
  <2>2. /\ pc' \in [Requests -> {"idle", "save", "send", "wait", "notify", "done"}]
        /\ arrivals' \in Seq(Requests)
    BY <1>1, GoesOn, Arrivals
  <2> QED
    BY <1>1, <1>2, <2>1, <2>2 DEF Inv, TypeOK, db
<1>5. \A q \in Requests : RequestInv(q)'
  BY <1>1, <1>2, GoesOn DEF Inv, RequestInv
<1>6. RowsInv'
  <2>1. \A q \in Requests : Decided(q) => Decided(q)' /\ of'[q] = of[q]
    BY <1>1, <1>2 DEF Decided
  <2> QED
    BY <1>1, <2>1, RowsKept
<1>7. Order'
  <2>1. \A i \in 1 .. Len(arrivals') : pc'[arrivals'[i]] # "idle"
    <3> SUFFICES ASSUME NEW i \in 1 .. Len(arrivals') PROVE pc'[arrivals'[i]] # "idle"
      OBVIOUS
    <3>1. Len(arrivals) \in Nat /\ \A j \in 1 .. Len(arrivals) : arrivals[j] \in Requests
      BY DEF Inv, TypeOK
    <3>2. CASE i = Len(arrivals) + 1
      BY <1>1, <3>2, GoesOn, Arrivals
    <3>3. CASE i \in 1 .. Len(arrivals)
      BY <1>1, <3>1, <3>3, GoesOn, Arrivals DEF Inv, Order
    <3> QED
      BY <1>1, <3>1, <3>2, <3>3, Arrivals
  <2>2. ASSUME NEW q \in Requests, of'[q].chat # None
        PROVE  \E i \in 1 .. Len(arrivals') : arrivals'[i] = q
    <3>1. Len(arrivals) \in Nat
      BY DEF Inv, TypeOK
    <3>2. CASE q = r
      BY <1>1, <3>1, <3>2, Arrivals
    <3>3. CASE q # r
      <4>1. PICK i \in 1 .. Len(arrivals) : arrivals[i] = q
        BY <1>2, <2>2, <3>3 DEF Inv, Order
      <4> QED
        BY <1>1, <3>1, <4>1, Arrivals
    <3> QED
      BY <3>2, <3>3
  <2> QED
    BY <1>1, <2>1, <2>2, Arrivals DEF Order
<1>8. Entries'
  <2>1. ASSUME NEW u \in Tasks, pending'[u] # None
        PROVE  pc'[pending'[u]] # "idle" /\ of'[pending'[u]].task = u
    <3>1. CASE u = t
      BY <1>1, <1>2, <3>1, GoesOn
    <3>2. CASE u # t
      <4>1. /\ pending'[u] = pending[u] /\ pending[u] \in Requests
            /\ pc[pending[u]] # "idle" /\ of[pending[u]].task = u
        BY <1>2, <2>1, <3>2 DEF Inv, TypeOK, Entries
      <4>2. pending[u] # r
        BY <1>1, <4>1
      <4>3. pc'[pending[u]] = pc[pending[u]] /\ of'[pending[u]] = of[pending[u]]
        BY <1>1, <1>2, <4>1, <4>2, GoesOn
      <4> QED
        BY <4>1, <4>3
    <3> QED
      BY <3>1, <3>2
  <2>2. ASSUME NEW d \in Chats, chatTask'[d] # None
        PROVE  \E q \in Requests : /\ of'[q] = [task |-> chatTask'[d], chat |-> d]
                                   /\ Registered(q)' \/ result'[q] = "error"
    <3>1. CASE d = c
      BY <1>1, <1>2, <3>1, GoesOn DEF Registered
    <3>2. CASE d # c
      <4>1. chatTask'[d] = chatTask[d] /\ chatTask[d] # None
        BY <1>2, <2>2, <3>2
      <4>2. PICK q \in Requests : /\ of[q] = [task |-> chatTask[d], chat |-> d]
                                  /\ Registered(q) \/ result[q] = "error"
        BY <4>1 DEF Inv, Entries
      <4>3. q # r
        BY <1>1, <4>2 DEF Registered
      <4> QED
        BY <1>1, <1>2, <4>1, <4>2, <4>3, GoesOn DEF Registered
    <3> QED
      BY <3>1, <3>2
  <2> QED
    BY <2>1, <2>2 DEF Entries
<1>9. ASSUME NEW q \in Requests PROVE Hooked(q)'
  <2>1. CASE q = r
    BY <1>2, <2>1 DEF Hooked
  <2>2. CASE q # r
    <3>1. SUFFICES ASSUME Registered(q)', OnlyOneFor(q)'
                   PROVE  /\ pending'[of'[q].task] = q
                          /\ Newest(q)' => chatTask'[of'[q].chat] = of'[q].task
      BY DEF Hooked
    <3>2. /\ Registered(q) /\ of'[q] = of[q] /\ of[q].task \in Tasks
          /\ of[q].chat \in Chats /\ of[q].chat # None
      BY <1>1, <1>2, <2>2, <3>1, GoesOn, GateAssumption DEF Registered, Inv, TypeOK
    <3>3. of[q].task # t
      BY <1>2, <2>2, <3>1, <3>2 DEF OnlyOneFor
    <3>4. OnlyOneFor(q)
      <4> SUFFICES ASSUME NEW s \in Requests \ {q} PROVE of[s].task # of[q].task
        BY DEF OnlyOneFor
      <4>1. CASE s = r
        BY <1>1, <3>2, <4>1, GateAssumption
      <4>2. CASE s # r
        BY <1>2, <3>1, <3>2, <4>2 DEF OnlyOneFor
      <4> QED
        BY <4>1, <4>2
    <3>5. ASSUME Newest(q)' PROVE Newest(q) /\ of[q].chat # c
      <4>1. Position(q)' \in 1 .. Len(arrivals) /\ Position(r)' = Len(arrivals) + 1
            /\ Len(arrivals) \in Nat
        BY <1>1, <3>2, Arrivals DEF Inv, TypeOK
      <4>2. of[q].chat # c
        BY <1>2, <2>2, <3>2, <3>5, <4>1 DEF Newest
      <4>3. ASSUME NEW s \in Requests \ {q}, of[s].chat = of[q].chat
            PROVE  Position(s) < Position(q)
        <5>1. s # r
          BY <1>1, <3>2, <4>3
        <5>2. Position(s)' < Position(q)'
          BY <1>2, <3>2, <3>5, <4>3, <5>1 DEF Newest
        <5> QED
          BY <1>1, <3>2, <4>3, <5>2, Arrivals
      <4> QED
        BY <4>2, <4>3 DEF Newest
    <3> QED
      BY <1>2, <3>2, <3>3, <3>4, <3>5 DEF Hooked, Inv
  <2> QED
    BY <2>1, <2>2
<1> QED
  BY <1>4, <1>5, <1>6, <1>7, <1>8, <1>9 DEF Inv

LEMMA RestartKeeps ==
  ASSUME Inv, Restart
  PROVE  Inv'
<1>1. /\ \A r \in Requests : pc'[r] = IF pc[r] = "idle" THEN "idle" ELSE "done"
      /\ \A r \in Requests : result'[r] = IF pc[r] \in {"idle", "done"} THEN result[r]
                                          ELSE "lost"
      /\ \A t \in Tasks : pending'[t] = None
      /\ \A c \in Chats : chatTask'[c] = None
      /\ updates' = {} /\ UNCHANGED <<of, status, arrivals>>
      /\ \A t \in Tasks : row'[t] \in {row[t], "absent"}
  BY DEF Restart
<1>2. TypeOK'
  <2>1. pc' \in [Requests -> {"idle", "save", "send", "wait", "notify", "done"}]
    BY DEF Restart
  <2>2. result' \in [Requests -> {"none", "auto_approved", "approved", "rejected",
                                  "timeout", "error", "lost"}]
    <3>1. result' = [r \in Requests |->
                       IF pc[r] \in {"idle", "done"} THEN result[r] ELSE "lost"]
      BY DEF Restart
    <3>2. result \in [Requests -> {"none", "auto_approved", "approved", "rejected",
                                   "timeout", "error", "lost"}]
      BY DEF Inv, TypeOK
    <3> QED
      BY <3>1, <3>2
  <2>3. /\ pending' \in [Tasks -> Requests \cup {None}]
        /\ chatTask' \in [Chats -> Tasks \cup {None}]
        /\ row' \in [Tasks -> {"absent", "pending", "approved", "rejected"}]
    BY DEF Restart, Inv, TypeOK
  <2> QED
    BY <1>1, <2>1, <2>2, <2>3 DEF Inv, TypeOK
<1>3. \A r \in Requests : RequestInv(r)'
  BY <1>1 DEF Inv, RequestInv
<1>4. RowsInv'
  BY <1>1 DEF Inv, RowsInv, Decided
<1>5. Order'
  BY <1>1 DEF Inv, Order, TypeOK
<1>6. Entries' /\ \A r \in Requests : Hooked(r)'
  BY <1>1 DEF Entries, Hooked, Registered
<1> QED
  BY <1>2, <1>3, <1>4, <1>5, <1>6 DEF Inv

-----------------------------------------------------------------------------
(* The theorems.                                                           *)

LEMMA InitInv == Init => Inv
<1> SUFFICES ASSUME Init PROVE Inv
  OBVIOUS
<1>1. TypeOK
  BY DEF Init, TypeOK
<1>2. (\A r \in Requests : RequestInv(r)) /\ RowsInv /\ Order
  BY DEF Init, RequestInv, RowsInv, Order
<1>3. Entries /\ \A r \in Requests : Hooked(r)
  BY DEF Init, Entries, Hooked, Registered
<1> QED
  BY <1>1, <1>2, <1>3 DEF Inv

LEMMA NextInv == Inv /\ [Next]_vars => Inv'
<1> SUFFICES ASSUME Inv, [Next]_vars PROVE Inv'
  OBVIOUS
<1>1. ASSUME NEW r \in Requests, AutoApprove(r) \/ Step(r)
             \/ \E t \in Tasks, c \in Chats : Register(r, t, c)
      PROVE  Inv'
  BY <1>1, AutoApproveKeeps, SavedKeeps, SentKeeps, SendFailsKeeps, WakeKeeps,
     TimeoutKeeps, NotifiedKeeps, RegisterKeeps DEF Step
<1>2. CASE UNCHANGED vars
  <2>1. /\ TypeOK' /\ RowsInv' /\ MapsAlone /\ \A r \in Requests : RequestInv(r)'
    BY <1>2 DEF vars, maps, db, Inv, TypeOK, RowsInv, Decided, MapsAlone, Registered,
       RequestInv
  <2> QED
    BY <2>1, MapsKept DEF Inv
<1> QED
  BY <1>1, <1>2, UpdateRowKeeps, ReplyKeeps, RestartKeeps DEF Next

THEOREM Invariance == Spec => []Inv
  BY InitInv, NextInv, PTL DEF Spec

\* Whatever replies, timeouts, failures and restarts do to the two maps and the
\* table of the gate, its variables keep their types.
THEOREM TypeCorrect == Spec => []TypeOK
<1>1. Inv => TypeOK
  BY DEF Inv
<1> QED
  BY <1>1, Invariance, PTL

\* Nobody is told approved, and no row says so, but by the reply of a human to
\* that very request.
THEOREM Approved == Spec => []ApprovalIsExplicit
<1>1. Inv => ApprovalIsExplicit
  BY DEF Inv, RequestInv, RowsInv, Decided, ApprovalIsExplicit
<1> QED
  BY <1>1, Invariance, PTL

\* The newest request of a chat stays within reach of a reply, and no chat is
\* left in confirmation mode by a request that is over, unless its message
\* could not be sent.
THEOREM Answerable == Spec => []NewestIsAnswerable
<1>1. ASSUME Inv PROVE NewestIsAnswerable
  <2>1. ASSUME NEW r \in Requests, pc[r] = "wait",
               \A q \in Requests \ {r} :
                 /\ of[q].task # of[r].task
                 /\ of[q].chat = of[r].chat => Position(q) < Position(r)
        PROVE  Addressee(of[r].chat) = r
    <3>1. Registered(r) /\ OnlyOneFor(r) /\ Newest(r) /\ of[r].task \in Tasks
      BY <1>1, <2>1 DEF Registered, OnlyOneFor, Newest, Inv, TypeOK
    <3> QED
      BY <1>1, <3>1, GateAssumption DEF Inv, Hooked, Addressee
  <2>2. ASSUME NEW c \in Chats, chatTask[c] # None
        PROVE  \E r \in Requests : /\ of[r] = [task |-> chatTask[c], chat |-> c]
                                   /\ Live(r) \/ result[r] = "error"
    BY <1>1, <2>2 DEF Inv, Entries, Registered, Live
  <2> QED
    BY <2>1, <2>2 DEF NewestIsAnswerable
<1> QED
  BY <1>1, Invariance, PTL
=============================================================================
