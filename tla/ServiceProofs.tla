--------------------------- MODULE ServiceProofs ----------------------------
(***************************************************************************)
(* Theorems about three services around the pipeline: OpenClaw, for any    *)
(* number of calls, attempts per call and failures before the breaker      *)
(* opens; EventBridge, which talks to the same gateway, for any messages;  *)
(* and CronScheduler over Scheduler, for any jobs, callers and bounds.     *)
(* Callers queue in the first and the last: the lemmas on queues come      *)
(* first.                                                                  *)
(***************************************************************************)
EXTENDS OpenClaw, EventBridge, CronScheduler, SequenceTheorems, FiniteSetTheorems,
        WellFoundedInduction, TLAPS

-----------------------------------------------------------------------------
(* Queues.                                                                 *)

\* A queue without repetitions, as its members.
IsQueue(q, members) ==
  q \in Seq(members) /\ IsInjective(q) /\ Range(q) = members

\* A sequence is one of the elements it has.
LEMMA Retype ==
  ASSUME NEW A, NEW q \in Seq(A), NEW B, Range(q) \subseteq B
  PROVE  q \in Seq(B)
<1>1. Len(q) \in Nat /\ \A i \in 1 .. Len(q) : q[i] \in B
  BY DEF Range
<1>2. q = [i \in 1 .. Len(q) |-> q[i]]
  OBVIOUS
<1>3. [i \in 1 .. Len(q) |-> q[i]] \in Seq(B)
  BY <1>1
<1> QED
  BY <1>2, <1>3

LEMMA QueueAppend ==
  ASSUME NEW q, NEW S, IsQueue(q, S), NEW a, a \notin S
  PROVE  /\ IsQueue(Append(q, a), S \cup {a})
         /\ Append(q, a) /= <<>>
         /\ q /= <<>> => Head(Append(q, a)) = Head(q)
<1> DEFINE T == S \cup {a}
<1>1. q \in Seq(T) /\ \A i \in 1 .. Len(q) : q[i] \in S
  BY Retype DEF IsQueue, Range
<1> DEFINE r == Append(q, a)
<1>2. /\ r \in Seq(T) /\ Len(r) = Len(q) + 1 /\ DOMAIN r = 1 .. Len(q) + 1
      /\ \A i \in 1 .. Len(q) : r[i] = q[i]
      /\ r[Len(q) + 1] = a
  BY <1>1
<1> HIDE DEF r
<1>3. IsInjective(r)
  BY <1>1, <1>2 DEF IsInjective, IsQueue
<1>4. Range(r) = S \cup {a}
  BY <1>1, <1>2 DEF Range, IsQueue
<1>5. r /= <<>> /\ (q /= <<>> => Head(r) = Head(q))
  BY <1>1, <1>2
<1> QED
  BY <1>2, <1>3, <1>4, <1>5 DEF IsQueue, r

LEMMA QueueTail ==
  ASSUME NEW q, NEW S, IsQueue(q, S), q /= <<>>
  PROVE  IsQueue(Tail(q), S \ {Head(q)})
<1>1. q \in Seq(S) /\ Len(q) \in Nat \ {0} /\ Head(q) = q[1]
  BY DEF IsQueue
<1> DEFINE r == Tail(q)
<1>2. /\ r \in Seq(S) /\ Len(r) = Len(q) - 1
      /\ \A i \in 1 .. Len(q) - 1 : r[i] = q[i + 1]
  BY <1>1
<1> HIDE DEF r
<1>3. DOMAIN r = 1 .. Len(q) - 1 /\ DOMAIN q = 1 .. Len(q)
  BY <1>1, <1>2
<1>4. IsInjective(r)
  <2>1. ASSUME NEW i \in 1 .. Len(q) - 1, NEW j \in 1 .. Len(q) - 1, r[i] = r[j]
        PROVE  i = j
    <3>1. q[i + 1] = q[j + 1] /\ i + 1 \in DOMAIN q /\ j + 1 \in DOMAIN q
      BY <1>1, <1>2, <1>3, <2>1
    <3> QED
      BY <3>1, <1>1 DEF IsInjective, IsQueue
  <2> QED
    BY <2>1, <1>3 DEF IsInjective
<1>5. ASSUME NEW x  PROVE x \in Range(r) <=> x \in S \ {Head(q)}
  <2>1. x \in Range(r) <=> \E i \in 1 .. Len(q) - 1 : x = q[i + 1]
    BY <1>2, <1>3 DEF Range
  <2>2. x \in S <=> \E i \in 1 .. Len(q) : x = q[i]
    BY <1>3 DEF Range, IsQueue
  <2>3. \A i \in 2 .. Len(q) : q[i] /= q[1]
    BY <1>1, <1>3 DEF IsInjective, IsQueue
  <2>4. \A i \in 2 .. Len(q) : i - 1 \in 1 .. Len(q) - 1 /\ (i - 1) + 1 = i
    BY <1>1
  <2>5. ASSUME NEW i \in 1 .. Len(q) - 1, x = q[i + 1]  PROVE x \in S \ {Head(q)}
    <3>1. i + 1 \in 2 .. Len(q)
      BY <1>1
    <3> QED
      BY <1>1, <2>2, <2>3, <2>5, <3>1
  <2>6. ASSUME NEW i \in 1 .. Len(q), x = q[i], x /= Head(q)
        PROVE  \E j \in 1 .. Len(q) - 1 : x = q[j + 1]
    <3>1. i \in 2 .. Len(q)
      BY <1>1, <2>6
    <3>2. i - 1 \in 1 .. Len(q) - 1 /\ x = q[(i - 1) + 1]
      BY <2>4, <2>6, <3>1
    <3> QED
      BY <3>2
  <2> QED
    BY <2>1, <2>2, <2>5, <2>6
<1>6. Range(r) = S \ {Head(q)} /\ r \in Seq(S \ {Head(q)})
  <2>1. Range(r) = S \ {Head(q)}
    BY <1>5
  <2> QED
    BY <1>2, <2>1, Retype
<1> QED
  BY <1>4, <1>6 DEF IsQueue, r

\* A sequence without its k-th element.
LEMMA RemoveAtProperties ==
  ASSUME NEW A, NEW q \in Seq(A), NEW k \in 1 .. Len(q)
  PROVE  /\ RemoveAt(q, k) \in Seq(A)
         /\ Len(RemoveAt(q, k)) = Len(q) - 1
         /\ \A i \in 1 .. Len(q) - 1 : RemoveAt(q, k)[i] = IF i < k THEN q[i] ELSE q[i + 1]
<1> DEFINE n == Len(q)
           u == SubSeq(q, 1, k - 1)
           v == SubSeq(q, k + 1, n)
           r == u \o v
<1>1. n \in Nat /\ k \in 1 .. n /\ \A i \in 1 .. n : q[i] \in A
  OBVIOUS
<1>2. 1 \in Int /\ k - 1 \in Int /\ k + 1 \in Int /\ n \in Int
  BY <1>1
<1>3. /\ \A i \in 1 .. k - 1 : q[i] \in A
      /\ \A i \in k + 1 .. n : q[i] \in A
  BY <1>1
<1>4. /\ u \in Seq(A)
      /\ Len(u) = IF 1 <= k - 1 THEN (k - 1) - 1 + 1 ELSE 0
      /\ \A i \in 1 .. (k - 1) - 1 + 1 : u[i] = q[1 + i - 1]
  BY <1>2, <1>3, SubSeqProperties
<1>5. /\ v \in Seq(A)
      /\ Len(v) = IF k + 1 <= n THEN n - (k + 1) + 1 ELSE 0
      /\ \A i \in 1 .. n - (k + 1) + 1 : v[i] = q[(k + 1) + i - 1]
  BY <1>2, <1>3, SubSeqProperties
<1>6. /\ r \in Seq(A)
      /\ Len(r) = Len(u) + Len(v)
      /\ \A i \in 1 .. Len(u) + Len(v) : r[i] = IF i <= Len(u) THEN u[i] ELSE v[i - Len(u)]
  BY <1>4, <1>5, ConcatProperties, Zenon
<1>7. RemoveAt(q, k) = r
  BY DEF RemoveAt
<1> HIDE DEF n, u, v, r
<1>8. Len(u) = k - 1 /\ Len(v) = n - k
  BY <1>1, <1>4, <1>5
<1>9. ASSUME NEW i \in 1 .. n - 1  PROVE r[i] = IF i < k THEN q[i] ELSE q[i + 1]
  <2>1. CASE i < k
    <3>1. r[i] = u[i] /\ u[i] = q[1 + i - 1] /\ 1 + i - 1 = i
      BY <1>1, <1>4, <1>6, <1>8, <2>1
    <3> QED
      BY <2>1, <3>1
  <2>2. CASE ~(i < k)
    <3> DEFINE j == i - (k - 1)
    <3>1. j \in 1 .. n - (k + 1) + 1 /\ (k + 1) + j - 1 = i + 1 /\ ~(i <= k - 1)
      BY <1>1, <2>2
    <3>2. i \in 1 .. Len(u) + Len(v)
      BY <1>1, <1>8
    <3>3. r[i] = v[j]
      BY <1>6, <1>8, <3>1, <3>2
    <3> HIDE DEF j
    <3>4. v[j] = q[(k + 1) + j - 1]
      BY <1>5, <3>1
    <3> QED
      BY <2>2, <3>1, <3>3, <3>4
  <2> QED
    BY <2>1, <2>2
<1>10. Len(r) = n - 1
  BY <1>1, <1>6, <1>8
<1> QED
  BY <1>6, <1>7, <1>9, <1>10 DEF n

LEMMA QueueRemove ==
  ASSUME NEW q, NEW S, IsQueue(q, S), NEW a
  PROVE  /\ IsQueue(RemoveFirst(q, a), S \ {a})
         /\ q /= <<>> /\ Head(q) /= a =>
              RemoveFirst(q, a) /= <<>> /\ Head(RemoveFirst(q, a)) = Head(q)
<1>1. q \in Seq(S) /\ Len(q) \in Nat /\ DOMAIN q = 1 .. Len(q)
  BY DEF IsQueue
<1>2. CASE ~\E i \in 1 .. Len(q) : q[i] = a
  <2>1. RemoveFirst(q, a) = q /\ S \ {a} = S
    BY <1>1, <1>2 DEF IsQueue, RemoveFirst, Range
  <2> QED
    BY <2>1
<1>3. CASE \E i \in 1 .. Len(q) : q[i] = a
  <2>1. PICK k \in 1 .. Len(q) : q[k] = a
    BY <1>3
  <2>2. \A i \in 1 .. Len(q) : q[i] = a <=> i = k
    BY <1>1, <2>1 DEF IsInjective, IsQueue
  <2>3. SelectInSeq(q, LAMBDA v : v = a) = k
    <3> DEFINE I == {i \in 1 .. Len(q) : q[i] = a}
    <3>1. I = {k}
      BY <2>1, <2>2
    <3>2. SelectInSeq(q, LAMBDA v : v = a) = IF I # {} THEN Min(I) ELSE 0
      BY DEF SelectInSeq
    <3> HIDE DEF I
    <3>3. Min(I) = k
      BY <1>1, <2>1, <3>1 DEF Min
    <3> QED
      BY <3>1, <3>2, <3>3
  <2> DEFINE r == RemoveFirst(q, a)
  <2>4. r = RemoveAt(q, k)
    BY <1>3, <2>3 DEF RemoveFirst
  <2> HIDE DEF r
  <2>5. /\ r \in Seq(S) /\ Len(r) = Len(q) - 1
        /\ \A i \in 1 .. Len(q) - 1 : r[i] = IF i < k THEN q[i] ELSE q[i + 1]
    BY <1>1, <2>1, <2>4, RemoveAtProperties, Zenon
  <2>6. DOMAIN r = 1 .. Len(q) - 1
    BY <2>5
  <2>8. IsInjective(r)
    <3>1. ASSUME NEW i \in 1 .. Len(q) - 1, NEW j \in 1 .. Len(q) - 1, r[i] = r[j]
          PROVE  i = j
      <4> DEFINE f(n) == IF n < k THEN n ELSE n + 1
      <4>1. q[f(i)] = q[f(j)] /\ f(i) \in DOMAIN q /\ f(j) \in DOMAIN q
        BY <1>1, <2>1, <2>5, <2>6, <3>1
      <4>2. f(i) = f(j)
        BY <4>1 DEF IsInjective, IsQueue
      <4> QED
        BY <4>2, <1>1, <2>1
    <3> QED
      BY <3>1, <2>5, <2>6 DEF IsInjective
  <2>9. ASSUME NEW x  PROVE x \in Range(r) <=> x \in S \ {a}
    <3>1. x \in Range(r) <=> \E i \in 1 .. Len(q) - 1 : x = r[i]
      BY <2>5, <2>6 DEF Range
    <3>2. x \in S <=> \E i \in 1 .. Len(q) : x = q[i]
      BY <1>1 DEF Range, IsQueue
    <3>4. ASSUME NEW i \in 1 .. Len(q) - 1, x = r[i]  PROVE x \in S \ {a}
      BY <3>4, <3>2, <2>2, <2>5, <2>6, <2>1, <1>1
    <3>5. ASSUME NEW i \in 1 .. Len(q), x = q[i], x /= a  PROVE x \in Range(r)
      <4>1. CASE i < k
        BY <4>1, <3>5, <3>1, <2>5, <2>6, <2>1, <1>1
      <4>2. CASE i > k
        <5>1. i - 1 \in 1 .. Len(q) - 1 /\ r[i - 1] = q[i]
          BY <4>2, <2>5, <2>6, <2>1, <1>1
        <5> QED
          BY <5>1, <3>5, <3>1
      <4> QED
        BY <4>1, <4>2, <3>5, <2>1
    <3> QED
      BY <3>1, <3>2, <3>4, <3>5
  <2>10. q /= <<>> /\ Head(q) /= a => r /= <<>> /\ Head(r) = Head(q)
    <3>1. ASSUME q /= <<>>, Head(q) /= a  PROVE r /= <<>> /\ Head(r) = Head(q)
      <4>1. k > 1 /\ Head(q) = q[1]
        BY <1>1, <2>1, <3>1
      <4>2. r[1] = q[1] /\ Len(r) >= 1
        BY <4>1, <1>1, <2>1, <2>5, <2>6
      <4> QED
        BY <4>1, <4>2, <2>5, <2>6
    <3> QED
      BY <3>1
  <2>11. Range(r) = S \ {a} /\ r \in Seq(S \ {a})
    <3>1. Range(r) = S \ {a}
      BY <2>9
    <3> QED
      BY <2>5, <3>1, Retype
  <2> QED
    BY <2>8, <2>10, <2>11 DEF IsQueue, r
<1> QED
  BY <1>2, <1>3

-----------------------------------------------------------------------------
(* The invariant.                                                          *)

Locking == {"lock", "auth"}

\* The lock's queue holds exactly those who wait for it or hold it, and who
\* authenticates holds it.
Queue ==
  /\ IsQueue(queue, {a \in Actors : pc[a] \in Locking})
  /\ \A a \in Actors : pc[a] = "auth" => queue /= <<>> /\ Head(queue) = a

\* An authentication is under way only on a connection that is not yet one, and
\* a connection that counts as authenticated is connected.
Connection ==
  /\ authenticated => connected
  /\ \A a \in Actors : pc[a] = "auth" => connected /\ ~authenticated

\* A call that may still have to connect has attempts left.
AttemptsLeft ==
  \A e \in Execs : pc[e] \in {"idle", "lock", "auth", "backoff"} => tries[e] < Attempts

Inv ==
  /\ TypeOK
  /\ Queue
  /\ Connection
  /\ AttemptsLeft
  /\ OneReader
  /\ RequestsAreReachable

-----------------------------------------------------------------------------
(* What an action does to the lock.                                        *)

LEMMA QueueOfActors ==
  ASSUME NEW q, NEW S, S \subseteq Actors, IsQueue(q, S)
  PROVE  IsInjective(q) /\ q \in Seq(Actors)
BY Retype DEF IsQueue

LEMMA Enqueue ==
  ASSUME TypeOK, Queue, NEW a \in Actors, pc[a] \notin Locking,
         Goto(a, "lock"), queue' = Append(queue, a)
  PROVE  Queue' /\ IsInjective(queue') /\ queue' \in Seq(Actors)
<1> DEFINE S == {b \in Actors : pc[b] \in Locking}
<1>1. IsQueue(queue, S) /\ a \notin S
  BY DEF Queue
<1>2. {b \in Actors : pc'[b] \in Locking} = S \cup {a}
  BY DEF TypeOK, Goto, Locking
<1>3. /\ IsQueue(queue', S \cup {a})
      /\ queue' /= <<>> /\ (queue /= <<>> => Head(queue') = Head(queue))
  BY <1>1, QueueAppend
<1>4. \A b \in Actors : pc'[b] = "auth" => pc[b] = "auth"
  BY DEF TypeOK, Goto
<1> QED
  BY <1>2, <1>3, <1>4, QueueOfActors DEF Queue

LEMMA Dequeue ==
  ASSUME TypeOK, Queue, NEW a \in Actors, queue /= <<>>, Head(queue) = a,
         NEW p, p \notin Locking, Goto(a, p), queue' = Tail(queue)
  PROVE  Queue' /\ IsInjective(queue') /\ queue' \in Seq(Actors)
<1> DEFINE S == {b \in Actors : pc[b] \in Locking}
<1>1. IsQueue(queue, S)
  BY DEF Queue
<1>2. {b \in Actors : pc'[b] \in Locking} = S \ {a}
  BY DEF TypeOK, Goto
<1>3. IsQueue(queue', S \ {a})
  BY <1>1, QueueTail
<1>4. \A b \in Actors : pc'[b] /= "auth"
  BY DEF TypeOK, Goto, Queue, Locking
<1> QED
  BY <1>2, <1>3, <1>4, QueueOfActors DEF Queue

LEMMA LeaveQueue ==
  ASSUME TypeOK, Queue, NEW a \in Actors,
         NEW p, p \notin Locking, Goto(a, p), queue' = RemoveFirst(queue, a)
  PROVE  Queue' /\ IsInjective(queue') /\ queue' \in Seq(Actors)
<1> DEFINE S == {b \in Actors : pc[b] \in Locking}
<1>1. IsQueue(queue, S)
  BY DEF Queue
<1>2. {b \in Actors : pc'[b] \in Locking} = S \ {a}
  BY DEF TypeOK, Goto
<1>3. /\ IsQueue(queue', S \ {a})
      /\ queue /= <<>> /\ Head(queue) /= a =>
           queue' /= <<>> /\ Head(queue') = Head(queue)
  BY <1>1, QueueRemove
<1>4. \A b \in Actors : pc'[b] = "auth" => b /= a /\ pc[b] = "auth"
  BY DEF TypeOK, Goto, Locking
<1> QED
  BY <1>2, <1>3, <1>4, QueueOfActors DEF Queue

LEMMA KeepQueue ==
  ASSUME TypeOK, Queue, NEW a \in Actors, NEW p, Goto(a, p), UNCHANGED queue,
         pc[a] \in Locking <=> p \in Locking,
         p = "auth" => queue /= <<>> /\ Head(queue) = a
  PROVE  Queue' /\ IsInjective(queue') /\ queue' \in Seq(Actors)
<1>1. {b \in Actors : pc'[b] \in Locking} = {b \in Actors : pc[b] \in Locking}
  BY DEF TypeOK, Goto
<1>2. \A b \in Actors : pc'[b] = "auth" => pc[b] = "auth" \/ (b = a /\ p = "auth")
  BY DEF TypeOK, Goto
<1> QED
  BY <1>1, <1>2, QueueOfActors DEF Queue

-----------------------------------------------------------------------------
(* Every action keeps the invariant.                                       *)

LEMMA RefusedInv ==
  ASSUME Inv, NEW e \in Execs, Refused(e)
  PROVE  Inv'
<1>1. Queue' /\ IsInjective(queue') /\ queue' \in Seq(Actors)
  BY KeepQueue DEF Inv, Refused, conn, Actors, Locking
<1>2. TypeOK'
  BY <1>1, ClawAssumption
     DEF Inv, TypeOK, Over, Refused, Goto, conn, futures, circuit, gateway, Actors
<1>3. Connection' /\ AttemptsLeft'
  BY ClawAssumption
     DEF Inv, TypeOK, Connection, AttemptsLeft, IsConnected, Over, Refused, Goto, conn,
         futures, circuit, gateway, Actors
<1>4. OneReader' /\ RequestsAreReachable'
  BY ClawAssumption
     DEF Inv, TypeOK, Connection, OneReader, RequestsAreReachable, IsConnected, Over,
         Refused, Goto, conn, futures, circuit, gateway, Actors
<1> QED
  BY <1>1, <1>2, <1>3, <1>4 DEF Inv

LEMMA BeginInv ==
  ASSUME Inv, NEW e \in Execs, Begin(e)
  PROVE  Inv'
<1>1. Queue' /\ IsInjective(queue') /\ queue' \in Seq(Actors)
  BY Enqueue, KeepQueue DEF Inv, Begin, Proceed, Send, OverBudget, Goto, Actors, Locking
<1>2. TypeOK'
  BY <1>1, ClawAssumption
     DEF Inv, TypeOK, Over, Begin, Proceed, Send, OverBudget, Goto, conn, futures, circuit,
         gateway, Actors
<1>3. Connection' /\ AttemptsLeft'
  BY ClawAssumption
     DEF Inv, TypeOK, Connection, AttemptsLeft, IsConnected, Over, Begin, Proceed, Send,
         OverBudget, Goto, conn, futures, circuit, gateway, Actors
<1>4. OneReader' /\ RequestsAreReachable'
  BY ClawAssumption
     DEF Inv, TypeOK, Connection, OneReader, RequestsAreReachable, IsConnected, Over, Begin,
         Proceed, Send, OverBudget, Goto, conn, futures, circuit, gateway, Actors
<1> QED
  BY <1>1, <1>2, <1>3, <1>4 DEF Inv

LEMMA RetryInv ==
  ASSUME Inv, NEW e \in Execs, Retry(e)
  PROVE  Inv'
<1>1. Queue' /\ IsInjective(queue') /\ queue' \in Seq(Actors)
  BY Enqueue DEF Inv, Retry, Actors, Locking
<1>2. TypeOK'
  BY <1>1, ClawAssumption
     DEF Inv, TypeOK, Over, Retry, Goto, conn, futures, circuit, gateway, Actors
<1>3. Connection' /\ AttemptsLeft'
  BY ClawAssumption
     DEF Inv, TypeOK, Connection, AttemptsLeft, IsConnected, Over, Retry, Goto, conn,
         futures, circuit, gateway, Actors
<1>4. OneReader' /\ RequestsAreReachable'
  BY ClawAssumption
     DEF Inv, TypeOK, Connection, OneReader, RequestsAreReachable, IsConnected, Over, Retry,
         Goto, conn, futures, circuit, gateway, Actors
<1> QED
  BY <1>1, <1>2, <1>3, <1>4 DEF Inv

LEMMA FoundConnectedInv ==
  ASSUME Inv, NEW a \in Actors, FoundConnected(a)
  PROVE  Inv'
<1>1. Queue' /\ IsInjective(queue') /\ queue' \in Seq(Actors)
  BY Dequeue
     DEF Inv, FoundConnected, HasLock, Connected, Proceed, Send, OverBudget, Goto, Locking
<1>2. TypeOK'
  BY <1>1, ClawAssumption
     DEF Inv, TypeOK, Over, FoundConnected, HasLock, Connected, Proceed, Send, OverBudget,
         Goto, conn, futures, circuit, gateway, Actors
<1>3. Connection' /\ AttemptsLeft'
  BY ClawAssumption
     DEF Inv, TypeOK, Connection, AttemptsLeft, IsConnected, Over, FoundConnected, HasLock,
         Connected, Proceed, Send, OverBudget, Goto, conn, futures, circuit, gateway, Actors
<1>4. OneReader' /\ RequestsAreReachable'
  BY ClawAssumption
     DEF Inv, TypeOK, Connection, OneReader, RequestsAreReachable, IsConnected, Over,
         FoundConnected, HasLock, Connected, Proceed, Send, OverBudget, Goto, conn, futures,
         circuit, gateway, Actors
<1> QED
  BY <1>1, <1>2, <1>3, <1>4 DEF Inv

LEMMA DialInv ==
  ASSUME Inv, NEW a \in Actors, Dial(a)
  PROVE  Inv'
<1>1. Queue' /\ IsInjective(queue') /\ queue' \in Seq(Actors)
  BY KeepQueue DEF Inv, Dial, MustDial, HasLock, Goto, Locking
<1>2. TypeOK'
  BY <1>1, ClawAssumption
     DEF Inv, TypeOK, Over, Dial, MustDial, HasLock, Goto, conn, futures, circuit, gateway,
         Actors
<1>3. Connection' /\ AttemptsLeft'
  BY ClawAssumption
     DEF Inv, TypeOK, Connection, AttemptsLeft, IsConnected, Over, Dial, MustDial, HasLock,
         Goto, conn, futures, circuit, gateway, Actors
<1>4. OneReader' /\ RequestsAreReachable'
  BY ClawAssumption
     DEF Inv, TypeOK, Connection, OneReader, RequestsAreReachable, IsConnected, Over, Dial,
         MustDial, HasLock, Goto, conn, futures, circuit, gateway, Actors
<1> QED
  BY <1>1, <1>2, <1>3, <1>4 DEF Inv

LEMMA AuthenticateInv ==
  ASSUME Inv, NEW a \in Actors, Authenticate(a)
  PROVE  Inv'
<1>1. Queue' /\ IsInjective(queue') /\ queue' \in Seq(Actors)
  BY Dequeue
     DEF Inv, Queue, Authenticate, Connected, Proceed, Send, OverBudget, Goto, Locking
<1>2. /\ \E p \in {"sending", "refused", "idle"} : Goto(a, p)
      /\ a \notin Execs => Goto(a, "idle") /\ UNCHANGED futures
      /\ a \in Execs => /\ UNCHANGED <<reply, completions, final>>
                        /\ pending' \subseteq pending \cup {a}
      /\ readers' = readers + 1 /\ authenticated' = TRUE
  <2>1. Goto(a, "sending") \/ Goto(a, "refused") \/ Goto(a, "idle")
    BY DEF Authenticate, Connected, Proceed, Send, OverBudget
  <2> QED
    BY <2>1 DEF Authenticate, Connected, Proceed, Send, OverBudget, futures
<1>3. TypeOK'
  BY <1>1, <1>2 DEF Inv, TypeOK, Over, Authenticate, Goto, futures, circuit, gateway
<1>4. \A b \in Actors : pc'[b] /= "auth"
  BY DEF Inv, TypeOK, Queue, Authenticate, Connected, Proceed, Send, OverBudget, Goto
<1>5. Connection' /\ AttemptsLeft'
  BY <1>4, ClawAssumption
     DEF Inv, TypeOK, Connection, AttemptsLeft, IsConnected, Over, Authenticate, Connected,
         Proceed, Send, OverBudget, Goto, conn, futures, circuit, gateway, Actors
<1>6. OneReader' /\ RequestsAreReachable'
  BY ClawAssumption
     DEF Inv, TypeOK, Connection, OneReader, RequestsAreReachable, IsConnected, Over,
         Authenticate, Connected, Proceed, Send, OverBudget, Goto, conn, futures, circuit,
         gateway, Actors
<1> QED
  BY <1>1, <1>3, <1>5, <1>6 DEF Inv

\* What a failed connection costs the call that tried it.
LEMMA GiveUpCounts ==
  ASSUME Inv, NEW a \in Actors, GiveUp(a), pc[a] \in Locking
  PROVE  /\ tries' \in [Execs -> 0 .. Attempts]
         /\ breaker' \in {"closed", "open", "half_open"} /\ failures' \in 0 .. Threshold
         /\ AttemptsLeft'
<1>1. CASE a = Loop
  BY <1>1, ClawAssumption DEF Inv, TypeOK, AttemptsLeft, GiveUp, Goto, circuit, Actors
<1>2. CASE a /= Loop
  <2>1. /\ a \in Execs /\ tries[a] \in 0 .. Attempts /\ tries[a] < Attempts
        /\ tries' = [tries EXCEPT ![a] = tries[a] + 1]
        /\ IF tries'[a] < Attempts
           THEN Goto(a, "backoff") /\ UNCHANGED circuit
           ELSE Goto(a, "failed") /\ RecordFailure
    BY <1>2 DEF Inv, TypeOK, AttemptsLeft, GiveUp, Actors, Locking
  <2>2. tries[a] + 1 \in 0 .. Attempts /\ tries' \in [Execs -> 0 .. Attempts]
    BY <2>1, ClawAssumption DEF Inv, TypeOK
  <2>3. breaker' \in {"closed", "open", "half_open"} /\ failures' \in 0 .. Threshold
    BY <2>1, ClawAssumption DEF Inv, TypeOK, RecordFailure, circuit
  <2>4. AttemptsLeft'
    BY <2>1, <2>2 DEF Inv, TypeOK, AttemptsLeft, Goto, Actors
  <2> QED
    BY <2>2, <2>3, <2>4
<1> QED
  BY <1>1, <1>2

LEMMA DialFailsInv ==
  ASSUME Inv, NEW a \in Actors, DialFails(a)
  PROVE  Inv'
<1> DEFINE vs == <<authenticated, readers, futures, gateway>>
<1>1. /\ pc[a] \in Locking /\ queue /= <<>> /\ Head(queue) = a
      /\ GiveUp(a)
      /\ connected' = FALSE /\ ~IsConnected
      /\ UNCHANGED vs
  BY DEF Inv, Queue, Connection, IsConnected, DialFails, MustDial, HasLock, Locking
<1>2. PICK p \in {"idle", "backoff", "failed"} : Goto(a, p)
  <2>1. Goto(a, "idle") \/ Goto(a, "backoff") \/ Goto(a, "failed")
    BY <1>1 DEF GiveUp
  <2> QED
    BY <2>1
<1>3. Queue' /\ IsInjective(queue') /\ queue' \in Seq(Actors)
  BY <1>1, <1>2, Dequeue DEF Inv, GiveUp, Locking
<1>4. /\ tries' \in [Execs -> 0 .. Attempts]
      /\ breaker' \in {"closed", "open", "half_open"} /\ failures' \in 0 .. Threshold
      /\ AttemptsLeft'
  BY <1>1, GiveUpCounts
<1>5. \A b \in Actors : pc'[b] /= "auth"
  BY <1>1, <1>2 DEF Inv, TypeOK, Queue, Goto
<1>6. TypeOK'
  BY <1>1, <1>2, <1>3, <1>4 DEF Inv, TypeOK, Goto, Over, futures, gateway
<1>7. Connection' /\ OneReader'
  BY <1>1, <1>5 DEF Inv, TypeOK, Connection, OneReader, IsConnected
<1>8. RequestsAreReachable'
  BY <1>1, <1>2 DEF Inv, TypeOK, RequestsAreReachable, Goto, futures
<1> QED
  BY <1>3, <1>4, <1>6, <1>7, <1>8 DEF Inv

LEMMA AuthFailsInv ==
  ASSUME Inv, NEW a \in Actors, AuthFails(a)
  PROVE  Inv'
<1> DEFINE vs == <<authenticated, readers, futures, gateway>>
<1>1. /\ pc[a] \in Locking /\ queue /= <<>> /\ Head(queue) = a
      /\ GiveUp(a)
      /\ connected' = FALSE /\ ~IsConnected
      /\ UNCHANGED vs
  BY DEF Inv, Queue, Connection, IsConnected, AuthFails, Locking
<1>2. PICK p \in {"idle", "backoff", "failed"} : Goto(a, p)
  <2>1. Goto(a, "idle") \/ Goto(a, "backoff") \/ Goto(a, "failed")
    BY <1>1 DEF GiveUp
  <2> QED
    BY <2>1
<1>3. Queue' /\ IsInjective(queue') /\ queue' \in Seq(Actors)
  BY <1>1, <1>2, Dequeue DEF Inv, GiveUp, Locking
<1>4. /\ tries' \in [Execs -> 0 .. Attempts]
      /\ breaker' \in {"closed", "open", "half_open"} /\ failures' \in 0 .. Threshold
      /\ AttemptsLeft'
  BY <1>1, GiveUpCounts
<1>5. \A b \in Actors : pc'[b] /= "auth"
  BY <1>1, <1>2 DEF Inv, TypeOK, Queue, Goto
<1>6. TypeOK'
  BY <1>1, <1>2, <1>3, <1>4 DEF Inv, TypeOK, Goto, Over, futures, gateway
<1>7. Connection' /\ OneReader'
  BY <1>1, <1>5 DEF Inv, TypeOK, Connection, OneReader, IsConnected
<1>8. RequestsAreReachable'
  BY <1>1, <1>2 DEF Inv, TypeOK, RequestsAreReachable, Goto, futures
<1> QED
  BY <1>3, <1>4, <1>6, <1>7, <1>8 DEF Inv

LEMMA CancelInv ==
  ASSUME Inv, NEW e \in Execs, Cancel(e)
  PROVE  Inv'
<1>1. Queue' /\ IsInjective(queue') /\ queue' \in Seq(Actors)
  BY LeaveQueue DEF Inv, Cancel, Goto, Locking, Actors
<1>2. TypeOK'
  BY <1>1, ClawAssumption
     DEF Inv, TypeOK, Over, Cancel, Forget, Goto, conn, futures, circuit, gateway, Actors
<1>3. Connection' /\ AttemptsLeft'
  BY ClawAssumption
     DEF Inv, TypeOK, Connection, AttemptsLeft, IsConnected, Over, Cancel, Forget, Goto,
         conn, futures, circuit, gateway, Actors
<1>4. OneReader' /\ RequestsAreReachable'
  BY ClawAssumption
     DEF Inv, TypeOK, Connection, OneReader, RequestsAreReachable, IsConnected, Over,
         Cancel, Forget, Goto, conn, futures, circuit, gateway, Actors
<1> QED
  BY <1>1, <1>2, <1>3, <1>4 DEF Inv

\* What the end of a call leaves to the others.
LEMMA EndInv ==
  ASSUME Inv, NEW c \in Execs, NEW how \in {"done", "failed", "fetch"},
         End(c, how), pc[c] \notin Locking
  PROVE  Inv'
<1>1. Queue' /\ IsInjective(queue') /\ queue' \in Seq(Actors)
  BY KeepQueue DEF Inv, End, conn, Actors, Locking
<1>2. TypeOK'
  BY <1>1, ClawAssumption
     DEF Inv, TypeOK, Over, End, Forget, RecordFailure, RecordSuccess, Goto, conn, gateway,
         Actors
<1>3. Connection' /\ AttemptsLeft'
  BY ClawAssumption
     DEF Inv, TypeOK, Connection, AttemptsLeft, IsConnected, Over, End, Forget,
         RecordFailure, RecordSuccess, Goto, conn, gateway, Actors
<1>4. OneReader' /\ RequestsAreReachable'
  BY ClawAssumption
     DEF Inv, TypeOK, Connection, OneReader, RequestsAreReachable, IsConnected, Over, End,
         Forget, RecordFailure, RecordSuccess, Goto, conn, gateway, Actors
<1> QED
  BY <1>1, <1>2, <1>3, <1>4 DEF Inv

LEMMA CallInv ==
  ASSUME Inv, NEW c \in Execs, Call(c)
  PROVE  Inv'
<1>1. CASE Sent(c)
  <2>1. Queue' /\ IsInjective(queue') /\ queue' \in Seq(Actors)
    BY <1>1, KeepQueue DEF Inv, Sent, conn, Actors, Locking
  <2>2. TypeOK' /\ Connection' /\ AttemptsLeft' /\ OneReader' /\ RequestsAreReachable'
    BY <1>1, <2>1 DEF Inv, TypeOK, Connection, AttemptsLeft, OneReader,
       RequestsAreReachable, IsConnected, Over, Sent, Goto, conn, futures, circuit, Actors
  <2> QED
    BY <2>1, <2>2 DEF Inv
<1>2. CASE SendFails(c) \/ ReplyFails(c)
  BY <1>2, EndInv DEF SendFails, ReplyFails, Locking
<1>3. CASE Replied(c)
  <2>1. CASE Succeed(c)
    BY <1>3, <2>1, EndInv DEF Replied, Succeed, Locking
  <2>2. CASE ~Succeed(c)
    <3>1. Queue' /\ IsInjective(queue') /\ queue' \in Seq(Actors)
      BY <1>3, <2>2, KeepQueue DEF Inv, Replied, conn, Actors, Locking
    <3>2. /\ Goto(c, "final") /\ completions' = completions \cup {c}
          /\ UNCHANGED <<tries, conn, pending, reply, final, circuit, gateway>>
      BY <1>3, <2>2 DEF Replied
    <3>3. TypeOK'
      BY <3>1, <3>2 DEF Inv, TypeOK, Over, Goto, conn, circuit, gateway, Actors
    <3>4. Connection' /\ AttemptsLeft' /\ OneReader' /\ RequestsAreReachable'
      BY <3>2 DEF Inv, TypeOK, Connection, AttemptsLeft, OneReader,
         RequestsAreReachable, IsConnected, Goto, conn, Actors
    <3> QED
      BY <3>1, <3>3, <3>4 DEF Inv
  <2> QED
    BY <2>1, <2>2
<1> QED
  BY <1>1, <1>2, <1>3 DEF Call

LEMMA ExecInv ==
  ASSUME Inv, NEW e \in Execs, Exec(e)
  PROVE  Inv'
<1>1. CASE Complete(e) \/ FinalTimeout(e)
  BY <1>1, EndInv DEF Complete, FinalTimeout, Succeed, Locking
<1>2. CASE Fetched(e)
  <2>1. Queue' /\ IsInjective(queue') /\ queue' \in Seq(Actors)
    BY <1>2, KeepQueue DEF Inv, Fetched, conn, Actors, Locking
  <2>2. TypeOK' /\ Connection' /\ AttemptsLeft' /\ OneReader' /\ RequestsAreReachable'
    BY <1>2, <2>1 DEF Inv, TypeOK, Connection, AttemptsLeft, OneReader,
       RequestsAreReachable, IsConnected, Over, Fetched, Goto, conn, futures, circuit,
       gateway, Actors
  <2> QED
    BY <2>1, <2>2 DEF Inv
<1> QED
  BY <1>1, <1>2, RefusedInv, BeginInv, RetryInv, FoundConnectedInv, DialInv,
     AuthenticateInv, DialFailsInv, AuthFailsInv DEF Exec, Connecting, Actors

\* Actions that leave every actor and the lock where they are.
LEMMA QueueStays ==
  ASSUME Queue, UNCHANGED <<pc, queue>>
  PROVE  Queue'
  BY DEF Queue, IsQueue

LEMMA ReaderInv ==
  ASSUME Inv, Reader
  PROVE  Inv'
<1>1. UNCHANGED <<pc, queue, tries>>
  BY DEF Reader, ReadReply, ReadFinal, LoseConnection, conn
<1>2. Queue' /\ AttemptsLeft'
  BY <1>1, QueueStays DEF Inv, AttemptsLeft
<1>3. CASE ReadReply
  <2>1. PICK kind \in {"ok", "error"} : Reads(kind)
    BY <1>3 DEF ReadReply
  <2>2. inbox /= <<>> /\ Head(inbox)[2] \in Execs
        /\ Tail(inbox) \in Seq({"ok", "error", "final"} \X Execs)
    BY <2>1 DEF Inv, TypeOK, Reads
  <2>3. TypeOK'
    BY <1>3, <2>2 DEF Inv, TypeOK, ReadReply, conn, circuit
  <2>4. Connection' /\ OneReader' /\ RequestsAreReachable'
    BY <1>3, <2>2 DEF Inv, TypeOK, Connection, OneReader, RequestsAreReachable,
       IsConnected, ReadReply, Waits, Over, conn
  <2> QED
    BY <1>2, <2>3, <2>4 DEF Inv
<1>4. CASE ReadFinal
  <2>1. inbox /= <<>> /\ Head(inbox)[2] \in Execs
        /\ Tail(inbox) \in Seq({"ok", "error", "final"} \X Execs)
    BY <1>4 DEF Inv, TypeOK, ReadFinal, Reads
  <2>2. TypeOK'
    BY <1>4, <2>1 DEF Inv, TypeOK, ReadFinal, conn, circuit
  <2>3. Connection' /\ OneReader' /\ RequestsAreReachable'
    BY <1>4 DEF Inv, TypeOK, Connection, OneReader, RequestsAreReachable,
       IsConnected, ReadFinal, conn
  <2> QED
    BY <1>2, <2>2, <2>3 DEF Inv
<1>5. CASE LoseConnection
  <2>1. readers = 1 /\ IsConnected
    BY <1>5 DEF Inv, OneReader, LoseConnection
  <2>2. TypeOK'
    <3>1. reply' \in [Execs -> {"unset", "ok", "error"}]
      BY <1>5 DEF Inv, TypeOK, LoseConnection
    <3>2. readers' = 0 /\ connected' = FALSE /\ authenticated' = FALSE /\ pending' = {}
      BY <1>5, <2>1 DEF LoseConnection
    <3>3. UNCHANGED <<pc, tries, queue, completions, final, circuit, gateway>>
      BY <1>5 DEF LoseConnection
    <3> QED
      BY <3>1, <3>2, <3>3 DEF Inv, TypeOK, circuit, gateway
  <2>3. Connection' /\ OneReader' /\ RequestsAreReachable'
    BY <1>5, <2>1 DEF Inv, TypeOK, Connection, OneReader, RequestsAreReachable,
       IsConnected, LoseConnection, Waits, Over
  <2> QED
    BY <1>2, <2>2, <2>3 DEF Inv
<1> QED
  BY <1>3, <1>4, <1>5 DEF Reader

LEMMA WakeInv ==
  ASSUME Inv, Wake
  PROVE  Inv'
<1>1. Queue' /\ IsInjective(queue') /\ queue' \in Seq(Actors)
  BY Enqueue DEF Inv, Wake, Actors, Locking
<1>2. TypeOK' /\ Connection' /\ AttemptsLeft' /\ OneReader' /\ RequestsAreReachable'
  BY <1>1, ClawAssumption DEF Inv, TypeOK, Connection, AttemptsLeft, OneReader,
     RequestsAreReachable, IsConnected, Wake, Goto, futures, circuit, gateway, Actors
<1> QED
  BY <1>1, <1>2 DEF Inv

LEMMA EnvironmentInv ==
  ASSUME Inv, Environment \/ Recover
  PROVE  Inv'
<1>1. UNCHANGED <<pc, tries, queue, connected, authenticated, readers, pending, reply,
                  completions, final>>
  BY DEF Environment, Recover, Toggle, Drop, GatewayReplies, AgentEnds, conn, futures
<1>2. /\ Queue' /\ Connection' /\ AttemptsLeft' /\ OneReader'
      /\ RequestsAreReachable'
  BY <1>1, QueueStays DEF Inv, Connection, AttemptsLeft, OneReader, RequestsAreReachable,
     IsConnected
<1>3. inbox' \in Seq({"ok", "error", "final"} \X Execs)
  <2>1. CASE Drop
    BY <2>1 DEF Inv, TypeOK, Drop
  <2>2. CASE ~Drop
    <3>1. \/ UNCHANGED inbox
          \/ \E m \in {"ok", "error", "final"} \X Execs : inbox' = Append(inbox, m)
      BY <2>2, Zenon DEF Environment, Recover, Toggle, GatewayReplies, AgentEnds, gateway
    <3>2. inbox \in Seq({"ok", "error", "final"} \X Execs)
      BY DEF Inv, TypeOK
    <3> QED
      BY <3>1, <3>2, AppendProperties
  <2> QED
    BY <2>1, <2>2
<1>4. TypeOK'
  BY <1>1, <1>3 DEF Inv, TypeOK, Environment, Recover, Toggle, Drop, GatewayReplies,
     AgentEnds, gateway, circuit
<1> QED
  BY <1>2, <1>4 DEF Inv

LEMMA NextInv == Inv /\ [Next]_vars => Inv'
<1> SUFFICES ASSUME Inv, [Next]_vars  PROVE Inv'
  OBVIOUS
<1>1. CASE UNCHANGED vars
  BY <1>1, QueueStays DEF Inv, TypeOK, Connection, AttemptsLeft, OneReader,
     RequestsAreReachable, IsConnected, vars, conn, futures, circuit, gateway
<1>2. CASE Reconnect
  BY <1>2, WakeInv, FoundConnectedInv, DialInv, AuthenticateInv, DialFailsInv, AuthFailsInv
     DEF Reconnect, Connecting, Actors
<1> QED
  BY <1>1, <1>2, ExecInv, CallInv, CancelInv, ReaderInv, EnvironmentInv DEF Next

LEMMA InitInv == Init => Inv
<1> SUFFICES ASSUME Init  PROVE Inv
  OBVIOUS
<1>1. Range(queue) = {} /\ IsInjective(queue) /\ queue \in Seq(Actors)
  BY DEF Init, Range, IsInjective
<1>2. TypeOK
  <2>1. /\ inbox \in Seq({"ok", "error", "final"} \X Execs)
        /\ tries \in [Execs -> 0 .. Attempts] /\ failures \in 0 .. Threshold
    BY ClawAssumption DEF Init
  <2>2. reply \in [Execs -> {"unset", "ok", "error"}] /\ final \in [Execs -> {"unset", "set"}]
    BY DEF Init
  <2> QED
    BY <1>1, <2>1, <2>2 DEF Init, TypeOK, Over
<1>3. Queue
  BY <1>1 DEF Init, Queue, IsQueue, Locking
<1> QED
  BY <1>2, <1>3, ClawAssumption DEF Inv, Init, Connection, AttemptsLeft, OneReader,
     RequestsAreReachable, IsConnected, Actors

-----------------------------------------------------------------------------
(* The theorems.                                                           *)

LEMMA Invariance == Spec => []Inv
  BY InitInv, NextInv, PTL DEF Spec

(* Every variable keeps its type: in particular the queue of the lock never
   holds an actor twice and no call uses more attempts than it has. *)
THEOREM TypeCorrect == Spec => []TypeOK
  BY Invariance, PTL DEF Inv

(* However many executors and the reconnect loop connect, retry, are cancelled
   or lose the connection, one receive loop reads a connection that says it is
   connected, and none reads one that does not. *)
THEOREM ReadByOne == Spec => []OneReader
<1>1. Inv => OneReader
  BY DEF Inv
<1> QED
  BY <1>1, Invariance, PTL

(* Whatever is lost, cancelled or reconnected, a request an executor waits for
   is in _pending of a connection that is read, or its future is decided. *)
THEOREM RequestsReachable == Spec => []RequestsAreReachable
<1>1. Inv => RequestsAreReachable
  BY DEF Inv
<1> QED
  BY <1>1, Invariance, PTL

-----------------------------------------------------------------------------
(* The bridge from the chats of the gateway to the pipeline (EventBridge).   *)

States == {"agent", "asking", "running"} \cup Ended

\* The states of a run whose event has not been routed.
Unrouted == {"agent", "asking", "missed", "dropped", "skipped"}

BridgeTypes ==
  /\ chat \in Seq(Messages \cup {Echo})
  /\ run \in Seq(States) /\ Len(run) = Len(chat)
  /\ handled \in Seq(Commands \cup {None}) /\ Len(handled) = Len(chat)
  /\ hasty \in BOOLEAN

\* What users say they say once.
WordsOnce ==
  \A i, j \in DOMAIN chat : chat[i] = chat[j] /\ chat[i] /= Echo => i = j

\* A message is noted for an event exactly from its routing on.
Routed ==
  \A i \in DOMAIN chat :
    /\ handled[i] = None <=> run[i] \in Unrouted
    /\ handled[i] /= None => \E j \in DOMAIN chat : handled[i] = chat[j]

\* While users wait for the answers only the newest event is not over.
Patient ==
  ~hasty => \A i \in DOMAIN chat :
    /\ run[i] \notin Ended => i = Len(chat)
    /\ handled[i] \in {None, chat[i]}
    /\ run[i] = "skipped" => chat[i] \notin Commands

Open == {i \in DOMAIN chat : run[i] \notin Ended}
Words == {i \in DOMAIN chat : chat[i] /= Echo}
UpTo(p) == {i \in 1..p : chat[i] /= Echo}

\* The events that are not over, and those the newest message was run for.
Live == Open \cup Runs(chat[Len(chat)])

\* There are no more events that are not over than there are messages of users;
\* and while such a message is the newest, what has been run of it and what may
\* yet be are no more than that either.
Bounded ==
  /\ Cardinality(Open) <= Cardinality(Words)
  /\ \A p \in Words : Cardinality(Runs(chat[p])) <= Cardinality(UpTo(p))
  /\ Len(chat) \in Words => Cardinality(Live) <= Cardinality(Words)

BridgeInv == BridgeTypes /\ WordsOnce /\ Routed /\ Patient /\ Bounded

LEMMA WordsAreNotNone == Echo \notin Commands /\ None \notin Commands /\ Echo /= None
                         /\ Echo \notin Messages /\ None \notin Messages
  BY BridgeAssumption DEF Echo, None

-----------------------------------------------------------------------------
(* What a step changes, index by index.                                      *)

LEMMA Updated ==
  ASSUME NEW S, NEW s \in Seq(S), NEW i \in DOMAIN s, NEW x \in S, NEW t,
         t = [s EXCEPT ![i] = x]
  PROVE  /\ t \in Seq(S) /\ Len(t) = Len(s) /\ DOMAIN t = DOMAIN s
         /\ \A k \in DOMAIN s : t[k] = IF k = i THEN x ELSE s[k]
  OBVIOUS

LEMMA Appended ==
  ASSUME NEW S, NEW s \in Seq(S), NEW x \in S, NEW t, t = Append(s, x)
  PROVE  /\ t \in Seq(S) /\ Len(t) = Len(s) + 1
         /\ \A k \in 1..Len(s) : t[k] = s[k]
         /\ t[Len(s) + 1] = x
  OBVIOUS

\* The chat and the notes, under a message that joins.
JoinFacts(m) ==
  /\ Len(chat') = Len(chat) + 1
  /\ \A k \in 1..Len(chat) : chat'[k] = chat[k] /\ handled'[k] = handled[k]
  /\ chat'[Len(chat) + 1] = m /\ handled'[Len(chat) + 1] = None
  /\ run'[Len(chat) + 1] = "agent"

LEMMA SendFacts ==
  ASSUME BridgeTypes, NEW m \in Messages, UserSends(m)
  PROVE  /\ BridgeTypes' /\ JoinFacts(m)
         /\ \A k \in 1..Len(chat) : run'[k] = run[k] /\ chat[k] /= m
         /\ hasty' = (hasty \/ ~Quiet)
<1>1. /\ chat' \in Seq(Messages \cup {Echo}) /\ Len(chat') = Len(chat) + 1
      /\ \A k \in 1..Len(chat) : chat'[k] = chat[k]
      /\ chat'[Len(chat) + 1] = m
  <2>1. chat \in Seq(Messages \cup {Echo}) /\ m \in Messages \cup {Echo} /\ chat' = Append(chat, m)
    BY DEF BridgeTypes, UserSends, Join
  <2> QED
    BY <2>1, Appended
<1>2. /\ handled' \in Seq(Commands \cup {None}) /\ Len(handled') = Len(chat) + 1
      /\ \A k \in 1..Len(chat) : handled'[k] = handled[k]
      /\ handled'[Len(chat) + 1] = None
  <2>1. /\ handled \in Seq(Commands \cup {None}) /\ Len(handled) = Len(chat)
        /\ None \in Commands \cup {None} /\ handled' = Append(handled, None)
    BY DEF BridgeTypes, UserSends, Join
  <2> QED
    BY <2>1, Appended
<1>3. /\ run' \in Seq(States) /\ Len(run') = Len(chat) + 1
      /\ \A k \in 1..Len(chat) : run'[k] = run[k]
      /\ run'[Len(chat) + 1] = "agent"
  <2>1. /\ run \in Seq(States) /\ Len(run) = Len(chat)
        /\ "agent" \in States /\ run' = Append(run, "agent")
    BY DEF BridgeTypes, UserSends, States
  <2> QED
    BY <2>1, Appended
<1>4. hasty' = (hasty \/ ~Quiet) /\ hasty' \in BOOLEAN
  BY DEF UserSends
<1>5. \A k \in 1..Len(chat) : chat[k] /= m
  <2>1. m \notin ToSet(chat) /\ DOMAIN chat = 1..Len(chat)
    BY DEF BridgeTypes, UserSends
  <2> QED
    BY <2>1 DEF ToSet
<1> QED
  BY <1>1, <1>2, <1>3, <1>4, <1>5 DEF BridgeTypes, JoinFacts

LEMMA ReplyFacts ==
  ASSUME BridgeTypes, NEW i \in DOMAIN run, Reply(i)
  PROVE  /\ BridgeTypes' /\ JoinFacts(Echo)
         /\ run[i] = "running"
         /\ \A k \in 1..Len(chat) : run'[k] = IF k = i THEN "done" ELSE run[k]
         /\ hasty' = hasty
<1>1. /\ chat' \in Seq(Messages \cup {Echo}) /\ Len(chat') = Len(chat) + 1
      /\ \A k \in 1..Len(chat) : chat'[k] = chat[k]
      /\ chat'[Len(chat) + 1] = Echo
  <2>1. /\ chat \in Seq(Messages \cup {Echo}) /\ Echo \in Messages \cup {Echo}
        /\ chat' = Append(chat, Echo)
    BY DEF BridgeTypes, Reply, Join
  <2> QED
    BY <2>1, Appended
<1>2. /\ handled' \in Seq(Commands \cup {None}) /\ Len(handled') = Len(chat) + 1
      /\ \A k \in 1..Len(chat) : handled'[k] = handled[k]
      /\ handled'[Len(chat) + 1] = None
  <2>1. /\ handled \in Seq(Commands \cup {None}) /\ Len(handled) = Len(chat)
        /\ None \in Commands \cup {None} /\ handled' = Append(handled, None)
    BY DEF BridgeTypes, Reply, Join
  <2> QED
    BY <2>1, Appended
<1>3. /\ run' \in Seq(States) /\ Len(run') = Len(chat) + 1
      /\ \A k \in 1..Len(chat) : run'[k] = IF k = i THEN "done" ELSE run[k]
      /\ run'[Len(chat) + 1] = "agent"
  <2> DEFINE r == [run EXCEPT ![i] = "done"]
  <2>1. /\ run \in Seq(States) /\ Len(run) = Len(chat) /\ DOMAIN run = 1..Len(chat)
        /\ "agent" \in States /\ "done" \in States /\ run' = Append(r, "agent")
    BY DEF BridgeTypes, Reply, States, Ended
  <2>2. /\ r \in Seq(States) /\ Len(r) = Len(run)
        /\ \A k \in DOMAIN run : r[k] = IF k = i THEN "done" ELSE run[k]
    BY <2>1, Updated
  <2> HIDE DEF r
  <2>3. /\ run' \in Seq(States) /\ Len(run') = Len(r) + 1
        /\ \A k \in 1..Len(r) : run'[k] = r[k]
        /\ run'[Len(r) + 1] = "agent"
    BY <2>1, <2>2, Appended
  <2> QED
    BY <2>1, <2>2, <2>3
<1>4. hasty' = hasty /\ hasty' \in BOOLEAN /\ run[i] = "running"
  BY DEF Reply, BridgeTypes
<1> QED
  BY <1>1, <1>2, <1>3, <1>4 DEF BridgeTypes, JoinFacts

\* The steps of a task that send nothing.
Within(i) ==
  ChatFinal(i) \/ Skip(i) \/ Route(i) \/ HistoryFails(i) \/ PipelineRaises(i) \/ ReplyLost(i)

LEMMA WithinFacts ==
  ASSUME BridgeTypes, NEW i \in DOMAIN run, Within(i)
  PROVE  /\ BridgeTypes' /\ chat' = chat /\ hasty' = hasty
         /\ run[i] \notin Ended
         /\ \A k \in 1..Len(chat) : k /= i => run'[k] = run[k] /\ handled'[k] = handled[k]
         /\ \/ /\ handled'[i] = handled[i]
               /\ run[i] \in Unrouted <=> run'[i] \in Unrouted
               /\ run'[i] = "skipped" => chat[Len(chat)] \notin Commands
            \/ /\ run[i] = "asking" /\ run'[i] = "running"
               /\ chat[Len(chat)] \in Commands /\ handled'[i] = chat[Len(chat)]
<1>1. /\ run \in Seq(States) /\ Len(run) = Len(chat) /\ DOMAIN run = 1..Len(chat)
      /\ handled \in Seq(Commands \cup {None}) /\ Len(handled) = Len(chat)
      /\ DOMAIN handled = 1..Len(chat)
      /\ i \in DOMAIN handled
      /\ chat \in Seq(Messages \cup {Echo})
  BY DEF BridgeTypes
<1>2. LastMessage = chat[Len(chat)]
  BY <1>1 DEF LastMessage, Last
<1>3. /\ chat' = chat /\ hasty' = hasty /\ run[i] \notin Ended
  BY DEF Within, ChatFinal, Skip, Route, HistoryFails, PipelineRaises, ReplyLost, Step, Ended
<1>4. \A s \in States : Step(i, s) =>
        /\ run' \in Seq(States) /\ Len(run') = Len(chat) /\ run'[i] = s
        /\ \A k \in 1..Len(chat) : k /= i => run'[k] = run[k]
  <2> SUFFICES ASSUME NEW s \in States, run' = [run EXCEPT ![i] = s]
               PROVE  /\ run' \in Seq(States) /\ Len(run') = Len(chat) /\ run'[i] = s
                      /\ \A k \in 1..Len(chat) : k /= i => run'[k] = run[k]
    BY DEF Step
  <2> QED
    BY <1>1, Updated
<1>5. CASE Route(i)
  <2>1. /\ run[i] = "asking" /\ LastMessage \in Commands /\ Step(i, "running")
        /\ handled' = [handled EXCEPT ![i] = LastMessage]
    BY <1>5 DEF Route
  <2>2. "running" \in States /\ LastMessage \in Commands \cup {None}
    BY <2>1 DEF States
  <2>3. /\ handled' \in Seq(Commands \cup {None}) /\ Len(handled') = Len(chat)
        /\ handled'[i] = LastMessage
        /\ \A k \in 1..Len(chat) : k /= i => handled'[k] = handled[k]
    BY <1>1, <2>1, <2>2, Updated
  <2> QED
    BY <1>1, <1>2, <1>3, <1>4, <2>1, <2>2, <2>3 DEF BridgeTypes
<1>6. CASE ~Route(i)
  <2>1. handled' = handled
    BY <1>6 DEF Within, ChatFinal, Skip, HistoryFails, PipelineRaises, ReplyLost
  <2>2. \E s \in States : /\ Step(i, s)
                          /\ run[i] \in Unrouted <=> s \in Unrouted
                          /\ s = "skipped" => LastMessage \notin Commands
    <3>1. CASE ChatFinal(i)
      BY <3>1 DEF ChatFinal, States, Ended, Unrouted
    <3>2. CASE Skip(i)
      BY <3>2 DEF Skip, States, Ended, Unrouted
    <3>3. CASE HistoryFails(i)
      BY <3>3 DEF HistoryFails, States, Ended, Unrouted
    <3>4. CASE PipelineRaises(i)
      BY <3>4 DEF PipelineRaises, States, Ended, Unrouted
    <3>5. CASE ReplyLost(i)
      BY <3>5 DEF ReplyLost, States, Ended, Unrouted
    <3> QED
      BY <1>6, <3>1, <3>2, <3>3, <3>4, <3>5 DEF Within
  <2> QED
    BY <1>1, <1>2, <1>3, <1>4, <2>1, <2>2 DEF BridgeTypes
<1> QED
  BY <1>5, <1>6

LEMMA BridgeCases ==
  ASSUME BridgeNext
  PROVE  \/ \E m \in Messages : UserSends(m)
         \/ \E i \in DOMAIN run : Reply(i)
         \/ \E i \in DOMAIN run : Within(i)
  BY DEF BridgeNext, Bridge, Within

-----------------------------------------------------------------------------
(* The invariant.                                                            *)

LEMMA BridgeInitInv == BridgeInit => BridgeInv
<1> SUFFICES ASSUME BridgeInit PROVE BridgeInv
  OBVIOUS
<1>1. chat = <<>> /\ run = <<>> /\ handled = <<>> /\ hasty = FALSE /\ Len(chat) = 0
  BY DEF BridgeInit
<1>2. BridgeTypes
  <2>1. /\ chat \in Seq(Messages \cup {Echo}) /\ run \in Seq(States) /\ Len(run) = Len(chat)
        /\ handled \in Seq(Commands \cup {None}) /\ Len(handled) = Len(chat)
    BY <1>1
  <2> QED
    BY <1>1, <2>1 DEF BridgeTypes
<1>3. DOMAIN chat = {}
  BY <1>1
<1>4. WordsOnce /\ Routed /\ Patient
  BY <1>3 DEF WordsOnce, Routed, Patient
<1>5. Bounded
  <2>1. Open = {} /\ Words = {}
    BY <1>3 DEF Open, Words
  <2>2. Len(chat) \notin Words /\ Cardinality({}) = 0
    BY <2>1, FS_EmptySet
  <2> QED
    BY <2>1, <2>2 DEF Bounded
<1> QED
  BY <1>2, <1>4, <1>5 DEF BridgeInv

LEMMA Indices ==
  ASSUME BridgeTypes
  PROVE  /\ DOMAIN chat = 1..Len(chat) /\ DOMAIN run = 1..Len(chat)
         /\ DOMAIN handled = 1..Len(chat) /\ Len(chat) \in Nat
  BY DEF BridgeTypes

\* A set of indices is finite, and its size grows with it.
LEMMA Sizes ==
  ASSUME NEW n \in Nat, NEW S \in SUBSET (1..n)
  PROVE  /\ IsFiniteSet(S) /\ Cardinality(S) \in Nat
         /\ \A T \in SUBSET S : Cardinality(T) <= Cardinality(S)
         /\ \A x \in 1..n : /\ x \notin S => Cardinality(S \cup {x}) = Cardinality(S) + 1
                            /\ x \in S => Cardinality(S \ {x}) = Cardinality(S) - 1
<1>1. IsFiniteSet(1..n)
  BY FS_Interval
<1>2. IsFiniteSet(S)
  BY <1>1, FS_Subset
<1> QED
  BY <1>2, FS_Subset, FS_AddElement, FS_RemoveElement, FS_CardinalityType

LEMMA SendKeeps ==
  ASSUME BridgeInv, NEW m \in Messages, UserSends(m)
  PROVE  BridgeInv'
<1>1. /\ BridgeTypes /\ BridgeTypes' /\ JoinFacts(m)
      /\ \A k \in 1..Len(chat) : run'[k] = run[k] /\ chat[k] /= m
      /\ hasty' = (hasty \/ ~Quiet)
  BY SendFacts DEF BridgeInv
<1> PICK n \in Nat : n = Len(chat)
  BY <1>1, Indices
<1>2. /\ n \in Nat /\ n = Len(chat) /\ Len(chat') = n + 1 /\ DOMAIN chat = 1..n /\ DOMAIN run = 1..n
      /\ DOMAIN chat' = 1..n + 1 /\ DOMAIN handled' = 1..n + 1 /\ DOMAIN handled = 1..n
  BY <1>1 DEF BridgeTypes, JoinFacts
<1>3. /\ \A k \in 1..n : chat'[k] = chat[k] /\ handled'[k] = handled[k] /\ run'[k] = run[k]
      /\ chat'[n + 1] = m /\ handled'[n + 1] = None /\ run'[n + 1] = "agent"
  BY <1>1 DEF JoinFacts
<1>4. m /= Echo
  BY WordsAreNotNone
<1>5. \A k \in 1..n + 1 : k \in 1..n \/ k = n + 1
  BY <1>2
<1>6. WordsOnce'
  BY <1>1, <1>2, <1>3, <1>5 DEF WordsOnce, BridgeInv
<1>7. Routed'
  <2>1. "agent" \in Unrouted
    BY DEF Unrouted
  <2> SUFFICES ASSUME NEW k \in 1..n + 1
               PROVE  /\ handled'[k] = None <=> run'[k] \in Unrouted
                      /\ handled'[k] /= None =>
                           \E j \in 1..n + 1 : handled'[k] = chat'[j]
    BY <1>2 DEF Routed
  <2>2. CASE k = n + 1
    BY <2>1, <2>2, <1>3
  <2>3. CASE k \in 1..n
    <3>1. /\ handled[k] = None <=> run[k] \in Unrouted
          /\ handled[k] /= None => \E j \in 1..n : handled[k] = chat[j]
      BY <2>3, <1>2 DEF Routed, BridgeInv
    <3>2. \A j \in 1..n : j \in 1..n + 1
      BY <1>2
    <3> QED
      BY <2>3, <3>1, <3>2, <1>3
  <2> QED
    BY <1>5, <2>2, <2>3
<1>8. Patient'
  <2> SUFFICES ASSUME ~hasty', NEW k \in 1..n + 1
               PROVE  /\ run'[k] \notin Ended => k = n + 1
                      /\ handled'[k] \in {None, chat'[k]}
                      /\ run'[k] = "skipped" => chat'[k] \notin Commands
    BY <1>2 DEF Patient
  <2>1. ~hasty /\ \A j \in 1..n : run[j] \in Ended
    BY <1>1, <1>2 DEF Quiet
  <2>2. CASE k = n + 1
    BY <2>2, <1>3
  <2>3. CASE k \in 1..n
    BY <2>1, <2>3, <1>2, <1>3 DEF Patient, BridgeInv
  <2> QED
    BY <1>5, <2>2, <2>3
<1>9. Bounded'
  <2>1. /\ Open \in SUBSET (1..n) /\ Words \in SUBSET (1..n)
        /\ Open' = Open \cup {n + 1} /\ Words' = Words \cup {n + 1}
    <3>1. "agent" \notin Ended
      BY DEF Ended
    <3> QED
      BY <1>2, <1>3, <1>4, <1>5, <3>1 DEF Open, Words
  <2>2. Open \in SUBSET (1..n + 1) /\ Words \in SUBSET (1..n + 1)
        /\ n + 1 \notin Open /\ n + 1 \notin Words /\ n + 1 \in 1..n + 1 /\ n + 1 \in Nat
    BY <1>2, <2>1
  <2>3. /\ Cardinality(Open') = Cardinality(Open) + 1
        /\ Cardinality(Words') = Cardinality(Words) + 1
        /\ Cardinality(Open) \in Nat /\ Cardinality(Words) \in Nat
        /\ Cardinality(Words') \in Nat
    BY <2>1, <2>2, Sizes
  <2>4. Cardinality(Open) <= Cardinality(Words)
    BY DEF Bounded, BridgeInv
  <2>5. Runs(m)' = {}
    <3> SUFFICES ASSUME NEW k \in 1..n + 1, handled'[k] = m PROVE FALSE
      BY <1>2 DEF Runs
    <3>1. k \in 1..n /\ handled[k] = m /\ handled[k] /= None
      BY <1>3, <1>5, WordsAreNotNone
    <3> QED
      BY <3>1, <1>1, <1>2 DEF Routed, BridgeInv
  <2>6. \A p \in Words : Runs(chat[p])' = Runs(chat[p]) /\ UpTo(p)' = UpTo(p)
    <3> SUFFICES ASSUME NEW p \in Words
                 PROVE  Runs(chat[p])' = Runs(chat[p]) /\ UpTo(p)' = UpTo(p)
      OBVIOUS
    <3>1. p \in 1..n /\ chat'[p] = chat[p] /\ chat[p] \in Messages \cup {Echo} /\ chat[p] /= Echo
      BY <1>1, <1>2, <1>3 DEF Words, BridgeTypes
    <3>2. chat[p] /= None
      BY <3>1, WordsAreNotNone
    <3>3. {k \in 1..n + 1 : handled'[k] = chat[p]} = {k \in 1..n : handled[k] = chat[p]}
      BY <1>2, <1>3, <1>5, <3>2
    <3>4. \A k \in 1..p : k \in 1..n
      BY <3>1, <1>2
    <3> QED
      BY <3>1, <3>3, <3>4, <1>2, <1>3 DEF Runs, UpTo
  <2>7. UpTo(n + 1)' = Words'
    BY <1>2 DEF UpTo, Words
  <2>8. \A p \in Words' : Cardinality(Runs(chat[p])') <= Cardinality(UpTo(p)')
    <3> SUFFICES ASSUME NEW p \in Words'
                 PROVE  Cardinality(Runs(chat[p])') <= Cardinality(UpTo(p)')
      OBVIOUS
    <3>1. CASE p = n + 1
      <4>1. Runs(chat[p])' = {}
        BY <3>1, <2>5, <1>3 DEF Runs
      <4>2. Cardinality(Runs(chat[p])') = 0
        BY <4>1, FS_EmptySet
      <4>3. UpTo(p)' = Words'
        BY <3>1, <2>7
      <4> QED
        BY <4>2, <4>3, <2>3
    <3>2. CASE p \in Words
      BY <3>2, <2>6 DEF Bounded, BridgeInv
    <3> QED
      BY <2>1, <3>1, <3>2
  <2>9. Live' = Open'
    BY <2>5, <1>2, <1>3 DEF Live, Runs
  <2> QED
    BY <2>3, <2>4, <2>8, <2>9 DEF Bounded
<1> QED
  BY <1>1, <1>6, <1>7, <1>8, <1>9 DEF BridgeInv

LEMMA ReplyKeeps ==
  ASSUME BridgeInv, NEW i \in DOMAIN run, Reply(i)
  PROVE  BridgeInv'
<1>1. /\ BridgeTypes /\ BridgeTypes' /\ JoinFacts(Echo)
      /\ run[i] = "running"
      /\ \A k \in 1..Len(chat) : run'[k] = IF k = i THEN "done" ELSE run[k]
      /\ hasty' = hasty
  BY ReplyFacts DEF BridgeInv
<1> PICK n \in Nat : n = Len(chat)
  BY <1>1, Indices
<1>2. /\ n \in Nat /\ n = Len(chat) /\ Len(chat') = n + 1
      /\ DOMAIN chat = 1..n /\ DOMAIN run = 1..n /\ DOMAIN handled = 1..n
      /\ DOMAIN chat' = 1..n + 1 /\ DOMAIN handled' = 1..n + 1 /\ i \in 1..n
  BY <1>1 DEF BridgeTypes, JoinFacts
<1>3. /\ \A k \in 1..n : chat'[k] = chat[k] /\ handled'[k] = handled[k]
      /\ \A k \in 1..n : run'[k] = IF k = i THEN "done" ELSE run[k]
      /\ chat'[n + 1] = Echo /\ handled'[n + 1] = None /\ run'[n + 1] = "agent"
  BY <1>1, <1>2 DEF JoinFacts
<1>4. \A k \in 1..n + 1 : k \in 1..n \/ k = n + 1
  BY <1>2
<1>5. WordsOnce'
  BY <1>1, <1>2, <1>3, <1>4 DEF WordsOnce, BridgeInv
<1>6. Routed'
  <2>1. "agent" \in Unrouted /\ "running" \notin Unrouted /\ "done" \notin Unrouted
    BY DEF Unrouted
  <2> SUFFICES ASSUME NEW k \in 1..n + 1
               PROVE  /\ handled'[k] = None <=> run'[k] \in Unrouted
                      /\ handled'[k] /= None =>
                           \E j \in 1..n + 1 : handled'[k] = chat'[j]
    BY <1>2 DEF Routed
  <2>2. CASE k = n + 1
    BY <2>1, <2>2, <1>3
  <2>3. CASE k \in 1..n
    <3>1. /\ handled[k] = None <=> run[k] \in Unrouted
          /\ handled[k] /= None => \E j \in 1..n : handled[k] = chat[j]
      BY <2>3, <1>2 DEF Routed, BridgeInv
    <3>2. \A j \in 1..n : j \in 1..n + 1
      BY <1>2
    <3>3. run'[k] \in Unrouted <=> run[k] \in Unrouted
      BY <2>1, <2>3, <1>1, <1>3
    <3> QED
      BY <2>3, <3>1, <3>2, <3>3, <1>3
  <2> QED
    BY <1>4, <2>2, <2>3
<1>7. Patient'
  <2> SUFFICES ASSUME ~hasty', NEW k \in 1..n + 1
               PROVE  /\ run'[k] \notin Ended => k = n + 1
                      /\ handled'[k] \in {None, chat'[k]}
                      /\ run'[k] = "skipped" => chat'[k] \notin Commands
    BY <1>2 DEF Patient
  <2>1. /\ "running" \notin Ended /\ "done" \in Ended
    BY DEF Ended
  <2>2. /\ \A j \in 1..n : run[j] \notin Ended => j = n
        /\ \A j \in 1..n : /\ handled[j] \in {None, chat[j]}
                           /\ run[j] = "skipped" => chat[j] \notin Commands
    BY <1>1, <1>2 DEF Patient, BridgeInv
  <2>3. i = n
    BY <2>1, <2>2, <1>1, <1>2
  <2>4. CASE k = n + 1
    BY <2>4, <1>3
  <2>5. CASE k \in 1..n
    <3>1. run'[k] \in Ended
      BY <2>1, <2>2, <2>3, <2>5, <1>3
    <3> QED
      BY <3>1, <2>2, <2>5, <1>3
  <2> QED
    BY <1>4, <2>4, <2>5
<1>8. Bounded'
  <2>1. /\ Open \in SUBSET (1..n) /\ Words \in SUBSET (1..n) /\ i \in Open
        /\ Open' = (Open \ {i}) \cup {n + 1} /\ Words' = Words
    <3>1. "agent" \notin Ended /\ "running" \notin Ended /\ "done" \in Ended
      BY DEF Ended
    <3> QED
      BY <1>1, <1>2, <1>3, <1>4, <3>1 DEF Open, Words
  <2>2. /\ Open \ {i} \in SUBSET (1..n + 1)
        /\ n + 1 \notin Open \ {i} /\ n + 1 \in 1..n + 1 /\ n + 1 \in Nat
    <3>1. /\ n + 1 \notin 1..n /\ n + 1 \in 1..n + 1 /\ n + 1 \in Nat
          /\ 1..n \subseteq 1..n + 1
      BY <1>2
    <3>2. Open \ {i} \subseteq 1..n
      BY <2>1
    <3> QED
      BY <3>1, <3>2
  <2>3. /\ Cardinality(Open \ {i}) = Cardinality(Open) - 1 /\ Cardinality(Open) \in Nat
    BY <2>1, <1>2, Sizes
  <2>4. Cardinality(Open') = Cardinality(Open \ {i}) + 1
    BY <2>1, <2>2, Sizes
  <2>5. Cardinality(Open') <= Cardinality(Words')
    <3>1. Cardinality(Open') = Cardinality(Open)
      BY <2>3, <2>4
    <3> QED
      BY <3>1, <2>1 DEF Bounded, BridgeInv
  <2>6. \A p \in Words : Runs(chat[p])' = Runs(chat[p]) /\ UpTo(p)' = UpTo(p)
    <3> SUFFICES ASSUME NEW p \in Words
                 PROVE  Runs(chat[p])' = Runs(chat[p]) /\ UpTo(p)' = UpTo(p)
      OBVIOUS
    <3>1. p \in 1..n /\ chat'[p] = chat[p] /\ chat[p] \in Messages \cup {Echo} /\ chat[p] /= Echo
      BY <1>1, <1>2, <1>3 DEF Words, BridgeTypes
    <3>2. chat[p] /= None
      BY <3>1, WordsAreNotNone
    <3>3. {k \in 1..n + 1 : handled'[k] = chat[p]} = {k \in 1..n : handled[k] = chat[p]}
      BY <1>2, <1>3, <1>4, <3>2
    <3>4. \A k \in 1..p : k \in 1..n
      BY <3>1, <1>2
    <3> QED
      BY <3>1, <3>3, <3>4, <1>2, <1>3 DEF Runs, UpTo
  <2>7. \A p \in Words' : Cardinality(Runs(chat[p])') <= Cardinality(UpTo(p)')
    BY <2>1, <2>6 DEF Bounded, BridgeInv
  <2>8. Len(chat') \notin Words'
    BY <2>1, <1>2
  <2> QED
    BY <2>5, <2>7, <2>8 DEF Bounded
<1> QED
  BY <1>1, <1>5, <1>6, <1>7, <1>8 DEF BridgeInv

LEMMA WithinKeeps ==
  ASSUME BridgeInv, NEW i \in DOMAIN run, Within(i)
  PROVE  BridgeInv'
<1>1. /\ BridgeTypes /\ BridgeTypes' /\ chat' = chat /\ hasty' = hasty
      /\ run[i] \notin Ended
      /\ \A k \in 1..Len(chat) : k /= i => run'[k] = run[k] /\ handled'[k] = handled[k]
  BY WithinFacts DEF BridgeInv
<1> PICK n \in Nat : n = Len(chat)
  BY <1>1, Indices
<1>2. /\ n \in Nat /\ n = Len(chat) /\ i \in 1..n
      /\ DOMAIN chat = 1..n /\ DOMAIN handled = 1..n /\ DOMAIN handled' = 1..n
  BY <1>1 DEF BridgeTypes
<1>3. \A k \in 1..n : k /= i => run'[k] = run[k] /\ handled'[k] = handled[k]
  BY <1>1, <1>2
<1>4. \/ /\ handled'[i] = handled[i]
         /\ run[i] \in Unrouted <=> run'[i] \in Unrouted
         /\ run'[i] = "skipped" => chat[n] \notin Commands
      \/ /\ run[i] = "asking" /\ run'[i] = "running"
         /\ chat[n] \in Commands /\ handled'[i] = chat[n]
  BY <1>1, <1>2, WithinFacts
<1>5. "asking" \in Unrouted /\ "running" \notin Unrouted /\ "asking" \notin Ended
      /\ "running" \notin Ended
  BY DEF Unrouted, Ended
<1>6. WordsOnce'
  BY <1>1 DEF WordsOnce, BridgeInv
<1>7. Routed'
  <2>1. \A k \in 1..n : /\ handled[k] = None <=> run[k] \in Unrouted
                        /\ handled[k] /= None => \E j \in 1..n : handled[k] = chat[j]
    BY <1>2 DEF Routed, BridgeInv
  <2> SUFFICES ASSUME NEW k \in 1..n
               PROVE  /\ handled'[k] = None <=> run'[k] \in Unrouted
                      /\ handled'[k] /= None => \E j \in 1..n : handled'[k] = chat[j]
    BY <1>1, <1>2 DEF Routed
  <2>2. CASE k /= i
    BY <2>1, <2>2, <1>3
  <2>3. CASE k = i
    <3>1. n \in 1..n /\ None \notin Commands
      BY <1>2, WordsAreNotNone
    <3> QED
      BY <2>1, <2>3, <3>1, <1>4, <1>5
  <2> QED
    BY <2>2, <2>3
<1>8. Patient'
  <2> SUFFICES ASSUME ~hasty, NEW k \in 1..n
               PROVE  /\ run'[k] \notin Ended => k = n
                      /\ handled'[k] \in {None, chat[k]}
                      /\ run'[k] = "skipped" => chat[k] \notin Commands
    BY <1>1, <1>2 DEF Patient
  <2>1. \A j \in 1..n : /\ run[j] \notin Ended => j = n
                        /\ handled[j] \in {None, chat[j]}
                        /\ run[j] = "skipped" => chat[j] \notin Commands
    BY <1>2 DEF Patient, BridgeInv
  <2>2. i = n
    BY <2>1, <1>1, <1>2
  <2> QED
    BY <2>1, <2>2, <1>3, <1>4
<1>9. Bounded'
  <2>1. /\ Words' = Words /\ (\A p : UpTo(p)' = UpTo(p))
        /\ Open \in SUBSET (1..n) /\ Words \in SUBSET (1..n)
        /\ Open' \subseteq Open /\ i \in Open
    <3>1. Words' = Words /\ \A p : UpTo(p)' = UpTo(p)
      BY <1>1 DEF Words, UpTo
    <3>2. Open \in SUBSET (1..n) /\ Words \in SUBSET (1..n) /\ i \in Open
      BY <1>1, <1>2 DEF Words, Open
    <3>3. Open' \subseteq Open
      BY <1>1, <1>2, <1>3 DEF Open
    <3> QED
      BY <3>1, <3>2, <3>3
  <2>2. \A p \in 1..n : p \in Words /\ p /= n => Runs(chat[p])' = Runs(chat[p])
    <3> SUFFICES ASSUME NEW p \in 1..n, p \in Words, p /= n
                 PROVE  Runs(chat[p])' = Runs(chat[p])
      OBVIOUS
    <3>1. chat[p] /= Echo /\ n \in 1..n
      BY <1>2 DEF Words
    <3>2. chat[n] /= chat[p]
      BY <3>1, <1>2 DEF WordsOnce, BridgeInv
    <3>3. chat[p] /= None
      BY <1>1, <1>2, <3>1, WordsAreNotNone DEF BridgeTypes
    <3>4. handled[i] = None \/ handled'[i] = handled[i]
      BY <1>2, <1>4, <1>5 DEF Routed, BridgeInv
    <3>5. \A k \in 1..n : handled'[k] = chat[p] <=> handled[k] = chat[p]
      BY <1>3, <1>4, <3>2, <3>3, <3>4
    <3> QED
      BY <3>5, <1>1, <1>2 DEF Runs
  <2>3. Live \in SUBSET (1..n) /\ Live' \subseteq Live
    <3>1. Runs(chat[n]) \subseteq 1..n
      BY <1>2 DEF Runs
    <3>2. Runs(chat[n])' \subseteq Runs(chat[n]) \cup {i}
      BY <1>1, <1>2, <1>3 DEF Runs
    <3>3. Live = Open \cup Runs(chat[n])
      BY <1>2 DEF Live
    <3>4. Live' = Open' \cup Runs(chat[n])'
      BY <1>1, <1>2 DEF Live
    <3> QED
      BY <2>1, <3>1, <3>2, <3>3, <3>4
  <2>4. /\ Cardinality(Open') <= Cardinality(Open) /\ Cardinality(Live') <= Cardinality(Live)
        /\ Cardinality(Open) \in Nat /\ Cardinality(Live) \in Nat
        /\ Cardinality(Words) \in Nat
    BY <1>2, <2>1, <2>3, Sizes
  <2>5. Open' \in SUBSET (1..n) /\ Live' \in SUBSET (1..n)
    BY <2>1, <2>3
  <2>6. Cardinality(Open') \in Nat /\ Cardinality(Live') \in Nat
    BY <1>2, <2>5, Sizes
  <2>7. Cardinality(Open') <= Cardinality(Words')
    <3>1. Cardinality(Open) <= Cardinality(Words)
      BY DEF Bounded, BridgeInv
    <3> QED
      BY <3>1, <2>1, <2>4, <2>6
  <2>8. n \in Words => Cardinality(Live') <= Cardinality(Words')
    <3>1. n \in Words => Cardinality(Live) <= Cardinality(Words)
      BY <1>2 DEF Bounded, BridgeInv
    <3> QED
      BY <3>1, <2>1, <2>4, <2>6
  <2>9. \A p \in Words' : Cardinality(Runs(chat[p])') <= Cardinality(UpTo(p)')
    <3> SUFFICES ASSUME NEW p \in Words
                 PROVE  Cardinality(Runs(chat[p])') <= Cardinality(UpTo(p)')
      BY <2>1
    <3>1. p \in 1..n
      BY <2>1
    <3>2. CASE p /= n
      BY <2>1, <2>2, <3>1, <3>2 DEF Bounded, BridgeInv
    <3>3. CASE p = n
      <4>1. Runs(chat[p])' \in SUBSET Live'
        BY <3>3, <1>1, <1>2 DEF Live
      <4>2. Cardinality(Runs(chat[p])') <= Cardinality(Live')
        BY <4>1, <1>2, <2>5, Sizes
      <4>3. Runs(chat[p])' \in SUBSET (1..n)
        BY <4>1, <2>5
      <4>4. Cardinality(Runs(chat[p])') \in Nat
        BY <4>3, <1>2, Sizes
      <4>5. UpTo(p)' = Words'
        BY <3>3, <2>1, <1>2 DEF UpTo, Words
      <4>6. Cardinality(Live') <= Cardinality(UpTo(p)') /\ Cardinality(UpTo(p)') \in Nat
        BY <4>5, <2>1, <2>4, <2>8, <3>3
      <4> QED
        BY <4>2, <4>4, <4>6, <2>6
    <3> QED
      BY <3>2, <3>3
  <2> QED
    BY <2>1, <2>7, <2>8, <2>9, <1>1, <1>2 DEF Bounded
<1> QED
  BY <1>1, <1>6, <1>7, <1>8, <1>9 DEF BridgeInv

LEMMA BridgeStays == BridgeInv /\ UNCHANGED bridgeVars => BridgeInv'
<1> SUFFICES ASSUME BridgeInv, UNCHANGED bridgeVars PROVE BridgeInv'
  OBVIOUS
<1>1. chat' = chat /\ run' = run /\ handled' = handled /\ hasty' = hasty
  BY DEF bridgeVars
<1>2. BridgeTypes' /\ WordsOnce' /\ Routed' /\ Patient'
  BY <1>1 DEF BridgeInv, BridgeTypes, WordsOnce, Routed, Patient
<1>3. /\ Open' = Open /\ Words' = Words /\ Live' = Live
      /\ \A p : UpTo(p)' = UpTo(p) /\ Runs(chat[p])' = Runs(chat[p])
  BY <1>1 DEF Open, Words, Live, UpTo, Runs
<1>4. Bounded'
  BY <1>1, <1>3 DEF BridgeInv, Bounded
<1> QED
  BY <1>2, <1>4 DEF BridgeInv

LEMMA BridgeInvariance == BridgeSpec => []BridgeInv
<1>1. BridgeInv /\ [BridgeNext]_bridgeVars => BridgeInv'
  BY BridgeCases, SendKeeps, ReplyKeeps, WithinKeeps, BridgeStays
<1> QED
  BY BridgeInitInv, <1>1, PTL DEF BridgeSpec

-----------------------------------------------------------------------------
(* A user who waits for the answers has every command run for its own event, *)
(* once, and once the chat is quiet it was run unless the event was missed   *)
(* or the history not answered: for any messages and any number of them.     *)
THEOREM PatientAreServed == BridgeSpec => []OnceForThePatient
<1>1. BridgeInv => OnceForThePatient
  <2> SUFFICES ASSUME BridgeInv, ~hasty
               PROVE  /\ \A i \in DOMAIN handled : handled[i] \in {None, chat[i]}
                      /\ \A m \in Commands : Cardinality(Runs(m)) <= 1
                      /\ Quiet => \A i \in DOMAIN chat :
                           chat[i] \in Commands =>
                             handled[i] /= None \/ run[i] \in {"missed", "dropped"}
    BY DEF OnceForThePatient
  <2>1. /\ DOMAIN chat = 1..Len(chat) /\ DOMAIN run = 1..Len(chat)
        /\ DOMAIN handled = 1..Len(chat) /\ Len(chat) \in Nat
    BY Indices DEF BridgeInv
  <2>2. \A i \in 1..Len(chat) : handled[i] \in {None, chat[i]}
    BY <2>1 DEF Patient, BridgeInv
  <2>3. \A m \in Commands : Cardinality(Runs(m)) <= 1
    <3> SUFFICES ASSUME NEW m \in Commands PROVE Cardinality(Runs(m)) <= 1
      OBVIOUS
    <3>1. \A i \in Runs(m) : i \in 1..Len(chat) /\ chat[i] = m /\ m /= Echo
      BY <2>1, <2>2, WordsAreNotNone DEF Runs
    <3>2. \A i, j \in Runs(m) : i = j
      BY <3>1, <2>1 DEF WordsOnce, BridgeInv
    <3>3. CASE Runs(m) = {}
      <4>1. Cardinality(Runs(m)) = 0
        BY <3>3, FS_EmptySet
      <4> QED
        BY <4>1
    <3>4. CASE Runs(m) /= {}
      <4>1. PICK i : i \in Runs(m)
        BY <3>4
      <4>2. Runs(m) = {i}
        BY <4>1, <3>2
      <4>3. Cardinality(Runs(m)) = 1
        BY <4>2, FS_Singleton
      <4> QED
        BY <4>3
    <3> QED
      BY <3>3, <3>4
  <2>4. ASSUME Quiet, NEW i \in DOMAIN chat, chat[i] \in Commands
        PROVE  handled[i] /= None \/ run[i] \in {"missed", "dropped"}
    <3>1. run[i] \in Ended /\ run[i] /= "skipped"
      BY <2>1, <2>4 DEF Quiet, Patient, BridgeInv
    <3>2. handled[i] = None <=> run[i] \in Unrouted
      BY <2>4 DEF Routed, BridgeInv
    <3> QED
      BY <3>1, <3>2 DEF Ended, Unrouted
  <2> QED
    BY <2>1, <2>2, <2>3, <2>4
<1> QED
  BY BridgeInvariance, <1>1, PTL

\* Where a message of a user stands in the chat.
LEMMA PlaceOf ==
  ASSUME BridgeInv, NEW p \in Words
  PROVE  Place(chat[p]) = Cardinality(UpTo(p))
<1> DEFINE I == {j \in 1..Len(chat) : chat[j] = chat[p]}
<1>1. p \in 1..Len(chat) /\ p \in Nat
  BY Indices DEF Words, BridgeInv
<1>2. I = {p}
  BY <1>1, Indices DEF Words, WordsOnce, BridgeInv
<1>3. Max({p}) = p
  BY <1>1 DEF Max
<1>4. SelectLastInSeq(chat, LAMBDA x : x = chat[p]) = IF I # {} THEN Max(I) ELSE 0
  BY DEF SelectLastInSeq
<1>5. SelectLastInSeq(chat, LAMBDA x : x = chat[p]) = p
  BY <1>2, <1>3, <1>4
<1> QED
  BY <1>5 DEF Place, UpTo

(* However fast the messages come, nothing but commands is run, and the k-th *)
(* message of a user k times at most: the replies of the bridge cannot feed  *)
(* it.                                                                       *)
THEOREM RepliesCannotFeed == BridgeSpec => []RunsBounded
<1>1. BridgeInv => RunsBounded
  <2> SUFFICES ASSUME BridgeInv PROVE RunsBounded
    OBVIOUS
  <2>1. ToSet(handled) \subseteq Commands \cup {None}
    BY DEF ToSet, BridgeTypes, BridgeInv
  <2>2. ASSUME NEW m \in Commands, m \in ToSet(chat)
        PROVE  Cardinality(Runs(m)) <= Place(m)
    <3>1. PICK p \in DOMAIN chat : chat[p] = m
      BY <2>2 DEF ToSet
    <3>2. p \in Words
      BY <3>1, WordsAreNotNone DEF Words
    <3> QED
      BY <3>1, <3>2, PlaceOf DEF Bounded, BridgeInv
  <2> QED
    BY <2>1, <2>2 DEF RunsBounded
<1> QED
  BY BridgeInvariance, <1>1, PTL

-----------------------------------------------------------------------------
(* The slots of CronScheduler: semaphores and who is in them.              *)

Sems == [holders : SUBSET Callers, waiters : Seq(Callers)]
MembersOf(s) == s.holders \cup Range(s.waiters)

\* A semaphore: nobody is in it twice, and it is never held too often.
GoodSem(s) ==
  /\ s \in Sems
  /\ IsInjective(s.waiters)
  /\ s.holders \cap Range(s.waiters) = {}
  /\ Cardinality(s.holders) <= MaxConcurrent

SemsInv ==
  /\ sems \in Seq(Sems) /\ agent \in 0 .. Len(sems)
  /\ \A g \in 1 .. Len(sems) : GoodSem(sems[g])

\* Who holds a slot or stands in a queue.
Placed == UNION {MembersOf(sems[g]) : g \in 1 .. Len(sems)}

LEMMA PlacedIs ==
  ASSUME SemsInv
  PROVE  /\ Placed \subseteq Callers
         /\ \A p : p \in Placed <=> Holds(p) \/ Queues(p)
<1>1. DOMAIN sems = 1 .. Len(sems)
  BY DEF SemsInv
<1>2. \A s \in Sems : ToSet(s.waiters) = Range(s.waiters)
  BY DEF ToSet, Range
<1>3. \A g \in 1 .. Len(sems) : sems[g] \in Sems
  BY DEF SemsInv
<1>4. \A g \in 1 .. Len(sems) : ToSet(sems[g].waiters) = Range(sems[g].waiters)
  BY <1>2, <1>3
<1>5. \A s \in Sems : MembersOf(s) \subseteq Callers
  BY DEF Sems, MembersOf, Range
<1> QED
  BY <1>1, <1>3, <1>4, <1>5 DEF Placed, Holds, Queues, MembersOf

LEMMA SemQueue ==
  ASSUME NEW s, GoodSem(s)
  PROVE  /\ IsQueue(s.waiters, Range(s.waiters))
         /\ IsFiniteSet(s.holders) /\ Cardinality(s.holders) \in Nat
         /\ s = [holders |-> s.holders, waiters |-> s.waiters]
<1>1. s.holders \subseteq Callers /\ s.waiters \in Seq(Callers)
      /\ s = [holders |-> s.holders, waiters |-> s.waiters]
  BY DEF GoodSem, Sems
<1>2. IsFiniteSet(s.holders) /\ Cardinality(s.holders) \in Nat
  BY <1>1, FS_Subset, FS_CardinalityType, SchedulerAssumption
<1> QED
  BY <1>1, <1>2, Retype DEF GoodSem, IsQueue

LEMMA SemUpdates ==
  ASSUME NEW s, GoodSem(s), NEW v
  PROVE  /\ [s EXCEPT !.holders = v] = [holders |-> v, waiters |-> s.waiters]
         /\ [s EXCEPT !.waiters = v] = [holders |-> s.holders, waiters |-> v]
<1>1. s \in [holders : SUBSET Callers, waiters : Seq(Callers)]
  BY DEF GoodSem, Sems
<1> QED
  BY <1>1

LEMMA GoodSemIs ==
  ASSUME NEW H, NEW w, NEW W, IsQueue(w, W), H \cap W = {},
         H \subseteq Callers, W \subseteq Callers, Cardinality(H) <= MaxConcurrent
  PROVE  /\ GoodSem([holders |-> H, waiters |-> w])
         /\ MembersOf([holders |-> H, waiters |-> w]) = H \cup W
<1>1. w \in Seq(Callers) /\ IsInjective(w) /\ Range(w) = W
  BY Retype DEF IsQueue
<1> QED
  BY <1>1 DEF GoodSem, Sems, MembersOf

\* Who leaves is out, whoever else was in it stays, and the slot that is given
\* back is not given twice.
LEMMA LeftOne ==
  ASSUME NEW s, GoodSem(s), NEW p \in Callers
  PROVE  GoodSem(Left(s, p)) /\ MembersOf(Left(s, p)) = MembersOf(s) \ {p}
<1> DEFINE H == s.holders  w == s.waiters  W == Range(s.waiters)
<1>1. /\ IsQueue(w, W) /\ IsFiniteSet(H) /\ Cardinality(H) \in Nat
      /\ s = [holders |-> H, waiters |-> w]
  BY SemQueue
<1>2. /\ H \subseteq Callers /\ W \subseteq Callers /\ H \cap W = {}
      /\ Cardinality(H) <= MaxConcurrent /\ MembersOf(s) = H \cup W
  BY DEF GoodSem, Sems, MembersOf, Range
<1>3. MaxConcurrent \in Nat
  BY SchedulerAssumption
<1>4. Left(s, p) =
        IF p \notin H THEN [holders |-> H, waiters |-> RemoveFirst(w, p)]
        ELSE IF w = <<>> THEN [holders |-> H \ {p}, waiters |-> w]
        ELSE [holders |-> (H \ {p}) \cup {Head(w)}, waiters |-> Tail(w)]
  <2>1. /\ [s EXCEPT !.waiters = RemoveFirst(@, p)]
             = [holders |-> H, waiters |-> RemoveFirst(w, p)]
        /\ [s EXCEPT !.holders = @ \ {p}] = [holders |-> H \ {p}, waiters |-> w]
    BY SemUpdates
  <2> QED
    BY <2>1 DEF Left
<1>5. w # <<>> => Head(w) \in W
  BY <1>1 DEF IsQueue, Range
<1> HIDE DEF H, w, W
<1>6. CASE p \notin H
  <2>1. IsQueue(RemoveFirst(w, p), W \ {p})
    BY <1>1, QueueRemove
  <2>2. /\ GoodSem([holders |-> H, waiters |-> RemoveFirst(w, p)])
        /\ MembersOf([holders |-> H, waiters |-> RemoveFirst(w, p)]) = H \cup (W \ {p})
    BY <2>1, <1>2, GoodSemIs
  <2> QED
    BY <2>2, <1>2, <1>4, <1>6
<1>7. CASE p \in H /\ w = <<>>
  <2>1. Cardinality(H \ {p}) = Cardinality(H) - 1
    BY <1>1, <1>7, FS_RemoveElement
  <2>2. /\ GoodSem([holders |-> H \ {p}, waiters |-> w])
        /\ MembersOf([holders |-> H \ {p}, waiters |-> w]) = (H \ {p}) \cup W
    <3>1. Cardinality(H \ {p}) <= MaxConcurrent
      BY <2>1, <1>1, <1>2, <1>3
    <3>2. (H \ {p}) \cap W = {} /\ H \ {p} \subseteq Callers
      BY <1>2
    <3> QED
      BY <3>1, <3>2, <1>1, <1>2, GoodSemIs
  <2> QED
    BY <2>2, <1>2, <1>4, <1>7
<1>8. CASE p \in H /\ w # <<>>
  <2> DEFINE h == Head(w)
  <2>1. h \in W /\ IsQueue(Tail(w), W \ {h})
    BY <1>1, <1>5, <1>8, QueueTail
  <2> HIDE DEF h
  <2>2. IsFiniteSet(H \ {p}) /\ Cardinality(H \ {p}) = Cardinality(H) - 1
    BY <1>1, <1>8, FS_RemoveElement
  <2>3. Cardinality((H \ {p}) \cup {h}) = Cardinality(H \ {p}) + 1
    BY <2>1, <2>2, <1>2, FS_AddElement
  <2>4. Cardinality((H \ {p}) \cup {h}) <= MaxConcurrent
    BY <2>2, <2>3, <1>1, <1>2, <1>3
  <2>5. /\ ((H \ {p}) \cup {h}) \cap (W \ {h}) = {}
        /\ (H \ {p}) \cup {h} \subseteq Callers /\ W \ {h} \subseteq Callers
    BY <2>1, <1>2
  <2>6. /\ GoodSem([holders |-> (H \ {p}) \cup {h}, waiters |-> Tail(w)])
        /\ MembersOf([holders |-> (H \ {p}) \cup {h}, waiters |-> Tail(w)])
             = ((H \ {p}) \cup {h}) \cup (W \ {h})
    BY <2>1, <2>4, <2>5, GoodSemIs
  <2>7. ((H \ {p}) \cup {h}) \cup (W \ {h}) = (H \cup W) \ {p}
    BY <2>1, <1>2, <1>8
  <2> QED
    BY <2>6, <2>7, <1>2, <1>4, <1>8 DEF h
<1> QED
  BY <1>6, <1>7, <1>8

LEMMA LeavePlaces ==
  ASSUME SemsInv, NEW p \in Callers, Leave(p)
  PROVE  SemsInv' /\ Placed' = Placed \ {p}
<1>1. /\ sems' = [g \in 1 .. Len(sems) |-> Left(sems[g], p)] /\ Len(sems) \in Nat
      /\ agent' = agent
  BY DEF Leave, SemsInv
<1>2. \A g \in 1 .. Len(sems) :
        /\ GoodSem(Left(sems[g], p)) /\ Left(sems[g], p) \in Sems
        /\ MembersOf(Left(sems[g], p)) = MembersOf(sems[g]) \ {p}
  BY LeftOne DEF SemsInv, GoodSem
<1>3. sems' \in Seq(Sems) /\ Len(sems') = Len(sems)
  BY <1>1, <1>2
<1>4. \A g \in 1 .. Len(sems) :
        GoodSem(sems'[g]) /\ MembersOf(sems'[g]) = MembersOf(sems[g]) \ {p}
  BY <1>1, <1>2
<1>5. SemsInv'
  BY <1>1, <1>3, <1>4 DEF SemsInv, GoodSem
<1>6. \A x : x \in Placed' <=> \E g \in 1 .. Len(sems) : x \in MembersOf(sems'[g])
  BY <1>3 DEF Placed, MembersOf
<1>7. \A x : x \in Placed <=> \E g \in 1 .. Len(sems) : x \in MembersOf(sems[g])
  BY DEF Placed
<1>8. \A x : x \in Placed' <=> x \in Placed /\ x # p
  BY <1>4, <1>6, <1>7
<1> QED
  BY <1>5, <1>8

\* Who acquires comes in once: as a holder when a slot is free, else last.
LEMMA AcquirePlaces ==
  ASSUME SemsInv, NEW p \in Callers, p \notin Placed, Acquire(p)
  PROVE  SemsInv' /\ Placed' = Placed \cup {p}
<1>1. /\ Len(sems) \in Nat /\ agent \in 1 .. Len(sems) /\ agent' = agent
      /\ \A g \in 1 .. Len(sems) : GoodSem(sems[g]) /\ sems[g] \in Sems
  BY DEF Acquire, SemsInv, GoodSem
<1> DEFINE s == sems[agent]  H == s.holders  w == s.waiters  W == Range(s.waiters)
<1> DEFINE t == IF Cardinality(H) < MaxConcurrent /\ w = <<>>
                THEN [holders |-> H \cup {p}, waiters |-> w]
                ELSE [holders |-> H, waiters |-> Append(w, p)]
<1>2. /\ IsQueue(w, W) /\ IsFiniteSet(H) /\ Cardinality(H) \in Nat
      /\ s = [holders |-> H, waiters |-> w]
  BY <1>1, SemQueue
<1>3. /\ H \subseteq Callers /\ W \subseteq Callers /\ H \cap W = {}
      /\ Cardinality(H) <= MaxConcurrent /\ MembersOf(s) = H \cup W
  BY <1>1 DEF GoodSem, Sems, MembersOf, Range
<1>4. sems' = [sems EXCEPT ![agent] = t]
  <2>1. /\ [s EXCEPT !.holders = @ \cup {p}] = [holders |-> H \cup {p}, waiters |-> w]
        /\ [s EXCEPT !.waiters = Append(@, p)] = [holders |-> H, waiters |-> Append(w, p)]
    BY <1>1, SemUpdates
  <2> QED
    BY <2>1 DEF Acquire
<1>5. p \notin H \cup W
  BY <1>1 DEF Placed, MembersOf
<1>6. GoodSem(t) /\ MembersOf(t) = MembersOf(s) \cup {p}
  <2> HIDE DEF s, H, w, W
  <2>1. CASE Cardinality(H) < MaxConcurrent /\ w = <<>>
    <3>1. Cardinality(H \cup {p}) = Cardinality(H) + 1
      BY <1>2, <1>5, FS_AddElement
    <3>2. Cardinality(H \cup {p}) <= MaxConcurrent
      BY <3>1, <2>1, <1>2, SchedulerAssumption
    <3>3. (H \cup {p}) \cap W = {} /\ H \cup {p} \subseteq Callers
      BY <1>3, <1>5
    <3>4. /\ GoodSem([holders |-> H \cup {p}, waiters |-> w])
          /\ MembersOf([holders |-> H \cup {p}, waiters |-> w]) = (H \cup {p}) \cup W
      BY <3>2, <3>3, <1>2, <1>3, GoodSemIs
    <3>5. t = [holders |-> H \cup {p}, waiters |-> w]
      BY <2>1
    <3> HIDE DEF t
    <3> QED
      BY <3>4, <3>5, <1>3
  <2>2. CASE ~(Cardinality(H) < MaxConcurrent /\ w = <<>>)
    <3>1. IsQueue(Append(w, p), W \cup {p})
      BY <1>2, <1>5, QueueAppend
    <3>2. H \cap (W \cup {p}) = {} /\ W \cup {p} \subseteq Callers
      BY <1>3, <1>5
    <3>3. /\ GoodSem([holders |-> H, waiters |-> Append(w, p)])
          /\ MembersOf([holders |-> H, waiters |-> Append(w, p)]) = H \cup (W \cup {p})
      BY <3>1, <3>2, <1>3, GoodSemIs
    <3>4. t = [holders |-> H, waiters |-> Append(w, p)]
      BY <2>2
    <3> HIDE DEF t
    <3> QED
      BY <3>3, <3>4, <1>3
  <2> QED
    BY <2>1, <2>2
<1> HIDE DEF t
<1>7. sems' \in Seq(Sems) /\ Len(sems') = Len(sems)
  BY <1>1, <1>4, <1>6 DEF SemsInv, GoodSem
<1>8. \A g \in 1 .. Len(sems) : sems'[g] = IF g = agent THEN t ELSE sems[g]
  BY <1>1, <1>4 DEF SemsInv
<1>9. SemsInv'
  <2>1. \A g \in 1 .. Len(sems) : GoodSem(sems'[g])
    BY <1>1, <1>6, <1>8
  <2> QED
    BY <2>1, <1>1, <1>7 DEF SemsInv, GoodSem
<1>10. \A x : x \in Placed' <=> \E g \in 1 .. Len(sems) : x \in MembersOf(sems'[g])
  BY <1>7 DEF Placed, MembersOf
<1>11. \A x : x \in Placed <=> \E g \in 1 .. Len(sems) : x \in MembersOf(sems[g])
  BY DEF Placed
<1>12. \A x : x \in Placed' <=> x \in Placed \/ x = p
  BY <1>1, <1>6, <1>8, <1>10, <1>11
<1> QED
  BY <1>9, <1>12

\* A new registration starts with an empty semaphore; the old ones stay.
LEMMA RegistrationPlaces ==
  ASSUME SemsInv, Register \/ Unregister
  PROVE  SemsInv' /\ Placed' = Placed
<1>1. Len(sems) \in Nat /\ sems \in Seq(Sems) /\ agent \in 0 .. Len(sems)
  BY DEF SemsInv
<1>2. GoodSem(FreshSem) /\ FreshSem \in Sems /\ MembersOf(FreshSem) = {}
  <2>1. Cardinality({}) = 0 /\ MaxConcurrent \in Nat
    BY FS_EmptySet, SchedulerAssumption
  <2> QED
    BY <2>1 DEF FreshSem, GoodSem, Sems, MembersOf, Range, IsInjective
<1>3. CASE Register
  <2>1. /\ sems' \in Seq(Sems) /\ Len(sems') = Len(sems) + 1 /\ agent' = Len(sems')
        /\ \A g \in 1 .. Len(sems) : sems'[g] = sems[g]
        /\ sems'[Len(sems) + 1] = FreshSem
    BY <1>1, <1>2, <1>3 DEF Register
  <2>2. \A g \in 1 .. Len(sems) + 1 : g \in 1 .. Len(sems) \/ g = Len(sems) + 1
    BY <1>1
  <2>3. \A g \in 1 .. Len(sems) + 1 : GoodSem(sems'[g])
    BY <1>2, <2>1, <2>2 DEF SemsInv
  <2>4. SemsInv'
    BY <1>1, <2>1, <2>3 DEF SemsInv, GoodSem
  <2>5. \A x : x \in Placed' <=> \E g \in 1 .. Len(sems) + 1 : x \in MembersOf(sems'[g])
    BY <2>1 DEF Placed, MembersOf
  <2>6. \A x : x \in Placed <=> \E g \in 1 .. Len(sems) : x \in MembersOf(sems[g])
    BY DEF Placed
  <2>7. 1 .. Len(sems) \subseteq 1 .. Len(sems) + 1
    BY <1>1
  <2>8. \A x : x \in Placed' <=> x \in Placed
    BY <1>2, <2>1, <2>2, <2>5, <2>6, <2>7
  <2> QED
    BY <2>4, <2>8
<1>4. CASE Unregister
  BY <1>1, <1>4 DEF Unregister, SemsInv, Placed, GoodSem, MembersOf
<1> QED
  BY <1>3, <1>4

LEMMA SlotsAtFirst ==
  ASSUME SchedulerInit
  PROVE  SemsInv /\ Placed = {}
<1>1. GoodSem(FreshSem) /\ FreshSem \in Sems /\ MembersOf(FreshSem) = {}
  <2>1. Cardinality({}) = 0 /\ MaxConcurrent \in Nat
    BY FS_EmptySet, SchedulerAssumption
  <2> QED
    BY <2>1 DEF FreshSem, GoodSem, Sems, MembersOf, Range, IsInjective
<1>2. sems = <<FreshSem>> /\ agent = 1 /\ Len(sems) = 1 /\ sems[1] = FreshSem
  BY DEF SchedulerInit
<1>3. \A g \in 1 .. Len(sems) : sems[g] = FreshSem
  BY <1>2
<1>4. SemsInv
  BY <1>1, <1>2, <1>3 DEF SemsInv
<1> QED
  BY <1>1, <1>2, <1>3, <1>4 DEF Placed

-----------------------------------------------------------------------------
(* Sums: the fold of the model is the sum of a function.                   *)

\* Among finite sets some are minimal.
LEMMA SmallestSubset ==
  ASSUME NEW S, NEW C, C \subseteq FiniteSubsetsOf(S), C # {}
  PROVE  \E T \in C : \A U \in C : U \subseteq T => U = T
<1>1. PICK T \in C : \A U \in C : ~(<<U, T>> \in StrictSubsetOrdering(S))
  BY FS_StrictSubsetOrderingWellFounded, WFMin, Zenon
<1> QED
  BY <1>1 DEF StrictSubsetOrdering, FiniteSubsetsOf

\* A set of sets that holds {} and grows by any element holds every finite set.
LEMMA Grows ==
  ASSUME NEW S, IsFiniteSet(S), NEW Good, {} \in Good,
         \A T \in SUBSET S, x \in S : T \in Good /\ x \notin T => T \cup {x} \in Good
  PROVE  S \in Good
<1> DEFINE Bad == {T \in SUBSET S : T \notin Good}
<1> SUFFICES ASSUME Bad # {}  PROVE FALSE
  OBVIOUS
<1>1. Bad \subseteq FiniteSubsetsOf(S)
  BY FS_FiniteSubsetsOfFinite
<1>2. PICK T \in Bad : \A U \in Bad : U \subseteq T => U = T
  <2> HIDE DEF Bad
  <2> QED
    BY <1>1, SmallestSubset
<1>3. PICK x \in T : TRUE
  BY <1>2
<1>4. T \ {x} \in SUBSET S /\ x \in S /\ x \notin T \ {x} /\ (T \ {x}) \cup {x} = T
  BY <1>2, <1>3
<1>5. T \ {x} \in Good
  BY <1>2, <1>3, <1>4
<1>6. (T \ {x}) \cup {x} \in Good
  BY <1>4, <1>5
<1> QED
  BY <1>2, <1>4, <1>6

\* The sum of h over the jobs of P, as the number of pairs <<p, k>>.
Pairs(h, P) == UNION {{p} \X (1 .. h[p]) : p \in P}
Sum(h, P) == Cardinality(Pairs(h, P))

LEMMA SumGrows ==
  ASSUME NEW h \in [Jobs -> Nat], NEW P \in SUBSET Jobs
  PROVE  /\ Sum(h, {}) = 0
         /\ Sum(h, P) \in Nat
         /\ \A p \in Jobs \ P : Sum(h, P \cup {p}) = Sum(h, P) + h[p]
<1> DEFINE Pile(p) == {p} \X (1 .. h[p])
<1>1. ASSUME NEW p \in Jobs
      PROVE  IsFiniteSet(Pile(p)) /\ Cardinality(Pile(p)) = h[p]
  <2>1. IsFiniteSet(1 .. h[p]) /\ Cardinality(1 .. h[p]) = h[p]
    BY FS_Interval
  <2>2. IsFiniteSet({p}) /\ Cardinality({p}) = 1
    BY FS_Singleton
  <2> QED
    BY <2>1, <2>2, FS_Product
<1>2. Pairs(h, {}) = {}
  BY DEF Pairs
<1>3. ASSUME NEW Q, NEW p
      PROVE  Pairs(h, Q \cup {p}) = Pairs(h, Q) \cup Pile(p)
  BY DEF Pairs
<1>4. ASSUME NEW Q, NEW p, p \notin Q
      PROVE  Pairs(h, Q) \cap Pile(p) = {}
  BY <1>4 DEF Pairs
<1> HIDE DEF Pile
<1>5. ASSUME NEW Q \in SUBSET Jobs
      PROVE  IsFiniteSet(Pairs(h, Q))
  <2> DEFINE Good == {R \in SUBSET Q : IsFiniteSet(Pairs(h, R))}
  <2>1. IsFiniteSet(Q)
    BY FS_Subset, CronAssumption
  <2>2. {} \in Good
    BY <1>2, FS_EmptySet
  <2>3. ASSUME NEW R \in SUBSET Q, NEW p \in Q, R \in Good
        PROVE  R \cup {p} \in Good
    <3>1. IsFiniteSet(Pairs(h, R)) /\ IsFiniteSet(Pile(p))
      BY <1>1, <2>3
    <3>2. IsFiniteSet(Pairs(h, R) \cup Pile(p))
      BY <3>1, FS_Union
    <3> QED
      BY <1>3, <3>2
  <2>4. Q \in Good
    <3> HIDE DEF Good
    <3> QED
      BY <2>1, <2>2, <2>3, Grows
  <2> QED
    BY <2>4
<1>6. Sum(h, P) \in Nat
  BY <1>5, FS_CardinalityType DEF Sum
<1>7. ASSUME NEW p \in Jobs \ P
      PROVE  Sum(h, P \cup {p}) = Sum(h, P) + h[p]
  <2>1. IsFiniteSet(Pairs(h, P)) /\ IsFiniteSet(Pile(p)) /\ Cardinality(Pile(p)) = h[p]
    BY <1>1, <1>5
  <2>2. Cardinality(Pairs(h, P) \cap Pile(p)) = 0
    BY <1>4, FS_EmptySet
  <2>3. Cardinality(Pairs(h, P) \cup Pile(p))
          = Cardinality(Pairs(h, P)) + Cardinality(Pile(p)) - 0
    BY <2>1, <2>2, FS_Union
  <2>4. Cardinality(Pairs(h, P)) \in Nat /\ h[p] \in Nat
    BY <2>1, FS_CardinalityType
  <2>5. Sum(h, P \cup {p}) = Cardinality(Pairs(h, P) \cup Pile(p))
    BY <1>3, Zenon DEF Sum
  <2> QED
    BY <2>1, <2>3, <2>4, <2>5 DEF Sum
<1>8. Sum(h, {}) = 0
  BY <1>2, FS_EmptySet DEF Sum
<1> QED
  BY <1>6, <1>7, <1>8

\* Two functions that differ at one place.
LEMMA SumChanges ==
  ASSUME NEW h \in [Jobs -> Nat], NEW g \in [Jobs -> Nat], NEW p \in Jobs,
         \A q \in Jobs \ {p} : g[q] = h[q]
  PROVE  /\ Sum(h, Jobs) \in Nat /\ Sum(h, Jobs) >= h[p]
         /\ Sum(g, Jobs) = Sum(h, Jobs) - h[p] + g[p]
<1> DEFINE P == Jobs \ {p}
<1>1. P \in SUBSET Jobs /\ p \in Jobs \ P /\ P \cup {p} = Jobs
  OBVIOUS
<1>2. Pairs(g, P) = Pairs(h, P)
  BY DEF Pairs
<1>3. Sum(g, P) = Sum(h, P)
  BY <1>2 DEF Sum
<1> HIDE DEF P
<1>4. Sum(g, Jobs) = Sum(g, P) + g[p] /\ Sum(h, Jobs) = Sum(h, P) + h[p] /\ Sum(h, P) \in Nat
  BY <1>1, SumGrows
<1> QED
  BY <1>3, <1>4


\* The fold adds up the function, whatever order it takes the jobs in.
LEMMA TotalIsSum ==
  ASSUME NEW f \in [Jobs -> Nat]
  PROVE  Total(f) = Sum(f, Jobs)
<1> DEFINE Eq(g) == g = [s \in SUBSET Jobs |->
                          IF s = {} THEN 0
                          ELSE f[CHOOSE x \in s : TRUE] + g[s \ {CHOOSE x \in s : TRUE}]]
           g0 == [s \in SUBSET Jobs |-> Sum(f, s)]
           G == CHOOSE g : Eq(g)
<1>1. Total(f) = G[Jobs]
  <2>1. DOMAIN f = Jobs
    OBVIOUS
  <2> QED
    BY <2>1 DEF Total, FoldFunction, FoldFunctionOnSet, MapThenFoldSet
<1>2. \A s \in SUBSET Jobs : s # {} =>
        /\ (CHOOSE x \in s : TRUE) \in s
        /\ Sum(f, s) = f[CHOOSE x \in s : TRUE] + Sum(f, s \ {CHOOSE x \in s : TRUE})
  <2> TAKE s \in SUBSET Jobs
  <2> HAVE s # {}
  <2>1. PICK x : x = CHOOSE y \in s : TRUE
    OBVIOUS
  <2>2. x \in s
    BY <2>1
  <2>3. /\ s \ {x} \in SUBSET Jobs /\ x \in Jobs \ (s \ {x}) /\ (s \ {x}) \cup {x} = s
    BY <2>2
  <2>4. Sum(f, s) = Sum(f, s \ {x}) + f[x] /\ Sum(f, s \ {x}) \in Nat /\ f[x] \in Nat
    BY <2>3, SumGrows
  <2>5. Sum(f, s) = f[x] + Sum(f, s \ {x})
    BY <2>4
  <2> QED
    BY <2>1, <2>2, <2>5
<1>3. Sum(f, {}) = 0
  BY SumGrows
<1>4. Eq(g0)
  <2>1. \A s \in SUBSET Jobs :
          g0[s] = IF s = {} THEN 0
                  ELSE f[CHOOSE x \in s : TRUE] + g0[s \ {CHOOSE x \in s : TRUE}]
    BY <1>2, <1>3
  <2> QED
    BY <2>1
<1>5. Eq(G)
  <2> HIDE DEF Eq, g0
  <2> QED
    BY <1>4
<1> HIDE DEF G
<1>6. \A s \in SUBSET Jobs :
        G[s] = IF s = {} THEN 0
               ELSE f[CHOOSE x \in s : TRUE] + G[s \ {CHOOSE x \in s : TRUE}]
  BY <1>5
<1> HIDE DEF Eq, g0
<1> DEFINE Bad == {s \in SUBSET Jobs : G[s] # Sum(f, s)}
<1>7. Bad = {}
  <2> SUFFICES ASSUME Bad # {}  PROVE FALSE
    OBVIOUS
  <2>1. Bad \subseteq FiniteSubsetsOf(Jobs)
    BY FS_FiniteSubsetsOfFinite, CronAssumption
  <2>2. PICK s \in Bad : \A u \in Bad : u \subseteq s => u = s
    <3> HIDE DEF Bad
    <3> QED
      BY <2>1, SmallestSubset
  <2>3. s \in SUBSET Jobs /\ G[s] # Sum(f, s) /\ s # {}
    BY <2>2, <1>3, <1>6
  <2>4. PICK x : x = CHOOSE y \in s : TRUE
    OBVIOUS
  <2>5. x \in s /\ Sum(f, s) = f[x] + Sum(f, s \ {x}) /\ G[s] = f[x] + G[s \ {x}]
    BY <2>3, <2>4, <1>2, <1>6
  <2>6. s \ {x} \in SUBSET Jobs /\ s \ {x} \notin Bad
    BY <2>2, <2>5
  <2> QED
    BY <2>3, <2>5, <2>6
<1> QED
  BY <1>1, <1>7

-----------------------------------------------------------------------------
(* The invariant of CronScheduler.                                         *)

JobRecords == [enabled : BOOLEAN, next : Nat, runs : Nat, errors : Nat]
CallRecords ==
  [at : {"idle", "sweeping", "ticking", "triggered", "done"}, now : Nat,
   todo : Seq(Jobs), job : Jobs \cup {NoTurn}, slot : Nat]

BooksInv ==
  /\ clock \in Nat /\ fired \in Nat /\ lost \in Nat
  /\ jobs \in Seq(Jobs)
  /\ \A m, n \in DOMAIN jobs : IdOf[jobs[m]] = IdOf[jobs[n]] => m = n
  /\ job \in [Jobs -> JobRecords]
  /\ history \in [Jobs -> Nat] /\ past \in [Jobs -> Nat]
  /\ served \in [Jobs -> Nat] /\ doubled \subseteq Jobs

\* Where a coroutine can stand.
Stands(p) ==
  /\ p \in Ticks => call[p].at \in {"idle", "sweeping", "ticking"}
  /\ p \notin Ticks => call[p].at \in {"idle", "triggered", "done"}
  /\ call[p].at = "ticking" => call[p].todo # <<>>
  /\ call[p].at = "sweeping" => turn = p
  /\ Firing(p) => call[p].job \in Jobs

CallsInv ==
  /\ call \in [Callers -> CallRecords]
  /\ turn \in Callers \cup {NoTurn}
  /\ \A p \in Callers : Stands(p)
  /\ turn # NoTurn => Firing(turn) \/ call[turn].at = "sweeping"

\* A firing that awaits is in one of the semaphores, and nobody else is.
PlacesInv == \A p \in Callers : p \in Placed <=> Firing(p) /\ turn # p

\* The history of an id has an entry for each run and error its objects have
\* had since it was last put on the list or taken off it.
EntriesInv == \A j \in Jobs : history[j] + past[j] = job[j].runs + job[j].errors

Counts == [j \in Jobs |-> job[j].runs + job[j].errors]
InFlight == {p \in Callers : Firing(p)}
TallyInv == fired = Sum(Counts, Jobs) + Cardinality(InFlight) + lost

\* The slot of a job lies after the one it was last served for, and a tick that
\* fires it, alone, fires it for such a slot.
Advancing(j) ==
  /\ job[j].next = Never \/ job[j].next > served[j]
  /\ \A p \in Ticking(j) : call[p].slot > served[j] /\ Ticking(j) = {p}

SlotsInv ==
  /\ \A p \in Callers : call[p].now <= clock
  /\ \A j \in Jobs : served[j] <= clock
  /\ \A p \in Ticks : call[p].at = "ticking" => call[p].slot <= call[p].now
  /\ \A j \in Jobs \ doubled : Advancing(j)

SchedulerInv ==
  SemsInv /\ BooksInv /\ CallsInv /\ PlacesInv /\ EntriesInv /\ TallyInv /\ SlotsInv

-----------------------------------------------------------------------------
(* Time, and what the actions assign.                                      *)

LEMMA NextRunIsLater ==
  ASSUME NEW j \in Jobs, NEW t \in Nat
  PROVE  NextRun(j, t) \in Nat /\ NextRun(j, t) > t
<1>1. Period[j] \in Nat \ {0}
  BY CronAssumption
<1>2. t % Period[j] \in 0 .. Period[j] - 1
  BY <1>1
<1>3. t % Period[j] <= t
  BY <1>1
<1> QED
  BY <1>1, <1>2, <1>3 DEF NextRun

\* Nobody but p moves; p goes on at c.
Moved(p) ==
  call' \in [Callers -> CallRecords] /\ \A q \in Callers \ {p} : call'[q] = call[q]
Moves(p, c) == Moved(p) /\ call'[p] = c

Paused(p, at, todo) ==
  [at |-> at, now |-> call[p].now, todo |-> todo, job |-> call[p].job, slot |-> call[p].slot]

LEMMA CallParts ==
  ASSUME CallsInv, NEW p \in Callers
  PROVE  /\ call[p].at \in {"idle", "sweeping", "ticking", "triggered", "done"}
         /\ call[p].now \in Nat /\ call[p].slot \in Nat
         /\ call[p].todo \in Seq(Jobs) /\ call[p].job \in Jobs \cup {NoTurn}
         /\ call[p] = Paused(p, call[p].at, call[p].todo)
BY DEF CallsInv, CallRecords, Paused

LEMMA TickMoves ==
  ASSUME BooksInv, CallsInv, NEW p \in Callers,
         call' = [call EXCEPT ![p] = [@ EXCEPT !.at = "sweeping", !.now = clock, !.todo = jobs]]
  PROVE  Moves(p, [at |-> "sweeping", now |-> clock, todo |-> jobs,
                   job |-> call[p].job, slot |-> call[p].slot])
BY CallParts DEF BooksInv, CallsInv, CallRecords, Moves, Moved

LEMMA NotDueMoves ==
  ASSUME CallsInv, NEW p \in Callers, call[p].todo # <<>>,
         call' = [call EXCEPT ![p].todo = Tail(@)]
  PROVE  Moves(p, Paused(p, call[p].at, Tail(call[p].todo)))
<1>1. Tail(call[p].todo) \in Seq(Jobs)
  BY CallParts
<1> QED
  BY <1>1, CallParts DEF CallsInv, CallRecords, Moves, Moved, Paused

LEMMA EndTickMoves ==
  ASSUME CallsInv, NEW p \in Callers, call' = [call EXCEPT ![p].at = "idle"]
  PROVE  Moves(p, Paused(p, "idle", call[p].todo))
BY CallParts DEF CallsInv, CallRecords, Moves, Moved, Paused

LEMMA FireMoves ==
  ASSUME CallsInv, NEW p \in Callers, NEW j \in Jobs, NEW n \in Nat,
         NEW at \in {"ticking", "triggered"},
         call' = [call EXCEPT ![p] = [@ EXCEPT !.at = at, !.job = j, !.slot = n]]
  PROVE  Moves(p, [at |-> at, now |-> call[p].now, todo |-> call[p].todo,
                   job |-> j, slot |-> n])
BY CallParts DEF CallsInv, CallRecords, Moves, Moved

LEMMA SettleTickMoves ==
  ASSUME CallsInv, NEW p \in Callers, call[p].todo # <<>>,
         call' = [call EXCEPT ![p] = [@ EXCEPT
           !.at = "sweeping", !.job = NoTurn, !.slot = Never, !.todo = Tail(call[p].todo)]]
  PROVE  Moves(p, [at |-> "sweeping", now |-> call[p].now, todo |-> Tail(call[p].todo),
                   job |-> NoTurn, slot |-> Never])
<1>1. Tail(call[p].todo) \in Seq(Jobs)
  BY CallParts
<1> QED
  BY <1>1, CallParts DEF CallsInv, CallRecords, Moves, Moved, Never

LEMMA SettleTriggerMoves ==
  ASSUME CallsInv, NEW p \in Callers,
         call' = [call EXCEPT ![p] = [@ EXCEPT !.at = "done", !.job = NoTurn, !.slot = Never]]
  PROVE  Moves(p, [at |-> "done", now |-> call[p].now, todo |-> call[p].todo,
                   job |-> NoTurn, slot |-> Never])
BY CallParts DEF CallsInv, CallRecords, Moves, Moved, Never

LEMMA CancelMoves ==
  ASSUME CallsInv, NEW p \in Callers,
         call' = [call EXCEPT ![p] = [AtRest EXCEPT
           !.at = IF p \in Ticks THEN "idle" ELSE "done", !.now = call[p].now]]
  PROVE  Moves(p, [at |-> IF p \in Ticks THEN "idle" ELSE "done", now |-> call[p].now,
                   todo |-> <<>>, job |-> NoTurn, slot |-> Never])
<1>1. <<>> \in Seq(Jobs)
  OBVIOUS
<1> QED
  BY <1>1, CallParts DEF CallsInv, CallRecords, Moves, Moved, Never, AtRest

\* The books of j change, and no other job's.
Books(j, r) ==
  /\ job' \in [Jobs -> JobRecords]
  /\ job'[j] = r
  /\ \A i \in Jobs \ {j} : job'[i] = job[i]

LEMMA JobType ==
  ASSUME BooksInv
  PROVE  job \in [Jobs -> JobRecords]
BY DEF BooksInv

LEMMA JobParts ==
  ASSUME BooksInv, NEW j \in Jobs
  PROVE  /\ job[j].enabled \in BOOLEAN
         /\ job[j].next \in Nat /\ job[j].runs \in Nat /\ job[j].errors \in Nat
         /\ job[j] = [enabled |-> job[j].enabled, next |-> job[j].next,
                      runs |-> job[j].runs, errors |-> job[j].errors]
BY DEF BooksInv, JobRecords

LEMMA JobNumbers ==
  ASSUME BooksInv
  PROVE  \A j \in Jobs : job[j].next \in Nat /\ job[j].runs \in Nat /\ job[j].errors \in Nat
BY DEF BooksInv, JobRecords

LEMMA AddBooks ==
  ASSUME BooksInv, NEW j \in Jobs, NEW n \in Nat,
         job' = [job EXCEPT ![j].next = n]
  PROVE  Books(j, [enabled |-> job[j].enabled, next |-> n,
                   runs |-> job[j].runs, errors |-> job[j].errors])
BY JobType, JobParts DEF JobRecords, Books

LEMMA PauseBooks ==
  ASSUME BooksInv, NEW j \in Jobs, job' = [job EXCEPT ![j].enabled = FALSE]
  PROVE  Books(j, [enabled |-> FALSE, next |-> job[j].next,
                   runs |-> job[j].runs, errors |-> job[j].errors])
BY JobType, JobParts DEF JobRecords, Books

LEMMA ResumeBooks ==
  ASSUME BooksInv, NEW j \in Jobs, NEW n \in Nat,
         job' = [job EXCEPT ![j] = [@ EXCEPT !.enabled = TRUE, !.next = n]]
  PROVE  Books(j, [enabled |-> TRUE, next |-> n,
                   runs |-> job[j].runs, errors |-> job[j].errors])
BY JobType, JobParts DEF JobRecords, Books

LEMMA CountedParts ==
  ASSUME NEW r \in JobRecords, NEW ok \in BOOLEAN
  PROVE  /\ Counted(r, ok) \in JobRecords
         /\ Counted(r, ok).next = r.next
         /\ Counted(r, ok).runs + Counted(r, ok).errors = r.runs + r.errors + 1
<1>1. CASE ok
  BY <1>1 DEF Counted, JobRecords
<1>2. CASE ~ok
  BY <1>2 DEF Counted, JobRecords
<1> QED
  BY <1>1, <1>2

\* j settles: one run or error more, and the next slot n.
Settled(j, n) ==
  /\ job' \in [Jobs -> JobRecords]
  /\ job'[j].runs + job'[j].errors = job[j].runs + job[j].errors + 1
  /\ job'[j].next = n
  /\ \A i \in Jobs \ {j} : job'[i] = job[i]

LEMMA SettleTickBooks ==
  ASSUME BooksInv, NEW j \in Jobs, NEW ok \in BOOLEAN, NEW n \in Nat,
         job' = [job EXCEPT ![j] = [Counted(@, ok) EXCEPT !.next = n]]
  PROVE  Settled(j, n)
<1>1. PICK r \in JobRecords :
        r = Counted(job[j], ok) /\ r.runs + r.errors = job[j].runs + job[j].errors + 1
  BY CountedParts DEF BooksInv
<1>2. job' = [job EXCEPT ![j] = [r EXCEPT !.next = n]]
  BY <1>1
<1>3. [r EXCEPT !.next = n]
        = [enabled |-> r.enabled, next |-> n, runs |-> r.runs, errors |-> r.errors]
  BY DEF JobRecords
<1> QED
  BY <1>1, <1>2, <1>3 DEF BooksInv, JobRecords, Settled

LEMMA SettleTriggerBooks ==
  ASSUME BooksInv, NEW j \in Jobs, NEW ok \in BOOLEAN, job' = [job EXCEPT ![j] = Counted(@, ok)]
  PROVE  Settled(j, job[j].next)
<1>1. PICK r \in JobRecords :
        /\ r = Counted(job[j], ok) /\ r.runs + r.errors = job[j].runs + job[j].errors + 1
        /\ r.next = job[j].next
  BY CountedParts DEF BooksInv
<1>2. job' = [job EXCEPT ![j] = r]
  BY <1>1
<1> QED
  BY <1>1, <1>2 DEF BooksInv, JobRecords, Settled

-----------------------------------------------------------------------------
(* Counting the firings.                                                   *)

LEMMA Flights ==
  /\ InFlight \subseteq Callers /\ IsFiniteSet(InFlight) /\ Cardinality(InFlight) \in Nat
  /\ \A p \in Callers \ InFlight : Cardinality(InFlight \cup {p}) = Cardinality(InFlight) + 1
  /\ \A p \in InFlight : Cardinality(InFlight \ {p}) = Cardinality(InFlight) - 1
<1>1. InFlight \subseteq Callers
  BY DEF InFlight
<1>2. IsFiniteSet(InFlight) /\ Cardinality(InFlight) \in Nat
  BY <1>1, FS_Subset, FS_CardinalityType, SchedulerAssumption
<1> QED
  BY <1>1, <1>2, FS_AddElement, FS_RemoveElement

LEMMA FlightsMove ==
  ASSUME CallsInv, NEW p \in Callers, Moved(p)
  PROVE  /\ p \in InFlight <=> Firing(p)
         /\ Firing(p)' => InFlight' = InFlight \cup {p}
         /\ ~Firing(p)' => InFlight' = InFlight \ {p}
BY DEF Moved, InFlight, Firing

LEMMA CountsType ==
  ASSUME BooksInv
  PROVE  Counts \in [Jobs -> Nat] /\ Sum(Counts, Jobs) \in Nat
<1>1. Counts \in [Jobs -> Nat]
  BY JobNumbers DEF Counts
<1> QED
  BY <1>1, SumGrows

LEMMA CountsSettle ==
  ASSUME BooksInv, NEW j \in Jobs, NEW n \in Nat, Settled(j, n)
  PROVE  Sum(Counts', Jobs) = Sum(Counts, Jobs) + 1
<1>1. \A i \in Jobs : job'[i].runs \in Nat /\ job'[i].errors \in Nat
  BY DEF Settled, JobRecords
<1>2. Counts' \in [Jobs -> Nat] /\ Counts \in [Jobs -> Nat]
  BY <1>1, CountsType DEF Counts
<1>3. \A i \in Jobs \ {j} : Counts'[i] = Counts[i]
  BY DEF Counts, Settled
<1>4. Counts'[j] = Counts[j] + 1
  BY DEF Counts, Settled
<1>5. /\ Sum(Counts, Jobs) \in Nat
      /\ Sum(Counts', Jobs) = Sum(Counts, Jobs) - Counts[j] + Counts'[j]
  BY <1>2, <1>3, SumChanges
<1> QED
  BY <1>2, <1>4, <1>5

LEMMA TallyMoves ==
  ASSUME BooksInv, TallyInv,
         \/ /\ Sum(Counts', Jobs) = Sum(Counts, Jobs)
            /\ fired' - lost' - Cardinality(InFlight') = fired - lost - Cardinality(InFlight)
         \/ /\ Sum(Counts', Jobs) = Sum(Counts, Jobs) + 1
            /\ Cardinality(InFlight') + 1 = Cardinality(InFlight)
            /\ fired' = fired /\ lost' = lost,
         fired' \in Nat, lost' \in Nat, Cardinality(InFlight') \in Nat
  PROVE  TallyInv'
<1>1. /\ Sum(Counts, Jobs) \in Nat /\ Cardinality(InFlight) \in Nat
      /\ fired \in Nat /\ lost \in Nat
  BY CountsType, Flights DEF BooksInv
<1>2. fired = Sum(Counts, Jobs) + Cardinality(InFlight) + lost
  BY DEF TallyInv
<1>3. fired' = Sum(Counts', Jobs) + Cardinality(InFlight') + lost'
  BY <1>1, <1>2
<1> QED
  BY <1>3 DEF TallyInv, Sum, Pairs

-----------------------------------------------------------------------------
(* Edits of the list leave the calls alone.                                *)

LEMMA CallsKept ==
  ASSUME CallsInv, UNCHANGED <<call, turn>>
  PROVE  CallsInv' /\ InFlight' = InFlight
BY DEF CallsInv, Stands, Firing, InFlight

LEMMA PlacesKept ==
  ASSUME PlacesInv, UNCHANGED <<call, turn>>, Placed' = Placed
  PROVE  PlacesInv'
BY DEF PlacesInv, Firing

LEMMA SemsKept ==
  ASSUME SemsInv, UNCHANGED schedulerVars
  PROVE  SemsInv' /\ Placed' = Placed
BY DEF SemsInv, GoodSem, Placed, MembersOf, schedulerVars

LEMMA TallyKept ==
  ASSUME BooksInv, CallsInv, TallyInv, UNCHANGED <<call, turn, fired, lost>>,
         \A j \in Jobs : /\ job'[j].runs = job[j].runs
                         /\ job'[j].errors = job[j].errors
  PROVE  TallyInv'
<1>1. Counts' = Counts
  BY DEF Counts
<1>2. InFlight' = InFlight
  BY CallsKept
<1> QED
  BY <1>1, <1>2 DEF TallyInv, Sum, Pairs

LEMMA SlotsKept ==
  ASSUME BooksInv, SlotsInv, UNCHANGED <<clock, call, served, doubled>>,
         \A j \in Jobs : \/ job'[j].next = job[j].next
                         \/ job'[j].next \in Nat /\ job'[j].next > clock
  PROVE  SlotsInv'
<1>1. \A j \in Jobs : served[j] <= clock /\ served[j] \in Nat /\ clock \in Nat
  BY DEF BooksInv, SlotsInv
<1>2. \A j \in Jobs : Ticking(j)' = Ticking(j)
  BY DEF Ticking
<1>3. ASSUME NEW j \in Jobs \ doubled  PROVE Advancing(j)'
  <2>1. Advancing(j)
    BY DEF SlotsInv
  <2>2. (job'[j].next = Never \/ job'[j].next > served[j])
    BY <1>1, <2>1 DEF Advancing
  <2> QED
    BY <1>2, <2>1, <2>2 DEF Advancing, Never
<1> QED
  BY <1>3 DEF SlotsInv, Never

\* What NewHistory does to the books.
LEMMA NewHistories ==
  ASSUME BooksInv, EntriesInv, NEW id, NewHistory(id)
  PROVE  /\ history' \in [Jobs -> Nat] /\ past' \in [Jobs -> Nat]
         /\ \A j \in Jobs : history'[j] + past'[j] = job[j].runs + job[j].errors
<1>1. \A j \in Jobs : job[j].runs + job[j].errors \in Nat
  BY JobNumbers
<1>2. \A j \in Jobs :
        /\ history'[j] = IF IdOf[j] = id THEN 0 ELSE history[j]
        /\ past'[j] = IF IdOf[j] = id THEN job[j].runs + job[j].errors ELSE past[j]
  BY DEF NewHistory
<1>3. history' \in [Jobs -> Nat] /\ past' \in [Jobs -> Nat]
  BY <1>1 DEF NewHistory, BooksInv
<1> QED
  BY <1>1, <1>2, <1>3 DEF EntriesInv

\* The list after Put names no id twice.
LEMMA Puts ==
  ASSUME BooksInv, NEW j \in Jobs, Put(j)
  PROVE  /\ jobs' \in Seq(Jobs)
         /\ \A m, n \in DOMAIN jobs' : IdOf[jobs'[m]] = IdOf[jobs'[n]] => m = n
<1>1. /\ jobs \in Seq(Jobs) /\ Len(jobs) \in Nat /\ DOMAIN jobs = 1 .. Len(jobs)
      /\ \A m, n \in DOMAIN jobs : IdOf[jobs[m]] = IdOf[jobs[n]] => m = n
  BY DEF BooksInv
<1>2. CASE \E k \in ToSet(jobs) : IdOf[k] = IdOf[j]
  <2>1. jobs' = [n \in DOMAIN jobs |-> IF IdOf[jobs[n]] = IdOf[j] THEN j ELSE jobs[n]]
    BY <1>2 DEF Put
  <2>2. DOMAIN jobs' = DOMAIN jobs /\ \A n \in DOMAIN jobs : IdOf[jobs'[n]] = IdOf[jobs[n]]
    BY <2>1
  <2>3. jobs' \in Seq(Jobs)
    BY <1>1, <2>1
  <2> QED
    BY <1>1, <2>2, <2>3
<1>3. CASE ~\E k \in ToSet(jobs) : IdOf[k] = IdOf[j]
  <2>1. jobs' = Append(jobs, j)
    BY <1>3 DEF Put
  <2>2. /\ jobs' \in Seq(Jobs) /\ DOMAIN jobs' = 1 .. Len(jobs) + 1
        /\ \A n \in DOMAIN jobs : jobs'[n] = jobs[n]
        /\ jobs'[Len(jobs) + 1] = j
    BY <1>1, <2>1
  <2>3. \A n \in DOMAIN jobs : IdOf[jobs[n]] # IdOf[j]
    BY <1>3 DEF ToSet
  <2>4. \A n \in DOMAIN jobs' : n \in DOMAIN jobs \/ n = Len(jobs) + 1
    BY <1>1, <2>2
  <2> QED
    BY <1>1, <2>2, <2>3, <2>4
<1> QED
  BY <1>2, <1>3

LEMMA AddJobInv ==
  ASSUME SchedulerInv, NEW j \in Jobs, AddJob(j)
  PROVE  SchedulerInv'
<1> USE DEF SchedulerInv
<1>1. /\ Put(j) /\ NewHistory(IdOf[j])
      /\ UNCHANGED <<schedulerVars, clock, fired, call, turn, lost, served, doubled>>
  BY DEF AddJob
<1>2. PICK n \in Nat :
        /\ n = IF job[j].next = Never THEN NextRun(j, clock) ELSE job[j].next
        /\ n = job[j].next \/ n > clock
  <2>1. NextRun(j, clock) \in Nat /\ NextRun(j, clock) > clock
    BY NextRunIsLater DEF BooksInv
  <2> QED
    BY <2>1, JobNumbers
<1>3. job' = [job EXCEPT ![j].next = n]
  BY <1>2 DEF AddJob
<1>4. Books(j, [enabled |-> job[j].enabled, next |-> n,
                runs |-> job[j].runs, errors |-> job[j].errors])
  BY <1>3, AddBooks
<1>5. /\ job' \in [Jobs -> JobRecords]
      /\ \A i \in Jobs : /\ job'[i].runs = job[i].runs
                         /\ job'[i].errors = job[i].errors
                         /\ job'[i].next = job[i].next \/ job'[i].next > clock
                         /\ job'[i].next \in Nat
  <2>1. \A i \in Jobs : job'[i] = IF i = j THEN job'[j] ELSE job[i]
    BY <1>4 DEF Books
  <2> QED
    BY <1>2, <1>4, <2>1, JobNumbers DEF Books
<1>6. /\ history' \in [Jobs -> Nat] /\ past' \in [Jobs -> Nat]
      /\ \A i \in Jobs : history'[i] + past'[i] = job[i].runs + job[i].errors
  BY <1>1, NewHistories
<1>7. BooksInv'
  <2>1. /\ jobs' \in Seq(Jobs)
        /\ \A m, k \in DOMAIN jobs' : IdOf[jobs'[m]] = IdOf[jobs'[k]] => m = k
    BY <1>1, Puts
  <2> QED
    BY <1>1, <1>5, <1>6, <2>1 DEF BooksInv
<1>8. SemsInv' /\ CallsInv' /\ PlacesInv' /\ TallyInv' /\ SlotsInv'
  BY <1>1, <1>5, SemsKept, CallsKept, PlacesKept, TallyKept, SlotsKept
<1>9. EntriesInv'
  BY <1>5, <1>6 DEF EntriesInv
<1> QED
  BY <1>7, <1>8, <1>9

LEMMA RemoveJobInv ==
  ASSUME SchedulerInv, NEW j \in Jobs, RemoveJob(j)
  PROVE  SchedulerInv'
<1> USE DEF SchedulerInv
<1>1. /\ jobs' = RemoveFirst(jobs, j) /\ NewHistory(IdOf[j])
      /\ UNCHANGED <<schedulerVars, clock, job, fired, call, turn, lost, served, doubled>>
  BY DEF RemoveJob
<1>2. /\ \A m, n \in DOMAIN jobs : IdOf[jobs[m]] = IdOf[jobs[n]] => m = n
      /\ IsQueue(jobs, Range(jobs)) /\ Range(jobs) \subseteq Jobs
  <2>1. \A m, n \in DOMAIN jobs : jobs[m] = jobs[n] => m = n
    BY DEF BooksInv
  <2> QED
    BY <2>1, Retype DEF BooksInv, IsQueue, IsInjective, Range
<1>3. IsQueue(jobs', Range(jobs) \ {j})
  BY <1>1, <1>2, QueueRemove
<1>4. jobs' \in Seq(Jobs) /\ IsInjective(jobs') /\ Range(jobs') = Range(jobs) \ {j}
  BY <1>2, <1>3, Retype DEF IsQueue
<1>5. ASSUME NEW m \in DOMAIN jobs', NEW n \in DOMAIN jobs', IdOf[jobs'[m]] = IdOf[jobs'[n]]
      PROVE  m = n
  <2>1. PICK k, l \in DOMAIN jobs : jobs'[m] = jobs[k] /\ jobs'[n] = jobs[l]
    BY <1>4 DEF Range
  <2>2. jobs'[m] = jobs'[n]
    BY <1>2, <1>5, <2>1
  <2> QED
    BY <1>4, <2>2 DEF IsInjective
<1>6. /\ history' \in [Jobs -> Nat] /\ past' \in [Jobs -> Nat]
      /\ \A i \in Jobs : history'[i] + past'[i] = job[i].runs + job[i].errors
  BY <1>1, NewHistories
<1>7. BooksInv'
  BY <1>1, <1>4, <1>5, <1>6 DEF BooksInv
<1>8. SemsInv' /\ CallsInv' /\ PlacesInv' /\ TallyInv' /\ SlotsInv'
  BY <1>1, SemsKept, CallsKept, PlacesKept, TallyKept, SlotsKept
<1>9. EntriesInv'
  BY <1>1, <1>6 DEF EntriesInv
<1> QED
  BY <1>7, <1>8, <1>9

LEMMA PauseResumeInv ==
  ASSUME SchedulerInv, NEW j \in Jobs, PauseJob(j) \/ ResumeJob(j)
  PROVE  SchedulerInv'
<1> USE DEF SchedulerInv
<1>1. UNCHANGED <<schedulerVars, clock, jobs, history, fired, call, turn,
                  lost, past, served, doubled>>
  BY DEF PauseJob, ResumeJob, ghosts
<1>2. /\ job' \in [Jobs -> JobRecords]
      /\ \A i \in Jobs : /\ job'[i].runs = job[i].runs
                         /\ job'[i].errors = job[i].errors
                         /\ job'[i].next = job[i].next \/ job'[i].next > clock
                         /\ job'[i].next \in Nat
  <2>1. CASE PauseJob(j)
    <3>1. Books(j, [enabled |-> FALSE, next |-> job[j].next,
                    runs |-> job[j].runs, errors |-> job[j].errors])
      BY <2>1, PauseBooks DEF PauseJob
    <3>2. \A i \in Jobs : job'[i] = IF i = j THEN job'[j] ELSE job[i]
      BY <3>1 DEF Books
    <3> QED
      BY <3>1, <3>2, JobNumbers DEF Books
  <2>2. CASE ResumeJob(j)
    <3>1. PICK n \in Nat : n = NextRun(j, clock) /\ n > clock
      BY NextRunIsLater DEF BooksInv
    <3>2. Books(j, [enabled |-> TRUE, next |-> n,
                    runs |-> job[j].runs, errors |-> job[j].errors])
      BY <2>2, <3>1, ResumeBooks DEF ResumeJob
    <3>3. \A i \in Jobs : job'[i] = IF i = j THEN job'[j] ELSE job[i]
      BY <3>2 DEF Books
    <3> QED
      BY <3>1, <3>2, <3>3, JobNumbers DEF Books
  <2> QED
    BY <2>1, <2>2
<1>3. BooksInv'
  BY <1>1, <1>2 DEF BooksInv
<1>4. SemsInv' /\ CallsInv' /\ PlacesInv' /\ TallyInv' /\ SlotsInv'
  BY <1>1, <1>2, SemsKept, CallsKept, PlacesKept, TallyKept, SlotsKept
<1>5. EntriesInv'
  BY <1>1, <1>2 DEF EntriesInv
<1> QED
  BY <1>3, <1>4, <1>5

-----------------------------------------------------------------------------
(* One coroutine moves.                                                    *)

LEMMA CallsMove ==
  ASSUME CallsInv, NEW p \in Callers, Moved(p),
         turn \in {p, NoTurn}, turn' \in {p, NoTurn}, Stands(p)',
         turn' = p => Firing(p)' \/ call'[p].at = "sweeping"
  PROVE  CallsInv'
<1>1. NoTurn \notin Callers
  BY CronAssumption
<1>2. ASSUME NEW q \in Callers \ {p}  PROVE Stands(q)'
  <2>1. call'[q] = call[q] /\ call[q].at # "sweeping"
    BY <1>1 DEF CallsInv, Moved, Stands
  <2> QED
    BY <2>1 DEF CallsInv, Stands, Firing
<1> QED
  BY <1>1, <1>2 DEF CallsInv, Moved

LEMMA PlacesMove ==
  ASSUME PlacesInv, NEW p \in Callers, Moved(p),
         turn \in {p, NoTurn}, turn' \in {p, NoTurn},
         Placed' \ {p} = Placed \ {p},
         p \in Placed' <=> Firing(p)' /\ turn' # p
  PROVE  PlacesInv'
<1>1. NoTurn \notin Callers
  BY CronAssumption
<1>2. ASSUME NEW q \in Callers \ {p}
      PROVE  q \in Placed' <=> Firing(q)' /\ turn' # q
  <2>1. Firing(q)' <=> Firing(q)
    BY DEF Moved, Firing
  <2>2. turn # q /\ turn' # q /\ (q \in Placed' <=> q \in Placed)
    BY <1>1
  <2> QED
    BY <2>1, <2>2 DEF PlacesInv
<1> QED
  BY <1>2 DEF PlacesInv

LEMMA EntriesKept ==
  ASSUME EntriesInv, UNCHANGED <<job, history, past>>
  PROVE  EntriesInv'
BY DEF EntriesInv

LEMMA TallyMove ==
  ASSUME BooksInv, CallsInv, TallyInv, NEW p \in Callers, Moved(p),
         UNCHANGED <<job, fired, lost>>, Firing(p)' <=> Firing(p)
  PROVE  TallyInv'
<1>1. InFlight' = InFlight
  BY FlightsMove DEF InFlight
<1>2. Counts' = Counts
  BY DEF Counts
<1> QED
  BY <1>1, <1>2 DEF TallyInv, Sum, Pairs

\* Only a tick that fires can break the order of the slots.
LEMMA SlotsMove ==
  ASSUME CallsInv, SlotsInv, NEW p \in Callers, Moved(p),
         UNCHANGED <<clock, job, served, doubled>>,
         call'[p].now <= clock, call'[p].at # "ticking"
  PROVE  SlotsInv'
<1>1. \A q \in Callers : call'[q].now <= clock
  BY DEF SlotsInv, Moved
<1>2. \A q \in Ticks : call'[q].at = "ticking" => call'[q].slot <= call'[q].now
  BY CronAssumption DEF SlotsInv, Moved
<1>3. ASSUME NEW j \in Jobs \ doubled  PROVE Advancing(j)'
  <2>1. \A q \in Ticking(j)' : q \in Ticking(j) /\ call'[q] = call[q]
    BY CronAssumption DEF Ticking, Moved
  <2>2. \A q \in Ticking(j)' : Ticking(j)' = {q}
    <3>1. \A q, r \in Ticking(j)' : q = r
      BY <2>1 DEF SlotsInv, Advancing
    <3> QED
      BY <3>1
  <2> QED
    BY <2>1, <2>2 DEF SlotsInv, Advancing
<1> QED
  BY <1>1, <1>2, <1>3 DEF SlotsInv

LEMMA BooksKept ==
  ASSUME BooksInv, UNCHANGED <<clock, jobs, job, history, lost, past, served>>,
         fired' \in Nat, doubled' \subseteq Jobs
  PROVE  BooksInv'
BY DEF BooksInv

LEMMA TodoParts ==
  ASSUME CallsInv, NEW p \in Callers, call[p].todo # <<>>
  PROVE  Head(call[p].todo) \in Jobs
<1>1. call[p].todo \in Seq(Jobs)
  BY CallParts
<1> QED
  BY <1>1

-----------------------------------------------------------------------------
(* The actions of the calls keep the invariant.                            *)

LEMMA TickInv ==
  ASSUME SchedulerInv, NEW p \in Callers, Tick(p)
  PROVE  SchedulerInv'
<1> USE DEF SchedulerInv
<1>1. /\ turn = NoTurn /\ turn' = p /\ p \in Ticks /\ call[p].at = "idle"
      /\ UNCHANGED <<schedulerVars, clock, jobs, job, history, fired,
                     lost, past, served, doubled>>
  BY DEF Tick, records, ghosts
<1>2. Moves(p, [at |-> "sweeping", now |-> clock, todo |-> jobs,
                job |-> call[p].job, slot |-> call[p].slot])
  BY TickMoves DEF Tick
<1>3. /\ Moved(p) /\ call'[p].at = "sweeping" /\ call'[p].now = clock
      /\ call'[p].todo = jobs
  BY <1>2 DEF Moves
<1>4. ~Firing(p) /\ ~Firing(p)' /\ Stands(p)'
  BY <1>1, <1>3 DEF Firing, Stands
<1>5. clock <= clock
  BY DEF BooksInv
<1>6. p \notin Placed /\ Placed' = Placed /\ SemsInv'
  BY <1>1, <1>4, SemsKept DEF PlacesInv
<1>7. BooksInv' /\ CallsInv' /\ PlacesInv'
  BY <1>1, <1>3, <1>4, <1>6, BooksKept, CallsMove, PlacesMove DEF BooksInv
<1>8. EntriesInv' /\ TallyInv' /\ SlotsInv'
  BY <1>1, <1>3, <1>4, <1>5, EntriesKept, TallyMove, SlotsMove
<1> QED
  BY <1>6, <1>7, <1>8

LEMMA NotDueInv ==
  ASSUME SchedulerInv, NEW p \in Callers, NotDue(p)
  PROVE  SchedulerInv'
<1> USE DEF SchedulerInv
<1>1. /\ turn = p /\ turn' = p /\ call[p].at = "sweeping" /\ call[p].todo # <<>>
      /\ UNCHANGED <<schedulerVars, clock, jobs, job, history, fired,
                     lost, past, served, doubled>>
  BY DEF NotDue, records, ghosts
<1>2. Moves(p, Paused(p, call[p].at, Tail(call[p].todo)))
  BY NotDueMoves DEF NotDue
<1>3. /\ Moved(p) /\ call'[p].at = "sweeping" /\ call'[p].now = call[p].now
      /\ call'[p].todo = Tail(call[p].todo)
  BY <1>1, <1>2 DEF Moves, Paused
<1>4. ~Firing(p) /\ ~Firing(p)' /\ Stands(p)'
  BY <1>1, <1>3 DEF Firing, Stands, CallsInv
<1>5. call[p].now <= clock
  BY DEF SlotsInv
<1>6. p \notin Placed /\ Placed' = Placed /\ SemsInv'
  BY <1>1, <1>4, SemsKept DEF PlacesInv
<1>7. BooksInv' /\ CallsInv' /\ PlacesInv'
  BY <1>1, <1>3, <1>4, <1>6, BooksKept, CallsMove, PlacesMove DEF BooksInv
<1>8. EntriesInv' /\ TallyInv' /\ SlotsInv'
  BY <1>1, <1>3, <1>4, <1>5, EntriesKept, TallyMove, SlotsMove
<1> QED
  BY <1>6, <1>7, <1>8

LEMMA EndTickInv ==
  ASSUME SchedulerInv, NEW p \in Callers, EndTick(p)
  PROVE  SchedulerInv'
<1> USE DEF SchedulerInv
<1>1. /\ turn = p /\ turn' = NoTurn /\ call[p].at = "sweeping" /\ p # NoTurn
      /\ UNCHANGED <<schedulerVars, clock, jobs, job, history, fired,
                     lost, past, served, doubled>>
  BY CronAssumption DEF EndTick, records, ghosts
<1>2. Moves(p, Paused(p, "idle", call[p].todo))
  BY EndTickMoves DEF EndTick
<1>3. /\ Moved(p) /\ call'[p].at = "idle" /\ call'[p].now = call[p].now
      /\ call'[p].todo = call[p].todo
  BY <1>1, <1>2 DEF Moves, Paused
<1>4. ~Firing(p) /\ ~Firing(p)' /\ Stands(p)'
  BY <1>1, <1>3 DEF Firing, Stands, CallsInv
<1>5. call[p].now <= clock
  BY DEF SlotsInv
<1>6. p \notin Placed /\ Placed' = Placed /\ SemsInv'
  BY <1>1, <1>4, SemsKept DEF PlacesInv
<1>7. BooksInv' /\ CallsInv' /\ PlacesInv'
  BY <1>1, <1>3, <1>4, <1>6, BooksKept, CallsMove, PlacesMove DEF BooksInv
<1>8. EntriesInv' /\ TallyInv' /\ SlotsInv'
  BY <1>1, <1>3, <1>4, <1>5, EntriesKept, TallyMove, SlotsMove
<1> QED
  BY <1>6, <1>7, <1>8

LEMMA CancelCallInv ==
  ASSUME SchedulerInv, NEW p \in Callers, CancelCall(p)
  PROVE  SchedulerInv'
<1> USE DEF SchedulerInv
<1>1. /\ turn = NoTurn /\ turn' = NoTurn /\ p # NoTurn /\ Leave(p) /\ lost' = lost + 1
      /\ UNCHANGED <<clock, jobs, job, history, fired, past, served, doubled>>
  BY CronAssumption DEF CancelCall, records
<1>2. Moves(p, [at |-> IF p \in Ticks THEN "idle" ELSE "done", now |-> call[p].now,
                todo |-> <<>>, job |-> NoTurn, slot |-> Never])
  BY CancelMoves DEF CancelCall
<1>3. /\ Moved(p) /\ call'[p].at = IF p \in Ticks THEN "idle" ELSE "done"
      /\ call'[p].now = call[p].now /\ call'[p].todo = <<>>
  BY <1>2 DEF Moves
<1>4. Firing(p) /\ ~Firing(p)' /\ Stands(p)'
  BY <1>3 DEF Firing, Stands, CancelCall
<1>5. call[p].now <= clock
  BY DEF SlotsInv
<1>6. Placed' = Placed \ {p} /\ SemsInv'
  BY <1>1, LeavePlaces
<1>7. BooksInv'
  BY <1>1 DEF BooksInv
<1>8. CallsInv' /\ PlacesInv'
  BY <1>1, <1>3, <1>4, <1>6, CallsMove, PlacesMove
<1>9. call'[p].at # "ticking"
  BY <1>3
<1>10. EntriesInv' /\ SlotsInv'
  BY <1>1, <1>3, <1>4, <1>5, <1>9, EntriesKept, SlotsMove
<1>11. TallyInv'
  <2>1. InFlight' = InFlight \ {p} /\ p \in InFlight
    BY <1>3, <1>4, FlightsMove
  <2>2. /\ Cardinality(InFlight) \in Nat /\ Cardinality(InFlight') = Cardinality(InFlight) - 1
        /\ Cardinality(InFlight') \in Nat
    <3>1. IsFiniteSet(InFlight \ {p})
      BY Flights, FS_Subset
    <3> QED
      BY <2>1, <3>1, Flights, FS_CardinalityType
  <2>3. Counts' = Counts
    BY <1>1 DEF Counts
  <2>4. Sum(Counts', Jobs) = Sum(Counts, Jobs)
    BY <2>3
  <2>5. fired \in Nat /\ lost \in Nat
    BY DEF BooksInv
  <2>6. fired' - lost' - Cardinality(InFlight') = fired - lost - Cardinality(InFlight)
    BY <1>1, <2>2, <2>5
  <2> QED
    BY <1>1, <2>2, <2>4, <2>5, <2>6, TallyMoves
<1> QED
  BY <1>6, <1>7, <1>8, <1>10, <1>11

LEMMA MinuteInv ==
  ASSUME SchedulerInv, Minute
  PROVE  SchedulerInv'
<1> USE DEF SchedulerInv
<1>1. /\ clock' = clock + 1
      /\ UNCHANGED <<schedulerVars, jobs, job, history, fired, call, turn,
                     lost, past, served, doubled>>
  BY DEF Minute, records, ghosts
<1>2. SemsInv' /\ CallsInv' /\ PlacesInv' /\ TallyInv'
  BY <1>1, SemsKept, CallsKept, PlacesKept, TallyKept
<1>3. BooksInv' /\ EntriesInv'
  BY <1>1, EntriesKept DEF BooksInv
<1>4. SlotsInv'
  <2>1. \A p \in Callers : call[p].now <= clock /\ call[p].now \in Nat
    BY CallParts DEF SlotsInv
  <2>2. \A j \in Jobs : served[j] <= clock /\ served[j] \in Nat
    BY DEF SlotsInv, BooksInv
  <2>3. \A j \in Jobs \ doubled : Advancing(j)'
    BY <1>1 DEF SlotsInv, Advancing, Ticking
  <2>4. clock \in Nat
    BY DEF BooksInv
  <2> QED
    BY <1>1, <2>1, <2>2, <2>3, <2>4 DEF SlotsInv
<1> QED
  BY <1>2, <1>3, <1>4

LEMMA RegistrationInv ==
  ASSUME SchedulerInv, Registration
  PROVE  SchedulerInv'
<1> USE DEF SchedulerInv
<1>1. /\ Register \/ Unregister
      /\ UNCHANGED <<clock, jobs, job, history, fired, call, turn,
                     lost, past, served, doubled>>
  BY DEF Registration, records, ghosts
<1>2. SemsInv' /\ Placed' = Placed
  BY <1>1, RegistrationPlaces
<1>3. CallsInv' /\ PlacesInv' /\ TallyInv' /\ SlotsInv'
  BY <1>1, <1>2, CallsKept, PlacesKept, TallyKept, SlotsKept
<1>4. BooksInv' /\ EntriesInv'
  BY <1>1, EntriesKept DEF BooksInv
<1> QED
  BY <1>2, <1>3, <1>4

LEMMA SchedulerStays ==
  ASSUME SchedulerInv, UNCHANGED cronVars
  PROVE  SchedulerInv'
<1> USE DEF SchedulerInv
<1>1. UNCHANGED <<schedulerVars, clock, jobs, job, history, fired, call, turn,
                  lost, past, served, doubled>>
  BY DEF cronVars, records, ghosts
<1>2. SemsInv' /\ CallsInv' /\ PlacesInv' /\ TallyInv' /\ SlotsInv'
  BY <1>1, SemsKept, CallsKept, PlacesKept, TallyKept, SlotsKept
<1>3. BooksInv' /\ EntriesInv'
  BY <1>1, EntriesKept DEF BooksInv
<1> QED
  BY <1>2, <1>3

\* What firing j does to everybody but the slots: the call is counted, and is
\* in a semaphore unless there is no agent, which it learns in this turn.
LEMMA FireKeeps ==
  ASSUME SchedulerInv, NEW p \in Callers, NEW j \in Jobs,
         NEW at \in {"ticking", "triggered"},
         ~Firing(p), turn \in {p, NoTurn}, Fire(p, j, at),
         at = "ticking" <=> p \in Ticks, at = "ticking" => call[p].todo # <<>>,
         doubled' \subseteq Jobs
  PROVE  /\ SemsInv' /\ BooksInv' /\ CallsInv' /\ PlacesInv' /\ EntriesInv' /\ TallyInv'
         /\ Moves(p, [at |-> at, now |-> call[p].now, todo |-> call[p].todo,
                      job |-> j, slot |-> job[j].next])
<1> USE DEF SchedulerInv
<1>1. /\ fired' = fired + 1
      /\ UNCHANGED <<clock, jobs, job, history, lost, past, served>>
  BY DEF Fire
<1>2. Moves(p, [at |-> at, now |-> call[p].now, todo |-> call[p].todo,
                job |-> j, slot |-> job[j].next])
  <2>1. PICK n \in Nat : n = job[j].next
    BY JobNumbers
  <2>2. call' = [call EXCEPT ![p] = [@ EXCEPT !.at = at, !.job = j, !.slot = n]]
    BY <2>1 DEF Fire
  <2>3. Moves(p, [at |-> at, now |-> call[p].now, todo |-> call[p].todo,
                  job |-> j, slot |-> n])
    BY <2>2, FireMoves
  <2> QED
    BY <2>1, <2>3
<1>3. /\ Moved(p) /\ call'[p].at = at /\ call'[p].job = j
      /\ call'[p].todo = call[p].todo
  BY <1>2 DEF Moves
<1>4. Firing(p)' /\ Stands(p)'
  BY <1>3 DEF Firing, Stands
<1>5. p \notin Placed /\ p # NoTurn
  BY CronAssumption DEF PlacesInv
<1>6. /\ SemsInv' /\ turn' \in {p, NoTurn}
      /\ Placed' \ {p} = Placed \ {p}
      /\ p \in Placed' <=> turn' # p
  <2>1. CASE agent = 0
    <3>1. turn' = p /\ UNCHANGED schedulerVars
      BY <2>1 DEF Fire
    <3> QED
      BY <3>1, <1>5, SemsKept
  <2>2. CASE agent # 0
    <3>1. turn' = NoTurn /\ Acquire(p)
      BY <2>2 DEF Fire
    <3>2. SemsInv' /\ Placed' = Placed \cup {p}
      BY <3>1, <1>5, AcquirePlaces
    <3> QED
      BY <3>1, <3>2, <1>5
  <2> QED
    BY <2>1, <2>2
<1>7. BooksInv'
  BY <1>1 DEF BooksInv
<1>8. CallsInv' /\ PlacesInv'
  BY <1>3, <1>4, <1>6, CallsMove, PlacesMove
<1>9. EntriesInv'
  BY <1>1, EntriesKept
<1>10. TallyInv'
  <2>1. InFlight' = InFlight \cup {p} /\ p \in Callers \ InFlight
    BY <1>3, <1>4, FlightsMove
  <2>2. /\ Cardinality(InFlight) \in Nat /\ Cardinality(InFlight') = Cardinality(InFlight) + 1
        /\ Cardinality(InFlight') \in Nat
    BY <2>1, Flights
  <2>3. Counts' = Counts
    BY <1>1 DEF Counts
  <2>4. Sum(Counts', Jobs) = Sum(Counts, Jobs)
    BY <2>3
  <2>5. fired \in Nat /\ lost \in Nat
    BY DEF BooksInv
  <2>6. fired' - lost' - Cardinality(InFlight') = fired - lost - Cardinality(InFlight)
    BY <1>1, <2>2, <2>5
  <2> QED
    BY <1>1, <2>2, <2>4, <2>5, <2>6, TallyMoves
<1> QED
  BY <1>2, <1>6, <1>7, <1>8, <1>9, <1>10

LEMMA TickFiresInv ==
  ASSUME SchedulerInv, NEW p \in Callers, TickFires(p)
  PROVE  /\ SchedulerInv'
         /\ call'[p].job \notin doubled' => call'[p].slot > served[call'[p].job]
<1> USE DEF SchedulerInv
<1>1. PICK j : j = Head(call[p].todo)
  OBVIOUS
<1>2. /\ turn = p /\ call[p].at = "sweeping" /\ call[p].todo # <<>>
      /\ Due(j, call[p].now) /\ Fire(p, j, "ticking")
      /\ doubled' = IF Ticking(j) = {} THEN doubled ELSE doubled \cup {j}
  BY <1>1 DEF TickFires
<1>3. j \in Jobs
  BY <1>1, <1>2, TodoParts
<1>4. p \in Ticks /\ ~Firing(p)
  BY <1>2 DEF CallsInv, Stands, Firing
<1>5. doubled' \subseteq Jobs
  BY <1>2, <1>3 DEF BooksInv
<1>6. /\ SemsInv' /\ BooksInv' /\ CallsInv' /\ PlacesInv' /\ EntriesInv' /\ TallyInv'
      /\ Moves(p, [at |-> "ticking", now |-> call[p].now, todo |-> call[p].todo,
                   job |-> j, slot |-> job[j].next])
  BY <1>2, <1>3, <1>4, <1>5, FireKeeps
<1>7. /\ Moved(p) /\ call'[p].at = "ticking" /\ call'[p].job = j
      /\ call'[p].slot = job[j].next /\ call'[p].now = call[p].now
  BY <1>6 DEF Moves
<1>8. UNCHANGED <<clock, job, served>>
  BY <1>2 DEF Fire
<1>9. job[j].next <= call[p].now /\ job[j].next # Never
  BY <1>2 DEF Due
<1>10. \A i \in Jobs : Ticking(i)' = IF i = j THEN Ticking(i) \cup {p} ELSE Ticking(i)
  <2>1. \A q \in Ticks \ {p} : call'[q] = call[q]
    BY <1>7, CronAssumption DEF Moved
  <2> QED
    BY <2>1, <1>2, <1>4, <1>7 DEF Ticking
<1>11. ASSUME NEW i \in Jobs \ doubled'  PROVE Advancing(i)'
  <2>1. i \in Jobs \ doubled /\ Advancing(i)
    BY <1>2, <1>11 DEF SlotsInv
  <2>2. CASE i # j
    <3>1. Ticking(i)' = Ticking(i) /\ p \notin Ticking(i)
      BY <2>2, <1>2, <1>10, <1>11 DEF Ticking
    <3>2. \A q \in Ticking(i) : call'[q] = call[q]
      BY <3>1, <1>7, CronAssumption DEF Ticking, Moved
    <3> QED
      BY <2>1, <3>1, <3>2, <1>8 DEF Advancing
  <2>3. CASE i = j
    <3>1. Ticking(j)' = {p}
      BY <2>3, <1>2, <1>3, <1>10, <1>11
    <3>2. job[j].next > served[j]
      BY <2>1, <2>3, <1>9 DEF Advancing
    <3> QED
      BY <2>1, <2>3, <3>1, <3>2, <1>7, <1>8 DEF Advancing
  <2> QED
    BY <2>2, <2>3
<1>12. SlotsInv'
  <2>1. \A q \in Callers : call'[q].now <= clock
    BY <1>7 DEF SlotsInv, Moved
  <2>2. \A q \in Ticks : call'[q].at = "ticking" => call'[q].slot <= call'[q].now
    BY <1>7, <1>9, CronAssumption DEF SlotsInv, Moved
  <2> QED
    BY <2>1, <2>2, <1>8, <1>11 DEF SlotsInv
<1>13. j \notin doubled' => call'[p].slot > served[j]
  <2>1. j \notin doubled' => j \in Jobs \ doubled
    BY <1>2, <1>3
  <2>2. j \notin doubled' => Advancing(j)
    BY <2>1 DEF SlotsInv
  <2> QED
    BY <2>2, <1>7, <1>9 DEF Advancing
<1> QED
  BY <1>6, <1>7, <1>12, <1>13

LEMMA TriggerInv ==
  ASSUME SchedulerInv, NEW p \in Callers, NEW id, Trigger(p, id)
  PROVE  SchedulerInv'
<1> USE DEF SchedulerInv
<1>1. /\ turn = NoTurn /\ p \notin Ticks /\ call[p].at = "idle"
      /\ UNCHANGED doubled
  BY DEF Trigger
<1>2. PICK i \in DOMAIN jobs : Fire(p, jobs[i], "triggered")
  BY DEF Trigger
<1>3. jobs[i] \in Jobs
  BY <1>2 DEF BooksInv
<1>4. ~Firing(p) /\ doubled' \subseteq Jobs
  BY <1>1 DEF Firing, BooksInv
<1>5. PICK j \in Jobs : j = jobs[i]
  BY <1>3
<1>6. Fire(p, j, "triggered")
  BY <1>2, <1>5
<1>7. /\ SemsInv' /\ BooksInv' /\ CallsInv' /\ PlacesInv' /\ EntriesInv' /\ TallyInv'
      /\ Moves(p, [at |-> "triggered", now |-> call[p].now, todo |-> call[p].todo,
                   job |-> j, slot |-> job[j].next])
  BY <1>1, <1>4, <1>6, FireKeeps
<1>8. Moved(p) /\ call'[p].at = "triggered" /\ call'[p].now = call[p].now
  BY <1>7 DEF Moves
<1>9. UNCHANGED <<clock, job, served, doubled>>
  BY <1>1, <1>6 DEF Fire
<1>10. SlotsInv'
  <2>1. call[p].now <= clock
    BY DEF SlotsInv
  <2> QED
    BY <2>1, <1>8, <1>9, SlotsMove
<1> QED
  BY <1>7, <1>10

\* A firing that ends: one more run or error of its job, one call fewer in
\* flight, one more entry of the history.
LEMMA SettleInv ==
  ASSUME SchedulerInv, NEW p \in Callers, NEW ok \in BOOLEAN, Firing(p), Settle(p, ok),
         turn \in {p, NoTurn}, SemsInv', Placed' = Placed \ {p}
  PROVE  SchedulerInv'
<1> USE DEF SchedulerInv
<1>1. PICK j \in Jobs : j = call[p].job
  BY DEF CallsInv, Stands
<1>2. /\ history' = [history EXCEPT ![j] = @ + 1]
      /\ UNCHANGED <<clock, jobs, fired, lost, past, doubled>>
  BY <1>1 DEF Settle
<1>3. p # NoTurn /\ Ticks \subseteq Callers
  BY CronAssumption
<1>4. /\ Moved(p) /\ ~Firing(p)' /\ Stands(p)' /\ call'[p].now = call[p].now
      /\ turn' \in {p, NoTurn}
      /\ turn' = p => call'[p].at = "sweeping"
      /\ call'[p].at # "ticking"
  <2>1. CASE p \in Ticks
    <3>1. call[p].todo # <<>> /\ turn' = p
      BY <2>1 DEF CallsInv, Stands, Firing, Settle
    <3>2. Moves(p, [at |-> "sweeping", now |-> call[p].now, todo |-> Tail(call[p].todo),
                    job |-> NoTurn, slot |-> Never])
      BY <2>1, <3>1, SettleTickMoves DEF Settle
    <3>3. /\ Moved(p) /\ call'[p].at = "sweeping" /\ call'[p].now = call[p].now
          /\ call'[p].todo = Tail(call[p].todo)
      BY <3>2 DEF Moves
    <3> QED
      BY <2>1, <3>1, <3>3 DEF Firing, Stands
  <2>2. CASE p \notin Ticks
    <3>1. turn' = NoTurn
      BY <2>2 DEF Settle
    <3>2. Moves(p, [at |-> "done", now |-> call[p].now, todo |-> call[p].todo,
                    job |-> NoTurn, slot |-> Never])
      BY <2>2, SettleTriggerMoves DEF Settle
    <3>3. /\ Moved(p) /\ call'[p].at = "done" /\ call'[p].now = call[p].now
          /\ call'[p].todo = call[p].todo
      BY <3>2 DEF Moves
    <3> QED
      BY <2>2, <1>3, <3>1, <3>3 DEF Firing, Stands
  <2> QED
    BY <2>1, <2>2
<1>5. CallsInv' /\ PlacesInv'
  BY <1>3, <1>4, CallsMove, PlacesMove
<1>6. PICK n \in Nat :
        /\ Settled(j, n)
        /\ p \in Ticks => /\ n > call[p].now
                          /\ served' = [served EXCEPT ![j] = call[p].slot]
        /\ p \notin Ticks => n = job[j].next /\ served' = served
  <2>1. CASE p \in Ticks
    <3>1. call[p].now \in Nat
      BY CallParts
    <3>2. PICK n \in Nat : n = NextRun(j, call[p].now) /\ n > call[p].now
      BY <3>1, NextRunIsLater
    <3>3. job' = [job EXCEPT ![j] = [Counted(@, ok) EXCEPT !.next = n]]
      BY <1>1, <2>1, <3>2 DEF Settle
    <3>4. Settled(j, n)
      BY <3>3, SettleTickBooks
    <3>5. served' = [served EXCEPT ![j] = call[p].slot]
      BY <1>1, <2>1 DEF Settle
    <3> QED
      BY <2>1, <3>2, <3>4, <3>5
  <2>2. CASE p \notin Ticks
    <3>1. job' = [job EXCEPT ![j] = Counted(@, ok)] /\ served' = served
      BY <1>1, <2>2 DEF Settle
    <3>2. Settled(j, job[j].next)
      BY <3>1, SettleTriggerBooks
    <3> QED
      BY <2>2, <3>1, <3>2, JobNumbers
  <2> QED
    BY <2>1, <2>2
<1>7. /\ job' \in [Jobs -> JobRecords] /\ \A i \in Jobs \ {j} : job'[i] = job[i]
      /\ job'[j].runs + job'[j].errors = job[j].runs + job[j].errors + 1
      /\ job'[j].next = n
  BY <1>6 DEF Settled
<1>8. BooksInv'
  <2>1. history' \in [Jobs -> Nat]
    BY <1>2 DEF BooksInv
  <2>2. served' \in [Jobs -> Nat]
    <3>1. call[p].slot \in Nat
      BY CallParts
    <3> QED
      BY <3>1, <1>6 DEF BooksInv
  <2> QED
    BY <1>2, <1>7, <2>1, <2>2 DEF BooksInv
<1>9. EntriesInv'
  <2>1. ASSUME NEW i \in Jobs  PROVE history'[i] + past[i] = job'[i].runs + job'[i].errors
    <3>1. history[i] + past[i] = job[i].runs + job[i].errors /\ past[i] \in Nat
      BY DEF EntriesInv, BooksInv
    <3>2. CASE i = j
      BY <1>2, <1>7, <3>1, <3>2, JobNumbers DEF BooksInv
    <3>3. CASE i # j
      BY <1>2, <1>7, <3>1, <3>3 DEF BooksInv
    <3> QED
      BY <3>2, <3>3
  <2> QED
    BY <1>2, <2>1 DEF EntriesInv
<1>10. TallyInv'
  <2>1. InFlight' = InFlight \ {p} /\ p \in InFlight
    BY <1>4, FlightsMove
  <2>2. /\ Cardinality(InFlight) \in Nat /\ Cardinality(InFlight') = Cardinality(InFlight) - 1
        /\ Cardinality(InFlight') \in Nat
    <3>1. IsFiniteSet(InFlight \ {p})
      BY Flights, FS_Subset
    <3> QED
      BY <2>1, <3>1, Flights, FS_CardinalityType
  <2>3. Sum(Counts', Jobs) = Sum(Counts, Jobs) + 1
    BY <1>6, CountsSettle
  <2>4. fired \in Nat /\ lost \in Nat
    BY DEF BooksInv
  <2>5. Cardinality(InFlight') + 1 = Cardinality(InFlight)
    BY <2>2
  <2> QED
    BY <1>2, <2>2, <2>3, <2>4, <2>5, TallyMoves
<1>11. SlotsInv'
  <2>1. \A q \in Callers : call'[q].now <= clock
    BY <1>4 DEF SlotsInv, Moved
  <2>2. \A q \in Ticks : call'[q].at = "ticking" => call'[q].slot <= call'[q].now
    BY <1>3, <1>4 DEF SlotsInv, Moved
  <2>3. p \in Ticks => p \in Ticking(j) /\ call[p].slot <= call[p].now
    BY <1>1 DEF Ticking, Firing, CallsInv, Stands, SlotsInv
  <2>4. call[p].now <= clock /\ call[p].now \in Nat /\ call[p].slot \in Nat /\ clock \in Nat
    BY CallParts DEF SlotsInv, BooksInv
  <2>5. \A i \in Jobs : served'[i] <= clock
    <3>1. \A i \in Jobs : served[i] <= clock
      BY DEF SlotsInv
    <3>2. p \in Ticks => call[p].slot <= clock
      BY <2>3, <2>4
    <3> QED
      BY <3>1, <3>2, <1>6 DEF BooksInv
  <2>6. \A i \in Jobs : Ticking(i)' = Ticking(i) \ {p}
    BY <1>3, <1>4 DEF Ticking, Moved
  <2>7. \A q \in Ticks \ {p} : call'[q] = call[q]
    BY <1>3, <1>4 DEF Moved
  <2>8. ASSUME NEW i \in Jobs \ doubled  PROVE Advancing(i)'
    <3>1. Advancing(i)
      BY DEF SlotsInv
    <3>2. CASE i = j /\ p \in Ticks
      <4>1. Ticking(j)' = {}
        BY <2>3, <2>6, <3>1, <3>2 DEF Advancing
      <4>2. served'[j] = call[p].slot
        BY <1>6, <3>2 DEF BooksInv
      <4>3. n > served'[j]
        BY <1>6, <2>3, <2>4, <3>2, <4>2
      <4> QED
        BY <1>7, <3>2, <4>1, <4>3 DEF Advancing
    <3>3. CASE ~(i = j /\ p \in Ticks)
      <4>1. served'[i] = served[i] /\ job'[i].next = job[i].next
        BY <1>6, <1>7, <3>3 DEF BooksInv
      <4>2. Ticking(i)' = Ticking(i) /\ p \notin Ticking(i)
        <5>1. p \notin Ticking(i)
          BY <1>1, <3>3 DEF Ticking
        <5> QED
          BY <5>1, <2>6
      <4>3. \A q \in Ticking(i) : call'[q] = call[q]
        BY <2>7, <4>2 DEF Ticking
      <4> QED
        BY <3>1, <4>1, <4>2, <4>3 DEF Advancing
    <3> QED
      BY <3>2, <3>3
  <2> QED
    BY <1>2, <2>1, <2>2, <2>5, <2>8 DEF SlotsInv
<1> QED
  BY <1>5, <1>8, <1>9, <1>10, <1>11

LEMMA EndsInv ==
  ASSUME SchedulerInv, NEW p \in Callers, Ends(p)
  PROVE  SchedulerInv'
<1>1. SemsInv /\ turn = NoTurn /\ Holds(p) /\ Leave(p)
      /\ (Settle(p, TRUE) \/ Settle(p, FALSE))
  BY DEF SchedulerInv, Ends, Returns, Raises
<1>2. Firing(p)
  BY <1>1, PlacedIs DEF SchedulerInv, PlacesInv
<1>3. SemsInv' /\ Placed' = Placed \ {p}
  BY <1>1, LeavePlaces
<1> QED
  BY <1>1, <1>2, <1>3, SettleInv

LEMMA AgentMissingInv ==
  ASSUME SchedulerInv, NEW p \in Callers, AgentMissing(p)
  PROVE  SchedulerInv'
<1>1. turn = p /\ Firing(p) /\ Settle(p, FALSE) /\ UNCHANGED schedulerVars
  BY DEF AgentMissing
<1>2. SemsInv' /\ Placed' = Placed /\ p \notin Placed
  BY <1>1, SemsKept DEF SchedulerInv, PlacesInv
<1>3. Placed' = Placed \ {p}
  BY <1>2
<1> QED
  BY <1>1, <1>2, <1>3, SettleInv

-----------------------------------------------------------------------------
(* The theorems about CronScheduler.                                       *)

LEMMA CronInitInv == CronInit => SchedulerInv
<1> SUFFICES ASSUME CronInit  PROVE SchedulerInv
  OBVIOUS
<1> USE DEF CronInit
<1>1. SemsInv /\ Placed = {}
  BY SlotsAtFirst
<1>2. <<>> \in Seq(Jobs) /\ DOMAIN <<>> = {}
  OBVIOUS
<1>3. BooksInv
  BY <1>2 DEF BooksInv, JobRecords, Never
<1>4. CallsInv /\ InFlight = {}
  BY <1>2, CronAssumption
     DEF CallsInv, CallRecords, Stands, Firing, InFlight, AtRest, Never
<1>5. PlacesInv
  BY <1>1, <1>4 DEF PlacesInv, InFlight
<1>6. EntriesInv
  BY DEF EntriesInv
<1>7. TallyInv
  <2>1. \A j \in Jobs : Counts[j] = 0
    BY DEF Counts
  <2>2. Pairs(Counts, Jobs) = {}
    BY <2>1 DEF Pairs
  <2>3. Sum(Counts, Jobs) = 0 /\ Cardinality(InFlight) = 0
    BY <1>4, <2>2, FS_EmptySet DEF Sum
  <2> QED
    BY <2>3 DEF TallyInv
<1>8. SlotsInv
  BY CronAssumption DEF SlotsInv, Advancing, Ticking, AtRest, Never
<1> QED
  BY <1>1, <1>3, <1>4, <1>5, <1>6, <1>7, <1>8 DEF SchedulerInv

LEMMA CronStep == SchedulerInv /\ [CronNext]_cronVars => SchedulerInv'
<1> SUFFICES ASSUME SchedulerInv, [CronNext]_cronVars  PROVE SchedulerInv'
  OBVIOUS
<1>1. CASE \E j \in Jobs : AddJob(j) \/ RemoveJob(j) \/ PauseJob(j) \/ ResumeJob(j)
  BY <1>1, AddJobInv, RemoveJobInv, PauseResumeInv
<1>2. CASE \E p \in Callers : Tick(p) \/ Sweep(p) \/ Ends(p) \/ CancelCall(p)
  BY <1>2, TickInv, NotDueInv, TickFiresInv, EndTickInv, AgentMissingInv, EndsInv,
     CancelCallInv DEF Sweep
<1>3. CASE \E p \in Callers, j \in Jobs : Trigger(p, TriggerOf[j])
  BY <1>3, TriggerInv
<1>4. CASE Minute \/ Registration
  BY <1>4, MinuteInv, RegistrationInv
<1>5. CASE UNCHANGED cronVars
  BY <1>5, SchedulerStays
<1> QED
  BY <1>1, <1>2, <1>3, <1>4, <1>5 DEF CronNext

LEMMA SchedulerInvariance == CronSpec => []SchedulerInv
BY CronInitInv, CronStep, PTL DEF CronSpec

LEMMA BooksToStats ==
  ASSUME SchedulerInv
  PROVE  CountersAgree
<1> USE DEF SchedulerInv
<1>1. Counts \in [Jobs -> Nat] /\ Total(Counts) = Sum(Counts, Jobs)
  BY CountsType, TotalIsSum
<1>2. fired = Total([j \in Jobs |-> job[j].runs + job[j].errors])
              + Cardinality({p \in Callers : Firing(p)}) + lost
  BY <1>1 DEF TallyInv, Counts, InFlight
<1>3. /\ ToSet(jobs) \subseteq Jobs
      /\ \A m, n \in DOMAIN jobs : IdOf[jobs[m]] = IdOf[jobs[n]] => m = n
  BY DEF BooksInv, ToSet
<1>4. \A j \in Jobs : history[j] + past[j] = job[j].runs + job[j].errors
  BY DEF EntriesInv
<1>5. turn # NoTurn => Firing(turn) \/ call[turn].at = "sweeping"
  BY DEF CallsInv
<1>6. \A p \in Callers \ {turn} : Firing(p) <=> (Holds(p) \/ Queues(p))
  BY PlacedIs DEF PlacesInv
<1>7. \A g \in DOMAIN sems : Cardinality(sems[g].holders) <= MaxConcurrent
  BY DEF SemsInv, GoodSem
<1> QED
  BY <1>2, <1>3, <1>4, <1>5, <1>6, <1>7 DEF CountersAgree

(* The counters of get_stats agree with the firings there were, the history  *)
(* of an id with those since it was last added or removed, and a firing in   *)
(* flight has one place with the agent, however jobs are fired, added again, *)
(* replaced, edited, triggered and cancelled and the agent registered anew.  *)
THEOREM StatsAreTrue == CronSpec => []CountersAgree
<1>1. SchedulerInv => CountersAgree
  BY BooksToStats
<1> QED
  BY <1>1, SchedulerInvariance, PTL

(* check_and_fire fires a job once for a slot, unless two ticks were firing *)
(* that job at once.                                                        *)
THEOREM SlotsOnce == CronSpec => SlotsAdvance
<1> DEFINE Advance ==
      \A p \in Ticks : call[p].at = "sweeping" /\ call'[p].at = "ticking" =>
        LET j == call'[p].job IN
          j \notin doubled' => call'[p].slot > served[j]
<1>1. ASSUME SchedulerInv, CronNext  PROVE Advance
  <2> SUFFICES ASSUME NEW p \in Ticks, call[p].at = "sweeping", call'[p].at = "ticking"
               PROVE  call'[p].job \notin doubled' => call'[p].slot > served[call'[p].job]
    OBVIOUS
  <2>1. p \in Callers /\ turn = p /\ turn # NoTurn
    BY <1>1, CronAssumption DEF SchedulerInv, CallsInv, Stands
  <2>2. call' # call
    OBVIOUS
  <2>3. \E q \in Callers : Sweep(q)
    BY <1>1, <2>1, <2>2 DEF CronNext, AddJob, RemoveJob, PauseJob, ResumeJob, Edit, Tick,
       Ends, Returns, Raises, CancelCall, Trigger, Minute, Registration
  <2>4. Sweep(p)
    BY <2>1, <2>3 DEF Sweep, NotDue, TickFires, EndTick, AgentMissing
  <2>5. TickFires(p)
    <3>1. ~NotDue(p)
      <4>1. NotDue(p) => call'[p].at = call[p].at
        BY <1>1, <2>1, NotDueMoves DEF NotDue, Moves, Paused, SchedulerInv
      <4> QED
        BY <4>1
    <3>2. ~EndTick(p)
      <4>1. EndTick(p) => call'[p].at = "idle"
        BY <1>1, <2>1, EndTickMoves DEF EndTick, Moves, Paused, SchedulerInv
      <4> QED
        BY <4>1
    <3>3. ~AgentMissing(p)
      BY DEF AgentMissing, Firing
    <3> QED
      BY <2>4, <3>1, <3>2, <3>3 DEF Sweep
  <2> QED
    BY <1>1, <2>1, <2>5, TickFiresInv
<1>2. ASSUME SchedulerInv, [CronNext]_cronVars  PROVE [Advance]_cronVars
  BY <1>1, <1>2
<1>3. SlotsAdvance <=> [][Advance]_cronVars
  BY DEF SlotsAdvance
<1> HIDE DEF Advance
<1> QED
  BY <1>2, <1>3, SchedulerInvariance, PTL DEF CronSpec
=============================================================================
