--------------------------- MODULE WorkflowProofs ---------------------------
(***************************************************************************)
(* Theorems about Workflow, for any acyclic graph of nodes, any number of  *)
(* runners and retries, and any bounds on faults, crashes and pauses.      *)
(***************************************************************************)
EXTENDS Workflow, FiniteSetTheorems, WellFoundedInduction, TLAPS

-----------------------------------------------------------------------------
(* The waves.  Before is a recursive function: that it exists, and what it *)
(* is, is shown from the least number for which it would not be so.        *)

\* A set of numbers has a least element.
LEMMA LeastNumber ==
  ASSUME NEW S \in SUBSET Nat, S # {}
  PROVE  \E m \in S : \A k \in S : m <= k
<1> DEFINE R == OpToRel(<, Nat)
<1>1. IsWellFoundedOn(R, Nat)
  BY NatLessThanWellFounded
<1>2. PICK m \in S : \A k \in S : ~(<<k, m>> \in R)
  <2> HIDE DEF R
  <2> QED
    BY <1>1, WFMin, Zenon
<1>3. \A k \in S : <<k, m>> \in R <=> k < m
  BY DEF OpToRel
<1>4. \A k \in S : ~(k < m)
  <2> HIDE DEF R
  <2> QED
    BY <1>2, <1>3, Zenon
<1>5. \A k \in S : m <= k
  <2> TAKE k \in S
  <2>1. k \in Nat /\ m \in Nat /\ ~(k < m)
    BY <1>4
  <2> QED
    BY <2>1
<1> QED
  BY <1>5, Zenon

LEMMA MinIsLeast ==
  ASSUME NEW S \in SUBSET Nat, S # {}
  PROVE  Min(S) \in S /\ \A k \in S : Min(S) <= k
<1>1. \E m \in S : \A k \in S : m <= k
  BY LeastNumber
<1> QED
  BY <1>1 DEF Min

\* One more wave.
More(B) == B \cup {n \in Nodes : Ready(n, B)}

\* The waves of topological_sort, up to the k-th.
UpTo(g, k) == g = [i \in 0 .. k |-> IF i = 0 THEN {} ELSE More(g[i - 1])]

LEMMA UpToExists == \A k \in Nat : \E g : UpTo(g, k)
<1> DEFINE Bad == {k \in Nat : ~\E g : UpTo(g, k)}
<1> SUFFICES ASSUME Bad # {}  PROVE FALSE
  OBVIOUS
<1>1. PICK k \in Bad : \A j \in Bad : k <= j
  <2>1. Bad \in SUBSET Nat
    OBVIOUS
  <2> HIDE DEF Bad
  <2> QED
    BY <2>1, LeastNumber
<1>2. CASE k = 0
  <2> DEFINE h == [i \in 0 .. k |-> {}]
  <2>1. UpTo(h, k)
    BY <1>2 DEF UpTo
  <2> QED
    BY <1>1, <2>1
<1>3. CASE k # 0
  <2>1. k - 1 \in Nat /\ k - 1 \notin Bad
    BY <1>1, <1>3
  <2>2. PICK g : UpTo(g, k - 1)
    BY <2>1
  <2> DEFINE h == [i \in 0 .. k |-> IF i = k THEN More(g[k - 1]) ELSE g[i]]
  <2>3. ASSUME NEW i \in 0 .. k
        PROVE  h[i] = IF i = 0 THEN {} ELSE More(h[i - 1])
    <3>1. CASE i = k
      <4>1. h[i - 1] = g[k - 1]
        BY <3>1, <1>3, <1>1
      <4> QED
        BY <4>1, <3>1, <1>3
    <3>2. CASE i # k
      <4>1. i \in 0 .. k - 1 /\ h[i] = g[i]
        BY <3>2, <1>1
      <4>2. g[i] = IF i = 0 THEN {} ELSE More(g[i - 1])
        BY <2>2, <4>1, Zenon DEF UpTo
      <4>3. i # 0 => h[i - 1] = g[i - 1]
        BY <3>2, <1>1
      <4> QED
        BY <4>1, <4>2, <4>3
    <3> QED
      BY <3>1, <3>2
  <2>4. UpTo(h, k)
    BY <2>3, Zenon DEF UpTo
  <2> QED
    BY <1>1, <2>4
<1> QED
  BY <1>2, <1>3

LEMMA UpToUnique ==
  ASSUME NEW k \in Nat, NEW l \in Nat, NEW g, NEW h, UpTo(g, k), UpTo(h, l),
         NEW i \in Nat, i <= k, i <= l
  PROVE  g[i] = h[i]
<1> DEFINE Bad == {j \in Nat : j <= k /\ j <= l /\ g[j] # h[j]}
<1> SUFFICES ASSUME Bad # {}  PROVE FALSE
  OBVIOUS
<1>1. PICK j \in Bad : \A m \in Bad : j <= m
  <2>1. Bad \in SUBSET Nat
    OBVIOUS
  <2> HIDE DEF Bad
  <2> QED
    BY <2>1, LeastNumber
<1>2. j \in 0 .. k /\ j \in 0 .. l
  BY <1>1
<1>3. /\ g[j] = IF j = 0 THEN {} ELSE More(g[j - 1])
      /\ h[j] = IF j = 0 THEN {} ELSE More(h[j - 1])
  BY <1>2, Zenon DEF UpTo
<1>4. j # 0 => g[j - 1] = h[j - 1]
  BY <1>1
<1> QED
  BY <1>1, <1>3, <1>4

LEMMA BeforeUnfolds ==
  Before = [i \in Nat |-> IF i = 0 THEN {} ELSE More(Before[i - 1])]
<1> DEFINE G == [i \in Nat |-> (CHOOSE g : UpTo(g, i))[i]]
<1>1. ASSUME NEW i \in Nat
      PROVE  G[i] = IF i = 0 THEN {} ELSE More(G[i - 1])
  <2> DEFINE g == CHOOSE g : UpTo(g, i)
             h == CHOOSE h : UpTo(h, i - 1)
  <2>1. UpTo(g, i)
    BY UpToExists, Zenon
  <2>2. g[i] = IF i = 0 THEN {} ELSE More(g[i - 1])
    <3>1. i \in 0 .. i
      OBVIOUS
    <3> HIDE DEF g
    <3> QED
      BY <2>1, <3>1, Zenon DEF UpTo
  <2>3. i # 0 => g[i - 1] = h[i - 1]
    <3> SUFFICES ASSUME i # 0  PROVE g[i - 1] = h[i - 1]
      OBVIOUS
    <3>1. i - 1 \in Nat /\ i - 1 <= i /\ i - 1 <= i - 1
      OBVIOUS
    <3>2. UpTo(h, i - 1)
      BY <3>1, UpToExists, Zenon
    <3> HIDE DEF g, h
    <3> QED
      BY <2>1, <3>1, <3>2, UpToUnique
  <2>4. G[i] = g[i] /\ (i # 0 => G[i - 1] = h[i - 1])
    OBVIOUS
  <2> HIDE DEF g, h, G
  <2> QED
    BY <2>2, <2>3, <2>4
<1> HIDE DEF G
<1>2. G = [i \in Nat |-> IF i = 0 THEN {} ELSE More(G[i - 1])]
  <2>1. G = [i \in Nat |-> G[i]]
    BY DEF G
  <2> QED
    BY <1>1, <2>1
<1> DEFINE F(f) == [i \in Nat |-> IF i = 0 THEN {}
                                  ELSE f[i - 1] \cup {n \in Nodes : Ready(n, f[i - 1])}]
<1>3. G = F(G)
  BY <1>2 DEF More
<1>4. Before = CHOOSE f : f = F(f)
  BY DEF Before
<1>5. Before = F(Before)
  <2> HIDE DEF F
  <2> QED
    BY <1>3, <1>4
<1> QED
  BY <1>5 DEF More

LEMMA BeforeSteps ==
  /\ Before[0] = {}
  /\ \A i \in Nat : Before[i + 1] = More(Before[i])
  /\ \A i \in Nat : Before[i] \subseteq Nodes
<1>1. Before[0] = {}
  BY BeforeUnfolds
<1>2. \A i \in Nat : Before[i + 1] = More(Before[i])
  <2> TAKE i \in Nat
  <2>1. i + 1 \in Nat /\ i + 1 # 0 /\ (i + 1) - 1 = i
    OBVIOUS
  <2> QED
    BY <2>1, BeforeUnfolds
<1>3. \A i \in Nat : Before[i] \subseteq Nodes
  <2> DEFINE Bad == {i \in Nat : ~(Before[i] \subseteq Nodes)}
  <2> SUFFICES ASSUME Bad # {}  PROVE FALSE
    OBVIOUS
  <2>1. PICK i \in Bad : \A j \in Bad : i <= j
    <3>1. Bad \in SUBSET Nat
      OBVIOUS
    <3> HIDE DEF Bad
    <3> QED
      BY <3>1, LeastNumber
  <2>2. i # 0
    BY <1>1, <2>1
  <2>3. i - 1 \in Nat /\ i - 1 \notin Bad /\ (i - 1) + 1 = i
    BY <2>1, <2>2
  <2>4. Before[i] = More(Before[i - 1])
    BY <1>2, <2>3
  <2> QED
    BY <2>1, <2>3, <2>4 DEF More
<1> QED
  BY <1>1, <1>2, <1>3

\* A node that is in the first k waves and not in the first i is in one between.
LEMMA InSomeWave ==
  ASSUME NEW i \in Nat, NEW k \in Nat, NEW n \in Before[k] \ Before[i], i <= k
  PROVE  \E j \in i .. k - 1 : n \in Wave(j)
<1> DEFINE S == {j \in Nat : i <= j /\ n \in Before[j]}
<1>1. k \in S /\ S \in SUBSET Nat
  OBVIOUS
<1>2. PICK m \in S : \A j \in S : m <= j
  <2> HIDE DEF S
  <2> QED
    BY <1>1, LeastNumber
<1>3. m \in Nat /\ i < m /\ m <= k
  BY <1>1, <1>2
<1>4. m - 1 \in i .. k - 1 /\ m - 1 \in Nat /\ (m - 1) + 1 = m /\ n \notin Before[m - 1]
  BY <1>2, <1>3
<1>5. n \in Wave(m - 1)
  BY <1>2, <1>4 DEF Wave
<1> QED
  BY <1>4, <1>5

\* What the nodes of a wave depend on is in the waves before.
LEMMA WaveDeps ==
  ASSUME NEW i \in Nat, NEW n \in Wave(i)
  PROVE  n \in Nodes /\ Deps[n] \subseteq Before[i]
  BY BeforeSteps DEF Wave, More, Ready

\* Without a cycle each wave holds a node, until they hold them all.
LEMMA WavesGrow ==
  ASSUME NEW i \in Nat, Before[i] # Nodes
  PROVE  Wave(i) # {}
<1> DEFINE S == Nodes \ Before[i]
<1>1. S \in SUBSET Nodes /\ S # {}
  BY BeforeSteps
<1>2. PICK n \in S : Deps[n] \cap S = {}
  BY <1>1, WorkflowAssumption
<1>3. Deps[n] \subseteq Before[i]
  BY <1>2, WorkflowAssumption
<1> QED
  BY <1>2, <1>3, BeforeSteps DEF Wave, More, Ready

LEMMA BeforeCounts ==
  ASSUME NEW k \in Nat, \A j \in 0 .. k : Before[j] # Nodes
  PROVE  Cardinality(Before[k]) >= k
<1> DEFINE Bad == {i \in Nat : i <= k /\ ~(Cardinality(Before[i]) >= i)}
<1> SUFFICES ASSUME Bad # {}  PROVE FALSE
  OBVIOUS
<1>1. \A i \in Nat : IsFiniteSet(Before[i]) /\ Cardinality(Before[i]) \in Nat
  BY BeforeSteps, WorkflowAssumption, FS_Subset, FS_CardinalityType
<1>2. PICK i \in Bad : \A j \in Bad : i <= j
  <2>1. Bad \in SUBSET Nat
    OBVIOUS
  <2> HIDE DEF Bad
  <2> QED
    BY <2>1, LeastNumber
<1>3. i # 0
  BY <1>1, <1>2
<1> DEFINE h == i - 1
<1>4. h \in Nat /\ h \in 0 .. k /\ h + 1 = i /\ Cardinality(Before[h]) >= h
  BY <1>1, <1>2, <1>3
<1> HIDE DEF h
<1>5. Wave(h) # {}
  BY <1>4, WavesGrow
<1>6. Before[h] \subseteq Before[i] /\ Before[h] # Before[i]
  BY <1>4, <1>5, BeforeSteps DEF Wave, More
<1>7. Cardinality(Before[h]) < Cardinality(Before[i])
  BY <1>1, <1>4, <1>6, <1>2, FS_Subset
<1> QED
  BY <1>1, <1>2, <1>4, <1>7

\* The waves of an acyclic graph hold every node.
LEMMA WavesHoldAll ==
  Waves \in Nat /\ Before[Waves] = Nodes
<1> DEFINE N == Cardinality(Nodes)
           Full == {i \in Nat : Before[i] = Nodes}
<1>1. IsFiniteSet(Nodes) /\ N \in Nat
  BY WorkflowAssumption, FS_CardinalityType
<1>2. PICK k \in 0 .. N : Before[k] = Nodes
  <2> SUFFICES ASSUME \A j \in 0 .. N : Before[j] # Nodes  PROVE FALSE
    OBVIOUS
  <2>1. Cardinality(Before[N]) >= N
    BY <1>1, BeforeCounts
  <2>2. Before[N] \subseteq Nodes /\ Before[N] # Nodes
    BY <1>1, BeforeSteps
  <2>3. Cardinality(Before[N]) < N /\ Cardinality(Before[N]) \in Nat
    BY <1>1, <2>2, FS_Subset, FS_CardinalityType
  <2> QED
    BY <1>1, <2>1, <2>3
<1>3. PICK m \in Full : \A j \in Full : m <= j
  <2>1. Full \in SUBSET Nat /\ Full # {}
    BY <1>1, <1>2
  <2> HIDE DEF Full
  <2> QED
    BY <2>1, LeastNumber
<1>4. m \in 0 .. N /\ Before[m] = Nodes /\ \A j \in 0 .. m - 1 : Before[j] # Nodes
  BY <1>1, <1>2, <1>3
<1> QED
  BY <1>1, <1>4 DEF Waves

-----------------------------------------------------------------------------
(* The invariant.                                                          *)

Through == {"ok", "failed"}

\* A runner that works on a wave, or is about to, has settled the waves before.
PrefixSettled(x) ==
  pc[x] \in {"gather", "paused"} =>
    /\ wave[x] < Waves
    /\ \A d \in Before[wave[x]] : results[x][d] \in Settled(x)

\* The gather of a runner: coroutines only of the nodes of its wave, none of a
\* node that has succeeded, and a result for each node that is processed.
GatherInWave(x) ==
  pc[x] = "gather" =>
    /\ \A n \in Nodes : work[x][n] # "off" => n \in Wave(wave[x])
    /\ \A n \in todo[x] : work[x][n] # "off" /\ results[x][n] # "ok"
    /\ \A n \in Wave(wave[x]) \ todo[x] :
         /\ work[x][n] \in {"off", "ok", "failed"}
         /\ results[x][n] = IF work[x][n] = "off" THEN "ok" ELSE work[x][n]

\* Coroutines run only under a gather.
NoStrayWork(x) ==
  pc[x] # "gather" => \A n \in Nodes : work[x][n] \notin {"queued", "running"}

\* What a runner concludes.
Conclusion(x) ==
  /\ pc[x] = "final" => status[x] \in {"killed", "failed", "completed"}
  /\ pc[x] = "final" /\ status[x] = "failed" =>
       wave[x] < Waves /\ \A d \in Before[wave[x] + 1] : results[x][d] \in Through
  /\ status[x] = "completed" =>
       pc[x] \in {"final", "done"} /\ \A n \in Nodes : results[x][n] \in Settled(x)

\* The row: the waves before the stored one are through.
RowSettled == \A d \in Before[row.wave] : row.results[d] \in Through

RunnerInv(x) ==
  PrefixSettled(x) /\ GatherInWave(x) /\ NoStrayWork(x) /\ Conclusion(x)

Inv ==
  /\ TypeOK
  /\ RowSettled
  /\ \A x \in Runners : RunnerInv(x)


-----------------------------------------------------------------------------
(* How a runner moves to a wave.                                           *)

PCs == {"idle", "create", "paused", "gather", "final", "done"}
Statuses == {"pending", "running", "paused", "failed", "completed", "killed", "lost"}
Works == {"off", "queued", "running", "ok", "failed", "killed"}

\* What a step of the loop leaves to the other runners.
LoopOf(x) ==
  /\ pc' \in [Runners -> PCs] /\ wave' \in [Runners -> 0 .. Waves]
  /\ status' \in [Runners -> Statuses]
  /\ work' \in [Runners -> [Nodes -> Works]]
  /\ tries' \in [Runners -> [Nodes -> 0 .. Retries + 1]]
  /\ todo' \in [Runners -> SUBSET Nodes]
  /\ \A y \in Runners \ {x} :
       /\ pc'[y] = pc[y] /\ wave'[y] = wave[y] /\ status'[y] = status[y]
       /\ work'[y] = work[y] /\ todo'[y] = todo[y]

Unworked(x) == \A n \in Nodes : work[x][n] \notin {"queued", "running"}

LEMMA LaunchLeads ==
  ASSUME TypeOK, NEW x \in Runners, NEW i \in 0 .. Waves, i < Waves, NEW res \in ResultMap,
         Launch(x, i, res), wave' \in [Runners -> 0 .. Waves], wave'[x] = i,
         \A y \in Runners \ {x} : wave'[y] = wave[y],
         results'[x] = res, \A d \in Before[i] : res[d] \in Settled(x)
  PROVE  LoopOf(x) /\ RunnerInv(x)'
<1>1. Waves \in Nat /\ i \in Nat /\ Pending(i, res) \subseteq Wave(i) /\ Wave(i) \subseteq Nodes
  BY WavesHoldAll, BeforeSteps DEF Pending, Wave
<1>2. /\ pc'[x] = "gather" /\ status'[x] = "running" /\ todo'[x] = Pending(i, res)
      /\ \A n \in Nodes : work'[x][n] = IF n \in Pending(i, res) THEN "queued" ELSE "off"
  BY DEF TypeOK, Launch
<1>3. pc' \in [Runners -> PCs] /\ status' \in [Runners -> Statuses]
  BY DEF TypeOK, Launch, PCs, Statuses
<1>4. work' \in [Runners -> [Nodes -> Works]]
  <2>1. [n \in Nodes |-> IF n \in Pending(i, res) THEN "queued" ELSE "off"] \in [Nodes -> Works]
    BY DEF Works
  <2> QED
    BY <2>1 DEF TypeOK, Launch, Works
<1>5. tries' \in [Runners -> [Nodes -> 0 .. Retries + 1]]
  <2>1. Untried \in [Nodes -> 0 .. Retries + 1]
    BY WorkflowAssumption DEF Untried
  <2> QED
    BY <2>1 DEF TypeOK, Launch
<1>6. todo' \in [Runners -> SUBSET Nodes]
  BY <1>1 DEF TypeOK, Launch
<1>7. LoopOf(x)
  BY <1>3, <1>4, <1>5, <1>6 DEF LoopOf, TypeOK, Launch
<1>8. PrefixSettled(x)'
  BY <1>1 DEF PrefixSettled, Settled
<1>9. GatherInWave(x)'
  BY <1>1, <1>2 DEF GatherInWave, Pending, ResultMap
<1> QED
  BY <1>2, <1>7, <1>8, <1>9 DEF RunnerInv, NoStrayWork, Conclusion

LEMMA ConcludeLeads ==
  ASSUME TypeOK, NEW x \in Runners, NEW final \in {"killed", "failed", "completed"},
         Conclude(x, final), UNCHANGED <<work, tries, todo>>, Unworked(x),
         wave' \in [Runners -> 0 .. Waves], \A y \in Runners \ {x} : wave'[y] = wave[y],
         final = "failed" =>
           wave'[x] < Waves /\ \A d \in Before[wave'[x] + 1] : results'[x][d] \in Through,
         final = "completed" => \A n \in Nodes : results'[x][n] \in Settled(x)
  PROVE  LoopOf(x) /\ RunnerInv(x)'
<1>1. pc'[x] = "final" /\ status'[x] = final
  BY DEF TypeOK, Conclude
<1>2. LoopOf(x)
  BY DEF LoopOf, TypeOK, Conclude, PCs, Statuses, Works
<1>3. Conclusion(x)'
  BY <1>1 DEF Conclusion, Settled
<1> QED
  BY <1>1, <1>2, <1>3 DEF RunnerInv, PrefixSettled, GatherInWave, NoStrayWork, Unworked

LEMMA HeadLeads ==
  ASSUME TypeOK, NEW x \in Runners, NEW i \in 0 .. Waves, NEW res \in ResultMap,
         Head(x, i, res), Unworked(x), results'[x] = res,
         \A d \in Before[i] : res[d] \in Settled(x)
  PROVE  LoopOf(x) /\ RunnerInv(x)'
<1> DEFINE ahead == {j \in i .. Waves - 1 : Pending(j, res) # {}}
           next == Min(ahead)
<1>1. Waves \in Nat /\ Before[Waves] = Nodes /\ i \in Nat /\ i <= Waves
  BY WavesHoldAll
<1>2. ahead \in SUBSET Nat
  BY <1>1
<1>3. ASSUME NEW k \in i .. Waves, \A j \in i .. k - 1 : j \notin ahead, NEW n \in Before[k]
      PROVE  res[n] \in Settled(x)
  <2>1. CASE n \in Before[i]
    BY <2>1
  <2>2. CASE n \notin Before[i]
    <3>1. PICK j \in i .. k - 1 : n \in Wave(j)
      <4>1. k \in Nat /\ i <= k
        BY <1>1
      <4> QED
        BY <1>1, <2>2, <4>1, InSomeWave
    <3>2. j \in i .. Waves - 1 /\ Pending(j, res) = {}
      BY <1>1, <1>3, <3>1
    <3>3. n \in Nodes
      BY <1>1, <3>1, WaveDeps
    <3> QED
      BY <3>1, <3>2, <3>3 DEF Pending, Settled
  <2> QED
    BY <2>1, <2>2
<1>4. CASE i < Waves /\ kill[x] /\ Conclude(x, "killed") /\ UNCHANGED <<wave, work, tries, todo>>
  <2>1. wave' \in [Runners -> 0 .. Waves] /\ \A y \in Runners \ {x} : wave'[y] = wave[y]
    BY <1>4 DEF TypeOK
  <2> QED
    BY <1>4, <2>1, ConcludeLeads
<1>5. CASE /\ ahead = {} /\ Conclude(x, "completed")
           /\ wave' = [wave EXCEPT ![x] = Waves] /\ UNCHANGED <<work, tries, todo>>
  <2>1. wave' \in [Runners -> 0 .. Waves] /\ \A y \in Runners \ {x} : wave'[y] = wave[y]
    BY <1>1, <1>5 DEF TypeOK
  <2>2. \A n \in Nodes : res[n] \in Settled(x)
    BY <1>1, <1>3, <1>5
  <2> QED
    BY <1>5, <2>1, <2>2, ConcludeLeads
<1>6. CASE /\ ahead # {} /\ wave' = [wave EXCEPT ![x] = next]
           /\ \/ Sleep(x) /\ UNCHANGED <<work, tries, todo>>
              \/ Launch(x, next, res)
  <2>1. next \in ahead /\ \A j \in ahead : next <= j
    <3> HIDE DEF ahead
    <3> QED
      BY <1>2, <1>6, MinIsLeast
  <2>2. next \in i .. Waves - 1 /\ next \in 0 .. Waves /\ next < Waves
    BY <1>1, <2>1
  <2> HIDE DEF next
  <2>3. \A j \in i .. next - 1 : j \notin ahead
    BY <1>1, <2>1, <2>2
  <2>4. \A d \in Before[next] : res[d] \in Settled(x)
    BY <1>1, <1>3, <2>2, <2>3
  <2>5. /\ wave' \in [Runners -> 0 .. Waves] /\ wave'[x] = next
        /\ \A y \in Runners \ {x} : wave'[y] = wave[y]
    BY <1>6, <2>2 DEF TypeOK
  <2>6. CASE Launch(x, next, res)
    BY <2>2, <2>4, <2>5, <2>6, LaunchLeads
  <2>7. CASE Sleep(x) /\ UNCHANGED <<work, tries, todo>>
    <3>1. pc'[x] = "paused" /\ status'[x] = "paused"
      BY <2>7 DEF TypeOK, Sleep
    <3>2. LoopOf(x)
      BY <2>5, <2>7 DEF LoopOf, TypeOK, Sleep, PCs, Statuses, Works
    <3>3. PrefixSettled(x)'
      BY <2>2, <2>4, <2>5 DEF PrefixSettled, Settled
    <3>4. NoStrayWork(x)'
      BY <2>7 DEF NoStrayWork, Unworked
    <3> QED
      BY <3>1, <3>2, <3>3, <3>4 DEF RunnerInv, GatherInWave, Conclusion
  <2> QED
    BY <1>6, <2>6, <2>7
<1> QED
  BY <1>4, <1>5, <1>6 DEF Head

-----------------------------------------------------------------------------
(* Every action keeps the invariant.                                       *)

Row == [status : {"absent", "running", "failed", "completed", "killed"},
        wave : 0 .. Waves, results : ResultMap]

\* A write that fails leaves a row that was right as it was.
LEMMA WriteKeeps ==
  ASSUME TypeOK, RowSettled, NEW new \in Row, Write(new),
         \A d \in Before[new.wave] : new.results[d] \in Through
  PROVE  row' \in Row /\ RowSettled' /\ faults' \in 0 .. MaxFaults
<1>1. row' = new \/ row' = row
  BY DEF Write
<1>2. faults' \in 0 .. MaxFaults
  BY WorkflowAssumption DEF Write, TypeOK
<1> QED
  BY <1>1, <1>2 DEF TypeOK, RowSettled, Row, Through

\* A step of one runner leaves the others theirs.
LEMMA OthersKeep ==
  ASSUME NEW y \in Runners, RunnerInv(y),
         pc'[y] = pc[y], wave'[y] = wave[y], status'[y] = status[y],
         results'[y] = results[y], work'[y] = work[y], todo'[y] = todo[y]
  PROVE  RunnerInv(y)'
<1>1. PrefixSettled(y)' /\ Conclusion(y)'
  BY DEF RunnerInv, PrefixSettled, Conclusion, Settled
<1>2. GatherInWave(y)' /\ NoStrayWork(y)'
  BY DEF RunnerInv, GatherInWave, NoStrayWork
<1> QED
  BY <1>1, <1>2 DEF RunnerInv

\* The invariant after a step of the loop.
LEMMA LoopKeeps ==
  ASSUME Inv, NEW x \in Runners, LoopOf(x), RunnerInv(x)',
         row' \in Row, RowSettled', results' \in [Runners -> ResultMap],
         \A y \in Runners \ {x} : results'[y] = results[y],
         UNCHANGED <<flags, crashes, pauses>>, faults' \in 0 .. MaxFaults
  PROVE  Inv'
<1>1. TypeOK'
  BY DEF Inv, TypeOK, LoopOf, Row, PCs, Statuses, Works, flags
<1>2. ASSUME NEW y \in Runners  PROVE RunnerInv(y)'
  BY OthersKeep DEF Inv, LoopOf
<1> QED
  BY <1>1, <1>2 DEF Inv

LEMMA LoopMoves ==
  ASSUME Inv, NEW x \in Runners, LoopOf(x), RunnerInv(x)', row' \in Row, RowSettled',
         UNCHANGED <<results, flags, crashes, pauses>>, faults' \in 0 .. MaxFaults
  PROVE  Inv'
<1>1. results' \in [Runners -> ResultMap] /\ \A y \in Runners \ {x} : results'[y] = results[y]
  BY DEF Inv, TypeOK
<1> QED
  BY <1>1, LoopKeeps

LEMMA RowAsItIs ==
  ASSUME Inv, UNCHANGED <<row, used>>
  PROVE  row' \in Row /\ RowSettled' /\ faults' \in 0 .. MaxFaults /\ UNCHANGED <<crashes, pauses>>
  BY DEF Inv, TypeOK, RowSettled, Row, used

LEMMA StartKeeps ==
  ASSUME Inv, Start
  PROVE  Inv'
<1>1. Starter \in Runners
  BY DEF Runners
<1>2. LoopOf(Starter)
  BY <1>1 DEF Inv, TypeOK, Start, LoopOf, PCs, Statuses, Works
<1>3. RunnerInv(Starter)'
  BY <1>1
     DEF Inv, TypeOK, RunnerInv, PrefixSettled, GatherInWave, NoStrayWork, Conclusion, Start
<1> QED
  BY <1>1, <1>2, <1>3, RowAsItIs, LoopMoves DEF Start

LEMMA CreatedKeeps ==
  ASSUME Inv, NEW x \in Runners, Created(x)
  PROVE  Inv'
<1> DEFINE new == [status |-> "running", wave |-> 0, results |-> NoResults]
<1>1. Waves \in Nat /\ Before[0] = {}
  BY WavesHoldAll, BeforeSteps
<1>2. new \in Row
  BY <1>1 DEF Row, NoResults, ResultMap, NodeResult
<1>3. row' \in Row /\ RowSettled' /\ faults' \in 0 .. MaxFaults
  BY <1>1, <1>2, WriteKeeps DEF Inv, Created
<1>4. Unworked(x) /\ results[x] \in ResultMap /\ results'[x] = results[x]
  BY DEF Inv, TypeOK, RunnerInv, NoStrayWork, Unworked, Created
<1>5. LoopOf(x) /\ RunnerInv(x)'
  BY <1>1, <1>4, HeadLeads DEF Inv, Created
<1> QED
  BY <1>3, <1>5, LoopMoves DEF Created

LEMMA ResumeKeeps ==
  ASSUME Inv, NEW x \in Resumers, ResumeExecution(x)
  PROVE  Inv'
<1>1. x \in Runners /\ x # Starter
  BY WorkflowAssumption DEF Runners
<1>2. row.wave \in 0 .. Waves /\ row.results \in ResultMap
  BY DEF Inv, TypeOK
<1>3. results' \in [Runners -> ResultMap] /\ results'[x] = row.results
      /\ \A y \in Runners \ {x} : results'[y] = results[y]
  BY <1>1, <1>2 DEF Inv, TypeOK, ResumeExecution
<1>4. Unworked(x)
  BY <1>1 DEF Inv, RunnerInv, NoStrayWork, Unworked, ResumeExecution
<1>5. \A d \in Before[row.wave] : row.results[d] \in Settled(x)
  BY <1>1 DEF Inv, RowSettled, Settled, Through
<1>6. LoopOf(x) /\ RunnerInv(x)'
  BY <1>1, <1>2, <1>3, <1>4, <1>5, HeadLeads DEF Inv, ResumeExecution
<1> QED
  BY <1>1, <1>3, <1>6, RowAsItIs, LoopKeeps DEF ResumeExecution

LEMMA WakePausedKeeps ==
  ASSUME Inv, NEW x \in Runners, WakePaused(x)
  PROVE  Inv'
<1>1. Unworked(x) /\ wave[x] \in 0 .. Waves /\ wave[x] < Waves /\ results[x] \in ResultMap
      /\ (\A d \in Before[wave[x]] : results[x][d] \in Settled(x))
  BY DEF Inv, TypeOK, RunnerInv, NoStrayWork, PrefixSettled, Unworked, WakePaused
<1>2. LoopOf(x) /\ RunnerInv(x)'
  <2>1. wave' \in [Runners -> 0 .. Waves] /\ wave' = wave /\ results' = results /\ TypeOK
    BY DEF Inv, TypeOK, WakePaused
  <2>2. CASE Conclude(x, "killed") /\ UNCHANGED <<work, tries, todo>>
    BY <1>1, <2>1, <2>2, ConcludeLeads
  <2>3. CASE Launch(x, wave[x], results[x])
    BY <1>1, <2>1, <2>3, LaunchLeads
  <2> QED
    BY <2>2, <2>3 DEF WakePaused
<1> QED
  BY <1>2, RowAsItIs, LoopMoves DEF WakePaused

\* A node coroutine moves on: what it has to do with the results stays as it is.
LEMMA NodeKeeps ==
  ASSUME Inv, NEW x \in Runners, NEW n \in Nodes, NodeStep(x, n)
  PROVE  Inv'
<1>1. /\ pc[x] = "gather" /\ work[x][n] \in {"queued", "running"}
      /\ UNCHANGED <<row, pc, wave, status, results, todo, flags, used>>
  BY DEF NodeStep, Dispatch, NodeReturns, NodeRaises
<1>2. PICK state \in {"running", "ok", "failed", "killed"} :
        work' = [work EXCEPT ![x][n] = state]
  <2>1. work[x][n] = "running" /\ UNCHANGED work => work' = [work EXCEPT ![x][n] = "running"]
    BY DEF Inv, TypeOK
  <2> QED
    BY <2>1 DEF NodeStep, Dispatch, NodeReturns, NodeRaises, Work
<1>3. work' \in [Runners -> [Nodes -> Works]]
  BY <1>2 DEF Inv, TypeOK, Works
<1>4. tries' \in [Runners -> [Nodes -> 0 .. Retries + 1]]
  <2>1. tries \in [Runners -> [Nodes -> 0 .. Retries + 1]]
    BY DEF Inv, TypeOK
  <2>2. \/ UNCHANGED tries
        \/ \E k \in 0 .. Retries + 1 : tries' = [tries EXCEPT ![x][n] = k]
    <3>1. tries[x][n] \in 0 .. Retries + 1 /\ 1 \in 0 .. Retries + 1
      BY <2>1, WorkflowAssumption
    <3>2. tries[x][n] <= Retries => tries[x][n] + 1 \in 0 .. Retries + 1
      BY <3>1, WorkflowAssumption
    <3> QED
      BY <3>1, <3>2 DEF NodeStep, Dispatch, NodeReturns, NodeRaises
  <2> QED
    BY <2>1, <2>2
<1>5. TypeOK'
  BY <1>1, <1>3, <1>4 DEF Inv, TypeOK, Works, flags, used
<1>6. RunnerInv(x)'
  <2>1. n \in todo[x] /\ n \in Wave(wave[x])
    BY <1>1 DEF Inv, RunnerInv, GatherInWave
  <2>2. \A m \in Nodes : work'[x][m] = IF m = n THEN state ELSE work[x][m]
    BY <1>2 DEF Inv, TypeOK
  <2>3. GatherInWave(x)'
    <3>1. Wave(wave[x]) \subseteq Nodes /\ todo[x] \subseteq Nodes
      <4>1. wave[x] + 1 \in Nat /\ todo[x] \subseteq Nodes
        BY WavesHoldAll DEF Inv, TypeOK
      <4> QED
        BY <4>1, BeforeSteps DEF Wave
    <3>2. wave'[x] = wave[x] /\ todo'[x] = todo[x] /\ results'[x] = results[x]
      BY <1>1
    <3>3. GatherInWave(x)
      BY DEF Inv, RunnerInv
    <3> HIDE DEF Wave
    <3> QED
      BY <1>1, <2>1, <2>2, <3>1, <3>2, <3>3 DEF GatherInWave
  <2>4. PrefixSettled(x)' /\ Conclusion(x)' /\ NoStrayWork(x)'
    BY <1>1 DEF Inv, RunnerInv, PrefixSettled, Conclusion, NoStrayWork, Settled
  <2> QED
    BY <2>3, <2>4 DEF RunnerInv
<1>7. ASSUME NEW y \in Runners \ {x}  PROVE RunnerInv(y)'
  BY <1>1, <1>2, OthersKeep DEF Inv, TypeOK
<1> QED
  BY <1>1, <1>5, <1>6, <1>7 DEF Inv, RowSettled

LEMMA RecordKeeps ==
  ASSUME Inv, NEW x \in Runners, Record(x)
  PROVE  Inv'
<1> DEFINE n == Min(todo[x])
<1>1. todo[x] \in SUBSET Nat /\ todo[x] # {} /\ todo[x] \subseteq Nodes
  BY WorkflowAssumption DEF Inv, TypeOK, Record
<1>2. n \in todo[x] /\ n \in Nodes
  BY <1>1, MinIsLeast
<1> HIDE DEF n
<1>3. Unworked(x) /\ pc[x] = "gather"
  BY DEF Record, Gathered, In, Unworked
<1>4. UNCHANGED <<wave, work, tries, flags, crashes, pauses>>
  BY DEF Record
<1>5. CASE /\ work[x][n] = "killed"
           /\ Conclude(x, "killed")
           /\ UNCHANGED <<row, results, todo, faults>>
  <2>1. wave' \in [Runners -> 0 .. Waves] /\ wave' = wave
    BY <1>4 DEF Inv, TypeOK
  <2>2. LoopOf(x) /\ RunnerInv(x)'
    BY <1>3, <1>4, <1>5, <2>1, ConcludeLeads DEF Inv
  <2>3. row' \in Row /\ RowSettled' /\ faults' \in 0 .. MaxFaults
    BY <1>5 DEF Inv, TypeOK, RowSettled, Row
  <2> QED
    BY <1>4, <1>5, <2>2, <2>3, LoopMoves
<1>6. CASE /\ work[x][n] # "killed"
           /\ results' = [results EXCEPT ![x][n] = work[x][n]]
           /\ todo' = [todo EXCEPT ![x] = @ \ {n}]
           /\ Write(IF row.status = "absent" THEN row
                    ELSE [row EXCEPT !.results[n] = work[x][n]])
           /\ UNCHANGED <<pc, status>>
  <2>1. work[x][n] \in Through /\ n \in Wave(wave[x])
    BY <1>2, <1>3, <1>6 DEF Inv, TypeOK, RunnerInv, GatherInWave, Unworked, Through
  <2> DEFINE new == IF row.status = "absent" THEN row
                    ELSE [row EXCEPT !.results[n] = work[x][n]]
  <2>2. new \in Row /\ \A d \in Before[new.wave] : new.results[d] \in Through
    <3>1. row \in Row /\ work[x][n] \in NodeResult
      BY <2>1 DEF Inv, TypeOK, Row, Through, NodeResult
    <3>2. row.wave \in Nat /\ Before[row.wave] \subseteq Nodes
      BY <3>1, WavesHoldAll, BeforeSteps DEF Row
    <3>3. new \in Row /\ new.wave = row.wave
          /\ \A d \in Nodes : new.results[d] \in {row.results[d], work[x][n]}
      BY <1>2, <3>1 DEF Row, ResultMap
    <3> HIDE DEF new
    <3> QED
      BY <2>1, <3>2, <3>3 DEF Inv, RowSettled
  <2>3. row' \in Row /\ RowSettled' /\ faults' \in 0 .. MaxFaults
    <3>1. Write(new)
      BY <1>6
    <3> HIDE DEF new
    <3> QED
      BY <2>2, <3>1, WriteKeeps DEF Inv
  <2>4. /\ results' \in [Runners -> ResultMap] /\ todo' \in [Runners -> SUBSET Nodes]
        /\ \A m \in Nodes : results'[x][m] = IF m = n THEN work[x][n] ELSE results[x][m]
        /\ todo'[x] = todo[x] \ {n}
        /\ \A y \in Runners \ {x} : results'[y] = results[y] /\ todo'[y] = todo[y]
    BY <1>2, <1>6, <2>1 DEF Inv, TypeOK, ResultMap, NodeResult, Through
  <2>5. LoopOf(x)
    BY <1>4, <1>6, <2>4 DEF Inv, TypeOK, LoopOf, PCs, Statuses, Works
  <2>6. RunnerInv(x)'
    <3>1. wave[x] \in Nat /\ Wave(wave[x]) \subseteq Nodes /\ Before[wave[x]] \subseteq Nodes
          /\ n \notin Before[wave[x]]
      BY <2>1, WavesHoldAll, BeforeSteps DEF Inv, TypeOK, Wave
    <3>2. PrefixSettled(x)'
      BY <1>3, <1>4, <1>6, <2>4, <3>1 DEF Inv, RunnerInv, PrefixSettled, Settled
    <3>3. GatherInWave(x)
      BY DEF Inv, RunnerInv
    <3>4. wave'[x] = wave[x] /\ work'[x] = work[x]
      BY <1>4
    <3>5. GatherInWave(x)'
      <4> HIDE DEF Wave
      <4>1. \A m \in Wave(wave[x]) \ todo'[x] :
              /\ work[x][m] \in {"off", "ok", "failed"}
              /\ results'[x][m] = IF work[x][m] = "off" THEN "ok" ELSE work[x][m]
        BY <1>1, <1>2, <1>3, <2>1, <2>4, <3>1, <3>3 DEF GatherInWave, Through
      <4>2. \A m \in todo'[x] : work[x][m] # "off" /\ results'[x][m] # "ok"
        BY <1>1, <1>3, <2>4, <3>3 DEF GatherInWave
      <4> QED
        BY <1>3, <3>3, <3>4, <4>1, <4>2 DEF GatherInWave
    <3>6. NoStrayWork(x)' /\ Conclusion(x)'
      BY <1>3, <1>4, <1>6 DEF Inv, RunnerInv, NoStrayWork, Unworked, Conclusion
    <3> QED
      BY <3>2, <3>5, <3>6 DEF RunnerInv
  <2> QED
    BY <1>4, <2>3, <2>4, <2>5, <2>6, LoopKeeps
<1> QED
  BY <1>5, <1>6 DEF Record, n

\* A gather that is processed has settled its wave.
LEMMA GatherSettles ==
  ASSUME Inv, NEW x \in Runners, Gathered(x), todo[x] = {}
  PROVE  /\ Unworked(x) /\ pc[x] = "gather"
         /\ wave[x] \in Nat /\ wave[x] + 1 \in 0 .. Waves /\ wave[x] < Waves
         /\ \A d \in Before[wave[x] + 1] : results[x][d] \in Through
         /\ In(x, "failed") = {} => \A d \in Before[wave[x] + 1] : results[x][d] \in Settled(x)
<1>1. Unworked(x) /\ pc[x] = "gather"
  BY DEF Gathered, In, Unworked
<1>2. /\ wave[x] \in Nat /\ Waves \in Nat /\ wave[x] + 1 \in 0 .. Waves /\ wave[x] < Waves
      /\ \A d \in Before[wave[x]] : results[x][d] \in Settled(x)
  BY <1>1, WavesHoldAll DEF Inv, TypeOK, RunnerInv, PrefixSettled
<1>3. ASSUME NEW d \in Before[wave[x] + 1], d \notin Before[wave[x]]
      PROVE  /\ results[x][d] \in Through
             /\ In(x, "failed") = {} => results[x][d] = "ok"
  <2>1. d \in Wave(wave[x]) /\ d \in Nodes
    BY <1>2, <1>3, BeforeSteps DEF Wave
  <2>2. /\ work[x][d] \in {"off", "ok", "failed"}
        /\ results[x][d] = IF work[x][d] = "off" THEN "ok" ELSE work[x][d]
    BY <1>1, <2>1 DEF Inv, RunnerInv, GatherInWave
  <2> QED
    BY <2>1, <2>2 DEF Through, In
<1>4. \A d \in Before[wave[x] + 1] : results[x][d] \in Through
  BY <1>2, <1>3 DEF Settled, Through
<1>5. In(x, "failed") = {} => \A d \in Before[wave[x] + 1] : results[x][d] \in Settled(x)
  BY <1>2, <1>3 DEF Settled
<1> QED
  BY <1>1, <1>2, <1>4, <1>5

LEMMA CheckpointKeeps ==
  ASSUME Inv, NEW x \in Runners, Checkpoint(x)
  PROVE  Inv'
<1> DEFINE new == [status |-> "running", wave |-> wave[x] + 1, results |-> results[x]]
<1>1. Gathered(x) /\ todo[x] = {} /\ Write(new) /\ UNCHANGED <<results, flags, crashes, pauses>>
  BY DEF Checkpoint
<1>2. /\ Unworked(x) /\ pc[x] = "gather"
      /\ wave[x] \in Nat /\ wave[x] + 1 \in 0 .. Waves /\ wave[x] < Waves
      /\ \A d \in Before[wave[x] + 1] : results[x][d] \in Through
      /\ In(x, "failed") = {} => \A d \in Before[wave[x] + 1] : results[x][d] \in Settled(x)
  BY <1>1, GatherSettles
<1>3. results[x] \in ResultMap /\ results' = results
  BY <1>1 DEF Inv, TypeOK
<1>4. new \in Row /\ new.wave = wave[x] + 1 /\ new.results = results[x]
  BY <1>2, <1>3 DEF Row
<1> HIDE DEF new
<1>5. row' \in Row /\ RowSettled' /\ faults' \in 0 .. MaxFaults
  BY <1>1, <1>2, <1>4, WriteKeeps DEF Inv
<1>6. LoopOf(x) /\ RunnerInv(x)'
  <2>1. CASE Conclude(x, "failed") /\ UNCHANGED <<wave, work, tries, todo>>
    <3>1. wave' \in [Runners -> 0 .. Waves] /\ wave' = wave /\ TypeOK
      BY <2>1 DEF Inv, TypeOK
    <3> QED
      BY <1>2, <1>3, <2>1, <3>1, ConcludeLeads
  <2>2. CASE In(x, "failed") = {} /\ Head(x, wave[x] + 1, results[x])
    <3>1. results'[x] = results[x] /\ TypeOK
      BY <1>3 DEF Inv
    <3> QED
      BY <1>2, <1>3, <2>2, <3>1, HeadLeads
  <2> QED
    BY <2>1, <2>2 DEF Checkpoint
<1> QED
  BY <1>1, <1>5, <1>6, LoopMoves

LEMMA FinishKeeps ==
  ASSUME Inv, NEW x \in Runners, Finish(x)
  PROVE  Inv'
<1> DEFINE w == CASE status[x] = "killed"    -> 0
                  [] status[x] = "failed"    -> wave[x] + 1
                  [] status[x] = "completed" -> Waves
           new == [status |-> status[x], wave |-> w, results |-> results[x]]
<1>1. /\ pc[x] = "final" /\ Write(new)
      /\ UNCHANGED <<wave, status, results, work, tries, todo, flags, crashes, pauses>>
  BY DEF Finish
<1>2. /\ status[x] \in {"killed", "failed", "completed"}
      /\ status[x] = "failed" =>
           wave[x] < Waves /\ \A d \in Before[wave[x] + 1] : results[x][d] \in Through
      /\ status[x] = "completed" => \A d \in Nodes : results[x][d] \in Through
  BY <1>1 DEF Inv, RunnerInv, Conclusion, Settled, Through
<1>3. Waves \in Nat /\ Before[Waves] = Nodes /\ Before[0] = {} /\ wave[x] \in 0 .. Waves
      /\ results[x] \in ResultMap
  BY WavesHoldAll, BeforeSteps DEF Inv, TypeOK
<1>4. w \in 0 .. Waves /\ \A d \in Before[w] : results[x][d] \in Through
  <2>1. CASE status[x] = "killed"
    BY <1>3, <2>1
  <2>2. CASE status[x] = "failed"
    BY <1>2, <1>3, <2>2
  <2>3. CASE status[x] = "completed"
    BY <1>2, <1>3, <2>3
  <2> QED
    BY <1>2, <2>1, <2>2, <2>3
<1> HIDE DEF w
<1>5. new \in Row /\ new.wave = w /\ new.results = results[x]
  BY <1>2, <1>3, <1>4 DEF Row
<1> HIDE DEF new
<1>6. row' \in Row /\ RowSettled' /\ faults' \in 0 .. MaxFaults
  BY <1>1, <1>4, <1>5, WriteKeeps DEF Inv
<1>7. pc' = [pc EXCEPT ![x] = "done"]
  BY DEF Finish
<1>8. LoopOf(x)
  BY <1>1, <1>7 DEF Inv, TypeOK, LoopOf, PCs, Statuses, Works
<1>9. RunnerInv(x)'
  BY <1>1, <1>7 DEF Inv, TypeOK, RunnerInv, PrefixSettled, GatherInWave, NoStrayWork,
     Conclusion, Settled
<1> QED
  BY <1>1, <1>6, <1>8, <1>9, LoopMoves

LEMMA OperatorKeeps ==
  ASSUME Inv, NEW x \in Runners,
         PauseWorkflow(x) \/ ResumeWorkflow(x) \/ KillWorkflow(x)
  PROVE  Inv'
<1>1. UNCHANGED <<row, pc, wave, results, work, tries, todo, faults, crashes>>
  BY DEF PauseWorkflow, ResumeWorkflow, KillWorkflow, used
<1>2. \/ UNCHANGED status
      \/ status[x] \in {"paused", "running"} /\ status' = [status EXCEPT ![x] = "running"]
  BY DEF PauseWorkflow, ResumeWorkflow, KillWorkflow
<1>3. /\ kill' \in [Runners -> BOOLEAN] /\ pause' \in [Runners -> BOOLEAN]
      /\ pauses' \in 0 .. MaxPauses
  <2>1. /\ kill \in [Runners -> BOOLEAN] /\ pause \in [Runners -> BOOLEAN]
        /\ pauses \in 0 .. MaxPauses /\ MaxPauses \in Nat
    BY WorkflowAssumption DEF Inv, TypeOK
  <2>2. CASE PauseWorkflow(x)
    BY <2>1, <2>2 DEF PauseWorkflow
  <2>3. CASE ResumeWorkflow(x)
    BY <2>1, <2>3 DEF ResumeWorkflow, used
  <2>4. CASE KillWorkflow(x)
    BY <2>1, <2>4 DEF KillWorkflow, used
  <2> QED
    BY <2>2, <2>3, <2>4
<1>4. TypeOK'
  BY <1>1, <1>2, <1>3 DEF Inv, TypeOK
<1>5. ASSUME NEW y \in Runners  PROVE RunnerInv(y)'
  <2>1. CASE status'[y] = status[y]
    BY <1>1, <2>1, OthersKeep DEF Inv
  <2>2. CASE status'[y] # status[y]
    <3>1. y = x /\ status'[x] = "running" /\ status[x] \in {"paused", "running"}
      BY <1>2, <2>2 DEF Inv, TypeOK
    <3>2. pc[x] # "final"
      BY <3>1 DEF Inv, RunnerInv, Conclusion
    <3> QED
      BY <1>1, <3>1, <3>2 DEF Inv, RunnerInv, PrefixSettled, GatherInWave, NoStrayWork,
         Conclusion, Settled
  <2> QED
    BY <2>1, <2>2
<1> QED
  BY <1>1, <1>4, <1>5 DEF Inv, RowSettled

LEMMA CrashKeeps ==
  ASSUME Inv, Crash
  PROVE  Inv'
<1>1. TypeOK'
  BY WorkflowAssumption DEF Inv, TypeOK, Crash, NoWork, flags
<1>2. ASSUME NEW y \in Runners  PROVE RunnerInv(y)'
  <2>1. CASE Live(y)
    BY <2>1 DEF Inv, TypeOK, Crash, NoWork, RunnerInv, PrefixSettled, GatherInWave,
       NoStrayWork, Conclusion
  <2>2. CASE ~Live(y)
    BY <2>2, OthersKeep DEF Inv, Crash
  <2> QED
    BY <2>1, <2>2
<1> QED
  BY <1>1, <1>2 DEF Inv, Crash, RowSettled

LEMMA NextKeeps == Inv /\ [Next]_vars => Inv'
<1> SUFFICES ASSUME Inv, [Next]_vars  PROVE Inv'
  OBVIOUS
<1>1. CASE UNCHANGED vars
  <2>1. TypeOK' /\ RowSettled'
    BY <1>1 DEF Inv, TypeOK, RowSettled, vars, flags, used
  <2>2. \A y \in Runners : RunnerInv(y)'
    BY <1>1, OthersKeep DEF Inv, vars
  <2> QED
    BY <2>1, <2>2 DEF Inv
<1>2. CASE \E x \in Runners : RunnerStep(x)
  BY <1>2, CreatedKeeps, WakePausedKeeps, RecordKeeps, CheckpointKeeps, FinishKeeps
     DEF RunnerStep
<1>3. CASE \E x \in Runners : PauseWorkflow(x) \/ ResumeWorkflow(x) \/ KillWorkflow(x)
  BY <1>3, OperatorKeeps
<1> QED
  BY <1>1, <1>2, <1>3, StartKeeps, ResumeKeeps, NodeKeeps, CrashKeeps DEF Next

LEMMA InitHolds == Init => Inv
<1> SUFFICES ASSUME Init  PROVE Inv
  OBVIOUS
<1>1. Waves \in Nat /\ Before[0] = {}
  BY WavesHoldAll, BeforeSteps
<1>2. TypeOK
  BY <1>1, WorkflowAssumption
     DEF Init, TypeOK, NoResults, NoWork, Untried, ResultMap, NodeResult
<1>3. RowSettled
  BY <1>1 DEF Init, RowSettled
<1>4. ASSUME NEW x \in Runners  PROVE RunnerInv(x)
  BY DEF Init, RunnerInv, PrefixSettled, GatherInWave, NoStrayWork, Conclusion, NoWork
<1> QED
  BY <1>2, <1>3, <1>4 DEF Inv

-----------------------------------------------------------------------------
(* The theorems about states.                                              *)

LEMMA Invariance == Spec => []Inv
  BY InitHolds, NextKeeps, PTL DEF Spec

(* Every variable keeps its type: a row is never left with a status the store
   does not know or behind the last wave, and no node is tried more often than
   its retries allow. *)
THEOREM TypeCorrect == Spec => []TypeOK
  BY Invariance, PTL DEF Inv

(* Through failing writes, crashes, pauses and resumptions, even by several
   runners at once, a node runs only when all it depends on is through. *)
THEOREM DepsFirst == Spec => []DepsBeforeDispatch
<1>1. Inv => DepsBeforeDispatch
  <2> SUFFICES ASSUME Inv, NEW x \in Runners, NEW n \in Nodes, work[x][n] = "running",
                      NEW d \in Deps[n]
               PROVE  results[x][d] \in Settled(x)
    BY DEF DepsBeforeDispatch
  <2>1. pc[x] = "gather" /\ n \in Wave(wave[x]) /\ wave[x] \in Nat
    BY WavesHoldAll DEF Inv, TypeOK, RunnerInv, NoStrayWork, GatherInWave
  <2>2. d \in Before[wave[x]]
    BY <2>1, WaveDeps
  <2> QED
    BY <2>1, <2>2 DEF Inv, RunnerInv, PrefixSettled
<1> QED
  BY <1>1, Invariance, PTL

(* COMPLETED is only ever said of a workflow whose nodes have all been run,
   and, by start_workflow, have all succeeded. *)
THEOREM CompletedTold == Spec => []CompletedIsTrue
<1>1. Inv => CompletedIsTrue
  BY DEF Inv, RunnerInv, Conclusion, CompletedIsTrue
<1> QED
  BY <1>1, Invariance, PTL

-----------------------------------------------------------------------------
(* Kill and pause.                                                         *)

StopsWork(x) ==
  /\ kill[x] => \A n \in Nodes :
       /\ tries'[x][n] <= tries[x][n]
       /\ work'[x][n] = "running" => work[x][n] = "running"
  /\ x = Starter /\ pause[x] /\ pause'[x] /\ todo'[x] # {} => todo[x] # {}

\* Who does nothing starts nothing.
LEMMA IdleStops ==
  ASSUME Inv, NEW x \in Runners, tries'[x] = tries[x], todo'[x] \subseteq todo[x],
         work'[x] = work[x] \/ work'[x] = NoWork
  PROVE  StopsWork(x)
  BY WorkflowAssumption DEF Inv, TypeOK, StopsWork, NoWork

\* The loop launches neither for a killed runner nor for a paused starter.
LEMMA HeadStops ==
  ASSUME Inv, NEW x \in Runners, NEW y \in Runners, NEW i, NEW res, Head(y, i, res)
  PROVE  StopsWork(x)
<1>1. CASE UNCHANGED <<work, tries, todo>>
  BY <1>1, IdleStops
<1>2. CASE ~UNCHANGED <<work, tries, todo>>
  <2>1. PICK k : Launch(y, k, res) /\ ~kill[y] /\ ~(y = Starter /\ pause[y])
    BY <1>2 DEF Head
  <2>2. CASE x = y
    BY <2>1, <2>2 DEF StopsWork
  <2>3. CASE x # y
    <3>1. tries'[x] = tries[x] /\ todo'[x] = todo[x] /\ work'[x] = work[x]
      BY <2>1, <2>3 DEF Inv, TypeOK, Launch
    <3> QED
      BY <3>1, IdleStops
  <2> QED
    BY <2>2, <2>3
<1> QED
  BY <1>1, <1>2

LEMMA StepStops ==
  ASSUME Inv, Next, NEW x \in Runners
  PROVE  StopsWork(x)
<1>1. CASE UNCHANGED <<work, tries, todo>>
  BY <1>1, IdleStops
<1>2. CASE \/ \E y \in Runners : Created(y) \/ Checkpoint(y)
           \/ \E y \in Resumers : ResumeExecution(y)
  <2>1. \/ UNCHANGED <<work, tries, todo>>
        \/ \E y \in Runners : \E i, res : Head(y, i, res)
    BY <1>2 DEF Created, Checkpoint, ResumeExecution, Runners
  <2> QED
    BY <1>1, <2>1, HeadStops
<1>3. CASE \E y \in Runners : WakePaused(y)
  <2>1. PICK y \in Runners : WakePaused(y)
    BY <1>3
  <2>2. CASE Launch(y, wave[y], results[y]) /\ ~kill[y] /\ ~pause[y]
    <3>1. CASE x = y
      BY <2>2, <3>1 DEF StopsWork
    <3>2. CASE x # y
      <4>1. tries'[x] = tries[x] /\ todo'[x] = todo[x] /\ work'[x] = work[x]
        BY <2>2, <3>2 DEF Inv, TypeOK, Launch
      <4> QED
        BY <4>1, IdleStops
    <3> QED
      BY <3>1, <3>2
  <2> QED
    BY <1>1, <2>1, <2>2 DEF WakePaused
<1>4. CASE \E y \in Runners : Record(y)
  <2>1. PICK y \in Runners : Record(y)
    BY <1>4
  <2>2. UNCHANGED <<work, tries>> /\ todo'[x] \subseteq todo[x]
    <3>1. UNCHANGED todo \/ \E n : todo' = [todo EXCEPT ![y] = todo[y] \ {n}]
      BY <2>1 DEF Record
    <3>2. todo'[x] \subseteq todo[x]
      BY <3>1 DEF Inv, TypeOK
    <3> QED
      BY <2>1, <3>2 DEF Record
  <2> QED
    BY <2>2, IdleStops
<1>5. CASE \E y \in Runners, n \in Nodes : NodeStep(y, n)
  <2>1. PICK y \in Runners, n \in Nodes : NodeStep(y, n)
    BY <1>5
  <2>2. CASE x # y
    <3>1. tries'[x] = tries[x] /\ work'[x] = work[x] /\ UNCHANGED todo
      BY <2>1, <2>2 DEF Inv, TypeOK, NodeStep, Dispatch, NodeReturns, NodeRaises, Work
    <3> QED
      BY <3>1, IdleStops
  <2>3. CASE x = y
    <3>1. /\ tries \in [Runners -> [Nodes -> 0 .. Retries + 1]]
          /\ work \in [Runners -> [Nodes -> Works]]
      BY DEF Inv, TypeOK, Works
    <3>2. kill[x] => UNCHANGED tries
                     /\ \E state : state # "running" /\ work' = [work EXCEPT ![x][n] = state]
      BY <2>1, <2>3 DEF NodeStep, Dispatch, NodeReturns, NodeRaises, Work
    <3>3. UNCHANGED todo
      BY <2>1 DEF NodeStep, Dispatch, NodeReturns, NodeRaises
    <3>4. kill[x] => \A m \in Nodes :
             tries'[x][m] <= tries[x][m] /\ (work'[x][m] = "running" => work[x][m] = "running")
      BY <3>1, <3>2, WorkflowAssumption
    <3> QED
      BY <3>3, <3>4 DEF StopsWork
  <2> QED
    BY <2>2, <2>3
<1>6. CASE Crash
  <2>1. UNCHANGED <<tries, todo>> /\ (work'[x] = work[x] \/ work'[x] = NoWork)
    BY <1>6 DEF Crash
  <2> QED
    BY <2>1, IdleStops
<1> QED
  BY <1>1, <1>2, <1>3, <1>4, <1>5, <1>6 DEF Next, RunnerStep, Start, Finish,
     PauseWorkflow, ResumeWorkflow, KillWorkflow

(* Whatever a runner is doing when it is told to stop, no node and no retry is
   dispatched after it; and a paused start_workflow begins no wave. *)
THEOREM KillAndPauseObeyed == Spec => KillAndPauseStopWork
<1>1. Inv /\ [Next]_vars =>
        [\A x \in Runners :
           /\ kill[x] => \A n \in Nodes :
                /\ tries'[x][n] <= tries[x][n]
                /\ work'[x][n] = "running" => work[x][n] = "running"
           /\ x = Starter /\ pause[x] /\ pause'[x] /\ todo'[x] # {} => todo[x] # {}]_vars
  BY StepStops DEF StopsWork
<1> QED
  BY <1>1, Invariance, PTL DEF Spec, KillAndPauseStopWork

-----------------------------------------------------------------------------
(* Successes are final, while one runner at a time works on an execution.  *)

\* One runner at a time, and no row before the starter has written one.
OneRunner ==
  /\ \A x, y \in Runners : Live(x) /\ Live(y) => x = y
  /\ pc[Starter] \in {"idle", "create"} => row.status = "absent"
  /\ \A x \in Resumers : pc[x] # "create"
  /\ row.status = "absent" =>
       row.results = NoResults /\ \A x \in Resumers : pc[x] = "idle"

\* The live runner knows every success of the row.
RowKnown ==
  \A x \in Runners : Live(x) =>
    \A n \in Nodes : row.results[n] = "ok" => results[x][n] = "ok"

AloneInv == OneRunner /\ RowKnown

\* No coroutine waits or runs for a node whose success is stored.
LEMMA StoredIsNotWorked ==
  ASSUME Inv, RowKnown, NEW x \in Runners, NEW n \in Nodes, row.results[n] = "ok"
  PROVE  work[x][n] \notin {"queued", "running"} /\ (pc[x] = "gather" => n \notin todo[x])
<1>1. CASE pc[x] # "gather"
  BY <1>1 DEF Inv, RunnerInv, NoStrayWork
<1>2. CASE pc[x] = "gather"
  <2>1. results[x][n] = "ok"
    BY <1>2 DEF RowKnown, Live
  <2>2. n \notin todo[x]
    BY <1>2, <2>1 DEF Inv, RunnerInv, GatherInWave
  <2> QED
    BY <1>2, <2>2 DEF Inv, RunnerInv, GatherInWave
<1> QED
  BY <1>1, <1>2

LEMMA AloneStays ==
  ASSUME AloneInv, UNCHANGED <<row, pc, results>>
  PROVE  AloneInv'
  BY DEF AloneInv, OneRunner, RowKnown, Live

\* The live runner goes on.
LEMMA LiveGoesOn ==
  ASSUME AloneInv, NEW x \in Runners, Live(x), pc'[x] \notin {"idle", "create"},
         \A y \in Runners \ {x} : pc'[y] = pc[y],
         row'.status = "absent" => UNCHANGED row,
         \A n \in Nodes : row'.results[n] = "ok" => results'[x][n] = "ok"
  PROVE  AloneInv'
<1>1. \A y \in Runners \ {x} : ~Live(y) /\ ~Live(y)'
  BY DEF AloneInv, OneRunner, Live
<1>2. x \in Resumers => row.status # "absent" /\ pc[Starter] \notin {"idle", "create"}
  BY DEF AloneInv, OneRunner, Live
<1>3. OneRunner'
  BY <1>1, <1>2, WorkflowAssumption DEF AloneInv, OneRunner, Live, Runners
<1>4. RowKnown'
  BY <1>1 DEF RowKnown
<1> QED
  BY <1>3, <1>4 DEF AloneInv

\* Where the loop ends, for the runner and for the others.
LEMMA HeadAlone ==
  ASSUME Inv, NEW x \in Runners, NEW i, NEW res, Head(x, i, res)
  PROVE  pc'[x] \notin {"idle", "create"} /\ \A y \in Runners \ {x} : pc'[y] = pc[y]
<1>1. \E p \in {"final", "paused", "gather"} : pc' = [pc EXCEPT ![x] = p]
  BY DEF Head, Conclude, Sleep, Launch
<1> QED
  BY <1>1 DEF Inv, TypeOK

\* What a live runner writes: the row never loses a success the runner knows,
\* and gets none it does not.
LEMMA WriteAlone ==
  ASSUME Inv, AloneInv, NEW x \in Runners, Live(x), NEW new \in Row, Write(new),
         new.status # "absent", new.results = results[x], UNCHANGED results
  PROVE  /\ row'.status = "absent" => UNCHANGED row
         /\ \A n \in Nodes : row'.results[n] = "ok" => results'[x][n] = "ok"
         /\ \A n \in Nodes : row.results[n] = "ok" => row'.results[n] = "ok"
<1>1. row' = new \/ row' = row
  BY DEF Write
<1> QED
  BY <1>1 DEF AloneInv, RowKnown

\* What a step does to the stored successes.
SuccessesStay == \A n \in Nodes : row.results[n] = "ok" => row'.results[n] = "ok"

LEMMA CreatedAlone ==
  ASSUME Inv, AloneInv, NEW x \in Runners, Created(x)
  PROVE  AloneInv' /\ SuccessesStay
<1>1. x = Starter /\ Live(x) /\ row.status = "absent" /\ row.results = NoResults
  BY DEF AloneInv, OneRunner, Created, Live, Runners
<1>2. row'.status = "absent" => UNCHANGED row
  BY DEF Created, Write
<1>3. row'.results = NoResults
  BY <1>1 DEF Created, Write
<1> QED
  BY <1>1, <1>2, <1>3, HeadAlone, LiveGoesOn DEF Created, SuccessesStay, NoResults

LEMMA ResumeAlone ==
  ASSUME Inv, AloneInv, LiveResume = FALSE, NEW x \in Resumers, ResumeExecution(x)
  PROVE  AloneInv' /\ SuccessesStay
<1>1. x \in Runners /\ x # Starter /\ Starter \in Runners
  BY WorkflowAssumption DEF Runners
<1>2. /\ row.status # "absent" /\ UNCHANGED row
      /\ \A y \in Runners : ~Live(y)
      /\ results'[x] = row.results
  BY <1>1 DEF ResumeExecution, Inv, TypeOK
<1>3. pc'[x] \notin {"idle", "create"} /\ \A y \in Runners \ {x} : pc'[y] = pc[y]
  BY <1>1, HeadAlone DEF ResumeExecution
<1>4. \A y \in Runners \ {x} : ~Live(y)'
  BY <1>2, <1>3 DEF Live
<1>5. OneRunner'
  BY <1>1, <1>2, <1>3, <1>4 DEF AloneInv, OneRunner, Runners
<1>6. RowKnown'
  BY <1>2, <1>4 DEF RowKnown
<1> QED
  BY <1>2, <1>5, <1>6 DEF AloneInv, SuccessesStay

LEMMA RecordAlone ==
  ASSUME Inv, AloneInv, NEW x \in Runners, Record(x)
  PROVE  AloneInv' /\ SuccessesStay
<1> DEFINE n == Min(todo[x])
<1>1. n \in todo[x] /\ n \in Nodes
  <2>1. todo[x] \in SUBSET Nat /\ todo[x] # {} /\ todo[x] \subseteq Nodes
    BY WorkflowAssumption DEF Inv, TypeOK, Record
  <2> QED
    BY <2>1, MinIsLeast
<1> HIDE DEF n
<1>2. pc[x] = "gather" /\ Live(x)
  BY DEF Record, Gathered, Live
<1>3. \/ Conclude(x, "killed") /\ UNCHANGED <<row, results>>
      \/ /\ results' = [results EXCEPT ![x][n] = work[x][n]]
         /\ Write(IF row.status = "absent" THEN row
                  ELSE [row EXCEPT !.results[n] = work[x][n]])
         /\ UNCHANGED pc
  BY DEF Record, n
<1>4. pc'[x] \notin {"idle", "create"} /\ \A y \in Runners \ {x} : pc'[y] = pc[y]
  BY <1>2, <1>3 DEF Inv, TypeOK, Conclude
<1>5. row.results[n] # "ok"
  BY <1>1, <1>2, StoredIsNotWorked DEF AloneInv
<1>6. \A m \in Nodes : results'[x][m] = results[x][m] \/ (m = n /\ results'[x][n] = work[x][n])
  BY <1>1, <1>3 DEF Inv, TypeOK, ResultMap
<1>7. \/ UNCHANGED row
      \/ /\ row'.status # "absent" /\ results'[x][n] = work[x][n]
         /\ \A m \in Nodes : row'.results[m] = IF m = n THEN work[x][n] ELSE row.results[m]
  BY <1>1, <1>3 DEF Inv, TypeOK, ResultMap, Write
<1>8. /\ row'.status = "absent" => UNCHANGED row
      /\ \A m \in Nodes : row'.results[m] = "ok" => results'[x][m] = "ok"
      /\ SuccessesStay
  BY <1>1, <1>2, <1>5, <1>6, <1>7 DEF AloneInv, RowKnown, SuccessesStay
<1> QED
  BY <1>2, <1>4, <1>8, LiveGoesOn

LEMMA CheckpointAlone ==
  ASSUME Inv, AloneInv, NEW x \in Runners, Checkpoint(x)
  PROVE  AloneInv' /\ SuccessesStay
<1> DEFINE new == [status |-> "running", wave |-> wave[x] + 1, results |-> results[x]]
<1>1. Live(x) /\ Write(new) /\ UNCHANGED results
  BY DEF Checkpoint, Gathered, Live
<1>2. new \in Row /\ new.status # "absent" /\ new.results = results[x]
  BY GatherSettles DEF Checkpoint, Inv, TypeOK, Row
<1> HIDE DEF new
<1>3. pc'[x] \notin {"idle", "create"} /\ \A y \in Runners \ {x} : pc'[y] = pc[y]
  <2>1. CASE Conclude(x, "failed")
    BY <2>1 DEF Conclude, Inv, TypeOK
  <2> QED
    BY <2>1, HeadAlone DEF Checkpoint
<1> QED
  BY <1>1, <1>2, <1>3, WriteAlone, LiveGoesOn DEF SuccessesStay

LEMMA FinishAlone ==
  ASSUME Inv, AloneInv, NEW x \in Runners, Finish(x)
  PROVE  AloneInv' /\ SuccessesStay
<1> DEFINE w == CASE status[x] = "killed"    -> 0
                  [] status[x] = "failed"    -> wave[x] + 1
                  [] status[x] = "completed" -> Waves
           new == [status |-> status[x], wave |-> w, results |-> results[x]]
<1>1. Live(x) /\ Write(new) /\ UNCHANGED results /\ pc' = [pc EXCEPT ![x] = "done"]
  BY DEF Finish, Live
<1>2. status[x] \in {"killed", "failed", "completed"}
  BY DEF Finish, Inv, RunnerInv, Conclusion
<1>3. row' = row \/ (row'.status = status[x] /\ row'.results = results[x])
  BY <1>1 DEF Write
<1>4. /\ row'.status = "absent" => UNCHANGED row
      /\ \A n \in Nodes : row'.results[n] = "ok" => results'[x][n] = "ok"
      /\ SuccessesStay
  BY <1>1, <1>2, <1>3 DEF AloneInv, RowKnown, SuccessesStay
<1>5. pc'[x] \notin {"idle", "create"} /\ \A y \in Runners \ {x} : pc'[y] = pc[y]
  BY <1>1 DEF Inv, TypeOK
<1> QED
  BY <1>1, <1>4, <1>5, LiveGoesOn

LEMMA NextAlone ==
  ASSUME Inv, AloneInv, LiveResume = FALSE, [Next]_vars
  PROVE  AloneInv' /\ SuccessesStay
<1>1. CASE UNCHANGED <<row, pc, results>>
  BY <1>1, AloneStays DEF SuccessesStay
<1>2. CASE Start
  <2>1. /\ row.status = "absent" /\ row.results = NoResults /\ UNCHANGED <<row, results>>
        /\ \A x \in Resumers : pc[x] = "idle"
    BY <1>2 DEF AloneInv, OneRunner, Start
  <2>2. \A x \in Resumers : pc'[x] = "idle" /\ ~Live(x)'
    BY <1>2, <2>1, WorkflowAssumption DEF Start, Live, Inv, TypeOK, Runners
  <2>3. OneRunner'
    BY <2>1, <2>2 DEF OneRunner, Runners
  <2>4. RowKnown'
    BY <2>1 DEF RowKnown, NoResults
  <2> QED
    BY <2>1, <2>3, <2>4 DEF AloneInv, SuccessesStay
<1>3. CASE \E x \in Runners : WakePaused(x)
  <2>1. PICK x \in Runners : WakePaused(x)
    BY <1>3
  <2>2. Live(x) /\ UNCHANGED <<row, results>>
    BY <2>1 DEF WakePaused, Live
  <2>3. pc'[x] \notin {"idle", "create"} /\ \A y \in Runners \ {x} : pc'[y] = pc[y]
    BY <2>1 DEF WakePaused, Conclude, Launch, Inv, TypeOK
  <2> QED
    BY <2>2, <2>3, LiveGoesOn DEF AloneInv, RowKnown, SuccessesStay
<1>4. CASE Crash
  <2>1. /\ \A x \in Runners : ~Live(x)' /\ (pc'[x] = pc[x] \/ pc'[x] = "done")
        /\ \A x \in Runners : pc[x] = "idle" => pc'[x] = "idle"
        /\ UNCHANGED row
    BY <1>4 DEF Crash, Live
  <2> QED
    BY <2>1 DEF AloneInv, OneRunner, RowKnown, SuccessesStay, Runners
<1>5. CASE \E x \in Runners, n \in Nodes : NodeStep(x, n)
  BY <1>1, <1>5 DEF NodeStep, Dispatch, NodeReturns, NodeRaises
<1>6. CASE \E x \in Runners : PauseWorkflow(x) \/ ResumeWorkflow(x) \/ KillWorkflow(x)
  BY <1>1, <1>6 DEF PauseWorkflow, ResumeWorkflow, KillWorkflow
<1> QED
  BY <1>1, <1>2, <1>3, <1>4, <1>5, <1>6, CreatedAlone, ResumeAlone, RecordAlone,
     CheckpointAlone, FinishAlone DEF Next, RunnerStep, vars

\* Only a queued coroutine starts to run.
LEMMA RunFromQueue ==
  ASSUME Inv, Next, NEW x \in Runners, NEW n \in Nodes, work'[x][n] = "running"
  PROVE  work[x][n] \in {"queued", "running"}
<1>1. work \in [Runners -> [Nodes -> Works]]
  BY DEF Inv, TypeOK, Works
<1>2. CASE UNCHANGED work
  BY <1>2
<1>3. ASSUME NEW y \in Runners, NEW i, NEW res, Launch(y, i, res)
      PROVE  work[x][n] \in {"queued", "running"}
  BY <1>1, <1>3 DEF Launch
<1>4. ASSUME NEW y \in Runners, NEW i, NEW res, Head(y, i, res)
      PROVE  work[x][n] \in {"queued", "running"}
  BY <1>2, <1>3, <1>4 DEF Head
<1>5. CASE \E y \in Runners, m \in Nodes : NodeStep(y, m)
  BY <1>1, <1>2, <1>5 DEF NodeStep, Dispatch, NodeReturns, NodeRaises, Work
<1>6. CASE Crash
  BY <1>1, <1>6 DEF Crash, NoWork
<1>7. CASE \E y \in Runners : RunnerStep(y)
  BY <1>2, <1>3, <1>4, <1>7 DEF RunnerStep, Created, WakePaused, Record, Checkpoint, Finish
<1>8. CASE \E y \in Resumers : ResumeExecution(y)
  BY <1>4, <1>8 DEF ResumeExecution, Runners
<1> QED
  BY <1>2, <1>5, <1>6, <1>7, <1>8
     DEF Next, Start, PauseWorkflow, ResumeWorkflow, KillWorkflow

(* While resume_execution only picks up an execution nobody works on, a stored
   success survives every crash, failed write and resumption, and its node is
   not run again. *)
THEOREM SuccessesAreFinal ==
  ASSUME LiveResume = FALSE
  PROVE  Spec => SuccessIsFinal
<1>1. Init => AloneInv
  BY WorkflowAssumption DEF Init, AloneInv, OneRunner, RowKnown, Live, Runners
<1>2. Inv /\ AloneInv /\ [Next]_vars => AloneInv'
  BY NextAlone
<1>3. Inv /\ AloneInv /\ [Next]_vars =>
        [\A n \in Nodes : row.results[n] = "ok" =>
           /\ row'.results[n] = "ok"
           /\ \A x \in Runners : work'[x][n] = "running" => work[x][n] = "running"]_vars
  <2> SUFFICES ASSUME Inv, AloneInv, Next, NEW n \in Nodes, row.results[n] = "ok"
               PROVE  /\ row'.results[n] = "ok"
                      /\ \A x \in Runners : work'[x][n] # "running"
    OBVIOUS
  <2>1. row'.results[n] = "ok"
    BY NextAlone DEF SuccessesStay
  <2>2. \A x \in Runners : work'[x][n] # "running"
    BY RunFromQueue, StoredIsNotWorked DEF AloneInv
  <2> QED
    BY <2>1, <2>2
<1> QED
  BY <1>1, <1>2, <1>3, Invariance, PTL DEF Spec, SuccessIsFinal
=============================================================================
