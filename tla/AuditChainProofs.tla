-------------------------- MODULE AuditChainProofs --------------------------
(***************************************************************************)
(* Theorems about AuditChain, for any number of requests, voice commands,  *)
(* entries and restarts.                                                   *)
(***************************************************************************)
EXTENDS AuditChain, SequenceTheorems, TLAPS

All == Actors \cup {Store}
Numbers(rows) == {r.n : r \in rows}

\* Every row that is stored or may still be.
Rows == table \cup ToSet(pending)

\* What a row may be linked to.
Known == {0} \cup pruned \cup Numbers(table)

LEMMA MaxIsNat == MaxEntries \in Nat \ {0}
  BY AuditAssumption

-----------------------------------------------------------------------------
(* Sequences.                                                              *)

LEMMA ToSetType ==
  ASSUME NEW S, NEW s \in Seq(S)
  PROVE  ToSet(s) \subseteq S
  BY DEF ToSet

LEMMA ToSetEmpty == ToSet(<<>>) = {}
  BY DEF ToSet

\* A row that joins the session is the last of its rows.
LEMMA AppendOne ==
  ASSUME NEW S, NEW s \in Seq(S), NEW e \in S
  PROVE  /\ s \o <<e>> \in Seq(S)
         /\ Len(s \o <<e>>) = Len(s) + 1
         /\ \A i \in 1..Len(s) : (s \o <<e>>)[i] = s[i]
         /\ (s \o <<e>>)[Len(s) + 1] = e
         /\ ToSet(s \o <<e>>) = ToSet(s) \cup {e}
<1>1. /\ s \o <<e>> \in Seq(S) /\ Len(s \o <<e>>) = Len(s) + 1
      /\ \A i \in 1..Len(s) : (s \o <<e>>)[i] = s[i]
      /\ (s \o <<e>>)[Len(s) + 1] = e
  OBVIOUS
<1>2. DOMAIN (s \o <<e>>) = 1..Len(s) + 1 /\ DOMAIN s = 1..Len(s)
  BY <1>1
<1>3. 1..Len(s) + 1 = (1..Len(s)) \cup {Len(s) + 1}
  OBVIOUS
<1>4. ToSet(s \o <<e>>) = {(s \o <<e>>)[i] : i \in (1..Len(s)) \cup {Len(s) + 1}}
  BY <1>2, <1>3 DEF ToSet
<1>5. ToSet(s) = {s[i] : i \in 1..Len(s)}
  BY <1>2 DEF ToSet
<1> QED
  BY <1>1, <1>4, <1>5

LEMMA AppendNone ==
  ASSUME NEW S, NEW s \in Seq(S)
  PROVE  s \o <<>> = s
  OBVIOUS

\* A commit cuts the rows of the session in two.
LEMMA Cut ==
  ASSUME NEW S, NEW s \in Seq(S), NEW k \in 0..Len(s)
  PROVE  /\ ToSet(SubSeq(s, 1, k)) = {s[i] : i \in 1..k}
         /\ SubSeq(s, k + 1, Len(s)) \in Seq(S)
         /\ Len(SubSeq(s, k + 1, Len(s))) = Len(s) - k
         /\ \A i \in 1..Len(s) - k : SubSeq(s, k + 1, Len(s))[i] = s[k + i]
         /\ ToSet(SubSeq(s, k + 1, Len(s))) = {s[i] : i \in k + 1..Len(s)}
<1>1. \A i \in 1..Len(s) : s[i] \in S
  OBVIOUS
<1>2. /\ SubSeq(s, 1, k) \in Seq(S) /\ Len(SubSeq(s, 1, k)) = k
      /\ \A i \in 1..k : SubSeq(s, 1, k)[i] = s[i]
  BY <1>1, SubSeqProperties
<1>3. /\ SubSeq(s, k + 1, Len(s)) \in Seq(S)
      /\ Len(SubSeq(s, k + 1, Len(s))) = Len(s) - k
      /\ \A i \in 1..Len(s) - k : SubSeq(s, k + 1, Len(s))[i] = s[k + i]
  BY <1>1, SubSeqProperties
<1>4. DOMAIN SubSeq(s, 1, k) = 1..k
  BY <1>2
<1>5. DOMAIN SubSeq(s, k + 1, Len(s)) = 1..Len(s) - k
  BY <1>3
<1>6. ToSet(SubSeq(s, 1, k)) = {s[i] : i \in 1..k}
  BY <1>2, <1>4 DEF ToSet
<1>7. ToSet(SubSeq(s, k + 1, Len(s))) = {s[k + i] : i \in 1..Len(s) - k}
  BY <1>3, <1>5 DEF ToSet
<1>8. {s[k + i] : i \in 1..Len(s) - k} = {s[i] : i \in k + 1..Len(s)}
  <2>1. ASSUME NEW i \in k + 1..Len(s)
        PROVE  \E j \in 1..Len(s) - k : s[i] = s[k + j]
    <3>1. i - k \in 1..Len(s) - k /\ k + (i - k) = i
      OBVIOUS
    <3> QED
      BY <3>1
  <2>2. \A i \in 1..Len(s) - k : k + i \in k + 1..Len(s)
    OBVIOUS
  <2> QED
    BY <2>1, <2>2
<1> QED
  BY <1>3, <1>6, <1>7, <1>8

-----------------------------------------------------------------------------
(* The inductive invariant.                                                *)

\* What the entries on their way have to do with the clock and with the chain.
\* Unbroken alone is not inductive: the rows of the session are stored later,
\* and the next entry is linked to the head of the chain, not to a row.
Ordered ==
  /\ voiced \subseteq 1..clock
  /\ ChainHead(chain) \in 0..clock
  /\ \A q \in Rows : q.n <= clock
  /\ \A q \in Rows : q.n \notin voiced => q.n <= ChainHead(chain)
  /\ \A q, r \in Rows :
       {q.n, r.n} \cap voiced = {} => ~(r.prev < q.n /\ q.n < r.n)
  /\ \A a \in All : pc[a] \in {"read", "append"} => entry[a].n \in voiced

\* A row of the session is linked to a stored one or to one that is written
\* before it; so are, unless the session is dead, the next row of the engine and
\* the one a voice command is about to append.
Linked ==
  /\ PredecessorKept
  /\ \A i \in 1..Len(pending) :
       pending[i].prev \in Known \cup {pending[j].n : j \in 1..i - 1}
  /\ session /= "dead" => ChainHead(chain) \in Known \cup Numbers(ToSet(pending))
  /\ session /= "dead" =>
       \A a \in All : pc[a] = "append" =>
         entry[a].prev \in Known \cup Numbers(ToSet(pending))

Inv == TypeOK /\ Ordered /\ Linked

Numbered == [n : 0..MaxEntries, prev : 0..MaxEntries]

\* One caller at most waits for a commit.
OneCommit ==
  /\ \A a, b \in All : pc[a] = "commit" /\ pc[b] = "commit" => a = b
  /\ session = "committing" <=> \E a \in All : pc[a] = "commit"

\* Whoever calls append while no other commit is in progress waits for its own.
LEMMA StartCommitSteps ==
  ASSUME TypeOK, NEW a \in All, pc[a] /= "commit", NEW e \in Numbered,
         NEW rows \in Seq(Entries), StartCommit(a, e, rows)
  PROVE  /\ pending' \in Seq(Entries) /\ due' \in 0..Len(pending')
         /\ session' \in {"open", "committing", "dead"}
         /\ pc' \in [All -> {"idle", "read", "append", "commit"}]
         /\ entry' \in [All -> Numbered]
         /\ OneCommit'
         /\ session = "dead" <=> session' = "dead"
         /\ pending' = IF session = "dead" THEN pending ELSE pending \o rows
         /\ pc'[a] \in {"idle", "commit"}
         /\ \A b \in All \ {a} : pc'[b] = pc[b] /\ entry'[b] = entry[b]
<1> USE DEF All
<1>1. /\ pending \in Seq(Entries) /\ due \in 0..Len(pending)
      /\ session \in {"open", "committing", "dead"}
      /\ pc \in [All -> {"idle", "read", "append", "commit"}]
      /\ entry \in [All -> Numbered]
      /\ OneCommit
  BY DEF TypeOK, Numbered, OneCommit
<1>2. pending \o rows \in Seq(Entries) /\ Len(pending \o rows) = Len(pending) + Len(rows)
  BY <1>1
<1>3. pending' = IF session = "dead" THEN pending ELSE pending \o rows
  BY DEF StartCommit, Added
<1>4. NoEntry \in Numbered
  BY MaxIsNat DEF NoEntry, Numbered
<1>5. CASE session = "open"
  <2>1. /\ session' = "committing" /\ due' = Len(pending')
        /\ pc' = [pc EXCEPT ![a] = "commit"] /\ entry' = [entry EXCEPT ![a] = e]
    BY <1>5 DEF StartCommit, Goto
  <2>2. \A b \in All : pc[b] /= "commit"
    BY <1>1, <1>5 DEF OneCommit
  <2>3. pending' \in Seq(Entries) /\ due' \in 0..Len(pending')
    BY <1>2, <1>3, <1>5, <2>1
  <2>4. OneCommit'
    BY <1>1, <2>1, <2>2 DEF OneCommit
  <2> QED
    BY <1>1, <1>3, <1>5, <2>1, <2>3, <2>4
<1>6. CASE session /= "open"
  <2>1. /\ UNCHANGED <<session, due>>
        /\ pc' = [pc EXCEPT ![a] = "idle"] /\ entry' = [entry EXCEPT ![a] = NoEntry]
    BY <1>6 DEF StartCommit, Goto
  <2>2. pending' \in Seq(Entries) /\ due' \in 0..Len(pending')
    BY <1>1, <1>2, <1>3, <2>1
  <2>3. OneCommit'
    BY <1>1, <2>1 DEF OneCommit
  <2> QED
    BY <1>1, <1>3, <1>4, <2>1, <2>2, <2>3
<1> QED
  BY <1>5, <1>6

-----------------------------------------------------------------------------
(* What a step may do to the rows.                                         *)

LEMMA RowsType ==
  ASSUME TypeOK
  PROVE  Rows \subseteq Entries
<1>1. pending \in Seq(Entries) /\ table \subseteq Entries
  BY DEF TypeOK
<1>2. ToSet(pending) \subseteq Entries
  BY <1>1, ToSetType
<1> QED
  BY <1>1, <1>2 DEF Rows

\* A step that makes no row and leaves the chain keeps the order.
LEMMA OrderedKeeps ==
  ASSUME TypeOK, Ordered, clock' \in Nat, clock <= clock',
         Rows' \subseteq Rows, chain' = chain,
         voiced \subseteq voiced', voiced' \subseteq 1..clock',
         \A a \in All : pc'[a] \in {"read", "append"} => entry'[a].n \in voiced'
  PROVE  Ordered'
<1>1. clock \in Nat /\ ChainHead(chain)' = ChainHead(chain)
  BY MaxIsNat DEF TypeOK, ChainHead
<1>2. \A q \in Rows : q.n \in Nat /\ q.prev \in Nat
  BY RowsType, MaxIsNat DEF Entries
<1>3. ChainHead(chain)' \in 0..clock'
  BY <1>1 DEF Ordered
<1>4. \A q \in Rows' : q.n <= clock' /\ (q.n \notin voiced' => q.n <= ChainHead(chain)')
  BY <1>1, <1>2 DEF Ordered
<1>5. \A q, r \in Rows' :
        {q.n, r.n} \cap voiced' = {} => ~(r.prev < q.n /\ q.n < r.n)
  BY DEF Ordered
<1> QED
  BY <1>3, <1>4, <1>5 DEF Ordered

\* A step that takes nothing from what can be linked to keeps the links.
LEMMA LinkedKeeps ==
  ASSUME Linked, UNCHANGED <<table, pruned, chain, pending, session>>,
         \A a \in All : pc'[a] = "append" =>
           pc[a] = "append" /\ entry'[a].prev = entry[a].prev
  PROVE  Linked'
<1>1. Known' = Known /\ ToSet(pending)' = ToSet(pending) /\ PredecessorKept'
  BY DEF Known, ToSet, Linked, PredecessorKept
<1>2. ChainHead(chain)' = ChainHead(chain)
  BY DEF ChainHead
<1> QED
  BY <1>1, <1>2 DEF Linked

\* A row that joins the end of the session, linked to what is there.
LEMMA LinkedAppends ==
  ASSUME TypeOK, Linked, NEW e \in Entries,
         session /= "dead", session' /= "dead",
         e.prev \in Known \cup Numbers(ToSet(pending)),
         pending' = pending \o <<e>>, UNCHANGED <<table, pruned>>,
         chain' = chain \/ ChainHead(chain)' = e.n,
         \A a \in All : pc'[a] = "append" =>
           pc[a] = "append" /\ entry'[a].prev = entry[a].prev
  PROVE  Linked'
<1>1. Known' = Known /\ PredecessorKept'
  BY DEF Known, Linked, PredecessorKept
<1>2. pending \in Seq(Entries)
  BY DEF TypeOK
<1>3. /\ Len(pending') = Len(pending) + 1
      /\ \A i \in 1..Len(pending) : pending'[i] = pending[i]
      /\ pending'[Len(pending) + 1] = e
      /\ ToSet(pending)' = ToSet(pending) \cup {e}
  BY <1>2, AppendOne
<1>4. ToSet(pending) = {pending[j] : j \in 1..Len(pending)}
  BY <1>2 DEF ToSet
<1>5. Numbers(ToSet(pending)) = {pending[j].n : j \in 1..Len(pending)}
  BY <1>4 DEF Numbers
<1>6. Numbers(ToSet(pending))' = Numbers(ToSet(pending)) \cup {e.n}
  BY <1>3 DEF Numbers
<1>7. ASSUME NEW i \in 1..Len(pending')
      PROVE  pending'[i].prev \in Known \cup {pending'[j].n : j \in 1..i - 1}
  <2>1. CASE i \in 1..Len(pending)
    <3>1. pending[i].prev \in Known \cup {pending[j].n : j \in 1..i - 1}
      BY <2>1 DEF Linked
    <3>2. \A j \in 1..i - 1 : j \in 1..Len(pending)
      BY <2>1, <1>2
    <3> QED
      BY <2>1, <3>1, <3>2, <1>3
  <2>2. CASE i = Len(pending) + 1
    <3>1. i - 1 = Len(pending)
      BY <2>2, <1>2
    <3>2. {pending'[j].n : j \in 1..i - 1} = {pending[j].n : j \in 1..Len(pending)}
      BY <3>1, <1>3
    <3> QED
      BY <2>2, <3>2, <1>3, <1>5
  <2> QED
    BY <2>1, <2>2, <1>2, <1>3
<1>8. ChainHead(chain)' \in Known' \cup Numbers(ToSet(pending))'
  BY <1>1, <1>6 DEF Linked, ChainHead
<1>9. \A a \in All : pc'[a] = "append" =>
        entry'[a].prev \in Known' \cup Numbers(ToSet(pending))'
  BY <1>1, <1>6 DEF Linked
<1> QED
  BY <1>1, <1>7, <1>8, <1>9 DEF Linked

LEMMA TypeStep ==
  ASSUME TypeOK,
         chain' \in Seq(Entries), table' \subseteq Entries,
         pending' \in Seq(Entries), due' \in 0..Len(pending'),
         session' \in {"open", "committing", "dead"},
         pc' \in [All -> {"idle", "read", "append", "commit"}],
         entry' \in [All -> Numbered],
         clock' \in 0..MaxEntries, restarts' \in 0..MaxRestarts,
         pruned' \subseteq 1..MaxEntries, voiced' \subseteq 1..MaxEntries,
         OneCommit'
  PROVE  TypeOK'
  BY DEF TypeOK, All, Numbered, OneCommit

-----------------------------------------------------------------------------
(* The steps.                                                              *)

LEMMA CommitDoneKeeps ==
  ASSUME Inv, NEW a \in All, CommitDone(a)
  PROVE  Inv'
<1> USE DEF All
<1>1. /\ pending \in Seq(Entries) /\ due \in 0..Len(pending) /\ table \subseteq Entries
      /\ pc \in [All -> {"idle", "read", "append", "commit"}]
      /\ entry \in [All -> Numbered]
      /\ OneCommit
  BY DEF Inv, TypeOK, Numbered, OneCommit
<1>2. PICK k \in due..Len(pending) :
        /\ table' = table \cup ToSet(SubSeq(pending, 1, k))
        /\ pending' = SubSeq(pending, k + 1, Len(pending))
  BY DEF CommitDone
<1>3. k \in 0..Len(pending)
  BY <1>1, <1>2
<1>4. /\ table' = table \cup {pending[i] : i \in 1..k}
      /\ pending' \in Seq(Entries) /\ Len(pending') = Len(pending) - k
      /\ \A i \in 1..Len(pending') : pending'[i] = pending[k + i]
      /\ ToSet(pending)' = {pending[i] : i \in k + 1..Len(pending)}
  <2> DEFINE rest == SubSeq(pending, k + 1, Len(pending))
  <2>1. /\ ToSet(SubSeq(pending, 1, k)) = {pending[i] : i \in 1..k}
        /\ rest \in Seq(Entries) /\ Len(rest) = Len(pending) - k
        /\ \A i \in 1..Len(pending) - k : rest[i] = pending[k + i]
        /\ ToSet(rest) = {pending[i] : i \in k + 1..Len(pending)}
    BY <1>1, <1>3, Cut
  <2>2. pending' = rest
    BY <1>2
  <2> HIDE DEF rest
  <2>3. ToSet(pending)' = ToSet(rest)
    BY <2>2
  <2>4. table' = table \cup {pending[i] : i \in 1..k}
    BY <1>2, <2>1
  <2> QED
    BY <2>1, <2>2, <2>3, <2>4
<1>5. ToSet(pending) = {pending[i] : i \in 1..Len(pending)}
  BY <1>1 DEF ToSet
<1>6. /\ session = "committing" /\ session' = "open" /\ due' = 0
      /\ pc' = [pc EXCEPT ![a] = "idle"] /\ entry' = [entry EXCEPT ![a] = NoEntry]
      /\ UNCHANGED <<chain, clock, restarts, pruned, voiced>>
  BY <1>1 DEF CommitDone, Goto, OneCommit
<1>7. Rows' \subseteq Rows /\ table' \subseteq Rows /\ table \subseteq table'
  BY <1>3, <1>4, <1>5 DEF Rows
<1>8. TypeOK'
  <2>1. table' \subseteq Entries
    BY <1>7, RowsType DEF Inv
  <2>2. OneCommit'
    BY <1>1, <1>6 DEF CommitDone, OneCommit
  <2>3. NoEntry \in Numbered
    BY MaxIsNat DEF NoEntry, Numbered
  <2>4. /\ chain \in Seq(Entries) /\ clock \in 0..MaxEntries /\ restarts \in 0..MaxRestarts
        /\ pruned \subseteq 1..MaxEntries /\ voiced \subseteq 1..MaxEntries
    BY DEF Inv, TypeOK
  <2>5. due' \in 0..Len(pending')
    BY <1>4, <1>6
  <2> QED
    BY <1>1, <1>4, <1>6, <2>1, <2>2, <2>3, <2>4, <2>5, TypeStep DEF Inv
<1>9. Ordered'
  <2>1. clock \in Nat /\ voiced \subseteq 1..clock
    BY MaxIsNat DEF Inv, TypeOK, Ordered
  <2>2. \A b \in All : pc'[b] \in {"read", "append"} => entry'[b].n \in voiced'
    BY <1>1, <1>6 DEF Inv, Ordered
  <2> QED
    BY <1>6, <1>7, <2>1, <2>2, OrderedKeeps DEF Inv
<1>10. Linked'
  <2>1. Known' = Known \cup {pending[i].n : i \in 1..k}
    BY <1>4, <1>6 DEF Known, Numbers
  <2>2. Known' \cup Numbers(ToSet(pending))' = Known \cup Numbers(ToSet(pending))
    BY <1>3, <1>4, <1>5, <2>1 DEF Numbers
  <2>3. PredecessorKept'
    <3>1. \A r \in table : r.prev \in Known
      BY DEF Inv, Linked, PredecessorKept, Known, Numbers
    <3>2. ASSUME NEW i \in 1..k PROVE pending[i].prev \in Known'
      <4>1. i \in 1..Len(pending)
        BY <1>3
      <4>2. pending[i].prev \in Known \cup {pending[j].n : j \in 1..i - 1}
        BY <4>1 DEF Inv, Linked
      <4>3. \A j \in 1..i - 1 : j \in 1..k
        BY <1>3
      <4> QED
        BY <2>1, <4>2, <4>3
    <3>3. \A r \in table' : r.prev \in Known'
      BY <1>4, <2>1, <3>1, <3>2
    <3> QED
      BY <3>3 DEF PredecessorKept, Known, Numbers
  <2>4. ASSUME NEW i \in 1..Len(pending')
        PROVE  pending'[i].prev \in Known' \cup {pending'[j].n : j \in 1..i - 1}
    <3>1. k + i \in 1..Len(pending) /\ pending'[i] = pending[k + i]
      BY <1>1, <1>3, <1>4
    <3>2. pending[k + i].prev \in Known \cup {pending[j].n : j \in 1..k + i - 1}
      BY <3>1 DEF Inv, Linked
    <3>3. ASSUME NEW j \in 1..k + i - 1
          PROVE  pending[j].n \in Known' \cup {pending'[l].n : l \in 1..i - 1}
      <4>1. CASE j \in 1..k
        BY <2>1, <4>1
      <4>2. CASE j \notin 1..k
        <5>1. j - k \in 1..i - 1 /\ k + (j - k) = j /\ j - k \in 1..Len(pending')
          BY <4>2, <1>3, <1>1, <1>4
        <5>2. pending'[j - k] = pending[j]
          BY <5>1, <1>4
        <5> QED
          BY <5>1, <5>2
      <4> QED
        BY <4>1, <4>2
    <3> QED
      BY <2>1, <3>1, <3>2, <3>3
  <2>5. ChainHead(chain)' \in Known' \cup Numbers(ToSet(pending))'
    BY <1>6, <2>2 DEF Inv, Linked, ChainHead
  <2>6. \A b \in All : pc'[b] = "append" =>
          entry'[b].prev \in Known' \cup Numbers(ToSet(pending))'
    BY <1>1, <1>6, <2>2 DEF Inv, Linked
  <2> QED
    BY <2>3, <2>4, <2>5, <2>6 DEF Linked
<1> QED
  BY <1>8, <1>9, <1>10 DEF Inv

LEMMA CommitFailsKeeps ==
  ASSUME Inv, NEW a \in All, CommitFails(a)
  PROVE  Inv'
<1> USE DEF All
<1>1. /\ pc \in [All -> {"idle", "read", "append", "commit"}]
      /\ entry \in [All -> Numbered]
      /\ chain \in Seq(Entries) /\ table \subseteq Entries
      /\ clock \in 0..MaxEntries /\ restarts \in 0..MaxRestarts
      /\ pruned \subseteq 1..MaxEntries /\ voiced \subseteq 1..MaxEntries
      /\ OneCommit
  BY DEF Inv, TypeOK, Numbered, OneCommit
<1>2. /\ pending' = <<>> /\ session' = "dead" /\ due' = 0
      /\ pc' = [pc EXCEPT ![a] = "idle"] /\ entry' = [entry EXCEPT ![a] = NoEntry]
      /\ UNCHANGED <<chain, table, clock, restarts, pruned, voiced>>
  BY DEF CommitFails, Goto
<1>3. ToSet(pending)' = {} /\ Len(pending') = 0 /\ pending' \in Seq(Entries)
  BY <1>2, ToSetEmpty
<1>4. NoEntry \in Numbered
  BY MaxIsNat DEF NoEntry, Numbered
<1>5. OneCommit'
  BY <1>1, <1>2 DEF CommitFails, OneCommit
<1>6. TypeOK'
  BY <1>1, <1>2, <1>3, <1>4, <1>5, TypeStep DEF Inv
<1>7. Ordered'
  <2>1. Rows' \subseteq Rows
    BY <1>2, <1>3 DEF Rows
  <2>2. clock \in Nat /\ voiced \subseteq 1..clock
    BY <1>1, MaxIsNat DEF Inv, Ordered
  <2>3. \A b \in All : pc'[b] \in {"read", "append"} => entry'[b].n \in voiced'
    BY <1>1, <1>2 DEF Inv, Ordered
  <2> QED
    BY <1>2, <2>1, <2>2, <2>3, OrderedKeeps DEF Inv
<1>8. Linked'
  BY <1>2, <1>3 DEF Inv, Linked, PredecessorKept
<1> QED
  BY <1>6, <1>7, <1>8 DEF Inv

LEMMA StoreCommitsKeeps ==
  ASSUME Inv, StoreCommits
  PROVE  Inv'
<1>1. /\ pc[Store] = "idle" /\ session = "open" /\ StartCommit(Store, NoEntry, <<>>)
      /\ UNCHANGED <<chain, table, clock, restarts, pruned, voiced>>
  BY DEF StoreCommits
<1>2. /\ pending \in Seq(Entries) /\ chain \in Seq(Entries) /\ table \subseteq Entries
      /\ clock \in 0..MaxEntries /\ restarts \in 0..MaxRestarts
      /\ pruned \subseteq 1..MaxEntries /\ voiced \subseteq 1..MaxEntries
      /\ pc \in [All -> {"idle", "read", "append", "commit"}]
  BY DEF Inv, TypeOK, All
<1>3. NoEntry \in Numbered /\ Store \in All /\ <<>> \in Seq(Entries)
  BY MaxIsNat DEF NoEntry, Numbered, All
<1>4. /\ pending' \in Seq(Entries) /\ due' \in 0..Len(pending')
      /\ session' \in {"open", "committing", "dead"}
      /\ pc' \in [All -> {"idle", "read", "append", "commit"}]
      /\ entry' \in [All -> Numbered]
      /\ OneCommit'
      /\ session = "dead" <=> session' = "dead"
      /\ pending' = IF session = "dead" THEN pending ELSE pending \o <<>>
      /\ pc'[Store] \in {"idle", "commit"}
      /\ \A b \in All \ {Store} : pc'[b] = pc[b] /\ entry'[b] = entry[b]
  BY <1>1, <1>3, StartCommitSteps DEF Inv
<1>5. pending' = pending
  BY <1>2, <1>4, AppendNone
<1>6. \A b \in All : pc'[b] \in {"read", "append"} =>
        pc'[b] = pc[b] /\ entry'[b] = entry[b]
  BY <1>4
<1>7. TypeOK'
  BY <1>1, <1>2, <1>4, TypeStep DEF Inv
<1>8. Ordered'
  <2>1. Rows' \subseteq Rows
    BY <1>1, <1>5 DEF Rows
  <2>2. clock \in Nat /\ voiced \subseteq 1..clock
    BY <1>2, MaxIsNat DEF Inv, Ordered
  <2>3. \A b \in All : pc'[b] \in {"read", "append"} => entry'[b].n \in voiced'
    BY <1>1, <1>6 DEF Inv, Ordered
  <2> QED
    BY <1>1, <2>1, <2>2, <2>3, OrderedKeeps DEF Inv
<1>9. Linked'
  <2>1. Known' = Known /\ ToSet(pending)' = ToSet(pending) /\ PredecessorKept'
    BY <1>1, <1>5 DEF Known, ToSet, Inv, Linked, PredecessorKept
  <2>2. ChainHead(chain)' = ChainHead(chain)
    BY <1>1 DEF ChainHead
  <2> QED
    BY <1>4, <1>5, <1>6, <2>1, <2>2 DEF Inv, Linked
<1> QED
  BY <1>7, <1>8, <1>9 DEF Inv

\* The head of a chain that grew by e.
LEMMA HeadOfAppend ==
  ASSUME NEW c \in Seq(Entries), NEW e \in Entries
  PROVE  Append(c, e) \in Seq(Entries) /\ ChainHead(Append(c, e)) = e.n
<1>1. /\ Append(c, e) \in Seq(Entries) /\ Len(Append(c, e)) = Len(c) + 1
      /\ Append(c, e)[Len(c) + 1] = e /\ Append(c, e) /= <<>>
  OBVIOUS
<1> QED
  BY <1>1 DEF ChainHead, Last

LEMMA AuditKeeps ==
  ASSUME Inv, NEW a \in Auditors, Audit(a)
  PROVE  Inv'
<1> DEFINE e == [n |-> clock + 1, prev |-> ChainHead(chain)]
<1>1. /\ pc[a] = "idle" /\ clock < MaxEntries /\ a \in All
      /\ chain' = Append(chain, e) /\ StartCommit(a, e, <<e>>)
      /\ clock' = clock + 1
      /\ UNCHANGED <<table, restarts, pruned, voiced>>
  BY DEF Audit, All, Actors
<1>2. /\ pending \in Seq(Entries) /\ chain \in Seq(Entries) /\ table \subseteq Entries
      /\ clock \in 0..MaxEntries /\ restarts \in 0..MaxRestarts
      /\ pruned \subseteq 1..MaxEntries /\ voiced \subseteq 1..MaxEntries
      /\ session \in {"open", "committing", "dead"}
  BY DEF Inv, TypeOK
<1>3. ChainHead(chain) \in 0..clock /\ voiced \subseteq 1..clock
  BY DEF Inv, Ordered
<1>4. e \in Entries /\ e \in Numbered /\ <<e>> \in Seq(Entries)
  BY <1>1, <1>2, <1>3, MaxIsNat DEF Entries, Numbered
<1>5. chain' \in Seq(Entries) /\ ChainHead(chain)' = clock + 1
  <2>1. Append(chain, e) \in Seq(Entries) /\ ChainHead(Append(chain, e)) = e.n
    BY <1>2, <1>4, HeadOfAppend
  <2>2. ChainHead(chain)' = ChainHead(chain')
    BY DEF ChainHead
  <2> QED
    BY <1>1, <2>1, <2>2
<1> HIDE DEF e
<1>6. /\ pending' \in Seq(Entries) /\ due' \in 0..Len(pending')
      /\ session' \in {"open", "committing", "dead"}
      /\ pc' \in [All -> {"idle", "read", "append", "commit"}]
      /\ entry' \in [All -> Numbered]
      /\ OneCommit'
      /\ session = "dead" <=> session' = "dead"
      /\ pending' = IF session = "dead" THEN pending ELSE pending \o <<e>>
      /\ pc'[a] \in {"idle", "commit"}
      /\ \A b \in All \ {a} : pc'[b] = pc[b] /\ entry'[b] = entry[b]
  BY <1>1, <1>4, StartCommitSteps DEF Inv
<1>7. \A b \in All : pc'[b] \in {"read", "append"} =>
        pc'[b] = pc[b] /\ entry'[b] = entry[b]
  BY <1>6
<1>8. e.n = clock + 1 /\ e.prev = ChainHead(chain)
  BY DEF e
<1>9. ToSet(pending') \subseteq ToSet(pending) \cup {e}
  BY <1>2, <1>4, <1>6, AppendOne
<1>10. TypeOK'
  <2>1. clock' \in 0..MaxEntries
    BY <1>1, <1>2, MaxIsNat
  <2> QED
    BY <1>1, <1>2, <1>5, <1>6, <2>1, TypeStep DEF Inv
<1>11. Ordered'
  <2>1. Rows' \subseteq Rows \cup {e}
    BY <1>1, <1>9 DEF Rows
  <2>2. \A q \in Rows : q.n \in Nat /\ q.prev \in Nat /\ q.n <= clock
    BY RowsType, MaxIsNat DEF Inv, Ordered, Entries
  <2>3. clock \in Nat /\ clock + 1 \notin voiced /\ ChainHead(chain) \in Nat
    BY <1>2, <1>3, MaxIsNat
  <2>4. \A q \in Rows' : q.n <= clock' /\ q.n <= ChainHead(chain)'
    BY <1>1, <1>5, <1>8, <2>1, <2>2, <2>3
  <2>5. ASSUME NEW q \in Rows', NEW r \in Rows', {q.n, r.n} \cap voiced' = {},
               r.prev < q.n, q.n < r.n
        PROVE  FALSE
    <3>1. voiced' = voiced
      BY <1>1
    <3>2. CASE q \in Rows /\ r \in Rows
      BY <2>5, <3>1, <3>2 DEF Inv, Ordered
    <3>3. CASE q = e
      BY <2>1, <2>2, <2>3, <2>5, <3>3, <1>8
    <3>4. CASE q \in Rows /\ r = e
      <4>1. q.n <= ChainHead(chain)
        BY <2>5, <3>1, <3>4 DEF Inv, Ordered
      <4> QED
        BY <2>2, <2>3, <2>5, <3>4, <4>1, <1>8
    <3> QED
      BY <2>1, <3>2, <3>3, <3>4
  <2>6. \A b \in All : pc'[b] \in {"read", "append"} => entry'[b].n \in voiced'
    BY <1>1, <1>7 DEF Inv, Ordered
  <2>7. voiced' \subseteq 1..clock' /\ ChainHead(chain)' \in 0..clock'
    BY <1>1, <1>3, <1>5, <2>3
  <2> QED
    BY <2>4, <2>5, <2>6, <2>7 DEF Ordered
<1>12. Linked'
  <2>1. CASE session = "dead"
    <3>1. /\ UNCHANGED <<table, pruned, pending>> /\ session' = "dead"
      BY <1>1, <1>6, <2>1
    <3>2. Known' = Known /\ PredecessorKept'
      BY <3>1 DEF Known, Inv, Linked, PredecessorKept
    <3> QED
      BY <3>1, <3>2 DEF Inv, Linked
  <2>2. CASE session /= "dead"
    <3>1. e.prev \in Known \cup Numbers(ToSet(pending))
      BY <1>8, <2>2 DEF Inv, Linked
    <3>2. pending' = pending \o <<e>> /\ session' /= "dead"
      BY <1>6, <2>2
    <3>3. ChainHead(chain)' = e.n
      BY <1>5, <1>8
    <3> QED
      BY <1>1, <1>4, <1>7, <2>2, <3>1, <3>2, <3>3, LinkedAppends DEF Inv
  <2> QED
    BY <2>1, <2>2
<1> QED
  BY <1>10, <1>11, <1>12 DEF Inv

\* A step that leaves the session alone, and the rows, and moves one voice
\* command.
LEMMA VoiceStep ==
  ASSUME Inv, NEW v \in All, pc[v] /= "commit",
         NEW await \in {"idle", "read", "append"}, NEW e \in Numbered,
         pc' = [pc EXCEPT ![v] = await], entry' = [entry EXCEPT ![v] = e],
         UNCHANGED <<chain, table, pending, session, due, restarts, pruned>>,
         clock' \in 0..MaxEntries, clock <= clock',
         voiced \subseteq voiced', voiced' \subseteq 1..clock',
         await /= "idle" => e.n \in voiced'
  PROVE  TypeOK' /\ Ordered'
<1> USE DEF All
<1>1. /\ pending \in Seq(Entries) /\ chain \in Seq(Entries) /\ table \subseteq Entries
      /\ due \in 0..Len(pending) /\ session \in {"open", "committing", "dead"}
      /\ restarts \in 0..MaxRestarts /\ pruned \subseteq 1..MaxEntries
      /\ pc \in [All -> {"idle", "read", "append", "commit"}]
      /\ entry \in [All -> Numbered] /\ clock \in 0..MaxEntries
      /\ OneCommit
  BY DEF Inv, TypeOK, Numbered, OneCommit
<1>2. OneCommit'
  BY <1>1 DEF OneCommit
<1>3. voiced' \subseteq 1..MaxEntries /\ clock' \in Nat
  BY MaxIsNat
<1>4. TypeOK'
  BY <1>1, <1>2, <1>3, TypeStep DEF Inv
<1>5. \A b \in All : pc'[b] \in {"read", "append"} => entry'[b].n \in voiced'
  BY <1>1 DEF Inv, Ordered
<1>6. Rows' \subseteq Rows
  BY DEF Rows
<1> QED
  BY <1>3, <1>4, <1>5, <1>6, OrderedKeeps DEF Inv

LEMMA VoiceBeginsKeeps ==
  ASSUME Inv, NEW v \in Voices, VoiceBegins(v)
  PROVE  Inv'
<1> DEFINE e == [NoEntry EXCEPT !.n = clock + 1]
<1>1. /\ v \in All /\ pc[v] = "idle" /\ clock < MaxEntries /\ clock' = clock + 1
      /\ voiced' = voiced \cup {clock + 1}
      /\ pc' = [pc EXCEPT ![v] = "read"] /\ entry' = [entry EXCEPT ![v] = e]
      /\ UNCHANGED <<chain, table, pending, session, due, restarts, pruned>>
  BY DEF VoiceBegins, Goto, All, Actors
<1>2. /\ clock \in 0..MaxEntries /\ voiced \subseteq 1..clock
      /\ pc \in [All -> {"idle", "read", "append", "commit"}]
      /\ entry \in [All -> Numbered]
  BY DEF Inv, TypeOK, Ordered, All, Numbered
<1>3. e \in Numbered /\ e.n = clock + 1
  BY <1>1, <1>2, MaxIsNat DEF NoEntry, Numbered
<1>4. /\ clock' \in 0..MaxEntries /\ clock <= clock' /\ voiced' \subseteq 1..clock'
      /\ e.n \in voiced'
  BY <1>1, <1>2, <1>3, MaxIsNat
<1> HIDE DEF e
<1>5. TypeOK' /\ Ordered'
  BY <1>1, <1>3, <1>4, VoiceStep
<1>6. \A b \in All : pc'[b] = "append" => pc[b] = "append" /\ entry'[b].prev = entry[b].prev
  BY <1>1, <1>2
<1> QED
  BY <1>1, <1>5, <1>6, LinkedKeeps DEF Inv

LEMMA VoiceReadsKeeps ==
  ASSUME Inv, NEW v \in Voices, VoiceReads(v)
  PROVE  Inv'
<1>1. /\ v \in All /\ pc[v] = "read"
      /\ UNCHANGED <<chain, table, pending, session, due, clock, restarts, pruned, voiced>>
  BY DEF VoiceReads, All, Actors
<1>2. /\ clock \in 0..MaxEntries /\ voiced \subseteq 1..clock
      /\ pc \in [All -> {"idle", "read", "append", "commit"}]
      /\ entry \in [All -> Numbered] /\ entry[v] \in Numbered
      /\ entry[v].n \in voiced
  BY <1>1 DEF Inv, TypeOK, Ordered, All, Numbered
<1>3. clock \in Nat
  BY <1>2, MaxIsNat
<1>4. Flushed = Rows
  BY DEF Flushed, Rows
<1>5. PICK await \in {"idle", "append"}, e \in Numbered :
        /\ pc' = [pc EXCEPT ![v] = await] /\ entry' = [entry EXCEPT ![v] = e]
        /\ await = "append" =>
             e.n = entry[v].n /\ e.prev \in {0} \cup Numbers(Rows)
  <2>1. CASE session = "open" /\ \E hash \in LastHash(Flushed) :
               Goto(v, "append", [entry[v] EXCEPT !.prev = hash])
    <3>1. PICK hash \in LastHash(Flushed) :
            Goto(v, "append", [entry[v] EXCEPT !.prev = hash])
      BY <2>1
    <3>2. hash \in {0} \cup Numbers(Rows)
      BY <1>4 DEF LastHash, Latest, Numbers
    <3>3. hash \in 0..MaxEntries
      BY <3>2, RowsType, MaxIsNat DEF Inv, Numbers, Entries
    <3>4. /\ [entry[v] EXCEPT !.prev = hash] \in Numbered
          /\ [entry[v] EXCEPT !.prev = hash].n = entry[v].n
          /\ [entry[v] EXCEPT !.prev = hash].prev = hash
      BY <1>2, <3>3 DEF Numbered
    <3> QED
      BY <3>1, <3>2, <3>4 DEF Goto
  <2>2. CASE session /= "open" /\ Goto(v, "idle", NoEntry)
    <3>1. NoEntry \in Numbered
      BY MaxIsNat DEF NoEntry, Numbered
    <3> QED
      BY <2>2, <3>1 DEF Goto
  <2> QED
    BY <2>1, <2>2 DEF VoiceReads
<1>6. TypeOK' /\ Ordered'
  <2>1. await /= "idle" => e.n \in voiced'
    BY <1>1, <1>2, <1>5
  <2>2. /\ clock' \in 0..MaxEntries /\ clock <= clock'
        /\ voiced \subseteq voiced' /\ voiced' \subseteq 1..clock'
    BY <1>1, <1>2, <1>3
  <2>3. await \in {"idle", "read", "append"} /\ pc[v] /= "commit"
    BY <1>1
  <2> QED
    BY <1>1, <1>5, <2>1, <2>2, <2>3, VoiceStep
<1>7. Linked'
  <2>1. Known' = Known /\ ToSet(pending)' = ToSet(pending) /\ PredecessorKept'
    BY <1>1 DEF Known, ToSet, Inv, Linked, PredecessorKept
  <2>2. ChainHead(chain)' = ChainHead(chain)
    BY <1>1 DEF ChainHead
  <2>3. {0} \cup Numbers(Rows) \subseteq Known \cup Numbers(ToSet(pending))
    BY DEF Numbers, Rows, Known
  <2>4. \A b \in All : pc'[b] = "append" => b = v \/ (pc[b] = "append" /\ entry'[b] = entry[b])
    BY <1>2, <1>5
  <2>5. ASSUME session' /= "dead", NEW b \in All, pc'[b] = "append"
        PROVE  entry'[b].prev \in Known' \cup Numbers(ToSet(pending))'
    <3>1. CASE b = v
      <4>1. await = "append" /\ entry'[v] = e
        BY <1>1, <1>2, <1>5, <2>5, <3>1
      <4> QED
        BY <1>5, <2>1, <2>3, <3>1, <4>1
    <3>2. CASE b /= v
      BY <1>1, <2>1, <2>4, <2>5, <3>2 DEF Inv, Linked
    <3> QED
      BY <3>1, <3>2
  <2> QED
    BY <1>1, <2>1, <2>2, <2>5 DEF Inv, Linked
<1> QED
  BY <1>6, <1>7 DEF Inv

LEMMA VoiceAppendsKeeps ==
  ASSUME Inv, NEW v \in Voices, VoiceAppends(v)
  PROVE  Inv'
<1> DEFINE e == entry[v]
<1>1. /\ v \in All /\ pc[v] = "append" /\ StartCommit(v, e, <<e>>)
      /\ UNCHANGED <<chain, table, clock, restarts, pruned, voiced>>
  BY DEF VoiceAppends, All, Actors
<1>2. /\ pending \in Seq(Entries) /\ chain \in Seq(Entries) /\ table \subseteq Entries
      /\ clock \in 0..MaxEntries /\ restarts \in 0..MaxRestarts
      /\ pruned \subseteq 1..MaxEntries /\ voiced \subseteq 1..MaxEntries
      /\ e \in Numbered
  BY <1>1 DEF Inv, TypeOK, All, Numbered
<1>3. e.n \in voiced /\ voiced \subseteq 1..clock
  BY <1>1 DEF Inv, Ordered
<1> HIDE DEF e
<1>4. e \in Entries /\ <<e>> \in Seq(Entries)
  <2>1. e.n \in 1..MaxEntries
    BY <1>2, <1>3
  <2>2. e = [n |-> e.n, prev |-> e.prev] /\ e.prev \in 0..MaxEntries
    BY <1>2 DEF Numbered
  <2>3. e \in Entries
    BY <2>1, <2>2 DEF Entries
  <2> QED
    BY <2>3
<1>5. /\ pending' \in Seq(Entries) /\ due' \in 0..Len(pending')
      /\ session' \in {"open", "committing", "dead"}
      /\ pc' \in [All -> {"idle", "read", "append", "commit"}]
      /\ entry' \in [All -> Numbered]
      /\ OneCommit'
      /\ session = "dead" <=> session' = "dead"
      /\ pending' = IF session = "dead" THEN pending ELSE pending \o <<e>>
      /\ pc'[v] \in {"idle", "commit"}
      /\ \A b \in All \ {v} : pc'[b] = pc[b] /\ entry'[b] = entry[b]
  BY <1>1, <1>2, <1>4, StartCommitSteps DEF Inv
<1>6. \A b \in All : pc'[b] \in {"read", "append"} =>
        pc'[b] = pc[b] /\ entry'[b] = entry[b]
  BY <1>5
<1>7. TypeOK'
  BY <1>1, <1>2, <1>5, TypeStep DEF Inv
<1>8. Ordered'
  <2>1. Rows' \subseteq Rows \cup {e}
    BY <1>1, <1>2, <1>4, <1>5, AppendOne DEF Rows
  <2>2. ChainHead(chain)' = ChainHead(chain) /\ ChainHead(chain) \in 0..clock
    BY <1>1 DEF ChainHead, Inv, Ordered
  <2>3. \A q \in Rows' : q.n <= clock' /\ (q.n \notin voiced' => q.n <= ChainHead(chain)')
    <3>1. \A q \in Rows : q.n <= clock /\ (q.n \notin voiced => q.n <= ChainHead(chain))
      BY DEF Inv, Ordered
    <3>2. e.n <= clock
      <4>1. e.n \in 1..clock
        BY <1>3
      <4>2. clock \in Nat
        BY <1>2, MaxIsNat
      <4> QED
        BY <4>1, <4>2
    <3> QED
      BY <1>1, <1>3, <2>1, <2>2, <3>1, <3>2
  <2>4. \A q, r \in Rows' :
          {q.n, r.n} \cap voiced' = {} => ~(r.prev < q.n /\ q.n < r.n)
    BY <1>1, <1>3, <2>1 DEF Inv, Ordered
  <2>5. \A b \in All : pc'[b] \in {"read", "append"} => entry'[b].n \in voiced'
    BY <1>1, <1>6 DEF Inv, Ordered
  <2> QED
    BY <1>1, <1>3, <2>2, <2>3, <2>4, <2>5 DEF Ordered
<1>9. Linked'
  <2>1. CASE session = "dead"
    <3>1. UNCHANGED <<table, pruned, pending, chain>> /\ session' = "dead"
      BY <1>1, <1>5, <2>1
    <3>2. Known' = Known /\ PredecessorKept'
      BY <3>1 DEF Known, Inv, Linked, PredecessorKept
    <3> QED
      BY <3>1, <3>2 DEF Inv, Linked
  <2>2. CASE session /= "dead"
    <3>1. e.prev \in Known \cup Numbers(ToSet(pending))
      BY <1>1, <2>2 DEF Inv, Linked, e
    <3>2. pending' = pending \o <<e>> /\ session' /= "dead"
      BY <1>5, <2>2
    <3> QED
      BY <1>1, <1>4, <1>6, <2>2, <3>1, <3>2, LinkedAppends DEF Inv
  <2> QED
    BY <2>1, <2>2
<1> QED
  BY <1>7, <1>8, <1>9 DEF Inv

LEMMA RestartKeeps ==
  ASSUME Inv, Restart
  PROVE  Inv'
<1>1. /\ chain' \in Restored(table) /\ pending' = <<>> /\ session' = "open" /\ due' = 0
      /\ restarts < MaxRestarts /\ restarts' = restarts + 1
      /\ pc' = [a \in All |-> "idle"] /\ entry' = [a \in All |-> NoEntry]
      /\ UNCHANGED <<clock, voiced>>
  BY DEF Restart, All
<1>2. PICK cutoff \in Cutoffs :
        /\ table' = {r \in table : r.n > cutoff}
        /\ pruned' = pruned \cup {r.n : r \in table \ table'}
  BY DEF Restart
<1>3. /\ table \subseteq Entries /\ clock \in 0..MaxEntries /\ restarts \in 0..MaxRestarts
      /\ pruned \subseteq 1..MaxEntries /\ voiced \subseteq 1..MaxEntries
  BY DEF Inv, TypeOK
<1>4. table' \subseteq table /\ table \subseteq Rows /\ table' \subseteq Rows
  BY <1>2 DEF Rows
<1>5. Rows' = table' /\ Len(pending') = 0 /\ ToSet(pending)' = {}
  BY <1>1, ToSetEmpty DEF Rows
<1>6. /\ chain' \in Seq(Entries)
      /\ ChainHead(chain)' \in {0} \cup Numbers(table)
      /\ \A q \in table : q.n <= ChainHead(chain)'
  <2>1. CASE table = {}
    <3>1. chain' = <<>>
      BY <1>1, <2>1 DEF Restored
    <3> QED
      BY <2>1, <3>1 DEF ChainHead
  <2>2. CASE table /= {}
    <3>1. PICK r \in Latest(table) : chain' = <<r>>
      BY <1>1, <2>2 DEF Restored
    <3>2. r \in table /\ \A q \in table : q.n <= r.n
      BY DEF Latest
    <3>3. ChainHead(chain)' = r.n
      BY <3>1 DEF ChainHead, Last
    <3> QED
      BY <1>3, <3>1, <3>2, <3>3 DEF Numbers
  <2> QED
    BY <2>1, <2>2
<1>7. TypeOK'
  <2>1. pruned' \subseteq 1..MaxEntries
    <3>1. \A r \in table : r.n \in 1..MaxEntries
      BY <1>3 DEF Entries
    <3> QED
      BY <1>2, <1>3, <3>1
  <2>2. NoEntry \in Numbered
    BY MaxIsNat DEF NoEntry, Numbered
  <2>3. restarts' \in 0..MaxRestarts
    BY <1>1, <1>3, AuditAssumption
  <2>4. OneCommit'
    BY <1>1 DEF OneCommit
  <2> QED
    BY <1>1, <1>3, <1>4, <1>5, <1>6, <2>1, <2>2, <2>3, <2>4, TypeStep DEF Inv
<1>8. Ordered'
  <2>1. /\ voiced \subseteq 1..clock
        /\ \A q \in Rows : q.n <= clock
        /\ \A q, r \in Rows :
             {q.n, r.n} \cap voiced = {} => ~(r.prev < q.n /\ q.n < r.n)
    BY DEF Inv, Ordered
  <2>2. ChainHead(chain)' \in 0..clock'
    BY <1>1, <1>3, <1>4, <1>6, <2>1, MaxIsNat DEF Numbers, Entries
  <2>3. \A a \in All : pc'[a] = "idle"
    BY <1>1
  <2> QED
    BY <1>1, <1>4, <1>5, <1>6, <2>1, <2>2, <2>3 DEF Ordered
<1>9. Linked'
  <2>1. Numbers(table) \subseteq pruned' \cup Numbers(table')
    BY <1>2 DEF Numbers
  <2>2. Known \subseteq Known' /\ Numbers(table) \subseteq Known'
    BY <1>2, <2>1 DEF Known, Numbers
  <2>3. PredecessorKept'
    BY <1>4, <2>2 DEF Inv, Linked, PredecessorKept, Known, Numbers
  <2>4. ChainHead(chain)' \in Known'
    BY <1>6, <2>2 DEF Known
  <2>5. \A a \in All : pc'[a] = "idle"
    BY <1>1
  <2> QED
    BY <1>5, <2>3, <2>4, <2>5 DEF Linked
<1> QED
  BY <1>7, <1>8, <1>9 DEF Inv

-----------------------------------------------------------------------------
(* The theorems.                                                           *)

LEMMA InitInv == Init => Inv
<1> SUFFICES ASSUME Init PROVE Inv
  OBVIOUS
<1>1. /\ chain = <<>> /\ table = {} /\ pending = <<>> /\ session = "open" /\ due = 0
      /\ pc = [a \in All |-> "idle"] /\ entry = [a \in All |-> NoEntry]
      /\ clock = 0 /\ restarts = 0 /\ pruned = {} /\ voiced = {}
  BY DEF Init, All
<1>2. NoEntry \in Numbered
  BY MaxIsNat DEF NoEntry, Numbered
<1>3. TypeOK
  BY <1>1, <1>2, MaxIsNat, AuditAssumption DEF TypeOK, All, Numbered
<1>4. Rows = {} /\ ChainHead(chain) = 0 /\ Len(pending) = 0
  BY <1>1, ToSetEmpty DEF Rows, ChainHead
<1>5. Ordered
  BY <1>1, <1>4 DEF Ordered
<1>6. Linked
  BY <1>1, <1>4 DEF Linked, PredecessorKept, Known
<1> QED
  BY <1>3, <1>5, <1>6 DEF Inv

LEMMA NextInv == Inv /\ [Next]_vars => Inv'
<1> SUFFICES ASSUME Inv, [Next]_vars PROVE Inv'
  OBVIOUS
<1>1. ASSUME NEW a \in All, CommitDone(a) \/ CommitFails(a) PROVE Inv'
  BY <1>1, CommitDoneKeeps, CommitFailsKeeps
<1>2. CASE StoreCommits
  BY <1>2, StoreCommitsKeeps
<1>3. ASSUME NEW a \in Auditors, Audit(a) PROVE Inv'
  BY <1>3, AuditKeeps
<1>4. ASSUME NEW v \in Voices, VoiceBegins(v) \/ VoiceReads(v) \/ VoiceAppends(v)
      PROVE  Inv'
  BY <1>4, VoiceBeginsKeeps, VoiceReadsKeeps, VoiceAppendsKeeps
<1>5. CASE Restart
  BY <1>5, RestartKeeps
<1>6. CASE UNCHANGED vars
  <2>1. UNCHANGED <<chain, table, pending, session, due, pc, entry, clock, restarts,
                    pruned, voiced>>
    BY <1>6 DEF vars, memory
  <2>2. TypeOK'
    BY <2>1 DEF Inv, TypeOK
  <2>3. Rows' = Rows /\ ChainHead(chain)' = ChainHead(chain)
    BY <2>1 DEF Rows, ToSet, ChainHead
  <2>4. Ordered'
    BY <2>1, <2>3 DEF Inv, Ordered
  <2>5. Linked'
    BY <2>1, LinkedKeeps DEF Inv
  <2> QED
    BY <2>2, <2>4, <2>5 DEF Inv
<1> QED
  BY <1>1, <1>2, <1>3, <1>4, <1>5, <1>6 DEF Next, All

\* The inductive invariant holds in every reachable state.
THEOREM Invariance == Spec => []Inv
  BY InitInv, NextInv, PTL DEF Spec

\* The variables keep their types, and a single caller at a time waits for a
\* commit of the shared session.
THEOREM TypeCorrect == Spec => []TypeOK
<1>1. Inv => TypeOK
  BY DEF Inv
<1> QED
  BY <1>1, Invariance, PTL

\* For any number of requests, voice commands, failed commits and restarts, with
\* and without retention, no stored row of the engine is passed over by a later
\* one (PolicyEngine._append_audit, set_chain_head, AuditStore.append).
THEOREM ChainUnbroken == Spec => []Unbroken
<1>1. Inv => Unbroken
  BY DEF Inv, Ordered, Unbroken, Rows
<1> QED
  BY <1>1, Invariance, PTL

\* A stored row's predecessor is stored, or was removed by prune_before, however
\* the commits of requests, voice commands and other stores interleave.
THEOREM PredecessorsKept == Spec => []PredecessorKept
<1>1. Inv => PredecessorKept
  BY DEF Inv, Linked
<1> QED
  BY <1>1, Invariance, PTL
=============================================================================
