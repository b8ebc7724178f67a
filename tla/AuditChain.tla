----------------------------- MODULE AuditChain -----------------------------
(***************************************************************************)
(* The audit trail: the hash chain PolicyEngine keeps in memory            *)
(* (policy_engine/engine.py), its rows (store/audit_store.py), the start   *)
(* of the API that restores its head and prunes old rows (api/app.py), and *)
(* the voice handler, which writes rows of its own                         *)
(* (adapters/voice_handler.py).                                            *)
(*                                                                         *)
(* An entry is [n, prev]: n stands for its identity, its time stamp and    *)
(* its hash (a hash that covers id, time and prev_hash is equal for equal  *)
(* entries only), prev for its prev_hash, 0 for the empty one.  The clock  *)
(* is assumed to go forward, over restarts too.                            *)
(*                                                                         *)
(* All stores of the program share one database session.  Nothing rolls it *)
(* back: after a flush that failed every later commit raises.              *)
(***************************************************************************)
EXTENDS Naturals, Sequences, FiniteSets, SequencesExt

CONSTANTS
  Auditors,     \* requests that call evaluate or audit
  Voices,       \* voice commands being logged
  Retention,    \* audit_retention_days > 0
  MaxEntries,   \* bound: entries made
  MaxRestarts   \* bound: restarts of the process

ASSUME AuditAssumption ==
  /\ Retention \in BOOLEAN
  /\ MaxEntries \in Nat \ {0} /\ MaxRestarts \in Nat

VARIABLES
  chain,     \* _audit_chain
  table,     \* the rows of audit_entries
  pending,   \* the rows added to the session and not committed, in order
  session,   \* "open", "committing" or "dead"
  due,       \* how many rows of pending the commit in progress must write
  pc,        \* pc[a]: the await of a request or of a voice command
  entry,     \* entry[a]: the entry it is writing
  clock,     \* entries made so far
  restarts,
  pruned,    \* history: the entries retention removed
  voiced     \* history: the entries voice commands made

memory == <<chain, pending, session, due, pc, entry>>
vars == <<memory, table, clock, restarts, pruned, voiced>>

Actors == Auditors \cup Voices
Store == "store"              \* any other store committing on the session
Entries == [n : 1..MaxEntries, prev : 0..MaxEntries]
NoEntry == [n |-> 0, prev |-> 0]

\* get_last: the newest of rows.
Latest(rows) == {r \in rows : \A q \in rows : q.n <= r.n}

Init ==
  /\ chain = <<>> /\ table = {}
  /\ pending = <<>> /\ session = "open" /\ due = 0
  /\ pc = [a \in Actors \cup {Store} |-> "idle"]
  /\ entry = [a \in Actors \cup {Store} |-> NoEntry]
  /\ clock = 0 /\ restarts = 0
  /\ pruned = {} /\ voiced = {}

-----------------------------------------------------------------------------
(* append: the row joins the session, and the commit starts.  While another *)
(* commit is in progress it raises and the row stays; a dead session never  *)
(* writes it.                                                               *)

Goto(a, await, e) ==
  /\ pc' = [pc EXCEPT ![a] = await]
  /\ entry' = [entry EXCEPT ![a] = IF await = "idle" THEN NoEntry ELSE e]

Added(rows) == IF session = "dead" THEN pending ELSE pending \o rows

StartCommit(a, e, rows) ==
  /\ pending' = Added(rows)
  /\ IF session = "open"
     THEN /\ session' = "committing"
          /\ due' = Len(pending')
          /\ Goto(a, "commit", e)
     ELSE /\ Goto(a, "idle", e)
          /\ UNCHANGED <<session, due>>

\* Wrong: the request writes its own row and leaves those of others.
CommitDone_OwnRow(a) ==
  /\ pc[a] = "commit"
  /\ table' = table \cup (ToSet(pending) \cap {entry[a]})
  /\ pending' = SelectSeq(pending, LAMBDA r : r /= entry[a])
  /\ session' = "open" /\ due' = 0
  /\ Goto(a, "idle", NoEntry)
  /\ UNCHANGED <<chain, clock, restarts, pruned, voiced>>

\* The commit writes the rows it found and some that were added meanwhile.
CommitDone(a) ==
  /\ pc[a] = "commit"
  /\ \E k \in due..Len(pending) :
       /\ table' = table \cup ToSet(SubSeq(pending, 1, k))
       /\ pending' = SubSeq(pending, k + 1, Len(pending))
  /\ session' = "open" /\ due' = 0
  /\ Goto(a, "idle", NoEntry)
  /\ UNCHANGED <<chain, clock, restarts, pruned, voiced>>

\* The flush fails and takes its rows with it; the append raises.
CommitFails(a) ==
  /\ pc[a] = "commit"
  /\ pending' = <<>> /\ session' = "dead" /\ due' = 0
  /\ Goto(a, "idle", NoEntry)
  /\ UNCHANGED <<chain, table, clock, restarts, pruned, voiced>>

\* Another store commits: a task, an agent, a token.
StoreCommits ==
  /\ pc[Store] = "idle"
  /\ session = "open"
  /\ StartCommit(Store, NoEntry, <<>>)
  /\ UNCHANGED <<chain, table, clock, restarts, pruned, voiced>>

-----------------------------------------------------------------------------
ChainHead(c) == IF c = <<>> THEN 0 ELSE Last(c).n

\* evaluate and audit: the entry joins the chain, then goes to the store.
Audit(a) ==
  /\ pc[a] = "idle"
  /\ clock < MaxEntries
  /\ LET e == [n |-> clock + 1, prev |-> ChainHead(chain)] IN
       /\ chain' = Append(chain, e)
       /\ StartCommit(a, e, <<e>>)
  /\ clock' = clock + 1
  /\ UNCHANGED <<table, restarts, pruned, voiced>>

\* _process_command: the entry has its time stamp before its predecessor.
VoiceBegins(v) ==
  /\ pc[v] = "idle"
  /\ clock < MaxEntries
  /\ clock' = clock + 1
  /\ voiced' = voiced \cup {clock + 1}
  /\ Goto(v, "read", [NoEntry EXCEPT !.n = clock + 1])
  /\ UNCHANGED <<chain, table, pending, session, due, restarts, pruned>>

\* The rows get_last sees: the session flushes before it reads.
Flushed == table \cup ToSet(pending)

LastHash(rows) == IF rows = {} THEN {0} ELSE {r.n : r \in Latest(rows)}

\* get_last; any error is logged and dropped.
VoiceReads(v) ==
  /\ pc[v] = "read"
  /\ \/ /\ session = "open"
        /\ \E hash \in LastHash(Flushed) :
             Goto(v, "append", [entry[v] EXCEPT !.prev = hash])
     \/ session /= "open" /\ Goto(v, "idle", NoEntry)
  /\ UNCHANGED <<chain, table, pending, session, due, clock, restarts, pruned, voiced>>

VoiceAppends(v) ==
  /\ pc[v] = "append"
  /\ StartCommit(v, entry[v], <<entry[v]>>)
  /\ UNCHANGED <<chain, table, clock, restarts, pruned, voiced>>

-----------------------------------------------------------------------------
\* Wrong: the head is not restored.
Restored_Forgotten(rows) == {<<>>}

\* The chains that start from the newest row, or from nothing.
Restored(rows) ==
  IF rows = {} THEN {<<>>}
  ELSE {<<r>> : r \in Latest(rows)}

\* prune_before: the rows up to some moment.
Cutoffs == IF Retention THEN 0..clock ELSE {0}

\* The process dies and starts again: the head is read, then old rows go.
Restart ==
  /\ restarts < MaxRestarts
  /\ restarts' = restarts + 1
  /\ chain' \in Restored(table)
  /\ \E cutoff \in Cutoffs :
       /\ table' = {r \in table : r.n > cutoff}
       /\ pruned' = pruned \cup {r.n : r \in table \ table'}
  /\ pending' = <<>> /\ session' = "open" /\ due' = 0
  /\ pc' = [a \in Actors \cup {Store} |-> "idle"]
  /\ entry' = [a \in Actors \cup {Store} |-> NoEntry]
  /\ UNCHANGED <<clock, voiced>>

Next ==
  \/ \E a \in Actors \cup {Store} : CommitDone(a) \/ CommitFails(a)
  \/ StoreCommits
  \/ \E a \in Auditors : Audit(a)
  \/ \E v \in Voices : VoiceBegins(v) \/ VoiceReads(v) \/ VoiceAppends(v)
  \/ Restart

Spec == Init /\ [][Next]_vars

-----------------------------------------------------------------------------
(* Properties *)

(* Every variable has its type; a commit is in progress when, and only when, *)
(* one caller waits for it.                                                  *)
TypeOK ==
  /\ chain \in Seq(Entries) /\ table \subseteq Entries
  /\ pending \in Seq(Entries)
  /\ session \in {"open", "committing", "dead"}
  /\ due \in 0..Len(pending)
  /\ pc \in [Actors \cup {Store} -> {"idle", "read", "append", "commit"}]
  /\ entry \in [Actors \cup {Store} -> [n : 0..MaxEntries, prev : 0..MaxEntries]]
  /\ clock \in 0..MaxEntries /\ restarts \in 0..MaxRestarts
  /\ pruned \subseteq 1..MaxEntries /\ voiced \subseteq 1..MaxEntries
  /\ \A a, b \in Actors \cup {Store} : pc[a] = "commit" /\ pc[b] = "commit" => a = b
  /\ session = "committing" <=> \E a \in Actors \cup {Store} : pc[a] = "commit"

(* "The hash chain continues from the most recent surviving entry": no row   *)
(* of the engine is passed over by a later one, which is linked to it or to  *)
(* something newer.  It must survive appends that raise while another commit *)
(* runs, a session that died, restarts with rows still unwritten, and        *)
(* retention.  The entries of voice commands are not in the engine's chain.  *)
Unbroken ==
  \A q, r \in table :
    {q.n, r.n} \cap voiced = {} => ~(r.prev < q.n /\ q.n < r.n)

(* A row's predecessor is never missing: what it is linked to is stored, or  *)
(* was until retention removed it, however the commits of requests, voice    *)
(* commands and other stores interleave.                                     *)
PredecessorKept ==
  \A r \in table : r.prev \in {0} \cup pruned \cup {q.n : q \in table}
=============================================================================
