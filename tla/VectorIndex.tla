----------------------------- MODULE VectorIndex -----------------------------
(***************************************************************************)
(* The Qdrant index of one workspace beside its PostgreSQL ledger: workers *)
(* embed each retained item, a full reindex replaces the workspace's       *)
(* points, a migration fills a second collection before the deployment is  *)
(* switched to it, and recall checks what the index returns against the    *)
(* ledger.  The index is written outside every SQL transaction.            *)
(*                                                                         *)
(* Items are immutable: their parent, status, owner are constants, and the *)
(* only thing the ledger does here is retain the next one.                 *)
(***************************************************************************)
EXTENDS Naturals, FiniteSets

CONSTANTS Items,        \* memory items, in the order they may be retained
          Parent,       \* the item each one supersedes, or NoItem
          Hidden,       \* items retained as archived or rejected
          Owner,        \* the agent a private item belongs to, or NoItem
          Agents,       \* agents that recall
          Embedders,    \* embedding worker processes
          Collections,  \* Qdrant collections
          MaxReindex,   \* bound: reindexes and migrations in one behaviour
          First,        \* the collection the deployment starts with
          NoItem

VARIABLES retained,     \* items in the ledger
          delivery,     \* the embed-v1 state of each item's event
          embedder,     \* what each worker is doing
          points,       \* ids indexed in each collection
          active,       \* UAM_QDRANT_COLLECTION of API and workers
          job,          \* the reindex that holds the workspace lock
          swept         \* ids a reindex deleted or a migration left behind (history)

vars == <<retained, delivery, embedder, points, active, job, swept>>

IsHead(i) == i \in retained \ Hidden /\ \A c \in retained : Parent[c] # i
Heads == {i \in retained : IsHead(i)}

Idle == [pc |-> "idle", item |-> NoItem]
NoJob(n) == [pc |-> "idle", runs |-> n, target |-> First,
             snapshot |-> {}, existing |-> {}, todo |-> {}]

TypeOK ==
  /\ retained \subseteq Items
  /\ delivery \in [Items -> {"none", "waiting", "done"}]
  /\ embedder \in [Embedders -> [pc : {"idle", "read", "upserted", "dropped"},
                                 item : Items \cup {NoItem}]]
  /\ points \in [Collections -> SUBSET Items]
  /\ active \in Collections
  /\ job \in [pc : {"idle", "listed", "scrolled", "upserted", "verified"},
              runs : 0..MaxReindex, target : Collections, snapshot : SUBSET Items,
              existing : SUBSET Items, todo : SUBSET Items]
  /\ swept \in [Collections -> SUBSET Items]

Init ==
  /\ retained = {}
  /\ delivery = [i \in Items |-> "none"]
  /\ embedder = [w \in Embedders |-> Idle]
  /\ points = [c \in Collections |-> {}]
  /\ active = First
  /\ job = NoJob(0)
  /\ swept = [c \in Collections |-> {}]

-----------------------------------------------------------------------------
(* A new item, or a revision of a current head, with its embed event.      *)
Retain(i) ==
  /\ i \notin retained
  /\ Parent[i] = NoItem \/ IsHead(Parent[i])
  /\ retained' = retained \cup {i}
  /\ delivery' = [delivery EXCEPT ![i] = "waiting"]
  /\ UNCHANGED <<embedder, points, active, job, swept>>

(* A worker takes the event.  Another may have it too, once a lease lapsed.*)
Read(w, i) ==
  /\ embedder[w] = Idle
  /\ delivery[i] = "waiting"
  /\ embedder' = [embedder EXCEPT ![w] = [pc |-> "read", item |-> i]]
  /\ UNCHANGED <<retained, delivery, points, active, job, swept>>

\* Mutant: the worker gives up on the item and completes its event.
ApplySkipping(w) ==
  /\ embedder[w].pc = "read"
  /\ embedder' = [embedder EXCEPT ![w].pc = "upserted"]
  /\ UNCHANGED <<retained, delivery, points, active, job, swept>>

(* A visible item is embedded and upserted, a hidden one is deleted.       *)
Apply(w) ==
  LET i == embedder[w].item IN
  /\ embedder[w].pc = "read"
  /\ points' = [points EXCEPT ![active] = IF i \in Hidden THEN @ \ {i} ELSE @ \cup {i}]
  /\ embedder' = [embedder EXCEPT ![w].pc = "upserted"]
  /\ UNCHANGED <<retained, delivery, active, job, swept>>

(* Then the point of the item it replaces goes.                            *)
DropParent(w) ==
  /\ embedder[w].pc = "upserted"
  /\ points' = [points EXCEPT ![active] = @ \ {Parent[embedder[w].item]}]
  /\ embedder' = [embedder EXCEPT ![w].pc = "dropped"]
  /\ UNCHANGED <<retained, delivery, active, job, swept>>

(* The handler returned, so the consumer completes the event.              *)
Complete(w) ==
  /\ embedder[w].pc = "dropped"
  /\ delivery' = [delivery EXCEPT ![embedder[w].item] = "done"]
  /\ embedder' = [embedder EXCEPT ![w] = Idle]
  /\ UNCHANGED <<retained, points, active, job, swept>>

(* The provider, Qdrant or the worker itself fails: the event is not       *)
(* completed, be it redelivered, in the dead letters or replayed.          *)
EmbedFails(w) ==
  /\ embedder[w] # Idle
  /\ embedder' = [embedder EXCEPT ![w] = Idle]
  /\ UNCHANGED <<retained, delivery, points, active, job, swept>>

-----------------------------------------------------------------------------
(* reindex_all under the workspace's session lock: first the current heads *)
(* are listed and embedded ...                                             *)
ListHeads(c) ==
  /\ job.pc = "idle" /\ job.runs < MaxReindex
  /\ job' = [pc |-> "listed", runs |-> job.runs + 1, target |-> c,
             snapshot |-> Heads, existing |-> {}, todo |-> Heads]
  /\ UNCHANGED <<retained, delivery, embedder, points, active, swept>>

(* ... then sync_workspace scrolls the ids the collection has, ...         *)
Scroll ==
  /\ job.pc = "listed"
  /\ job' = [job EXCEPT !.pc = "scrolled", !.existing = points[job.target]]
  /\ UNCHANGED <<retained, delivery, embedder, points, active, swept>>

(* ... upserts the new points in batches, here of one, ...                 *)
UpsertBatch ==
  /\ job.pc = "scrolled"
  /\ \E i \in job.todo :
       /\ job' = [job EXCEPT !.todo = @ \ {i}]
       /\ points' = [points EXCEPT ![job.target] = @ \cup {i}]
  /\ UNCHANGED <<retained, delivery, embedder, active, swept>>

\* Mutant: the ids listed are compared with what the collection has now.
StaleIdsNow == points[job.target] \ job.snapshot

(* ... and deletes the ids it scrolled and did not list.                   *)
StaleIds == job.existing \ job.snapshot

DeleteStale ==
  /\ job.pc = "scrolled" /\ job.todo = {}
  /\ points' = [points EXCEPT ![job.target] = @ \ StaleIds]
  /\ swept' = [swept EXCEPT ![job.target] = @ \cup (job.existing \ job.snapshot)]
  /\ job' = IF job.target = active THEN NoJob(job.runs) ELSE [job EXCEPT !.pc = "upserted"]
  /\ UNCHANGED <<retained, delivery, embedder, active>>

(* A migration compares the count of the target with what it indexed.      *)
VerifyCount ==
  /\ job.pc = "upserted"
  /\ job' = IF Cardinality(points[job.target]) = Cardinality(job.snapshot)
            THEN [job EXCEPT !.pc = "verified"] ELSE NoJob(job.runs)
  /\ UNCHANGED <<retained, delivery, embedder, points, active, swept>>

(* The operator switches API and workers to the verified collection and    *)
(* restarts them; what was retained since the listing is not in it.        *)
Activate ==
  /\ job.pc = "verified"
  /\ active' = job.target
  /\ embedder' = [w \in Embedders |-> Idle]
  /\ swept' = [swept EXCEPT ![job.target] = @ \cup (retained \ job.snapshot)]
  /\ job' = NoJob(job.runs)
  /\ UNCHANGED <<retained, delivery, points>>

ReindexFails ==
  /\ job.pc # "idle"
  /\ job' = NoJob(job.runs)
  /\ UNCHANGED <<retained, delivery, embedder, points, active, swept>>

Next ==
  \/ \E i \in Items : Retain(i)
  \/ \E w \in Embedders, i \in Items : Read(w, i)
  \/ \E w \in Embedders : Apply(w) \/ DropParent(w) \/ Complete(w) \/ EmbedFails(w)
  \/ \E c \in Collections : ListHeads(c)
  \/ Scroll \/ UpsertBatch \/ DeleteStale \/ VerifyCount \/ Activate \/ ReindexFails

Spec == Init /\ [][Next]_vars

-----------------------------------------------------------------------------
\* Mutant: the index is trusted.
RecallableHeadsAny(rows) == rows

(* Recall keeps the rows of the index that the ledger still has as heads   *)
(* and that the agent may see.                                             *)
RecallableHeads(rows) == rows \cap Heads
Matches(i, a) == Owner[i] \in {NoItem, a} /\ i \notin Hidden
Answer(a) == {i \in RecallableHeads(points[active]) : Matches(i, a)}

(* index_stale: some active head's event is not completed by embed-v1.     *)
Stale == \E i \in Heads : delivery[i] # "done"

(* What the index answers an agent is what the agent may see of the        *)
(* current heads: never a superseded, hidden or foreign item, and, where   *)
(* recall reports the index as fresh, every one of them except those a     *)
(* reindex swept or a migration left behind, having listed the heads       *)
(* before them (_recallable_head_ids, workspace_embedding_freshness,       *)
(* reindex_all).                                                           *)
IndexTruthful ==
  \A a \in Agents :
    LET due == {i \in Heads : Owner[i] \in {NoItem, a}} IN
    /\ Answer(a) \subseteq due
    /\ ~Stale => due \ Answer(a) \subseteq swept[active]
=============================================================================
