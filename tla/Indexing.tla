------------------------------ MODULE Indexing ------------------------------
(***************************************************************************)
(* The embedding worker (workers/embedding_main.py): the consumer embed-v1 *)
(* of module EventConsumer, whose handler is the embedder of module        *)
(* VectorIndex.  The two meet in the handler: it begins when a replica     *)
(* claims the event of an item, it can only return once the item is        *)
(* upserted and its parent's point gone, and it stops wherever it is when  *)
(* it raises or its process dies.  The index is fresh for an item when     *)
(* processed_events has its completion.                                    *)
(***************************************************************************)
EXTENDS Naturals, FiniteSets

CONSTANTS Items, Parent, Hidden, Owner, Agents, Collections, MaxReindex, First, NoItem,
          Consumers, Embedding, EmbedReplicas, NoWorker,
          FetchSize, MaxDeliveries, MaxCopies, MaxFaults

\* The replicas of the consumer embed-v1.
Embedders == {Embedding} \X EmbedReplicas

\* What consumer and index assume of their parameters.
ASSUME IndexingAssumptions ==
  /\ Embedding \in Consumers /\ NoWorker \notin Consumers \X EmbedReplicas
  /\ {FetchSize, MaxDeliveries, MaxCopies} \subseteq Nat \ {0}
  /\ {MaxFaults, MaxReindex} \subseteq Nat
  /\ First \in Collections /\ NoItem \notin Items

VARIABLES
  retained, embedder, points, active, job, swept,
  stream, jet, processed, applied, dlq, dlqIds, batch, pc, cur, lapses, faults

consumerVars == <<stream, jet, processed, applied, dlq, dlqIds, batch, pc, cur, lapses, faults>>
indexVars == <<points, active, job, swept>>
indexingVars == <<retained, embedder, indexVars, consumerVars>>

Consumer == INSTANCE EventConsumer WITH Events <- Items, Replicas <- EmbedReplicas

\* Mutant: a dead letter counts as delivered.
deliveryOrParked ==
  [i \in Items |->
     IF i \notin retained THEN "none"
     ELSE IF processed[Embedding][i].done \/ \E r \in dlq : r.msg[1] = i THEN "done" ELSE "waiting"]

\* What the index sees of an item's event: retained, or completed by embed-v1.
delivery ==
  [i \in Items |-> IF i \notin retained THEN "none"
                   ELSE IF processed[Embedding][i].done THEN "done" ELSE "waiting"]

Index == INSTANCE VectorIndex

IndexingInit ==
  /\ Consumer!Init
  /\ retained = {}
  /\ embedder = [w \in Embedders |-> Index!Idle]
  /\ points = [c \in Collections |-> {}]
  /\ active = First
  /\ job = Index!NoJob(0)
  /\ swept = [c \in Collections |-> {}]

-----------------------------------------------------------------------------
(* The ledger commits an item and its outbox row.                          *)
Retain(i) ==
  /\ i \notin retained
  /\ Parent[i] = NoItem \/ Index!IsHead(Parent[i])
  /\ retained' = retained \cup {i}
  /\ UNCHANGED <<embedder, indexVars, consumerVars>>

(* Where the handler of w is after a step of the consumer.                 *)
After(w) ==
  CASE pc[w] # "handle" /\ pc'[w] = "handle" -> [pc |-> "read", item |-> cur'[w].msg[1]]
    [] pc'[w] \notin {"handle", "complete"}  -> Index!Idle
    [] OTHER                                 -> embedder[w]

(* A step of the transport: only retained items have events, and a handler *)
(* returns when its calls have.                                            *)
Deliver ==
  /\ Consumer!ConsumerNext \/ \E i \in retained : Consumer!Publish(i)
  /\ \A w \in Embedders : pc[w] = "handle" /\ pc'[w] = "complete" => embedder[w].pc = "dropped"
  /\ embedder' = [w \in Embedders |-> After(w)]
  /\ UNCHANGED <<retained, indexVars>>

(* A call of process_memory_retained.                                      *)
Embed(w) == UNCHANGED consumerVars /\ (Index!Apply(w) \/ Index!DropParent(w))

(* A step of a reindex or a migration; the switch to the new collection    *)
(* stops the workers before it starts them again.                          *)
Maintain ==
  /\ UNCHANGED consumerVars
  /\ \/ \E c \in Collections : Index!ListHeads(c)
     \/ Index!Scroll \/ Index!UpsertBatch \/ Index!DeleteStale \/ Index!VerifyCount
     \/ Index!Activate /\ UNCHANGED embedder
     \/ Index!ReindexFails

IndexingNext ==
  \/ \E i \in Items : Retain(i)
  \/ Deliver
  \/ \E w \in Embedders : Embed(w)
  \/ Maintain

IndexingSpec == IndexingInit /\ [][IndexingNext]_indexingVars

-----------------------------------------------------------------------------
\* embedding_main: seen from the index, leases, redeliveries, retries, dead letters,
\* replays and crashes are nothing but embedders that read an event, work on it,
\* complete it or give up.  (This is Index!Spec; the many steps that the index does
\* not see come first.)
IndexStep == UNCHANGED Index!vars \/ Index!Next
ImplementsIndex == Index!Init /\ [][IndexStep]_indexingVars

\* embedding_main, workspace_embedding_freshness: a current head that is neither
\* indexed nor swept is still to come: its event is not in the stream yet, or it
\* waits there or in the dead letters; in particular it is not reported as fresh.
HeadsReachIndex ==
  \A i \in Index!Heads :
    \/ i \in points[active] \cup swept[active] \cup Hidden
    \/ delivery[i] = "waiting" /\ (stream[i] > 0 => Consumer!Recoverable(Embedding, i))
=============================================================================
