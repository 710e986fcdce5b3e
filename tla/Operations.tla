----------------------------- MODULE Operations -----------------------------
(***************************************************************************)
(* The components around the ledger, running side by side: the embedding   *)
(* workers and the index they fill, the collection it lives in, protected  *)
(* search, recall, worker liveness, the audit trail, backups, the vault,   *)
(* ingestion, reflection, the agents' plugins, access to the API and the   *)
(* release gate.  They are processes and scripts that hold no lock on one  *)
(* another; their steps interleave.                                        *)
(***************************************************************************)
EXTENDS Integers, Sequences, FiniteSets, Indexing

CONSTANTS Processes, ModelOf, DimOf, Unset,
          Created, Words, PinnedItems, Searches, Limit, Replicas, Askers, KeyVersions, BatchSize, BatchCap,
          Memories, Supersedes, Lexical, Semantic, LayerOf, SeedLayers, Tokens, TopK, MinScore, PerLayer,
          Budget,
          Facts, SlotOf, ValueOf, Reflectors,
          Editors, Texts, FirstText, MaxRev,
          Documents, PagesOf, ChunkSizes, Callers, MaxCalls,
          MonitoredWorkers, KindOf, RequiredKinds, TTL, Retention,
          AuditEvents, CreatedAt, Cutoffs, Batch, MaxBatches, MaxRuns,
          Servers, Clients, ApiKeys, Configs, Bound, AgentIds, Requests, MaxStarts,
          Runs, Queries, Events,
          Rows, Slots, MinRuns,
          Artifacts, Builds, ModelNames, Outcomes, MaxAge, MaxClock, MaxDeploys, MaxWrites

VARIABLES
  dimension, metadata, vectors, client, adopted,
  committed, tokens, replica, stateFile, backfill, retirement, overclaimed, stranded,
  memories, embedded, vectorRows, health, recallCall, event, seed,
  facts, observations, audited, reflection,
  chain, keys, note, request, outcome,
  parser, chunks, ingestCall, ingested,
  beats, proc, writing, exit, absent,
  rows, pending, bundle, run, pruned, missed, replaced,
  registry, server, cookie, call, threadOwner, starts, revived, withdrawn,
  runtime, mode, forced, session, agentRun, stored, told,
  live, dump, drill, exported, manifest, damaged, backupJob, latest, restoreRun, target,
  recovery, containers, evidence,
  deployed, hour, running, reports, sealing, signed, verdict, deploys, writes

collectionVars == <<dimension, metadata, vectors, client, adopted>>
searchVars == <<committed, tokens, replica, stateFile, backfill, retirement, overclaimed, stranded>>
recallVars == <<memories, embedded, vectorRows, health, recallCall, event, seed>>
reflectVars == <<facts, observations, audited, reflection>>
vaultVars == <<chain, keys, note, request, outcome>>
ingestVars == <<parser, chunks, ingestCall, ingested>>
heartbeatVars == <<beats, proc, writing, exit, absent>>
auditVars == <<rows, pending, bundle, run, pruned, missed, replaced>>
accessVars == <<registry, server, cookie, call, threadOwner, starts, revived, withdrawn>>
agentVars == <<runtime, mode, forced, session, agentRun, stored, told>>
backupVars == <<live, dump, drill, exported, manifest, damaged, backupJob, latest,
                restoreRun, target, recovery, containers, evidence>>
releaseVars == <<deployed, hour, running, reports, sealing, signed, verdict, deploys, writes>>

operationsVars == <<indexingVars, collectionVars, searchVars, recallVars, reflectVars, vaultVars,
                    ingestVars, heartbeatVars, auditVars, accessVars, agentVars, backupVars,
                    releaseVars>>

-----------------------------------------------------------------------------
(* The components.  A constant or variable not named after WITH is the one *)
(* of its name.                                                            *)

Collection == INSTANCE VectorCollection WITH Clients <- Processes, None <- Unset
Search == INSTANCE ProtectedSearch WITH Queries <- Searches, Pinned <- PinnedItems
Recalling == INSTANCE Recall WITH points <- vectorRows, call <- recallCall
Reflect == INSTANCE Reflection
Vault == INSTANCE VaultSync
Ingesting == INSTANCE Ingestion WITH Shapes <- ChunkSizes, call <- ingestCall
Heartbeat == INSTANCE Heartbeats WITH Workers <- MonitoredWorkers, Required <- RequiredKinds
Audit == INSTANCE AuditTrail
Access == INSTANCE ApiAccess
Agent == INSTANCE AgentSync
Backup == INSTANCE Backups
Release == INSTANCE ReleaseEvidence WITH Models <- ModelNames

-----------------------------------------------------------------------------
(* What the components assume of their parameters.                         *)

\* No dimension and no model is called "unset".
CollectionConstants == \A p \in Processes : DimOf[p] # Unset /\ ModelOf[p] # Unset

\* Items are their creation times, version 0 is no key, texts are finite, and the
\* limits are those the scripts accept.
SearchConstants ==
  /\ IsFiniteSet(Created) /\ Created \subseteq Nat \ {0} /\ 0 \notin KeyVersions
  /\ \A i \in Created : IsFiniteSet(Words[i])
  /\ Limit \in Nat /\ BatchSize \in Nat \ {0}

\* Items are their creation times; signals and limits are natural numbers.
RecallConstants ==
  /\ IsFiniteSet(Memories) /\ Memories \subseteq Nat
  /\ Supersedes \in [Memories -> Nat] /\ Lexical \in [Memories -> Nat]
  /\ Semantic \in [Memories -> Nat] /\ TopK \in Nat /\ MinScore \in Nat
  /\ LayerOf \in [Memories -> Nat] /\ Tokens \in [Memories -> Nat]
  /\ PerLayer \in Nat /\ Budget \in Nat

\* Memories are numbered in the order of created_at.
ReflectConstants == IsFiniteSet(Facts) /\ Facts \subseteq Nat

\* A first revision fits.
VaultConstants == MaxRev \in Nat \ {0}

Marks == {"x", ".", " ", "n"}
PageTexts(d, v) == [p \in DOMAIN PagesOf[d][v] |-> Ingesting!Normalized(PagesOf[d][v][p])]

\* The shapes the chunker accepts; normalisation makes texts of texts.
IngestConstants ==
  /\ \A d \in Documents, v \in {1, 2} : PageTexts(d, v) \in Seq(Seq(Marks))
  /\ \A shape \in ChunkSizes : shape \in [size : Nat, overlap : Nat] /\ shape.size > 0
  /\ MaxCalls \in Nat

HeartbeatConstants == TTL \in Nat /\ Retention \in Nat

\* An event's number is its id; limits below 1 are raised to 1 by the script.
AuditConstants ==
  /\ IsFiniteSet(AuditEvents) /\ AuditEvents \subseteq Nat \ {0}
  /\ CreatedAt \in [AuditEvents -> Nat] /\ Cutoffs \subseteq Nat
  /\ Batch \in Nat \ {0} /\ MaxBatches \in Nat \ {0} /\ MaxRuns \in Nat

\* Configurations give every key a scope or none, the requests are well
\* formed, and no key is called "none".
AccessConstants ==
  /\ MaxStarts \in Nat
  /\ "none" \notin ApiKeys
  /\ Configs \subseteq [ApiKeys -> Access!Scopes \cup {"none"}]
  /\ \A c \in Clients : Requests[c] \subseteq Access!Shapes

\* A session has finitely many runs, queries are made of known phrases, an event
\* is a text and an error, and some event has none.
AgentConstants ==
  /\ IsFiniteSet(Runs) /\ Queries \subseteq SUBSET Agent!Phrases
  /\ \A e \in Events : e = [text |-> e.text, error |-> e.error]
  /\ \E e \in Events : e.error = "none"

\* The tables are finite, and there is a job to schedule.
BackupConstants == IsFiniteSet(Rows) /\ Slots # {}

StepNames(a) == {Release!Steps[a][i] : i \in DOMAIN Release!Steps[a]}

\* The reports of a release are among those the verifier knows, without that of the
\* conversation pipeline (which it never accepts); checks fail or are skipped in the
\* script they belong to.
ReleaseConstants ==
  /\ Artifacts \subseteq DOMAIN Release!Steps \ {"conversation_pipeline"}
  /\ \A a \in Artifacts : Outcomes[a] \subseteq [failed : SUBSET StepNames(a), skipped : SUBSET StepNames(a)]
  /\ Builds # {} /\ MaxAge \in Nat /\ MaxClock \in Nat /\ MaxDeploys \in Nat /\ MaxWrites \in Nat

ASSUME OperationsAssumptions ==
  /\ CollectionConstants /\ SearchConstants /\ RecallConstants
  /\ ReflectConstants /\ VaultConstants /\ IngestConstants
  /\ HeartbeatConstants /\ AuditConstants /\ AccessConstants
  /\ AgentConstants /\ BackupConstants /\ ReleaseConstants

-----------------------------------------------------------------------------
OperationsInit ==
  /\ IndexingInit /\ Collection!Init /\ Search!Init /\ Recalling!Init
  /\ Reflect!Init /\ Vault!Init /\ Ingesting!Init
  /\ Heartbeat!Init /\ Audit!Init /\ Access!Init /\ Agent!Init /\ Backup!Init /\ Release!Init

Parts == {"indexing", "collection", "search", "recall", "reflection", "vault", "ingestion",
          "heartbeats", "audit", "access", "agents", "backups", "release"}

\* A step of component p ...
StepOf(p) ==
  \/ p = "indexing" /\ IndexingNext
  \/ p = "collection" /\ Collection!Next
  \/ p = "search" /\ Search!Next
  \/ p = "recall" /\ Recalling!Next
  \/ p = "reflection" /\ Reflect!Next
  \/ p = "vault" /\ Vault!Next
  \/ p = "ingestion" /\ Ingesting!Next
  \/ p = "heartbeats" /\ Heartbeat!Next
  \/ p = "audit" /\ Audit!Next
  \/ p = "access" /\ Access!Next
  \/ p = "agents" /\ Agent!Next
  \/ p = "backups" /\ Backup!Next
  \/ p = "release" /\ Release!Next

\* ... is not seen by the others.
OthersThan(p) ==
  /\ IF p = "indexing" THEN TRUE ELSE UNCHANGED indexingVars
  /\ IF p = "collection" THEN TRUE ELSE UNCHANGED collectionVars
  /\ IF p = "search" THEN TRUE ELSE UNCHANGED searchVars
  /\ IF p = "recall" THEN TRUE ELSE UNCHANGED recallVars
  /\ IF p = "reflection" THEN TRUE ELSE UNCHANGED reflectVars
  /\ IF p = "vault" THEN TRUE ELSE UNCHANGED vaultVars
  /\ IF p = "ingestion" THEN TRUE ELSE UNCHANGED ingestVars
  /\ IF p = "heartbeats" THEN TRUE ELSE UNCHANGED heartbeatVars
  /\ IF p = "audit" THEN TRUE ELSE UNCHANGED auditVars
  /\ IF p = "access" THEN TRUE ELSE UNCHANGED accessVars
  /\ IF p = "agents" THEN TRUE ELSE UNCHANGED agentVars
  /\ IF p = "backups" THEN TRUE ELSE UNCHANGED backupVars
  /\ IF p = "release" THEN TRUE ELSE UNCHANGED releaseVars

OperationsNext == \E p \in Parts : StepOf(p) /\ OthersThan(p)

OperationsSpec == OperationsInit /\ [][OperationsNext]_operationsVars

-----------------------------------------------------------------------------
(* Properties: what the components promise together; each module says what *)
(* its part means and spells out the cases the code does not cover.        *)

\* Worker readiness (worker_readiness, WorkerHeartbeatEmitter.stop): the API is
\* ready only if each required kind had a process within the last TTL, and a
\* worker that stopped in order is not counted as running.
ReadinessTruthful == Heartbeat!ReadinessTruthful

\* What recall finds (embedding_main, RetrievalService, QdrantCandidateSource,
\* _search_protected_workspace): nothing superseded, hidden, foreign or of another
\* embedding model; where the index is reported fresh or the protected index
\* complete, every item due, and where it is not, every head is indexed or still to
\* come - except items that a reindex or migration listed too early for, items
\* indexed only after the query, a retirement inside a recall, and two models
\* adopting a collection at once.
RecallTruthful ==
  /\ Index!IndexTruthful
  /\ HeadsReachIndex
  /\ Collection!OneIdentity
  /\ Search!IndexLosesNothing
  /\ Recalling!RecallHonest

\* What is handed out of it (ContextCompiler, SessionSeedService, RecallReplayService):
\* contexts and seeds keep the token budget and leave out only what does not fit
\* (or what its layer has no place for), and a replay names what the agent was
\* given.
AnswersFit == Recalling!AnswersFit

\* Audit retention (scripts/audit_retention.py): a deleted event is in an export,
\* except one that committed behind the export's cursor, and one whose bundle a
\* rerun with the same cutoff overwrote.
PrunedIsExported == Audit!PrunedIsExported

\* Backups (scheduled_backup, verify_backup_history, restore, restore_drill,
\* isolated_recovery_drill): success reports name complete bundles whose
\* artifact was restored and counted, a restore that requires a signature loads
\* only signed artifacts, and drills clean up after themselves, the container
\* of a failed nested restore apart.
BackupHonest == Backup!BackupHonest

\* What is written from elsewhere (VaultExporter, IngestionService) or derived
\* (ReflectionService): every vault edit replaces the head of its moment, an
\* archived memory stays archived, and an edit reported made is there, but for
\* an import that an earlier import of the note answered; an ingested document
\* is there in full, but for chunks of an earlier parser; every belief is on
\* record once, with all its evidence.
ContentKept == Vault!VaultEditsKept /\ Ingesting!DocumentKept /\ Reflect!BeliefsOnRecord

\* The agents' plugins (_event_idempotency_key, agent_end, evaluate_recall_gate):
\* what a runtime was told is stored is stored, the neutral plugin's errors
\* apart; OpenClaw's summaries come with their transcripts; the gate skips no
\* turn that needs memory.
AgentMemoryKept == Agent!AgentMemoryKept

\* Access (require_api_key, _agent_binding_error, ensure_configured_key): a
\* handler runs only for a key that may make the request and was not revoked
\* when it arrived, for the agent it is bound to; a revocation lasts unless a
\* starting server's stale save of the key's row follows it.
AccessKept == Access!AccessKept

\* The release gate (verify_release_evidence): an accepted release rests on the
\* reports that were sealed, with nothing failed or skipped in the live ones,
\* of its build and models and in time; a refused one lacks one of these.
ReleaseHonest == Release!ReleaseHonest
=============================================================================
