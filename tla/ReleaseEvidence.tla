--------------------------- MODULE ReleaseEvidence ---------------------------
(***************************************************************************)
(* The release gate: evaluators and preflights that write one report each  *)
(* while the server may be redeployed under them, the sealing of the       *)
(* reports into a signed manifest (hash every report, then read two of     *)
(* them again for the models), and the verifier that decides the release.  *)
(*                                                                         *)
(* A report's content stands for its digest; a build for commit, image,    *)
(* deployment and version together.                                        *)
(***************************************************************************)
EXTENDS Naturals, Sequences

CONSTANTS Artifacts,    \* the reports this release is made of
          Builds,       \* builds that can be deployed
          Models,       \* model configurations
          Outcomes,     \* Outcomes[a]: [failed, skipped] checks of a run of a
          MaxAge,       \* max_age_hours
          MaxClock,     \* bound: hours
          MaxDeploys,   \* bound: deployments
          MaxWrites     \* bound: reports written

VARIABLES deployed,     \* the build that is serving
          hour,         \* the clock
          running,      \* running[a]: build captured by a running evaluator
          reports,      \* reports[a]: the report on disk
          sealing,      \* generate_release_evidence_manifest between its reads
          signed,       \* release-evidence.json
          verdict,      \* the last verification
          deploys, writes

vars == <<deployed, hour, running, reports, sealing, signed, verdict, deploys, writes>>

-----------------------------------------------------------------------------
(* What each script checks, in order.  A check whose failure ends the      *)
(* script is also in Stops.                                                *)
SoakSteps == <<"health", "build-identity", "auth-required", "openclaw:recall",
               "hermes:recall", "cross-workspace-leakage">>
PipelineSteps == <<"build-identity", "agent-thread-provisioned", "raw-turn-stored",
    "raw-turn-listed", "raw-turn-not-recalled", "curation-created-proposal",
    "unaccepted-proposal-not-recalled", "operator-accepted-proposal-created-memory",
    "accepted-memory-recalled">>
PipelineStops == {"agent-thread-provisioned", "raw-turn-stored", "curation-created-proposal",
                  "operator-accepted-proposal-created-memory"}
LoadSteps == <<"health", "build-identity", "concurrent-retain-recall", "error-rate",
               "retain-p95", "recall-p95", "metrics-backlog">>
WalkthroughSteps == <<"build-identity", "ui-served", "retain-recall", "conflict-decision",
    "vault-editable-text", "vault-archive", "model-settings-probe", "reindex", "metrics-surface">>
EmbeddingSteps == <<"endpoint-reachable", "dimension", "semantic:storage-routing",
    "semantic:embedding-model", "semantic:openclaw",
    "semantic:hermes">>
LlmSteps == <<"chat-completions", "json-memory-curation">>
MetricsSteps == <<"metrics-read", "outbox_pending_total", "outbox_dead_letter_total",
                  "outbox_lag_seconds", "processed_events_inflight_total">>
ScheduleSteps == <<"backup-schedule", "audit-retention-schedule", "metrics-schedule",
    "UAM_BACKUP_ALERT_WEBHOOK", "UAM_METRICS_ALERT_WEBHOOK", "backup-artifact-root",
    "audit-artifact-root">>
ObservabilitySteps == <<"dashboard-json", "dashboard-metrics", "alerts", "alert-metrics",
                        "production-group">>
NotesSteps == <<"changelog", "rollback">>
BackupSteps == <<"backup", "backup_encryption", "restore_drill", "audit_export">>
RecoverySteps == <<"restore_drill", "reindex", "semantic_recall", "canonical_vault_health",
                   "recovery_probe">>
RetentionSteps == <<"audit-export", "verified_export", "signed_export">>
ImportSteps == <<"require_signature", "manifest_verified", "manifest_signed">>
BoundarySteps == <<"public-url-https", "public-health", "public-security-headers",
                   "backend-not-public">>
SecretSteps == <<"raw-empty", "file-configured", "file-readable", "file-prefix">>
BranchSteps == <<"pull-request-required", "status-checks-required", "strict-status-checks",
                 "admins-enforced">>

Steps ==
  [agent_soak |-> SoakSteps, conversation_pipeline |-> PipelineSteps, load_smoke |-> LoadSteps,
   ui_walkthrough |-> WalkthroughSteps, embedding |-> EmbeddingSteps, memory_llm |-> LlmSteps,
   metrics_health |-> MetricsSteps, ops_schedule |-> ScheduleSteps,
   observability |-> ObservabilitySteps, release_notes |-> NotesSteps,
   scheduled_backup |-> BackupSteps, restore_recovery |-> RecoverySteps,
   audit_retention |-> RetentionSteps, vault_import |-> ImportSteps,
   deployment_preflight |-> BoundarySteps, secret_files |-> SecretSteps,
   branch_protection |-> BranchSteps]
Stops == PipelineStops \cup {"endpoint-reachable", "metrics-read", "audit-export"}

(* The checks a report lists and whether it says ok.                       *)
Reached(a, failed) ==
  {i \in DOMAIN Steps[a] : \A j \in 1..(i - 1) : Steps[a][j] \notin Stops \cap failed}
Listed(a, o) == {Steps[a][i] : i \in Reached(a, o.failed)} \ o.skipped
SaysOk(a, o) == {Steps[a][i] : i \in Reached(a, o.failed)} \cap o.failed = {}

-----------------------------------------------------------------------------
(* What _verify_<report> demands to see listed.                            *)
EvaluatorDemands ==
  [agent_soak |-> {"build-identity", "health", "cross-workspace-leakage", "openclaw:recall",
                   "hermes:recall"},
   memory_llm |-> {"chat-completions", "json-memory-curation"},
   conversation_pipeline |-> {"build-identity", "raw-turn-stored", "raw-turn-listed",
       "raw-turn-not-recalled", "curation-created-memory", "curated-memory-recalled"},
   embedding |-> {"endpoint-reachable", "dimension", "semantic:storage-routing",
       "semantic:embedding-model", "semantic:openclaw",
       "semantic:hermes"}]
OperationsDemands ==
  [metrics_health |-> {"outbox_pending_total", "outbox_dead_letter_total", "outbox_lag_seconds",
                       "processed_events_inflight_total"},
   ops_schedule |-> {"backup-schedule", "audit-retention-schedule", "metrics-schedule",
       "UAM_BACKUP_ALERT_WEBHOOK", "UAM_METRICS_ALERT_WEBHOOK", "backup-artifact-root",
       "audit-artifact-root"},
   observability |-> {"dashboard-json", "dashboard-metrics", "alerts", "alert-metrics",
                      "production-group"},
   load_smoke |-> {"build-identity", "health", "concurrent-retain-recall", "error-rate",
                   "retain-p95", "recall-p95", "metrics-backlog"}]
RecordDemands ==
  [release_notes |-> {"changelog", "rollback"},
   scheduled_backup |-> {"restore_drill", "audit_export", "backup_encryption"},
   restore_recovery |-> {"restore_drill", "reindex", "semantic_recall", "recovery_probe"},
   branch_protection |-> {"pull-request-required", "status-checks-required",
                          "strict-status-checks", "admins-enforced"}]
BoundaryDemands ==
  [audit_retention |-> {"verified_export", "signed_export"},
   vault_import |-> {"require_signature", "manifest_verified", "manifest_signed"},
   deployment_preflight |-> {"public-url-https", "public-health", "public-security-headers",
                             "backend-not-public"},
   secret_files |-> {"raw-empty", "file-configured", "file-readable", "file-prefix"},
   ui_walkthrough |-> {"build-identity", "ui-served", "retain-recall", "conflict-decision",
       "vault-editable-text", "vault-archive", "model-settings-probe", "reindex",
       "metrics-surface"}]
Demands ==
  [a \in DOMAIN Steps |->
     CASE a \in DOMAIN EvaluatorDemands -> EvaluatorDemands[a]
       [] a \in DOMAIN OperationsDemands -> OperationsDemands[a]
       [] a \in DOMAIN RecordDemands -> RecordDemands[a]
       [] a \in DOMAIN BoundaryDemands -> BoundaryDemands[a]]

LiveReports == {"agent_soak", "conversation_pipeline", "load_smoke", "ui_walkthrough"}
ModelReports == {"embedding", "memory_llm"}
Timed == LiveReports \cup ModelReports
Pinned == LiveReports \cup {"release_notes"}

NoReport == [outcome |-> [failed |-> {}, skipped |-> {}], build |-> "none", at |-> 0,
             model |-> "none"]
NoManifest == [target |-> "none", sealed |-> <<>>, models |-> <<>>, at |-> 0]
NoVerdict == [pass |-> FALSE, target |-> "none", hour |-> 0, bundle |-> <<>>, by |-> NoManifest]

TypeOK ==
  LET Report == [outcome : {NoReport.outcome} \cup UNION {Outcomes[a] : a \in Artifacts},
                 build : Builds \cup {"none"}, at : 0..MaxClock, model : Models \cup {"none"}] IN
  /\ deployed \in Builds /\ hour \in 0..MaxClock
  /\ running \in [Artifacts -> Builds \cup {"none"}]
  /\ \A a \in Artifacts : reports[a] \in Report
  /\ sealing = NoManifest \/ (sealing.target \in Builds /\ DOMAIN sealing.sealed = Artifacts)
  /\ signed.target \in Builds \cup {"none"} /\ signed.at \in 0..MaxClock
  /\ verdict.pass \in BOOLEAN
  /\ deploys \in 0..MaxDeploys /\ writes \in 0..MaxWrites

Init ==
  /\ deployed = (CHOOSE b \in Builds : TRUE) /\ hour = 0
  /\ running = [a \in Artifacts |-> "none"]
  /\ reports = [a \in Artifacts |-> NoReport]
  /\ sealing = NoManifest /\ signed = NoManifest /\ verdict = NoVerdict
  /\ deploys = 0 /\ writes = 0

-----------------------------------------------------------------------------
Deploy(b) ==
  /\ deploys < MaxDeploys /\ b # deployed
  /\ deployed' = b /\ deploys' = deploys + 1
  /\ UNCHANGED <<hour, running, reports, sealing, signed, verdict, writes>>

Tick ==
  /\ hour < MaxClock
  /\ hour' = hour + 1
  /\ UNCHANGED <<deployed, running, reports, sealing, signed, verdict, deploys, writes>>

(* _capture_build_identity, at the start of a live evaluation; the release *)
(* notes read the commit they describe in the same run that writes them.   *)
CaptureBuild(a) ==
  /\ a \in LiveReports /\ running[a] = "none" /\ writes < MaxWrites
  /\ running' = [running EXCEPT ![a] = deployed]
  /\ UNCHANGED <<deployed, hour, reports, sealing, signed, verdict, deploys, writes>>

BuildNamed(a, o) ==
  CASE a \in LiveReports -> IF "build-identity" \in o.failed THEN "none" ELSE running[a]
    [] a = "release_notes" -> deployed
    [] OTHER -> "none"

(* The end of a script: its checks have run, write_report replaces the     *)
(* file.                                                                   *)
WriteReport(a, o, m) ==
  /\ writes < MaxWrites /\ writes' = writes + 1
  /\ a \in LiveReports => running[a] # "none"
  /\ a \notin ModelReports => m = "none"
  /\ a \in ModelReports => m # "none"
  /\ reports' = [reports EXCEPT ![a] = [outcome |-> o, build |-> BuildNamed(a, o), at |-> hour,
                                        model |-> m]]
  /\ running' = [running EXCEPT ![a] = "none"]
  /\ UNCHANGED <<deployed, hour, sealing, signed, verdict, deploys>>

(* build_manifest hashes every report, then reads the model reports again  *)
(* and signs.                                                              *)
Written(a) == reports[a] # NoReport

HashReports(b) ==
  /\ sealing = NoManifest /\ signed = NoManifest
  /\ \A a \in Artifacts : Written(a)
  /\ sealing' = [NoManifest EXCEPT !.target = b, !.sealed = reports]
  /\ UNCHANGED <<deployed, hour, running, reports, signed, verdict, deploys, writes>>

SignManifest ==
  /\ sealing # NoManifest
  /\ signed' = [sealing EXCEPT !.at = hour,
                  !.models = [a \in Artifacts \cap ModelReports |-> reports[a].model]]
  /\ sealing' = NoManifest
  /\ UNCHANGED <<deployed, hour, running, reports, verdict, deploys, writes>>

-----------------------------------------------------------------------------
Passes(a, o) == SaysOk(a, o) /\ Demands[a] \subseteq Listed(a, o)

\* Mutant: only the manifest's own age is checked.
TimelyAlways(r, by) == TRUE

(* The age of a report is taken against the manifest, the manifest's       *)
(* against now.                                                            *)
Timely(r, by) == by.at <= r.at + MaxAge

\* Mutant: the files are not compared with their digests.
IntactAlways(a) == TRUE

Intact(a) == reports[a] = signed.sealed[a]

Accepts(expected) ==
  /\ signed.target = expected /\ hour <= signed.at + MaxAge
  /\ \A a \in Artifacts :
       LET r == reports[a] IN
       /\ Intact(a) /\ Passes(a, r.outcome)
       /\ a \in Pinned => r.build = signed.target
       /\ a \in Timed => Timely(r, signed)
       /\ a \in ModelReports => r.model = signed.models[a]

Verify(expected) ==
  /\ signed # NoManifest
  /\ verdict' = [pass |-> Accepts(expected), target |-> expected, hour |-> hour,
                 bundle |-> reports, by |-> signed]
  /\ UNCHANGED <<deployed, hour, running, reports, sealing, signed, deploys, writes>>

(* The gate is run until it has decided.                                   *)
Next ==
  /\ verdict = NoVerdict
  /\ \/ Tick \/ SignManifest
     \/ \E b \in Builds : Deploy(b) \/ HashReports(b) \/ Verify(b)
     \/ \E a \in Artifacts : CaptureBuild(a)
     \/ \E a \in Artifacts, m \in Models \cup {"none"} :
          \E o \in Outcomes[a] : WriteReport(a, o, m)

Spec == Init /\ [][Next]_vars

-----------------------------------------------------------------------------
(* A release that verifies rests on what really ran: every report is the   *)
(* one that was sealed, no check of it failed, the live ones skipped none  *)
(* but the soak's check that a key is required (which it leaves out when   *)
(* it has none), and were taken from the build that is released, at most   *)
(* two age limits before; the models are those the sealed reports measured *)
(* although they were read after the hashing.  Conversely a release is     *)
(* only refused for a cause: another build, an old, failed or skipped      *)
(* report, or one rewritten after the hashing; and every script but the    *)
(* conversation pipeline's lists, when nothing fails, what the verifier    *)
(* demands of it (a matter of constants, stated of a release being sealed) *)
(* (verify_manifest, build_manifest).                                      *)
Green(a, r) == r.outcome = [failed |-> {}, skipped |-> {}]

DemandsMet ==
  \A a \in DOMAIN Demands \ {"conversation_pipeline"} :
    Demands[a] \subseteq Listed(a, [failed |-> {}, skipped |-> {}])

ReleaseHonest ==
  /\ verdict.pass =>
       /\ verdict.bundle = verdict.by.sealed /\ verdict.target = verdict.by.target
       /\ \A a \in Artifacts :
            LET r == verdict.bundle[a] IN
            /\ r.outcome.failed = {}
            /\ a \in LiveReports => r.outcome.skipped \subseteq {"auth-required"}
            /\ a \in Pinned => r.build = verdict.target
            /\ a \in Timed => verdict.hour <= r.at + 2 * MaxAge
            /\ a \in ModelReports => verdict.by.models[a] = r.model
  /\ verdict # NoVerdict /\ ~verdict.pass =>
       \/ verdict.target # verdict.by.target
       \/ verdict.hour > verdict.by.at + MaxAge
       \/ \E a \in Artifacts :
            LET r == verdict.bundle[a] IN
            \/ ~Green(a, r) \/ r # verdict.by.sealed[a]
            \/ a \in Pinned /\ r.build # verdict.target
            \/ a \in Timed /\ verdict.by.at > r.at + MaxAge
            \/ a \in ModelReports /\ verdict.by.models[a] # r.model
  /\ sealing # NoManifest => DemandsMet
=============================================================================
