------------------------------- MODULE Backups -------------------------------
(***************************************************************************)
(* The scheduled backup job (dump, encrypt, restore drill, audit export,   *)
(* bundle manifest, report), the destructive restore of one artifact and   *)
(* the isolated recovery drill with its temporary containers, while the    *)
(* live database goes on changing and stored artifacts may be damaged.     *)
(*                                                                         *)
(* A digest stands for the rows of the artifact it was taken from; an      *)
(* artifact damaged since has another digest and does not authenticate.    *)
(* An optional value is a sequence of at most one element.                 *)
(***************************************************************************)
EXTENDS Naturals, Sequences, FiniteSets

CONSTANTS Rows,      \* rows of the durable tables
          Slots,     \* timestamps of scheduled jobs; each job has its own
          MinRuns    \* --min-runs of the history check

VARIABLES live,        \* rows of the running database
          dump,        \* the encrypted artifact of each slot: its rows
          drill,       \* the .restore.json of each slot: its row count
          exported,    \* slots with an audit bundle
          manifest,    \* the .bundle.json of each slot
          damaged,     \* slots whose artifact changed on disk
          backupJob,   \* the job in progress
          latest,      \* latest-backup-report.json
          restoreRun,  \* the restore of a target database in progress
          target,      \* what the target database holds
          recovery,    \* the isolated recovery drill in progress
          containers,  \* temporary containers that exist
          evidence     \* the recovery-evidence report

vars == <<live, dump, drill, exported, manifest, damaged, backupJob, latest,
           restoreRun, target, recovery, containers, evidence>>
files == <<dump, drill, exported, manifest, latest>>

None == <<>>
Opt(S) == {None} \cup {<<x>> : x \in S}
Slot0 == CHOOSE t \in Slots : TRUE
NoJob == [pc |-> "idle", slot |-> Slot0, skipDrill |-> FALSE, skipAudit |-> FALSE,
          signed |-> FALSE, ok |-> TRUE, plain |-> {}]
NoRestore == [pc |-> "idle", slot |-> Slot0, required |-> FALSE]
OldTarget == [state |-> "old", slot |-> Slot0, required |-> FALSE, rows |-> {}]
NoRecovery == [pc |-> "idle", slot |-> Slot0, keep |-> FALSE, expected |-> 0]
Counts == 0..Cardinality(Rows)
ManifestRecords == [rows : SUBSET Rows, damaged : BOOLEAN, drilled : BOOLEAN,
                    audited : BOOLEAN, signed : BOOLEAN]

TypeOK ==
  /\ live \subseteq Rows
  /\ dump \in [Slots -> Opt(SUBSET Rows)] /\ drill \in [Slots -> Opt(Counts)]
  /\ exported \subseteq Slots /\ damaged \subseteq Slots
  /\ manifest \in [Slots -> Opt(ManifestRecords)]
  /\ backupJob \in [pc : {"idle", "dump", "encrypt", "drill", "audit", "bundle", "report"},
                    slot : Slots, skipDrill : BOOLEAN, skipAudit : BOOLEAN,
                    signed : BOOLEAN, ok : BOOLEAN, plain : SUBSET Rows]
  /\ latest \in Opt([slot : Slots, ok : BOOLEAN, drillRequired : BOOLEAN])
  /\ restoreRun \in [pc : {"idle", "decrypt", "load"}, slot : Slots, required : BOOLEAN]
  /\ target \in [state : {"old", "partial", "restored"}, slot : Slots, required : BOOLEAN,
                 rows : SUBSET Rows]
  /\ recovery \in [pc : {"idle", "restore", "qdrant", "probe", "bind"}, slot : Slots,
                   keep : BOOLEAN, expected : Counts]
  /\ containers \subseteq {"postgres", "qdrant", "orphan"}
  /\ evidence \in Opt([slot : Slots, ok : BOOLEAN])

Init ==
  /\ live = {} /\ exported = {} /\ damaged = {} /\ containers = {}
  /\ dump = [t \in Slots |-> None] /\ drill = dump /\ manifest = dump
  /\ backupJob = NoJob /\ latest = None
  /\ restoreRun = NoRestore /\ target = OldTarget
  /\ recovery = NoRecovery /\ evidence = None

-----------------------------------------------------------------------------
(* The running service inserts rows; retention deletes some.               *)
Change ==
  /\ \E r \in Rows : live' \in {live \cup {r}, live \ {r}} \ {live}
  /\ UNCHANGED <<files, damaged, backupJob, restoreRun, target, recovery, containers, evidence>>

Damage(t) ==
  /\ dump[t] # None /\ t \notin damaged
  /\ damaged' = damaged \cup {t}
  /\ UNCHANGED <<live, files, backupJob, restoreRun, target, recovery, containers, evidence>>

(* The job: main of scheduled_backup.py.                                   *)
Begin(t, skipDrill, skipAudit, signed) ==
  /\ backupJob.pc = "idle" /\ dump[t] = None /\ manifest[t] = None
  /\ latest # None => latest[1].slot # t
  /\ backupJob' = [pc |-> "dump", slot |-> t, skipDrill |-> skipDrill,
                   skipAudit |-> skipAudit, signed |-> signed, ok |-> TRUE, plain |-> {}]
  /\ UNCHANGED <<live, files, damaged, restoreRun, target, recovery, containers, evidence>>

(* A failed step clears "ok"; dump and encryption failures skip the drill, *)
(* the audit export is tried in any case.                                  *)
StepTo(pc, ok) == backupJob' = [backupJob EXCEPT !.pc = pc, !.ok = @ /\ ok]

Dump ==
  /\ backupJob.pc = "dump"
  /\ \/ backupJob' = [backupJob EXCEPT !.pc = "encrypt", !.plain = live]
     \/ StepTo("audit", FALSE)
  /\ UNCHANGED <<live, files, damaged, restoreRun, target, recovery, containers, evidence>>

(* encrypt_file replaces its target atomically or leaves nothing.          *)
Encrypt ==
  /\ backupJob.pc = "encrypt"
  /\ \/ /\ dump' = [dump EXCEPT ![backupJob.slot] = <<backupJob.plain>>]
        /\ StepTo(IF backupJob.skipDrill THEN "audit" ELSE "drill", TRUE)
     \/ /\ StepTo("audit", FALSE)
        /\ UNCHANGED dump
  /\ UNCHANGED <<live, drill, exported, manifest, latest, damaged, restoreRun, target, recovery,
                 containers, evidence>>

Decrypts(t) == dump[t] # None /\ t \notin damaged

\* Mutant: only lost rows are refused.
ParityAtLeast(restored, expected) == restored <= expected

(* _verify_row_parity: the restored row counts are those of the source.    *)
Parity(restored, expected) == restored = expected

(* The drill restores the artifact and counts the live database's rows;    *)
(* only success writes the report.                                         *)
Drill ==
  LET t == backupJob.slot
      passes == Decrypts(t) /\ Parity(Cardinality(dump[t][1]), Cardinality(live)) IN
  /\ backupJob.pc = "drill"
  /\ \E ok \in {passes, FALSE} :
       /\ StepTo("audit", ok)
       /\ drill' = IF ok THEN [drill EXCEPT ![t] = <<Cardinality(live)>>] ELSE drill
  /\ UNCHANGED <<live, dump, exported, manifest, latest, damaged, restoreRun, target, recovery,
                 containers, evidence>>

ExportAudit ==
  /\ backupJob.pc = "audit"
  /\ \E ok \in {TRUE, backupJob.skipAudit} :
       /\ StepTo("bundle", ok)
       /\ exported' = IF ok /\ ~backupJob.skipAudit THEN exported \cup {backupJob.slot} ELSE exported
  /\ UNCHANGED <<live, dump, drill, manifest, latest, damaged, restoreRun, target, recovery,
                 containers, evidence>>

\* Mutant: the manifest is written whenever there is an artifact.
MayBundleAnyway == dump[backupJob.slot] # None

(* The manifest is written only when every step before it succeeded, and   *)
(* hashes the files as they are then, damaged or not.                      *)
MayBundle == backupJob.ok

Bundle ==
  LET t == backupJob.slot IN
  /\ backupJob.pc = "bundle"
  /\ \/ /\ MayBundle
        /\ manifest' = [manifest EXCEPT ![t] =
             <<[rows |-> dump[t][1], damaged |-> t \in damaged, drilled |-> ~backupJob.skipDrill,
                audited |-> ~backupJob.skipAudit, signed |-> backupJob.signed]>>]
        /\ StepTo("report", TRUE)
     \/ /\ StepTo("report", FALSE)
        /\ UNCHANGED manifest
  /\ UNCHANGED <<live, dump, drill, exported, latest, damaged, restoreRun, target, recovery,
                 containers, evidence>>

WriteReport ==
  /\ backupJob.pc = "report"
  /\ latest' = <<[slot |-> backupJob.slot, ok |-> backupJob.ok,
                  drillRequired |-> ~backupJob.skipDrill]>>
  /\ backupJob' = NoJob
  /\ UNCHANGED <<live, dump, drill, exported, manifest, damaged, restoreRun, target, recovery,
                 containers, evidence>>

(* The host goes down in the middle of a job: no report.                   *)
JobDies ==
  /\ backupJob.pc # "idle"
  /\ backupJob' = NoJob
  /\ UNCHANGED <<live, files, damaged, restoreRun, target, recovery, containers, evidence>>

-----------------------------------------------------------------------------
(* _verify_bundle_manifest and _verify_one over the retained manifests.    *)
BundleVerifies(t) ==
  /\ manifest[t] # None /\ dump[t] # None
  /\ manifest[t][1].rows = dump[t][1] /\ manifest[t][1].damaged = (t \in damaged)
RunValid(t, requireSignature) ==
  /\ BundleVerifies(t)
  /\ requireSignature => manifest[t][1].signed
  /\ manifest[t][1].drilled /\ manifest[t][1].audited /\ drill[t] # None
Retained == {t \in Slots : manifest[t] # None}
HistoryOk(requireSignature) ==
  LET valid == {t \in Retained : RunValid(t, requireSignature)} IN
  Cardinality(valid) >= MinRuns /\ valid = Retained

-----------------------------------------------------------------------------
(* Bound: one restore or one recovery drill in a behaviour.                *)
Unattended == /\ restoreRun = NoRestore /\ target = OldTarget
              /\ recovery = NoRecovery /\ evidence = None

\* Mutant: a missing manifest is accepted where a signature is required.
AuthorizedIfAny(t, required) == manifest[t] # None => BundleVerifies(t)

(* restore.py: the bundle is checked first when one is given or required;  *)
(* nothing is changed before that.                                         *)
Authorized(t, required) ==
  BundleVerifies(t) /\ (required => manifest[t][1].signed)

RestoreStart(t, required) ==
  /\ Unattended /\ dump[t] # None
  /\ required => Authorized(t, required)
  /\ restoreRun' = [pc |-> "decrypt", slot |-> t, required |-> required]
  /\ UNCHANGED <<live, files, damaged, backupJob, target, recovery, containers, evidence>>

(* decrypt_file authenticates the whole artifact before it yields a file;  *)
(* pg_restore then drops and reloads objects, outside one transaction.     *)
RestoreDecrypt ==
  /\ restoreRun.pc = "decrypt"
  /\ IF Decrypts(restoreRun.slot)
     THEN /\ restoreRun' = [restoreRun EXCEPT !.pc = "load"]
          /\ target' = [state |-> "partial", slot |-> restoreRun.slot,
                        required |-> restoreRun.required, rows |-> {}]
     ELSE restoreRun' = NoRestore /\ UNCHANGED target
  /\ UNCHANGED <<live, files, damaged, backupJob, recovery, containers, evidence>>

RestoreLoad ==
  /\ restoreRun.pc = "load"
  /\ restoreRun' = NoRestore
  /\ target' \in {target, [target EXCEPT !.state = "restored", !.rows = dump[target.slot][1]]}
  /\ UNCHANGED <<live, files, damaged, backupJob, recovery, containers, evidence>>

-----------------------------------------------------------------------------
(* isolated_recovery_drill.py: the counts to expect are the adjacent drill *)
(* report's, or those of the live database where there is none.            *)
RecoveryStart(t, keep) ==
  /\ Unattended /\ dump[t] # None
  /\ recovery' = [pc |-> "restore", slot |-> t, keep |-> keep,
                  expected |-> IF drill[t] # None THEN drill[t][1] ELSE Cardinality(live)]
  /\ UNCHANGED <<live, files, damaged, backupJob, restoreRun, target, containers, evidence>>

\* Mutant: only the database container is removed.
CleanedPostgres(c) == IF recovery.keep THEN c ELSE c \ {"postgres"}

(* A failure at any stage writes a failure report and removes the          *)
(* containers this process knows of, unless --keep.                        *)
Cleaned(c) == IF recovery.keep THEN c ELSE c \ {"postgres", "qdrant"}

RecoveryFails(c) ==
  /\ recovery' = [NoRecovery EXCEPT !.keep = recovery.keep]
  /\ evidence' = <<[slot |-> recovery.slot, ok |-> FALSE]>>
  /\ containers' = Cleaned(c)

(* The nested restore drill runs with --keep and names its container only  *)
(* when it passes: after its failure nobody knows the container.           *)
RecoveryRestore ==
  /\ recovery.pc = "restore"
  /\ \/ /\ Decrypts(recovery.slot)
        /\ Parity(Cardinality(dump[recovery.slot][1]), recovery.expected)
        /\ recovery' = [recovery EXCEPT !.pc = "qdrant"]
        /\ containers' = containers \cup {"postgres"}
        /\ UNCHANGED evidence
     \/ \E c \in {containers, containers \cup {"orphan"}} : RecoveryFails(c)
  /\ UNCHANGED <<live, files, damaged, backupJob, restoreRun, target>>

RecoveryQdrant ==
  /\ recovery.pc = "qdrant"
  /\ \/ /\ recovery' = [recovery EXCEPT !.pc = "probe"]
        /\ containers' = containers \cup {"qdrant"}
        /\ UNCHANGED evidence
     \/ \E c \in {containers, containers \cup {"qdrant"}} : RecoveryFails(c)
  /\ UNCHANGED <<live, files, damaged, backupJob, restoreRun, target>>

(* run_probe reindexes the restored workspace and must find an item of it; *)
(* restore_recovery_evidence.py binds the two reports.                     *)
RecoveryProbe ==
  /\ recovery.pc = "probe"
  /\ \/ /\ dump[recovery.slot][1] # {}
        /\ recovery' = [recovery EXCEPT !.pc = "bind"]
        /\ UNCHANGED <<containers, evidence>>
     \/ RecoveryFails(containers)
  /\ UNCHANGED <<live, files, damaged, backupJob, restoreRun, target>>

RecoveryBind ==
  /\ recovery.pc = "bind"
  /\ \/ /\ recovery' = [NoRecovery EXCEPT !.keep = recovery.keep]
        /\ evidence' = <<[slot |-> recovery.slot, ok |-> TRUE]>>
        /\ containers' = Cleaned(containers)
     \/ RecoveryFails(containers)
  /\ UNCHANGED <<live, files, damaged, backupJob, restoreRun, target>>

Next ==
  \/ Change
  \/ \E t \in Slots : Damage(t)
  \/ \E t \in Slots, d, a, s \in BOOLEAN : Begin(t, d, a, s)
  \/ Dump \/ Encrypt \/ Drill \/ ExportAudit \/ Bundle \/ WriteReport \/ JobDies
  \/ \E t \in Slots, required \in BOOLEAN : RestoreStart(t, required)
  \/ RestoreDecrypt \/ RestoreLoad
  \/ \E t \in Slots, keep \in BOOLEAN : RecoveryStart(t, keep)
  \/ RecoveryRestore \/ RecoveryQdrant \/ RecoveryProbe \/ RecoveryBind

Spec == Init /\ [][Next]_vars

-----------------------------------------------------------------------------
(* Whatever the live database did meanwhile, a drill report states the row *)
(* count of its own artifact; a successful job report names a bundle that  *)
(* was complete; a good history consists of drilled and audited bundles    *)
(* that decrypt, unless one was damaged before it was hashed.  A restore   *)
(* that requires a signature touches the database only for a signed        *)
(* bundle's artifact.  Good recovery evidence is about a non-empty         *)
(* artifact, and a drill not told to keep its containers leaves only that  *)
(* of a nested restore drill that failed (_verify_row_parity,              *)
(* verify_backup_history.py, restore.py, isolated_recovery_drill.py).      *)
BackupHonest ==
  /\ \A t \in Slots : drill[t] # None => dump[t] # None /\ drill[t][1] = Cardinality(dump[t][1])
  /\ latest # None /\ latest[1].ok =>
       LET t == latest[1].slot IN
       /\ manifest[t] # None
       /\ latest[1].drillRequired => drill[t] # None
       /\ t \notin damaged => BundleVerifies(t)
  /\ HistoryOk(FALSE) =>
       /\ Cardinality(Retained) >= MinRuns
       /\ \A t \in Retained : /\ Decrypts(t) \/ manifest[t][1].damaged
                              /\ drill[t] # None /\ t \in exported
  /\ target.state # "old" /\ target.required =>
       LET t == target.slot IN manifest[t] # None /\ manifest[t][1].signed
  /\ target.state = "restored" => dump[target.slot] = <<target.rows>>
  /\ evidence # None /\ evidence[1].ok => dump[evidence[1].slot][1] # {}
  /\ recovery.pc = "idle" /\ ~recovery.keep => containers \subseteq {"orphan"}
  /\ "orphan" \in containers => evidence # None /\ ~evidence[1].ok
=============================================================================
