----------------------------- MODULE AuditTrail -----------------------------
(***************************************************************************)
(* The audit log of one tenant and its retention script: export the events *)
(* before a cutoff page by page into a bundle named after the cutoff,      *)
(* verify the bundle, then delete in batches.  Requests append events      *)
(* throughout; created_at is taken before the row commits.                 *)
(*                                                                         *)
(* A digest or a signature is modelled by the bytes it was computed from:  *)
(* the checksum of a manifest is that manifest, its signature the manifest *)
(* under the operator's key, the only key there is.                        *)
(***************************************************************************)
EXTENDS Naturals, FiniteSets

CONSTANTS AuditEvents,   \* audit events, numbered: the number is the id
          CreatedAt,     \* created_at of each event; several may be equal
          Cutoffs,       \* exclusive cutoffs the script is run with
          Batch,         \* rows of one page and of one delete (at most 500)
          MaxBatches,    \* --max-delete-batches
          MaxRuns        \* bound: runs of the script in one behaviour

VARIABLES rows,      \* audit_events
          pending,   \* events not yet appended
          bundle,    \* the files under export_root / cutoff
          run,       \* the retention run in progress
          pruned,    \* events deleted (history)
          missed,    \* events appended behind the cursor of the run that is or was (history)
          replaced   \* deleted events of a bundle that a later run overwrote (history)

vars == <<rows, pending, bundle, run, pruned, missed, replaced>>

NoManifest == [serial |-> 0, events |-> {}]
NoBundle == [events |-> {}, manifest |-> NoManifest,
             checksum |-> NoManifest, signature |-> NoManifest]
NoRun(n) == [pc |-> "idle", serial |-> n, cutoff |-> 0, apply |-> FALSE, signed |-> FALSE,
             cursor |-> 0, batches |-> 0]
Manifests == [serial : 0..MaxRuns, events : SUBSET AuditEvents]

TypeOK ==
  /\ rows \subseteq AuditEvents /\ pending \subseteq AuditEvents \ rows
  /\ bundle \in [Cutoffs -> [events : SUBSET AuditEvents, manifest : Manifests,
                             checksum : Manifests, signature : Manifests]]
  /\ run \in [pc : {"idle", "list", "manifest", "checksum", "sign", "verify", "prune"},
              serial : 0..MaxRuns, cutoff : Cutoffs \cup {0}, apply : BOOLEAN, signed : BOOLEAN,
              cursor : AuditEvents \cup {0}, batches : 0..MaxBatches]
  /\ pruned \subseteq AuditEvents /\ missed \subseteq AuditEvents
  /\ replaced \subseteq AuditEvents

Init ==
  /\ rows = {} /\ pending = AuditEvents
  /\ bundle = [c \in Cutoffs |-> NoBundle]
  /\ run = NoRun(0)
  /\ pruned = {} /\ missed = {} /\ replaced = {}

-----------------------------------------------------------------------------
(* The order of list_audit_events: newest first, ties by descending id.    *)
Newer(e, f) == CreatedAt[e] > CreatedAt[f] \/ (CreatedAt[e] = CreatedAt[f] /\ e > f)
Due(c) == {e \in rows : CreatedAt[e] < c}

\* Mutant: the cursor is the timestamp alone.
AheadByTime(cursor, c) ==
  {e \in Due(c) : cursor = 0 \/ CreatedAt[e] < CreatedAt[cursor]}

(* What a page request may still return: rows before the cutoff and, after *)
(* the first page, strictly after the cursor in that order.                *)
Ahead(cursor, c) == {e \in Due(c) : cursor = 0 \/ Newer(cursor, e)}

(* The first Batch of a set, newest or oldest first.                       *)
FirstNewest(S) == {e \in S : Cardinality({f \in S : Newer(f, e)}) < Batch}
FirstOldest(S) == {e \in S : Cardinality({f \in S : Newer(e, f)}) < Batch}
Last(page) == CHOOSE e \in page : \A f \in page \ {e} : Newer(f, e)

(* A request or a worker commits an event.                                 *)
Append(e) ==
  /\ e \in pending
  /\ pending' = pending \ {e}
  /\ rows' = rows \cup {e}
  /\ missed' = IF /\ run.pc # "idle" /\ CreatedAt[e] < run.cutoff
                  /\ run.pc = "list" => run.cursor # 0 /\ Newer(e, run.cursor)
               THEN missed \cup {e} ELSE missed
  /\ UNCHANGED <<bundle, run, pruned, replaced>>

(* The arguments are checked and the export opens its file for writing;    *)
(* --apply without a key is refused unless --allow-unsigned-export.        *)
Admitted(apply, signed, allowUnsigned) == apply => signed \/ allowUnsigned

Start(c, apply, signed, allowUnsigned) ==
  /\ run.pc = "idle" /\ run.serial < MaxRuns
  /\ Admitted(apply, signed, allowUnsigned)
  /\ run' = [pc |-> "list", serial |-> run.serial + 1, cutoff |-> c, apply |-> apply,
             signed |-> signed, cursor |-> 0, batches |-> 0]
  /\ replaced' = replaced \cup (bundle[c].events \cap pruned)
  /\ missed' = missed \cap pruned
  /\ bundle' = [bundle EXCEPT ![c].events = {}]
  /\ UNCHANGED <<rows, pending, pruned>>

(* One page is listed and written; a short page is the last.               *)
ListPage ==
  LET page == FirstNewest(Ahead(run.cursor, run.cutoff)) IN
  /\ run.pc = "list"
  /\ bundle' = [bundle EXCEPT ![run.cutoff].events = @ \cup page]
  /\ run' = IF Cardinality(page) < Batch THEN [run EXCEPT !.pc = "manifest"]
            ELSE [run EXCEPT !.cursor = Last(page)]
  /\ UNCHANGED <<rows, pending, pruned, missed, replaced>>

WriteManifest ==
  /\ run.pc = "manifest"
  /\ bundle' = [bundle EXCEPT ![run.cutoff].manifest =
                  [serial |-> run.serial, events |-> bundle[run.cutoff].events]]
  /\ run' = [run EXCEPT !.pc = "checksum"]
  /\ UNCHANGED <<rows, pending, pruned, missed, replaced>>

WriteChecksum ==
  /\ run.pc = "checksum"
  /\ bundle' = [bundle EXCEPT ![run.cutoff].checksum = bundle[run.cutoff].manifest]
  /\ run' = [run EXCEPT !.pc = IF run.signed THEN "sign" ELSE "verify"]
  /\ UNCHANGED <<rows, pending, pruned, missed, replaced>>

Sign ==
  /\ run.pc = "sign"
  /\ bundle' = [bundle EXCEPT ![run.cutoff].signature = bundle[run.cutoff].manifest]
  /\ run' = [run EXCEPT !.pc = "verify"]
  /\ UNCHANGED <<rows, pending, pruned, missed, replaced>>

(* _verify_bundle: without a key, a bundle that has a signature fails.     *)
Verified(b, signed) ==
  /\ b.manifest # NoManifest
  /\ b.checksum = b.manifest
  /\ b.events = b.manifest.events
  /\ b.signature = IF signed THEN b.manifest ELSE NoManifest

Verify ==
  LET b == bundle[run.cutoff] IN
  /\ run.pc = "verify"
  /\ run' = IF Verified(b, run.signed) /\ run.apply /\ b.manifest.events # {}
            THEN [run EXCEPT !.pc = "prune"] ELSE NoRun(run.serial)
  /\ UNCHANGED <<rows, pending, bundle, pruned, missed, replaced>>

(* One delete of at most Batch rows, oldest first; a short one ends it.    *)
PruneBatch ==
  LET doomed == FirstOldest(Due(run.cutoff)) IN
  /\ run.pc = "prune"
  /\ rows' = rows \ doomed
  /\ pruned' = pruned \cup doomed
  /\ run' = IF Cardinality(doomed) < Batch \/ run.batches + 1 = MaxBatches
            THEN NoRun(run.serial) ELSE [run EXCEPT !.batches = @ + 1]
  /\ UNCHANGED <<pending, bundle, missed, replaced>>

(* The script is killed, or the database or the disk fails it.             *)
RetentionFails ==
  /\ run.pc # "idle"
  /\ run' = NoRun(run.serial)
  /\ UNCHANGED <<rows, pending, bundle, pruned, missed, replaced>>

Next ==
  \/ \E e \in AuditEvents : Append(e)
  \/ \E c \in Cutoffs, apply, signed, unsigned \in BOOLEAN : Start(c, apply, signed, unsigned)
  \/ ListPage \/ WriteManifest \/ WriteChecksum \/ Sign \/ Verify \/ PruneBatch
  \/ RetentionFails

Spec == Init /\ [][Next]_vars

-----------------------------------------------------------------------------
(* A deleted audit event is on disk in a bundle file of the export, except *)
(* an event that committed behind the cursor of a run with a created_at    *)
(* before the cutoff, and an event of a bundle that a later run with the   *)
(* same cutoff overwrote; and what a run is about to delete is in a bundle *)
(* it verified (main of audit_retention.py, _write_events, _verify_bundle).*)
PrunedIsExported ==
  /\ pruned \subseteq missed \cup replaced \cup UNION {bundle[c].events : c \in Cutoffs}
  /\ run.pc = "prune" =>
       /\ Verified(bundle[run.cutoff], run.signed)
       /\ Due(run.cutoff) \subseteq bundle[run.cutoff].events \cup missed
=============================================================================
