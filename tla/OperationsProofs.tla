---------------------------- MODULE OperationsProofs ----------------------------
(***************************************************************************)
(* Proofs about the components that keep the service running and open:     *)
(* heartbeats, audit retention, access, the agents' plugins, backups and   *)
(* the release gate, each for any value of its constants.  Each part of    *)
(* this module is about one of them and stands by itself; the last one     *)
(* carries what was proved over to all components running side by side.    *)
(***************************************************************************)
EXTENDS Operations, FiniteSetTheorems, SequenceTheorems, WellFoundedInduction, TLAPS

-----------------------------------------------------------------------------
(* Heartbeats.  A row counts while it is young, whoever wrote it and       *)
(* whatever became of its writer since: the invariant relates the age of a *)
(* row to the time its process has been gone.                              *)

\* The writes a process may have under way, by where it is.
WritesOf(w) ==
    /\ proc[w] = "down" => writing[w] = {}
    /\ proc[w] \in {"starting", "closing"} => writing[w] = {"running"}
    /\ proc[w] \in {"running", "deaf"} => "stopping" \notin writing[w]
    /\ proc[w] = "stopping" => "stopping" \in writing[w]

\* A running row is at least as old as the absence of its process.
RowOlder(w) ==
    /\ proc[w] # "down" => absent[w] = 0
    /\ beats[w].status = "running" => absent[w] <= beats[w].age

\* After a clean stop the "stopping" row is the last one.
CleanStop(w) ==
    exit[w] = "clean" =>
        \/ proc[w] = "stopping" /\ writing[w] = {"stopping"}
        \/ proc[w] = "down" /\ beats[w].status # "running"

WorkerInv(w) == WritesOf(w) /\ RowOlder(w) /\ CleanStop(w)
HeartbeatInv == Heartbeat!TypeOK /\ \A w \in MonitoredWorkers : WorkerInv(w)

Places == {"down", "starting", "running", "deaf", "stopping", "closing"}
Exits == {"up", "clean", "overlapped", "unsaid", "killed"}

LEMMA HeartbeatTypes ==
  Heartbeat!TypeOK <=> /\ beats \in [MonitoredWorkers -> Heartbeat!Row] /\ proc \in [MonitoredWorkers -> Places]
                       /\ writing \in [MonitoredWorkers -> SUBSET {"running", "stopping"}]
                       /\ exit \in [MonitoredWorkers -> Exits] /\ absent \in [MonitoredWorkers -> 0..Retention]
BY DEF Heartbeat!TypeOK, Places, Exits

\* WorkerHeartbeatEmitter.start
LEMMA StepStart ==
  ASSUME HeartbeatConstants, HeartbeatInv, NEW w \in MonitoredWorkers, Heartbeat!Start(w)
  PROVE  HeartbeatInv'
<1>1. WorkerInv(w)'
  BY HeartbeatTypes DEF HeartbeatInv, WorkerInv, WritesOf, RowOlder, CleanStop, Heartbeat!Start,
     Heartbeat!Row, HeartbeatConstants
<1>2. Heartbeat!TypeOK'
  BY HeartbeatTypes DEF HeartbeatInv, Heartbeat!TypeOK, Heartbeat!Start, HeartbeatConstants
<1>3. ASSUME NEW v \in MonitoredWorkers, v # w PROVE WorkerInv(v)'
  BY <1>3, HeartbeatTypes DEF HeartbeatInv, WorkerInv, WritesOf, RowOlder, CleanStop, Heartbeat!Start
<1>4. QED
  BY <1>1, <1>2, <1>3 DEF HeartbeatInv

\* The background task starts a write.
LEMMA StepBeat ==
  ASSUME HeartbeatConstants, HeartbeatInv, NEW w \in MonitoredWorkers, Heartbeat!Beat(w)
  PROVE  HeartbeatInv'
<1>1. WorkerInv(w)'
  BY HeartbeatTypes DEF HeartbeatInv, WorkerInv, WritesOf, RowOlder, CleanStop, Heartbeat!Beat
<1>2. Heartbeat!TypeOK'
  BY HeartbeatTypes DEF HeartbeatInv, Heartbeat!TypeOK, Heartbeat!Beat
<1>3. ASSUME NEW v \in MonitoredWorkers, v # w PROVE WorkerInv(v)'
  BY <1>3, HeartbeatTypes DEF HeartbeatInv, WorkerInv, WritesOf, RowOlder, CleanStop, Heartbeat!Beat
<1>4. QED
  BY <1>1, <1>2, <1>3 DEF HeartbeatInv

\* WorkerHeartbeatEmitter.stop: a clean stop has no write of the task under way.
LEMMA StepLeave ==
  ASSUME HeartbeatConstants, HeartbeatInv, NEW w \in MonitoredWorkers, Heartbeat!Leave(w)
  PROVE  HeartbeatInv'
<1>1. WorkerInv(w)'
  BY HeartbeatTypes DEF HeartbeatInv, WorkerInv, WritesOf, RowOlder, CleanStop, Heartbeat!Leave
<1>2. Heartbeat!TypeOK'
  BY HeartbeatTypes DEF HeartbeatInv, Heartbeat!TypeOK, Heartbeat!Leave
<1>3. ASSUME NEW v \in MonitoredWorkers, v # w PROVE WorkerInv(v)'
  BY <1>3, HeartbeatTypes DEF HeartbeatInv, WorkerInv, WritesOf, RowOlder, CleanStop, Heartbeat!Leave
<1>4. QED
  BY <1>1, <1>2, <1>3 DEF HeartbeatInv

\* The process is killed.
LEMMA StepKill ==
  ASSUME HeartbeatConstants, HeartbeatInv, NEW w \in MonitoredWorkers, Heartbeat!Kill(w)
  PROVE  HeartbeatInv'
<1>1. WorkerInv(w)'
  BY HeartbeatTypes DEF HeartbeatInv, WorkerInv, WritesOf, RowOlder, CleanStop, Heartbeat!Kill
<1>2. Heartbeat!TypeOK'
  BY HeartbeatTypes DEF HeartbeatInv, Heartbeat!TypeOK, Heartbeat!Kill
<1>3. ASSUME NEW v \in MonitoredWorkers, v # w PROVE WorkerInv(v)'
  BY <1>3, HeartbeatTypes DEF HeartbeatInv, WorkerInv, WritesOf, RowOlder, CleanStop, Heartbeat!Kill
<1>4. QED
  BY <1>1, <1>2, <1>3 DEF HeartbeatInv

\* Where a process is after a write has ended.
LEMMA AfterWrite ==
  ASSUME HeartbeatInv, NEW w \in MonitoredWorkers, NEW status \in writing[w], NEW failed \in BOOLEAN
  PROVE  LET p == Heartbeat!After(w, status, failed)
             left == writing[w] \ {status}
         IN  /\ p \in Places /\ proc[w] # "down"
             /\ p = "down" => left = {}
             /\ p \in {"starting", "closing"} => left = {"running"}
             /\ p \in {"running", "deaf"} => "stopping" \notin left
             /\ p = "stopping" => "stopping" \in left
             /\ exit[w] = "clean" => p = "down" /\ status = "stopping"
<1>1. WritesOf(w) /\ CleanStop(w) /\ proc[w] \in Places /\ status \in {"running", "stopping"}
      /\ writing[w] \subseteq {"running", "stopping"}
  BY HeartbeatTypes DEF HeartbeatInv, WorkerInv
<1>2. proc[w] # "down"
  BY <1>1 DEF WritesOf
<1>3. exit[w] = "clean" => proc[w] = "stopping" /\ writing[w] = {"stopping"} /\ status = "stopping"
  BY <1>1, <1>2 DEF CleanStop
<1>4. CASE proc[w] = "starting"
  BY <1>1, <1>3, <1>4 DEF WritesOf, Heartbeat!After, Places
<1>5. CASE proc[w] \in {"running", "deaf"}
  BY <1>1, <1>3, <1>5 DEF WritesOf, Heartbeat!After, Places
<1>6. CASE proc[w] = "stopping"
  BY <1>1, <1>3, <1>6 DEF WritesOf, Heartbeat!After, Places
<1>7. CASE proc[w] = "closing"
  BY <1>1, <1>3, <1>7 DEF WritesOf, Heartbeat!After, Places
<1>8. QED
  BY <1>1, <1>2, <1>4, <1>5, <1>6, <1>7 DEF Places

\* save_worker_heartbeat commits.
LEMMA StepWriteDone ==
  ASSUME HeartbeatConstants, HeartbeatInv, NEW w \in MonitoredWorkers,
         NEW status \in {"running", "stopping"}, Heartbeat!WriteDone(w, status)
  PROVE  HeartbeatInv'
<1> DEFINE p == Heartbeat!After(w, status, FALSE)
           left == writing[w] \ {status}
           row == [status |-> status, age |-> 0]
<1>1. /\ status \in writing[w] /\ writing' = [writing EXCEPT ![w] = left]
      /\ proc' = [proc EXCEPT ![w] = p] /\ exit' = exit /\ absent' = absent
  BY DEF Heartbeat!WriteDone
<1>2. \A v \in MonitoredWorkers :
        beats'[v] = IF v = w THEN row
                    ELSE IF beats[v].age = Retention THEN Heartbeat!NoRow ELSE beats[v]
  BY DEF Heartbeat!WriteDone, Heartbeat!Upserted
<1>3. /\ p \in Places /\ proc[w] # "down"
      /\ p = "down" => left = {}
      /\ p \in {"starting", "closing"} => left = {"running"}
      /\ p \in {"running", "deaf"} => "stopping" \notin left
      /\ p = "stopping" => "stopping" \in left
      /\ exit[w] = "clean" => p = "down" /\ status = "stopping"
  BY <1>1, AfterWrite
<1>4. left \in SUBSET {"running", "stopping"}
  BY <1>1, HeartbeatTypes DEF HeartbeatInv
<1>5. /\ row \in Heartbeat!Row /\ row.status = status /\ row.age = 0
      /\ Heartbeat!NoRow \in Heartbeat!Row /\ Heartbeat!NoRow.status = "none"
  BY DEF Heartbeat!Row, Heartbeat!NoRow, HeartbeatConstants
<1> HIDE DEF p, left, row
<1>6. Heartbeat!TypeOK'
  <2>1. beats' \in [MonitoredWorkers -> Heartbeat!Row]
    BY <1>2, <1>5, HeartbeatTypes DEF HeartbeatInv, Heartbeat!WriteDone, Heartbeat!Upserted
  <2>2. QED
    BY <1>1, <1>3, <1>4, <2>1, HeartbeatTypes
       DEF HeartbeatInv, Heartbeat!TypeOK, Places, Heartbeat!Row
<1>7. WorkerInv(w)'
  <2>1. proc'[w] = p /\ writing'[w] = left /\ beats'[w].status = status /\ beats'[w].age = 0
    BY <1>1, <1>2, <1>5, HeartbeatTypes DEF HeartbeatInv
  <2>2. absent[w] = 0
    BY <1>3 DEF HeartbeatInv, WorkerInv, RowOlder
  <2>3. QED
    BY <1>1, <1>3, <2>1, <2>2 DEF WorkerInv, WritesOf, RowOlder, CleanStop
<1>8. ASSUME NEW v \in MonitoredWorkers, v # w PROVE WorkerInv(v)'
  <2>1. proc'[v] = proc[v] /\ writing'[v] = writing[v]
    BY <1>1, <1>8, HeartbeatTypes DEF HeartbeatInv
  <2>2. beats'[v] = beats[v] \/ beats'[v].status = "none"
    BY <1>2, <1>5, <1>8
  <2>3. QED
    BY <1>1, <2>1, <2>2 DEF HeartbeatInv, WorkerInv, WritesOf, RowOlder, CleanStop
<1>9. QED
  BY <1>6, <1>7, <1>8 DEF HeartbeatInv

\* The write raises.
LEMMA StepWriteFails ==
  ASSUME HeartbeatConstants, HeartbeatInv, NEW w \in MonitoredWorkers,
         NEW status \in {"running", "stopping"}, Heartbeat!WriteFails(w, status)
  PROVE  HeartbeatInv'
<1> DEFINE p == Heartbeat!After(w, status, TRUE)
           left == writing[w] \ {status}
           x == IF status = "stopping" THEN "unsaid"
                ELSE IF proc[w] = "starting" THEN "killed" ELSE exit[w]
<1>1. /\ status \in writing[w] /\ writing' = [writing EXCEPT ![w] = left]
      /\ proc' = [proc EXCEPT ![w] = p] /\ exit' = [exit EXCEPT ![w] = x]
      /\ beats' = beats /\ absent' = absent
  BY DEF Heartbeat!WriteFails
<1>2. /\ p \in Places /\ proc[w] # "down"
      /\ p = "down" => left = {}
      /\ p \in {"starting", "closing"} => left = {"running"}
      /\ p \in {"running", "deaf"} => "stopping" \notin left
      /\ p = "stopping" => "stopping" \in left
      /\ exit[w] = "clean" => status = "stopping"
  BY <1>1, AfterWrite
<1>3. left \in SUBSET {"running", "stopping"} /\ x \in Exits /\ x # "clean"
  BY <1>1, <1>2, HeartbeatTypes DEF HeartbeatInv, Exits
<1> HIDE DEF p, left, x
<1>4. Heartbeat!TypeOK'
  BY <1>1, <1>2, <1>3, HeartbeatTypes DEF HeartbeatInv, Heartbeat!TypeOK, Places, Exits
<1>5. WorkerInv(w)'
  <2>1. proc'[w] = p /\ writing'[w] = left /\ exit'[w] = x
    BY <1>1, HeartbeatTypes DEF HeartbeatInv
  <2>2. QED
    BY <1>1, <1>2, <1>3, <2>1 DEF HeartbeatInv, WorkerInv, WritesOf, RowOlder, CleanStop
<1>6. ASSUME NEW v \in MonitoredWorkers, v # w PROVE WorkerInv(v)'
  BY <1>1, <1>6, HeartbeatTypes DEF HeartbeatInv, WorkerInv, WritesOf, RowOlder, CleanStop
<1>7. QED
  BY <1>4, <1>5, <1>6 DEF HeartbeatInv

\* Time passes: a row ages at least as much as the absence of its process.
LEMMA StepTick ==
  ASSUME HeartbeatConstants, HeartbeatInv, Heartbeat!Tick
  PROVE  HeartbeatInv'
<1>1. \A n \in 0..Retention : Heartbeat!Older(n) \in 0..Retention
  BY DEF Heartbeat!Older, HeartbeatConstants
<1>2. \A m, n \in 0..Retention : m <= n => Heartbeat!Older(m) <= Heartbeat!Older(n)
  BY DEF Heartbeat!Older, HeartbeatConstants
<1>3. ASSUME NEW w \in MonitoredWorkers
      PROVE  /\ beats'[w] \in Heartbeat!Row /\ beats'[w].status = beats[w].status
             /\ beats[w].age \in 0..Retention /\ beats'[w].age = Heartbeat!Older(beats[w].age)
             /\ absent'[w] = IF proc[w] = "down" THEN Heartbeat!Older(absent[w]) ELSE 0
             /\ absent[w] \in 0..Retention
  BY <1>1, HeartbeatTypes DEF HeartbeatInv, Heartbeat!Tick, Heartbeat!Row
<1>4. Heartbeat!TypeOK'
  <2>1. beats' \in [MonitoredWorkers -> Heartbeat!Row] /\ absent' \in [MonitoredWorkers -> 0..Retention]
    BY <1>1, <1>3 DEF Heartbeat!Tick, HeartbeatConstants
  <2>2. QED
    BY <2>1 DEF HeartbeatInv, Heartbeat!TypeOK, Heartbeat!Tick, Heartbeat!Row
<1>5. ASSUME NEW w \in MonitoredWorkers PROVE WorkerInv(w)'
  <2>1. RowOlder(w)'
    <3>1. CASE proc[w] = "down"
      BY <1>1, <1>2, <1>3, <3>1 DEF HeartbeatInv, WorkerInv, RowOlder, Heartbeat!Tick
    <3>2. CASE proc[w] # "down"
      BY <1>1, <1>3, <3>2 DEF RowOlder, Heartbeat!Tick, HeartbeatConstants
    <3>3. QED
      BY <3>1, <3>2
  <2>2. QED
    BY <1>3, <2>1 DEF HeartbeatInv, WorkerInv, WritesOf, CleanStop, Heartbeat!Tick
<1>6. QED
  BY <1>4, <1>5 DEF HeartbeatInv

\* worker_readiness and WorkerHeartbeatEmitter: the API is ready only if each required
\* kind had a process within the last TTL, and a worker that stopped in order is not
\* counted as running, for any workers, kinds, TTL and retention.
THEOREM ReadinessIsTrue ==
  HeartbeatConstants => (Heartbeat!Spec => [](Heartbeat!TypeOK /\ Heartbeat!ReadinessTruthful))
<1> SUFFICES ASSUME HeartbeatConstants
             PROVE  Heartbeat!Spec => [](Heartbeat!TypeOK /\ Heartbeat!ReadinessTruthful)
  OBVIOUS
<1>1. Heartbeat!Init => HeartbeatInv
  BY DEF Heartbeat!Init, HeartbeatInv, Heartbeat!TypeOK, WorkerInv, WritesOf, RowOlder, CleanStop,
     Heartbeat!NoRow, Heartbeat!Row, HeartbeatConstants
<1>2. HeartbeatInv /\ [Heartbeat!Next]_(Heartbeat!vars) => HeartbeatInv'
  <2> SUFFICES ASSUME HeartbeatInv, [Heartbeat!Next]_(Heartbeat!vars) PROVE HeartbeatInv'
    OBVIOUS
  <2>1. CASE UNCHANGED Heartbeat!vars
    BY <2>1 DEF Heartbeat!vars, HeartbeatInv, Heartbeat!TypeOK, WorkerInv, WritesOf, RowOlder,
       CleanStop
  <2>2. QED
    BY <2>1, StepStart, StepBeat, StepLeave, StepKill, StepWriteDone, StepWriteFails, StepTick
       DEF Heartbeat!Next
<1>3. HeartbeatInv => Heartbeat!TypeOK /\ Heartbeat!ReadinessTruthful
  <2> SUFFICES ASSUME HeartbeatInv PROVE Heartbeat!TypeOK /\ Heartbeat!ReadinessTruthful
    OBVIOUS
  <2>1. Heartbeat!ReadyMeansAlive
    <3> SUFFICES ASSUME Heartbeat!WorkersReady, NEW k \in RequiredKinds
                 PROVE  \E w \in MonitoredWorkers : KindOf[w] = k /\ absent[w] <= TTL
      BY DEF Heartbeat!ReadyMeansAlive, Heartbeat!ReadyStatus
    <3>1. PICK w \in MonitoredWorkers : /\ KindOf[w] = k /\ beats[w].status = "running"
                               /\ beats[w].age <= TTL
      BY DEF Heartbeat!WorkersReady, Heartbeat!Fresh
    <3>2. absent[w] <= beats[w].age /\ absent[w] \in Nat /\ beats[w].age \in Nat
      BY <3>1, HeartbeatTypes DEF HeartbeatInv, WorkerInv, RowOlder, Heartbeat!Row, HeartbeatConstants
    <3>3. QED
      BY <3>1, <3>2 DEF HeartbeatConstants
  <2>2. Heartbeat!StoppedIsSeen
    BY DEF Heartbeat!StoppedIsSeen, HeartbeatInv, WorkerInv, CleanStop
  <2>3. QED
    BY <2>1, <2>2 DEF HeartbeatInv, Heartbeat!ReadinessTruthful
<1>4. QED
  BY <1>1, <1>2, <1>3, PTL DEF Heartbeat!Spec

-----------------------------------------------------------------------------
(* Audit retention.  What is pruned was listed before, page by page, while *)
(* events went on committing: the invariant says that behind the cursor    *)
(* everything due was written to the bundle or was missed by this run.     *)

BundleRow == [events : SUBSET AuditEvents, manifest : Audit!Manifests,
              checksum : Audit!Manifests, signature : Audit!Manifests]

\* A run under way has a cutoff, and its cursor is an event it listed.
RunSound ==
    /\ run.pc # "idle" => run.cutoff \in Cutoffs
    /\ run.pc = "list" /\ run.cursor # 0 => run.cursor \in rows
    /\ run.batches < MaxBatches

\* What is due was written, was missed, or lies ahead of the cursor.
Listed ==
    run.pc # "idle" =>
        Audit!Due(run.cutoff) \subseteq bundle[run.cutoff].events \cup missed \cup
            IF run.pc = "list" THEN Audit!Ahead(run.cursor, run.cutoff) ELSE {}

\* Deletion follows verification.
PrunesVerified == run.pc = "prune" => Audit!Verified(bundle[run.cutoff], run.signed)

\* The first conjunct of PrunedIsExported, event by event.
PrunedKept ==
    \A e \in pruned : \/ \E c \in Cutoffs : e \in bundle[c].events
                      \/ e \in missed \/ e \in replaced

AuditInv == Audit!TypeOK /\ RunSound /\ Listed /\ PrunesVerified /\ PrunedKept

\* The instance counts as this module does.
LEMMA SameCardinality == \A T : Audit!Cardinality(T) = Cardinality(T)
BY DEF Audit!Cardinality, Cardinality

\* list_audit_events: the order of the pages is total.
LEMMA NewerIsOrder ==
  ASSUME AuditConstants
  PROVE  /\ \A e \in AuditEvents : ~ Audit!Newer(e, e)
         /\ \A e, f \in AuditEvents : e # f => Audit!Newer(e, f) \/ Audit!Newer(f, e)
         /\ \A e, f, g \in AuditEvents :
              Audit!Newer(e, f) /\ Audit!Newer(f, g) => Audit!Newer(e, g)
<1>1. \A e \in AuditEvents : e \in Nat /\ CreatedAt[e] \in Nat
  BY DEF AuditConstants
<1>2. QED
  BY <1>1 DEF Audit!Newer

\* Some events have a newest one.
LEMMA NewestEvent ==
  ASSUME AuditConstants, NEW S \in SUBSET AuditEvents, S # {}
  PROVE  \E e \in S : \A f \in S \ {e} : Audit!Newer(e, f)
<1> DEFINE newer(e) == {f \in S : Audit!Newer(f, e)}
           T == {newer(e) : e \in S}
<1>1. IsFiniteSet(S)
  BY FS_Subset DEF AuditConstants
<1>2. T \subseteq FiniteSubsetsOf(S) /\ T # {}
  <2>1. ASSUME NEW e \in S PROVE newer(e) \in FiniteSubsetsOf(S)
    <3>1. newer(e) \in SUBSET S
      OBVIOUS
    <3>2. IsFiniteSet(newer(e))
      BY <1>1, <3>1, FS_Subset
    <3>3. QED
      BY <3>1, <3>2 DEF FiniteSubsetsOf
  <2>2. QED
    BY <2>1
<1>3. PICK x \in T : \A y \in T : ~ (<<y, x>> \in StrictSubsetOrdering(S))
  BY <1>1, <1>2, WFMin, FS_StrictSubsetOrderingWellFounded
<1>4. PICK e \in S : x = newer(e)
  OBVIOUS
<1>5. ASSUME NEW f \in S \ {e} PROVE Audit!Newer(e, f)
  <2> SUFFICES ASSUME Audit!Newer(f, e) PROVE FALSE
    BY <1>5, NewerIsOrder
  <2>1. ASSUME NEW g \in newer(f) PROVE g \in newer(e)
    BY <2>1, NewerIsOrder
  <2>2. f \in newer(e) /\ f \notin newer(f)
    BY NewerIsOrder
  <2>3. newer(f) \subseteq S /\ newer(e) \subseteq S /\ newer(f) # newer(e)
    BY <2>2
  <2>4. newer(f) \in T
    OBVIOUS
  <2>5. <<newer(f), newer(e)>> \in StrictSubsetOrdering(S)
    BY <2>1, <2>3 DEF StrictSubsetOrdering
  <2>6. QED
    BY <1>3, <1>4, <2>4, <2>5
<1>6. QED
  BY <1>5

\* Some events have an oldest one.
LEMMA OldestEvent ==
  ASSUME AuditConstants, NEW S \in SUBSET AuditEvents, S # {}
  PROVE  \E e \in S : \A f \in S \ {e} : Audit!Newer(f, e)
<1> DEFINE older(e) == {f \in S : Audit!Newer(e, f)}
           T == {older(e) : e \in S}
<1>1. IsFiniteSet(S)
  BY FS_Subset DEF AuditConstants
<1>2. T \subseteq FiniteSubsetsOf(S) /\ T # {}
  <2>1. ASSUME NEW e \in S PROVE older(e) \in FiniteSubsetsOf(S)
    <3>1. older(e) \in SUBSET S
      OBVIOUS
    <3>2. IsFiniteSet(older(e))
      BY <1>1, <3>1, FS_Subset
    <3>3. QED
      BY <3>1, <3>2 DEF FiniteSubsetsOf
  <2>2. QED
    BY <2>1
<1>3. PICK x \in T : \A y \in T : ~ (<<y, x>> \in StrictSubsetOrdering(S))
  BY <1>1, <1>2, WFMin, FS_StrictSubsetOrderingWellFounded
<1>4. PICK e \in S : x = older(e)
  OBVIOUS
<1>5. ASSUME NEW f \in S \ {e} PROVE Audit!Newer(f, e)
  <2> SUFFICES ASSUME Audit!Newer(e, f) PROVE FALSE
    BY <1>5, NewerIsOrder
  <2>1. ASSUME NEW g \in older(f) PROVE g \in older(e)
    BY <2>1, NewerIsOrder
  <2>2. f \in older(e) /\ f \notin older(f)
    BY NewerIsOrder
  <2>3. older(f) \subseteq S /\ older(e) \subseteq S /\ older(f) # older(e)
    BY <2>2
  <2>4. older(f) \in T
    OBVIOUS
  <2>5. <<older(f), older(e)>> \in StrictSubsetOrdering(S)
    BY <2>1, <2>3 DEF StrictSubsetOrdering
  <2>6. QED
    BY <1>3, <1>4, <2>4, <2>5
<1>6. QED
  BY <1>5

\* list_audit_events with a limit: a short page is everything that was left, and a
\* full one is newer than the rest and has a last event.
LEMMA Paging ==
  ASSUME AuditConstants, NEW S \in SUBSET AuditEvents
  PROVE  LET page == Audit!FirstNewest(S)
         IN  /\ page \subseteq S
             /\ Cardinality(page) < Batch => page = S
             /\ ~(Cardinality(page) < Batch) => Audit!Last(page) \in page
             /\ \A e \in S \ page, f \in page : Audit!Newer(f, e)
<1> DEFINE page == Audit!FirstNewest(S)
           newer(e) == {f \in S : Audit!Newer(f, e)}
<1>1. page = {e \in S : Cardinality(newer(e)) < Batch}
  BY SameCardinality DEF Audit!FirstNewest
<1>2. IsFiniteSet(S) /\ \A T \in SUBSET S : IsFiniteSet(T) /\ Cardinality(T) \in Nat
  BY FS_Subset, FS_CardinalityType DEF AuditConstants
<1>3. ASSUME NEW T \in SUBSET S, NEW U \in SUBSET T PROVE Cardinality(U) <= Cardinality(T)
  BY <1>2, FS_Subset
<1>4. page \in SUBSET S /\ \A e \in S : newer(e) \in SUBSET S
  BY <1>1
<1>5. ASSUME Cardinality(page) < Batch, page # S PROVE FALSE
  <2>1. S \ page \in SUBSET AuditEvents /\ S \ page # {}
    BY <1>4, <1>5
  <2>2. PICK e \in S \ page : \A f \in (S \ page) \ {e} : Audit!Newer(e, f)
    BY <2>1, NewestEvent
  <2>3. ASSUME NEW f \in newer(e), f \notin page PROVE FALSE
    <3>1. f \in S /\ Audit!Newer(f, e) /\ f \in AuditEvents /\ e \in AuditEvents
      BY <2>3
    <3>2. f # e
      BY <3>1, NewerIsOrder
    <3>3. Audit!Newer(e, f)
      BY <2>2, <2>3, <3>1, <3>2
    <3>4. QED
      BY <3>1, <3>3, NewerIsOrder
  <2>4. newer(e) \in SUBSET page
    BY <2>3
  <2>5. Cardinality(newer(e)) <= Cardinality(page)
    BY <1>3, <1>4, <2>4
  <2>6. Cardinality(newer(e)) \in Nat /\ Cardinality(page) \in Nat /\ Batch \in Nat
    BY <1>2, <1>4 DEF AuditConstants
  <2>7. QED
    BY <1>1, <1>5, <2>2, <2>5, <2>6
<1>6. ASSUME ~(Cardinality(page) < Batch) PROVE Audit!Last(page) \in page
  <2>1. page # {}
    BY <1>6, FS_EmptySet DEF AuditConstants
  <2>2. \E e \in page : \A f \in page \ {e} : Audit!Newer(f, e)
    BY <1>4, <2>1, OldestEvent
  <2>3. QED
    BY <2>2 DEF Audit!Last
<1>7. ASSUME NEW e \in S \ page, NEW f \in page PROVE Audit!Newer(f, e)
  <2>1. e \in AuditEvents /\ f \in AuditEvents /\ e # f
    BY <1>4, <1>7
  <2> SUFFICES ASSUME Audit!Newer(e, f) PROVE FALSE
    BY <2>1, NewerIsOrder
  <2>2. newer(e) \in SUBSET newer(f)
    BY <1>4, <2>1, NewerIsOrder
  <2>3. Cardinality(newer(e)) <= Cardinality(newer(f))
    BY <1>3, <1>4, <2>2
  <2>4. Cardinality(newer(e)) \in Nat /\ Cardinality(newer(f)) \in Nat /\ Batch \in Nat
    BY <1>2, <1>4 DEF AuditConstants
  <2>5. QED
    BY <1>1, <1>7, <2>3, <2>4
<1>8. QED
  BY <1>4, <1>5, <1>6, <1>7

RunRow == [pc : {"idle", "list", "manifest", "checksum", "sign", "verify", "prune"},
           serial : 0..MaxRuns, cutoff : Cutoffs \cup {0}, apply : BOOLEAN, signed : BOOLEAN,
           cursor : AuditEvents \cup {0}, batches : 0..MaxBatches]

LEMMA AuditTypes ==
  Audit!TypeOK <=> /\ rows \subseteq AuditEvents /\ pending \subseteq AuditEvents \ rows
                   /\ bundle \in [Cutoffs -> BundleRow] /\ run \in RunRow
                   /\ pruned \subseteq AuditEvents /\ missed \subseteq AuditEvents
                   /\ replaced \subseteq AuditEvents
BY DEF Audit!TypeOK, BundleRow, RunRow

\* The run ends or dies.
LEMMA RunEnds ==
  ASSUME AuditConstants, AuditInv, run' = Audit!NoRun(run.serial),
         UNCHANGED <<rows, pending, bundle, pruned, missed, replaced>>
  PROVE  AuditInv'
<1>1. run' \in RunRow /\ run'.pc = "idle" /\ run'.batches = 0
  BY AuditTypes DEF AuditInv, Audit!NoRun, RunRow, AuditConstants
<1>2. Audit!TypeOK'
  BY <1>1, AuditTypes DEF AuditInv, Audit!TypeOK, RunRow
<1>3. QED
  BY <1>1, <1>2 DEF AuditInv, RunSound, Listed, PrunesVerified, PrunedKept, AuditConstants

\* A run that has listed everything goes on with the same cutoff.
LEMMA RunGoesOn ==
  ASSUME AuditConstants, AuditInv, run.pc # "idle", run'.pc \notin {"idle", "list", "prune"},
         run' \in RunRow, run'.cutoff = run.cutoff, run'.batches = run.batches,
         UNCHANGED <<rows, pending, pruned, missed, replaced>>, bundle' \in [Cutoffs -> BundleRow],
         \A c \in Cutoffs : bundle[c].events \subseteq bundle'[c].events,
         Audit!Due(run.cutoff) \subseteq bundle'[run.cutoff].events \cup missed
  PROVE  AuditInv'
<1>1. Audit!TypeOK'
  BY AuditTypes DEF AuditInv, Audit!TypeOK, RunRow, BundleRow
<1>2. RunSound' /\ PrunesVerified' /\ PrunedKept'
  BY DEF AuditInv, RunSound, PrunesVerified, PrunedKept
<1>3. Listed'
  BY DEF Listed, Audit!Due
<1>4. QED
  BY <1>1, <1>2, <1>3 DEF AuditInv

\* An audit event commits, perhaps behind the cursor.
LEMMA AuditAppend ==
  ASSUME AuditConstants, AuditInv, NEW e \in AuditEvents, Audit!Append(e)
  PROVE  AuditInv'
<1>1. /\ e \in pending /\ e \notin rows /\ pending' = pending \ {e} /\ rows' = rows \cup {e}
      /\ UNCHANGED <<bundle, run, pruned, replaced>>
      /\ missed \subseteq missed' /\ missed' \subseteq missed \cup {e}
  BY AuditTypes DEF AuditInv, Audit!Append
<1>2. Audit!TypeOK'
  BY <1>1, AuditTypes DEF AuditInv, Audit!TypeOK
<1>3. RunSound' /\ PrunesVerified' /\ PrunedKept'
  BY <1>1 DEF AuditInv, RunSound, PrunesVerified, PrunedKept, Audit!Verified
<1>4. Listed'
  <2> SUFFICES ASSUME run.pc # "idle", NEW f \in rows', CreatedAt[f] < run.cutoff
               PROVE  \/ f \in bundle[run.cutoff].events \/ f \in missed'
                      \/ run.pc = "list" /\ (run.cursor = 0 \/ Audit!Newer(run.cursor, f))
    BY <1>1 DEF Listed, Audit!Due, Audit!Ahead
  <2>1. CASE f # e
    BY <1>1, <2>1 DEF AuditInv, Listed, Audit!Due, Audit!Ahead
  <2>2. CASE f = e
    <3> SUFFICES ASSUME e \notin missed', run.cursor # 0
                 PROVE  run.pc = "list" /\ Audit!Newer(run.cursor, e)
      BY <2>2 DEF Audit!Append
    <3>1. run.pc = "list" /\ ~ Audit!Newer(e, run.cursor)
      BY <2>2 DEF Audit!Append
    <3>2. run.cursor \in rows /\ run.cursor \in AuditEvents /\ run.cursor # e
      BY <1>1, <3>1, AuditTypes DEF AuditInv, RunSound
    <3>3. QED
      BY <3>1, <3>2, NewerIsOrder
  <2>3. QED
    BY <2>1, <2>2
<1>5. QED
  BY <1>2, <1>3, <1>4 DEF AuditInv

\* A run begins and empties the bundle of its cutoff.
LEMMA AuditStart ==
  ASSUME AuditConstants, AuditInv, NEW c \in Cutoffs, NEW apply \in BOOLEAN,
         NEW sign \in BOOLEAN, NEW unsigned \in BOOLEAN, Audit!Start(c, apply, sign, unsigned)
  PROVE  AuditInv'
<1>1. /\ run.serial < MaxRuns
      /\ run' = [pc |-> "list", serial |-> run.serial + 1, cutoff |-> c, apply |-> apply,
                 signed |-> sign, cursor |-> 0, batches |-> 0]
      /\ replaced' = replaced \cup (bundle[c].events \cap pruned)
      /\ missed' = missed \cap pruned
      /\ bundle' = [bundle EXCEPT ![c].events = {}]
      /\ UNCHANGED <<rows, pending, pruned>>
  BY DEF Audit!Start
<1>2. /\ run' \in RunRow /\ run'.pc = "list" /\ run'.cutoff = c /\ run'.cursor = 0
      /\ run'.batches = 0
  <2>1. run.serial + 1 \in 0..MaxRuns
    BY <1>1, AuditTypes DEF AuditInv, RunRow, AuditConstants
  <2>2. QED
    BY <1>1, <2>1 DEF RunRow, AuditConstants
<1>3. /\ bundle' \in [Cutoffs -> BundleRow]
      /\ \A d \in Cutoffs : d # c => bundle'[d] = bundle[d]
  BY <1>1, AuditTypes DEF AuditInv, BundleRow
<1>4. Audit!TypeOK'
  BY <1>1, <1>2, <1>3, AuditTypes DEF AuditInv, Audit!TypeOK, RunRow, BundleRow
<1>5. RunSound' /\ PrunesVerified'
  BY <1>2 DEF RunSound, PrunesVerified, AuditConstants
<1>6. Listed'
  BY <1>2 DEF Listed, Audit!Due, Audit!Ahead
<1>7. PrunedKept'
  BY <1>1, <1>3 DEF AuditInv, PrunedKept
<1>8. QED
  BY <1>4, <1>5, <1>6, <1>7 DEF AuditInv

\* _write_events: one page is listed and written.
LEMMA AuditListPage ==
  ASSUME AuditConstants, AuditInv, Audit!ListPage
  PROVE  AuditInv'
<1> DEFINE ahead == Audit!Ahead(run.cursor, run.cutoff)
           page == Audit!FirstNewest(ahead)
<1>1. /\ run.pc = "list" /\ run.cutoff \in Cutoffs /\ run \in RunRow
      /\ bundle' = [bundle EXCEPT ![run.cutoff].events = @ \cup page]
      /\ run' = IF Cardinality(page) < Batch THEN [run EXCEPT !.pc = "manifest"]
                ELSE [run EXCEPT !.cursor = Audit!Last(page)]
      /\ UNCHANGED <<rows, pending, pruned, missed, replaced>>
  BY SameCardinality, AuditTypes DEF AuditInv, RunSound, Audit!ListPage
<1>2. ahead \in SUBSET AuditEvents /\ ahead \subseteq rows
  BY AuditTypes DEF AuditInv, Audit!Ahead, Audit!Due
<1>3. /\ page \subseteq ahead
      /\ Cardinality(page) < Batch => page = ahead
      /\ ~(Cardinality(page) < Batch) => Audit!Last(page) \in page
      /\ \A e \in ahead \ page, f \in page : Audit!Newer(f, e)
  BY <1>2, Paging
<1>4. Audit!Due(run.cutoff) \subseteq bundle[run.cutoff].events \cup missed \cup ahead
  BY <1>1 DEF AuditInv, Listed
<1> HIDE DEF page, ahead
<1>5. /\ bundle' \in [Cutoffs -> BundleRow]
      /\ \A c \in Cutoffs : bundle[c].events \subseteq bundle'[c].events
      /\ bundle'[run.cutoff].events = bundle[run.cutoff].events \cup page
  BY <1>1, <1>2, <1>3, AuditTypes DEF AuditInv, BundleRow
<1>6. CASE Cardinality(page) < Batch
  <2>1. /\ run' \in RunRow /\ run'.pc = "manifest" /\ run'.cutoff = run.cutoff
        /\ run'.batches = run.batches
    BY <1>1, <1>6 DEF RunRow
  <2>2. QED
    BY <1>1, <1>3, <1>4, <1>5, <1>6, <2>1, RunGoesOn
<1>7. CASE ~(Cardinality(page) < Batch)
  <2> DEFINE last == Audit!Last(page)
  <2>1. last \in page /\ last \in rows /\ last \in AuditEvents
    BY <1>2, <1>3, <1>7
  <2> HIDE DEF last
  <2>2. run' = [run EXCEPT !.cursor = last]
    BY <1>1, <1>7 DEF last
  <2>3. /\ run' \in RunRow /\ run'.pc = "list" /\ run'.cutoff = run.cutoff
        /\ run'.batches = run.batches /\ run'.cursor = last
    BY <1>1, <2>1, <2>2 DEF RunRow
  <2>4. Audit!TypeOK'
    BY <1>1, <1>5, <2>3, AuditTypes DEF AuditInv, Audit!TypeOK, RunRow, BundleRow
  <2>5. RunSound' /\ PrunesVerified' /\ PrunedKept'
    BY <1>1, <1>5, <2>1, <2>3 DEF AuditInv, RunSound, PrunesVerified, PrunedKept
  <2>6. Listed'
    <3> SUFFICES ASSUME NEW f \in rows, CreatedAt[f] < run.cutoff
                 PROVE  \/ f \in bundle'[run.cutoff].events \/ f \in missed
                        \/ Audit!Newer(last, f)
      BY <1>1, <2>3 DEF Listed, Audit!Due, Audit!Ahead
    <3>1. f \in bundle[run.cutoff].events \/ f \in missed \/ f \in ahead
      BY <1>4 DEF Audit!Due
    <3>2. QED
      BY <1>3, <1>5, <2>1, <3>1
  <2>7. QED
    BY <2>4, <2>5, <2>6 DEF AuditInv
<1>8. QED
  BY <1>6, <1>7

\* The manifest, its checksum and its signature are written beside the events.
LEMMA AuditWrites ==
  ASSUME AuditConstants, AuditInv, Audit!WriteManifest \/ Audit!WriteChecksum \/ Audit!Sign
  PROVE  AuditInv'
<1>1. /\ run.pc \in {"manifest", "checksum", "sign"} /\ run.cutoff \in Cutoffs /\ run \in RunRow
      /\ bundle \in [Cutoffs -> BundleRow]
      /\ UNCHANGED <<rows, pending, pruned, missed, replaced>>
  BY AuditTypes DEF AuditInv, RunSound, Audit!WriteManifest, Audit!WriteChecksum, Audit!Sign
<1>2. \E place \in {"checksum", "sign", "verify"} : run' = [run EXCEPT !.pc = place]
  BY DEF Audit!WriteManifest, Audit!WriteChecksum, Audit!Sign
<1>3. /\ run' \in RunRow /\ run'.pc \notin {"idle", "list", "prune"}
      /\ run'.cutoff = run.cutoff /\ run'.batches = run.batches
  BY <1>1, <1>2 DEF RunRow
<1>4. /\ bundle' \in [Cutoffs -> BundleRow]
      /\ \A c \in Cutoffs : bundle'[c].events = bundle[c].events
  <2>1. CASE Audit!WriteManifest
    <3> DEFINE m == [serial |-> run.serial, events |-> bundle[run.cutoff].events]
    <3>1. m \in Audit!Manifests
      BY <1>1 DEF RunRow, BundleRow, Audit!Manifests
    <3>2. bundle' = [bundle EXCEPT ![run.cutoff].manifest = m]
      BY <2>1 DEF Audit!WriteManifest
    <3> HIDE DEF m
    <3>3. QED
      BY <1>1, <3>1, <3>2 DEF BundleRow
  <2>2. CASE Audit!WriteChecksum
    BY <1>1, <2>2 DEF Audit!WriteChecksum, BundleRow
  <2>3. CASE Audit!Sign
    BY <1>1, <2>3 DEF Audit!Sign, BundleRow
  <2>4. QED
    BY <2>1, <2>2, <2>3
<1>5. Audit!Due(run.cutoff) \subseteq bundle'[run.cutoff].events \cup missed
  BY <1>1, <1>4 DEF AuditInv, Listed
<1>6. QED
  BY <1>1, <1>3, <1>4, <1>5, RunGoesOn

\* _verify_bundle: only a verified bundle lets the run delete.
LEMMA AuditVerify ==
  ASSUME AuditConstants, AuditInv, Audit!Verify
  PROVE  AuditInv'
<1>1. /\ run.pc = "verify" /\ run \in RunRow
      /\ UNCHANGED <<rows, pending, bundle, pruned, missed, replaced>>
  BY AuditTypes DEF AuditInv, Audit!Verify
<1>2. CASE run' = Audit!NoRun(run.serial)
  BY <1>1, <1>2, RunEnds
<1>3. CASE Audit!Verified(bundle[run.cutoff], run.signed) /\ run' = [run EXCEPT !.pc = "prune"]
  <2>1. /\ run' \in RunRow /\ run'.pc = "prune" /\ run'.cutoff = run.cutoff
        /\ run'.batches = run.batches /\ run'.signed = run.signed
    BY <1>1, <1>3 DEF RunRow
  <2>2. Audit!TypeOK'
    BY <1>1, <2>1, AuditTypes DEF AuditInv, Audit!TypeOK, RunRow
  <2>3. RunSound' /\ PrunedKept' /\ PrunesVerified'
    BY <1>1, <1>3, <2>1 DEF AuditInv, RunSound, PrunedKept, PrunesVerified, Audit!Verified
  <2>4. Listed'
    BY <1>1, <2>1 DEF AuditInv, Listed, Audit!Due
  <2>5. QED
    BY <2>2, <2>3, <2>4 DEF AuditInv
<1>4. QED
  BY <1>2, <1>3 DEF Audit!Verify

\* prune_audit_events: what is deleted was due, hence written or missed.
LEMMA AuditPrune ==
  ASSUME AuditConstants, AuditInv, Audit!PruneBatch
  PROVE  AuditInv'
<1> DEFINE doomed == Audit!FirstOldest(Audit!Due(run.cutoff))
<1>1. /\ run.pc = "prune" /\ run.cutoff \in Cutoffs /\ run \in RunRow /\ run.batches < MaxBatches
      /\ rows' = rows \ doomed /\ pruned' = pruned \cup doomed
      /\ UNCHANGED <<pending, bundle, missed, replaced>>
      /\ \/ run' = Audit!NoRun(run.serial)
         \/ run.batches + 1 # MaxBatches /\ run' = [run EXCEPT !.batches = @ + 1]
  BY AuditTypes DEF AuditInv, RunSound, Audit!PruneBatch
<1>2. doomed \subseteq Audit!Due(run.cutoff) /\ Audit!Due(run.cutoff) \subseteq rows
  BY DEF Audit!FirstOldest, Audit!Due
<1>3. Audit!Due(run.cutoff) \subseteq bundle[run.cutoff].events \cup missed
  BY <1>1 DEF AuditInv, Listed
<1> HIDE DEF doomed
<1>4. /\ run' \in RunRow /\ run'.batches < MaxBatches
      /\ run'.pc # "idle" => /\ run'.pc = "prune" /\ run'.cutoff = run.cutoff
                             /\ run'.signed = run.signed
  <2>1. CASE run' = Audit!NoRun(run.serial)
    BY <1>1, <2>1 DEF Audit!NoRun, RunRow, AuditConstants
  <2>2. CASE run.batches + 1 # MaxBatches /\ run' = [run EXCEPT !.batches = @ + 1]
    <3>1. run.batches + 1 \in 0..MaxBatches /\ run.batches + 1 < MaxBatches
      BY <1>1, <2>2 DEF RunRow, AuditConstants
    <3>2. QED
      BY <1>1, <2>2, <3>1 DEF RunRow
  <2>3. QED
    BY <1>1, <2>1, <2>2
<1>5. Audit!TypeOK'
  BY <1>1, <1>2, <1>4, AuditTypes DEF AuditInv, Audit!TypeOK, RunRow
<1>6. RunSound'
  BY <1>1, <1>4 DEF RunSound
<1>7. Listed'
  BY <1>1, <1>3, <1>4 DEF Listed, Audit!Due
<1>8. PrunesVerified'
  BY <1>1, <1>4 DEF AuditInv, PrunesVerified, Audit!Verified
<1>9. PrunedKept'
  BY <1>1, <1>2, <1>3 DEF AuditInv, PrunedKept
<1>10. QED
  BY <1>5, <1>6, <1>7, <1>8, <1>9 DEF AuditInv

\* audit_retention.py: a deleted event is in a bundle, except one that committed
\* behind the cursor and one whose bundle a rerun overwrote; what a run is about to
\* delete is in a bundle it verified; for any events, cutoffs, page sizes and limits.
THEOREM PruningIsExported ==
  AuditConstants => (Audit!Spec => [](Audit!TypeOK /\ Audit!PrunedIsExported))
<1> SUFFICES ASSUME AuditConstants
             PROVE  Audit!Spec => [](Audit!TypeOK /\ Audit!PrunedIsExported)
  OBVIOUS
<1>1. Audit!Init => AuditInv
  <2> SUFFICES ASSUME Audit!Init PROVE AuditInv
    OBVIOUS
  <2>1. Audit!NoBundle \in BundleRow /\ Audit!NoRun(0) \in RunRow
    BY DEF Audit!NoBundle, Audit!NoManifest, Audit!Manifests, BundleRow, Audit!NoRun, RunRow,
       AuditConstants
  <2>2. Audit!TypeOK
    BY <2>1, AuditTypes DEF Audit!Init
  <2>3. RunSound /\ Listed /\ PrunesVerified /\ PrunedKept
    BY DEF Audit!Init, Audit!NoRun, RunSound, Listed, PrunesVerified, PrunedKept, AuditConstants
  <2>4. QED
    BY <2>2, <2>3 DEF AuditInv
<1>2. AuditInv /\ [Audit!Next]_(Audit!vars) => AuditInv'
  <2> SUFFICES ASSUME AuditInv, [Audit!Next]_(Audit!vars) PROVE AuditInv'
    OBVIOUS
  <2>1. CASE UNCHANGED Audit!vars
    BY <2>1 DEF Audit!vars, AuditInv, Audit!TypeOK, RunSound, Listed, Audit!Due, Audit!Ahead,
       PrunesVerified, Audit!Verified, PrunedKept
  <2>2. CASE Audit!RetentionFails
    BY <2>2, RunEnds DEF Audit!RetentionFails
  <2>3. QED
    BY <2>1, <2>2, AuditAppend, AuditStart, AuditListPage, AuditWrites, AuditVerify, AuditPrune
       DEF Audit!Next
<1>3. AuditInv => Audit!TypeOK /\ Audit!PrunedIsExported
  <2> SUFFICES ASSUME AuditInv PROVE Audit!PrunedIsExported
    BY DEF AuditInv
  <2>1. pruned \subseteq missed \cup replaced \cup UNION {bundle[c].events : c \in Cutoffs}
    BY DEF AuditInv, PrunedKept
  <2>2. run.pc = "prune" =>
          /\ Audit!Verified(bundle[run.cutoff], run.signed)
          /\ Audit!Due(run.cutoff) \subseteq bundle[run.cutoff].events \cup missed
    BY DEF AuditInv, PrunesVerified, Listed
  <2>3. QED
    BY <2>1, <2>2 DEF Audit!PrunedIsExported
<1>4. QED
  BY <1>1, <1>2, <1>3, PTL DEF Audit!Spec

-----------------------------------------------------------------------------
(* Access.  A request is authorized in several steps while operators       *)
(* revoke keys and move threads and while servers start: the invariant     *)
(* says what each passed check still means at the next step.               *)

ServerRow == [up : BOOLEAN, config : [ApiKeys -> Access!Scopes \cup {"none"}],
              todo : SUBSET ApiKeys, read : {<<>>} \cup {<<row>> : row \in Access!KeyRows}]
CallRow == [pc : {"none", "check", "bind", "handle"}, at : Servers \cup {"none"},
            key : ApiKeys \cup {"none"}, req : Access!Shapes \cup {<<>>},
            late : BOOLEAN, moved : BOOLEAN]
AccessTypes ==
    /\ registry \in [ApiKeys -> Access!KeyRows] /\ server \in [Servers -> ServerRow]
    /\ cookie \in [Clients -> ApiKeys \cup {"none"}] /\ call \in [Clients -> CallRow]
    /\ threadOwner \in AgentIds \cup {"none"} /\ starts \in 0..MaxStarts
    /\ revived \subseteq ApiKeys /\ withdrawn \subseteq ApiKeys

ScopeOf(a) == server[a.at].config[a.key]

\* A request names its server, its key and its route.
Named(a) == a.pc # "none" => a.at \in Servers /\ a.key \in ApiKeys /\ a.req \in Access!Shapes

\* A request that came with a revoked key meets it revoked at the check.
LateIsRevoked(a) == a.pc = "check" /\ a.late => registry[a.key].revoked

\* What the check established.
Checked(a) ==
    a.pc \in {"bind", "handle"} =>
        ScopeOf(a) # "none" /\ ~a.late /\ Access!Allows(ScopeOf(a), Access!Required(a.req.route))

\* What the binding established, unless the thread was moved since.
BoundTo(a) ==
    a.pc = "handle" /\ ScopeOf(a) = "agent" =>
        /\ a.req.inside /\ a.req.agent \in {"none", Bound[a.key]}
        /\ a.req.thread => threadOwner = Bound[a.key] \/ a.moved

CallSound(a) == Named(a) /\ LateIsRevoked(a) /\ Checked(a) /\ BoundTo(a)

RevocationLasts == \A k \in withdrawn : registry[k].revoked \/ k \in revived

AccessInv == AccessTypes /\ (\A c \in Clients : CallSound(call[c])) /\ RevocationLasts

LEMMA NoCallSound == CallSound(Access!NoCall) /\ Access!NoCall \in CallRow
BY DEF CallSound, Named, LateIsRevoked, Checked, BoundTo, Access!NoCall, CallRow

\* A request is as sound as before if nothing it relies on has changed.
LEMMA CallStays ==
  ASSUME NEW a, CallSound(a), UNCHANGED threadOwner,
         a.pc = "check" => registry'[a.key].revoked = registry[a.key].revoked,
         a.pc # "none" => server'[a.at].config = server[a.at].config
  PROVE  CallSound(a)'
BY DEF CallSound, Named, LateIsRevoked, Checked, BoundTo, ScopeOf

\* One request moves and nothing else.
LEMMA CallChanges ==
  ASSUME AccessInv, NEW c \in Clients, NEW a \in CallRow, CallSound(a),
         call' = [call EXCEPT ![c] = a],
         UNCHANGED <<registry, server, cookie, threadOwner, starts, revived, withdrawn>>
  PROVE  AccessInv'
<1>1. call \in [Clients -> CallRow]
  BY DEF AccessInv, AccessTypes
<1>2. AccessTypes' /\ RevocationLasts'
  BY <1>1 DEF AccessInv, AccessTypes, RevocationLasts
<1>3. ASSUME NEW d \in Clients PROVE CallSound(call[d])'
  <2>1. PICK b : b = call'[d]
    OBVIOUS
  <2>2. CallSound(b)
    BY <1>1, <2>1 DEF AccessInv
  <2>3. QED
    BY <2>1, <2>2 DEF CallSound, Named, LateIsRevoked, Checked, BoundTo, ScopeOf
<1>4. QED
  BY <1>2, <1>3 DEF AccessInv

LEMMA CallEnds ==
  ASSUME AccessInv, NEW c \in Clients, call' = [call EXCEPT ![c] = Access!NoCall],
         UNCHANGED <<registry, server, cookie, threadOwner, starts, revived, withdrawn>>
  PROVE  AccessInv'
BY CallChanges, NoCallSound

\* create_app: a server that starts drops the requests it had.
LEMMA AccessStart ==
  ASSUME AccessConstants, AccessInv, NEW s \in Servers, NEW g \in Configs, Access!Start(s, g)
  PROVE  AccessInv'
<1>0. server \in [Servers -> ServerRow] /\ call \in [Clients -> CallRow] /\ starts \in 0..MaxStarts
  BY DEF AccessInv, AccessTypes
<1> DEFINE row == [up |-> FALSE, config |-> g, read |-> <<>>, todo |-> {k \in ApiKeys : g[k] # "none"}]
<1>1. row \in ServerRow
  BY DEF ServerRow, AccessConstants
<1>2. server' = [server EXCEPT ![s] = row]
  BY DEF Access!Start
<1> HIDE DEF row
<1>3. ASSUME NEW c \in Clients
      PROVE  \/ call'[c] = Access!NoCall
             \/ call'[c] = call[c] /\ call[c].at # s
  BY DEF Access!Start
<1>4. server' \in [Servers -> ServerRow]
  BY <1>0, <1>1, <1>2
<1>5. call' \in [Clients -> CallRow]
  BY <1>0, NoCallSound DEF Access!Start
<1>6. starts' \in 0..MaxStarts
  BY <1>0 DEF Access!Start, AccessConstants
<1>7. AccessTypes' /\ RevocationLasts'
  BY <1>4, <1>5, <1>6 DEF AccessInv, AccessTypes, Access!Start, RevocationLasts
<1>8. ASSUME NEW c \in Clients PROVE CallSound(call[c])'
  <2>1. PICK a : a = call'[c]
    OBVIOUS
  <2>2. CASE a = Access!NoCall
    BY <2>1, <2>2 DEF CallSound, Named, LateIsRevoked, Checked, BoundTo, Access!NoCall
  <2>3. CASE a = call[c] /\ a.at # s
    <3>1. CallSound(a) /\ UNCHANGED <<threadOwner, registry>>
      BY <2>3 DEF AccessInv, Access!Start
    <3>2. a.pc # "none" => server'[a.at].config = server[a.at].config
      BY <1>0, <1>2, <2>3, <3>1 DEF CallSound, Named
    <3>3. CallSound(a)'
      BY <3>1, <3>2, CallStays
    <3>4. QED
      BY <3>3, <2>1 DEF CallSound, Named, LateIsRevoked, Checked, BoundTo, ScopeOf
  <2>4. QED
    BY <2>1, <2>2, <2>3, <1>3
<1>9. QED
  BY <1>7, <1>8 DEF AccessInv

LEMMA MirroredTypes ==
  ASSUME AccessInv, NEW s \in Servers, server[s].todo # {}, Access!Mirrored(s)
  PROVE  /\ server' \in [Servers -> ServerRow]
         /\ \A t \in Servers : server'[t].config = server[t].config
<1>0. server \in [Servers -> ServerRow]
  BY DEF AccessInv, AccessTypes
<1> DEFINE row == [server[s] EXCEPT !.read = <<>>, !.todo = @ \ {Access!NextKey(s)},
                                    !.up = (server[s].todo = {Access!NextKey(s)})]
<1>1. server' = [server EXCEPT ![s] = row]
  BY <1>0 DEF Access!Mirrored, ServerRow
<1>2. row \in ServerRow /\ row.config = server[s].config
  BY <1>0 DEF ServerRow
<1>3. QED
  BY <1>0, <1>1, <1>2

LEMMA AccessEnsureRead ==
  ASSUME AccessConstants, AccessInv, NEW s \in Servers, Access!EnsureRead(s)
  PROVE  AccessInv'
<1>0. server \in [Servers -> ServerRow] /\ registry \in [ApiKeys -> Access!KeyRows]
  BY DEF AccessInv, AccessTypes
<1> DEFINE k == Access!NextKey(s)
<1>1. k \in server[s].todo /\ k \in ApiKeys
  BY <1>0 DEF Access!EnsureRead, Access!NextKey, ServerRow
<1>2. server' \in [Servers -> ServerRow] /\ \A t \in Servers : server'[t].config = server[t].config
  <2>1. CASE Access!Mirrored(s)
    BY <2>1, MirroredTypes DEF Access!EnsureRead
  <2>2. CASE server' = [server EXCEPT ![s].read = <<registry[k]>>]
    <3>1. registry[k] \in Access!KeyRows
      BY <1>0, <1>1
    <3>2. [server[s] EXCEPT !.read = <<registry[k]>>] \in ServerRow
      BY <1>0, <3>1 DEF ServerRow
    <3>3. QED
      BY <1>0, <2>2, <3>2 DEF ServerRow
  <2>3. QED
    BY <2>1, <2>2 DEF Access!EnsureRead
<1>3. AccessTypes' /\ RevocationLasts'
  BY <1>2 DEF AccessInv, AccessTypes, Access!EnsureRead, RevocationLasts
<1>4. ASSUME NEW c \in Clients PROVE CallSound(call[c])'
  <2>1. CallSound(call[c])
    BY DEF AccessInv
  <2>2. CallSound(call[c])' <=> CallSound(call[c])
    BY <2>1, <1>2 DEF Access!EnsureRead, CallSound, Named, LateIsRevoked, Checked, BoundTo, ScopeOf
  <2>3. QED
    BY <2>1, <2>2
<1>5. QED
  BY <1>3, <1>4 DEF AccessInv

\* save_api_key_record writes back the revocation that was read.
LEMMA AccessEnsureSave ==
  ASSUME AccessConstants, AccessInv, NEW s \in Servers, Access!EnsureSave(s)
  PROVE  AccessInv'
<1>0. server \in [Servers -> ServerRow] /\ registry \in [ApiKeys -> Access!KeyRows]
      /\ call \in [Clients -> CallRow]
  BY DEF AccessInv, AccessTypes
<1>1. PICK k : k = Access!NextKey(s)
  OBVIOUS
<1>2. PICK row : row = server[s].read[1]
  OBVIOUS
<1>3. k \in ApiKeys
  BY <1>0, <1>1 DEF Access!EnsureSave, Access!NextKey, ServerRow
<1>4. row \in Access!KeyRows
  BY <1>0, <1>2 DEF Access!EnsureSave, ServerRow
<1>5. server' \in [Servers -> ServerRow] /\ \A t \in Servers : server'[t].config = server[t].config
  BY MirroredTypes DEF Access!EnsureSave
<1>6. PICK new : new = Access!Updated(row, server[s].config[k])
  OBVIOUS
<1>7. new \in Access!KeyRows /\ new.revoked = row.revoked
  BY <1>0, <1>3, <1>4, <1>6 DEF Access!Updated, Access!KeyRows, ServerRow
<1>8. registry' = [registry EXCEPT ![k] = new]
  BY <1>1, <1>2, <1>6 DEF Access!EnsureSave
<1>9. registry' \in [ApiKeys -> Access!KeyRows]
  BY <1>0, <1>3, <1>7, <1>8
<1>10. CASE registry[k].revoked /\ ~row.revoked
  <2>1. revived' = revived \cup {k}
        /\ call' = [c \in Clients |-> [call[c] EXCEPT !.late = @ /\ call[c].key # k]]
    BY <1>1, <1>2, <1>10 DEF Access!EnsureSave
  <2>2. ASSUME NEW c \in Clients
        PROVE  /\ call'[c] \in CallRow /\ call'[c].pc = call[c].pc /\ call'[c].at = call[c].at
               /\ call'[c].key = call[c].key /\ call'[c].req = call[c].req
               /\ call'[c].moved = call[c].moved
               /\ call'[c].late = (call[c].late /\ call[c].key # k)
    BY <1>0, <2>1, <2>2 DEF CallRow
  <2>3. call' \in [Clients -> CallRow]
    BY <2>1, <2>2
  <2>4. AccessTypes' /\ RevocationLasts'
    BY <1>0, <1>3, <1>5, <1>8, <1>9, <2>1, <2>3
       DEF AccessInv, AccessTypes, Access!EnsureSave, RevocationLasts
  <2>5. ASSUME NEW c \in Clients PROVE CallSound(call[c])'
    <3>1. PICK a : a = call'[c]
      OBVIOUS
    <3>2. CallSound(call[c])
      BY DEF AccessInv
    <3>3. Named(a)' /\ Checked(a)' /\ BoundTo(a)'
      BY <2>2, <3>1, <3>2, <1>5 DEF CallSound, Named, Checked, BoundTo, ScopeOf, Access!EnsureSave
    <3>4. LateIsRevoked(a)'
      BY <1>0, <1>3, <2>2, <3>1, <3>2, <1>8 DEF CallSound, Named, LateIsRevoked
    <3>5. QED
      BY <3>1, <3>3, <3>4 DEF CallSound, Named, LateIsRevoked, Checked, BoundTo, ScopeOf
  <2>6. QED
    BY <2>4, <2>5 DEF AccessInv
<1>11. CASE ~(registry[k].revoked /\ ~row.revoked)
  <2>1. UNCHANGED <<revived, call>>
    BY <1>1, <1>2, <1>11 DEF Access!EnsureSave
  <2>2. \A j \in ApiKeys : registry[j].revoked => registry'[j].revoked
    BY <1>0, <1>3, <1>7, <1>8, <1>11
  <2>3. AccessTypes' /\ RevocationLasts'
    BY <1>5, <1>9, <2>1, <2>2 DEF AccessInv, AccessTypes, Access!EnsureSave, RevocationLasts
  <2>4. ASSUME NEW c \in Clients PROVE CallSound(call[c])'
    <3>1. PICK a : a = call[c]
      OBVIOUS
    <3>2. CallSound(a)
      BY <3>1 DEF AccessInv
    <3>3. CallSound(a)'
      BY <3>2, <2>2, <1>5 DEF CallSound, Named, Checked, BoundTo, ScopeOf, LateIsRevoked, Access!EnsureSave
    <3>4. QED
      BY <3>1, <3>3, <2>1 DEF CallSound, Named, LateIsRevoked, Checked, BoundTo, ScopeOf
  <2>5. QED
    BY <2>3, <2>4 DEF AccessInv
<1>12. QED
  BY <1>10, <1>11

\* A request arrives with the key it names or the cookie's.
LEMMA AccessArrive ==
  ASSUME AccessConstants, AccessInv, NEW c \in Clients, NEW s \in Servers,
         NEW req \in Requests[c], Access!Arrive(c, s, req)
  PROVE  AccessInv'
<1>0. registry \in [ApiKeys -> Access!KeyRows] /\ call \in [Clients -> CallRow]
      /\ cookie \in [Clients -> ApiKeys \cup {"none"}] /\ req \in Access!Shapes
  BY DEF AccessInv, AccessTypes, AccessConstants
<1>1. PICK k : k = IF req.key = "none" THEN cookie[c] ELSE req.key
  OBVIOUS
<1>2. k \in ApiKeys
  BY <1>0, <1>1 DEF Access!Arrive, Access!Shapes
<1> DEFINE a == [pc |-> "check", at |-> s, key |-> k, req |-> req,
                 late |-> registry[k].revoked, moved |-> FALSE]
<1>3. a \in CallRow
  BY <1>0, <1>2 DEF CallRow, Access!KeyRows
<1>4. CallSound(a)
  BY <1>0, <1>2 DEF CallSound, Named, LateIsRevoked, Checked, BoundTo
<1>5. call' = [call EXCEPT ![c] = a]
  BY <1>1 DEF Access!Arrive
<1> HIDE DEF a
<1>6. UNCHANGED <<registry, server, cookie, threadOwner, starts, revived, withdrawn>>
  BY DEF Access!Arrive
<1>7. QED
  BY <1>3, <1>4, <1>5, <1>6, CallChanges

\* The checks before the binding.
LEMMA AccessCheck ==
  ASSUME AccessConstants, AccessInv, NEW c \in Clients, Access!Check(c)
  PROVE  AccessInv'
<1>0. call \in [Clients -> CallRow] /\ CallSound(call[c]) /\ call[c].pc = "check"
      /\ server \in [Servers -> ServerRow] /\ registry \in [ApiKeys -> Access!KeyRows]
  BY DEF AccessInv, AccessTypes, Access!Check
<1>1. UNCHANGED <<registry, server, cookie, threadOwner, starts, revived, withdrawn>>
  BY DEF Access!Check
<1> DEFINE a == [call[c] EXCEPT !.pc = "bind"]
<1>2. CASE Access!Authenticated(call[c])
  <2>1. a \in CallRow
    BY <1>0 DEF CallRow
  <2>2. /\ a.pc = "bind" /\ a.at = call[c].at /\ a.key = call[c].key /\ a.req = call[c].req
        /\ a.late = call[c].late
    BY <1>0 DEF CallRow
  <2>3. call' = [call EXCEPT ![c] = a]
    BY <1>0, <1>2 DEF Access!Check
  <2> HIDE DEF a
  <2>4. CallSound(a)
    BY <1>0, <1>2, <2>2 DEF CallSound, Named, LateIsRevoked, Checked, BoundTo, ScopeOf,
       Access!Authenticated, Access!Revoked
  <2>5. QED
    BY <1>1, <2>1, <2>3, <2>4, CallChanges
<1>3. CASE ~Access!Authenticated(call[c])
  BY <1>0, <1>1, <1>3, CallEnds DEF Access!Check
<1>4. QED
  BY <1>2, <1>3

\* _agent_binding_error reads the thread's owner.
LEMMA AccessBind ==
  ASSUME AccessConstants, AccessInv, NEW c \in Clients, Access!Bind(c)
  PROVE  AccessInv'
<1>0. call \in [Clients -> CallRow] /\ CallSound(call[c]) /\ call[c].pc = "bind"
  BY DEF AccessInv, AccessTypes, Access!Bind
<1>1. UNCHANGED <<registry, server, cookie, threadOwner, starts, revived, withdrawn>>
  BY DEF Access!Bind
<1> DEFINE a == [call[c] EXCEPT !.pc = "handle"]
<1>2. CASE Access!Binding(call[c])
  <2>1. a \in CallRow
    BY <1>0 DEF CallRow
  <2>2. /\ a.pc = "handle" /\ a.at = call[c].at /\ a.key = call[c].key /\ a.req = call[c].req
        /\ a.late = call[c].late
    BY <1>0 DEF CallRow
  <2>3. call' = [call EXCEPT ![c] = a]
    BY <1>0, <1>2 DEF Access!Bind
  <2> HIDE DEF a
  <2>4. CallSound(a)
    BY <1>0, <1>2, <2>2 DEF CallSound, Named, LateIsRevoked, Checked, BoundTo, ScopeOf,
       Access!Binding, Access!WithinBinding
  <2>5. QED
    BY <1>1, <2>1, <2>3, <2>4, CallChanges
<1>3. CASE ~Access!Binding(call[c])
  BY <1>0, <1>1, <1>3, CallEnds DEF Access!Bind
<1>4. QED
  BY <1>2, <1>3

LEMMA AccessServe ==
  ASSUME AccessInv, NEW c \in Clients, Access!Serve(c)
  PROVE  AccessInv'
BY CallEnds DEF Access!Serve, Access!Done

\* POST .../revoke
LEMMA AccessRevoke ==
  ASSUME AccessInv, NEW c \in Clients, NEW k \in ApiKeys, Access!Revoke(c, k)
  PROVE  AccessInv'
<1>0. call \in [Clients -> CallRow] /\ registry \in [ApiKeys -> Access!KeyRows]
  BY DEF AccessInv, AccessTypes
<1>1. PICK new : new = [registry[k] EXCEPT !.revoked = TRUE]
  OBVIOUS
<1>2. new \in Access!KeyRows /\ new.revoked
  BY <1>0, <1>1 DEF Access!KeyRows
<1>3. registry' = [registry EXCEPT ![k] = new]
  BY <1>1 DEF Access!Revoke
<1>4. call' = [call EXCEPT ![c] = Access!NoCall]
  BY DEF Access!Revoke, Access!Done
<1>5. registry' \in [ApiKeys -> Access!KeyRows]
      /\ \A j \in ApiKeys : registry[j].revoked => registry'[j].revoked
  BY <1>0, <1>2, <1>3
<1>6. AccessTypes' /\ RevocationLasts'
  BY <1>0, <1>2, <1>3, <1>4, <1>5, NoCallSound
     DEF AccessInv, AccessTypes, Access!Revoke, RevocationLasts
<1>7. ASSUME NEW d \in Clients PROVE CallSound(call[d])'
  <2>1. PICK a : a = call'[d]
    OBVIOUS
  <2>2. CallSound(a)
    BY <1>0, <1>4, <2>1, NoCallSound DEF AccessInv
  <2>3. CallSound(a)'
    BY <1>5, <2>2 DEF CallSound, Named, Checked, BoundTo, ScopeOf, LateIsRevoked, Access!Revoke
  <2>4. QED
    BY <2>1, <2>3 DEF CallSound, Named, Checked, BoundTo, ScopeOf, LateIsRevoked
<1>8. QED
  BY <1>6, <1>7 DEF AccessInv

\* provision_agent_thread: handlers past their binding learn that the thread moved.
LEMMA AccessProvision ==
  ASSUME AccessInv, NEW c \in Clients, NEW g \in AgentIds, Access!Provision(c, g)
  PROVE  AccessInv'
<1>0. call \in [Clients -> CallRow]
  BY DEF AccessInv, AccessTypes
<1>1. ASSUME NEW d \in Clients
      PROVE  call'[d] \in CallRow /\ CallSound(call[d])'
  <2>1. CallSound(call[d]) /\ call[d] \in CallRow
    BY <1>0 DEF AccessInv
  <2>2. PICK a : a = call'[d]
    OBVIOUS
  <2>3. a \in CallRow /\ CallSound(a)'
    <3>1. CASE a = Access!NoCall
      BY <3>1 DEF CallSound, Named, LateIsRevoked, Checked, BoundTo, Access!NoCall, CallRow
    <3>2. CASE a = [call[d] EXCEPT !.moved = TRUE]
      <4>1. /\ a \in CallRow /\ a.pc = call[d].pc /\ a.at = call[d].at /\ a.key = call[d].key
            /\ a.req = call[d].req /\ a.late = call[d].late /\ a.moved
        BY <2>1, <3>2 DEF CallRow
      <4>2. QED
        BY <2>1, <4>1 DEF CallSound, Named, LateIsRevoked, Checked, BoundTo, ScopeOf, Access!Provision
    <3>3. CASE a = call[d] /\ ~(call[d].pc = "handle" /\ g # threadOwner)
      BY <2>1, <3>3 DEF CallSound, Named, LateIsRevoked, Checked, BoundTo, ScopeOf, Access!Provision
    <3>4. QED
      BY <2>2, <3>1, <3>2, <3>3 DEF Access!Provision
  <2>4. QED
    BY <2>2, <2>3 DEF CallSound, Named, LateIsRevoked, Checked, BoundTo, ScopeOf
<1>2. call' \in [Clients -> CallRow]
  BY <1>1 DEF Access!Provision
<1>3. AccessTypes' /\ RevocationLasts'
  BY <1>2 DEF AccessInv, AccessTypes, Access!Provision, RevocationLasts
<1>4. QED
  BY <1>1, <1>3 DEF AccessInv

\* Sessions in the browser change cookies only.
LEMMA AccessSession ==
  ASSUME AccessInv, NEW c \in Clients,
         \/ Access!Logout(c)
         \/ \E s \in Servers, k \in ApiKeys : Access!Login(c, s, k)
  PROVE  AccessInv'
<1>1. UNCHANGED <<registry, server, call, threadOwner, starts, revived, withdrawn>>
      /\ cookie' \in [Clients -> ApiKeys \cup {"none"}]
  BY DEF AccessInv, AccessTypes, Access!Logout, Access!Login
<1>2. QED
  BY <1>1 DEF AccessInv, AccessTypes, RevocationLasts, CallSound, Named, LateIsRevoked, Checked,
     BoundTo, ScopeOf

\* Access (require_api_key, _agent_binding_error, ensure_configured_key): for any
\* servers, keys, bindings and requests, a handler runs only for a key that may
\* make the request and was not revoked when it arrived, for the agent it is bound
\* to; a revocation lasts unless a starting server's stale save follows it.
THEOREM AccessIsKept ==
  AccessConstants => (Access!Spec => [](Access!TypeOK /\ Access!AccessKept))
<1> SUFFICES ASSUME AccessConstants PROVE Access!Spec => [](Access!TypeOK /\ Access!AccessKept)
  OBVIOUS
<1>1. Access!Init => AccessInv
  <2> SUFFICES ASSUME Access!Init PROVE AccessInv
    OBVIOUS
  <2>1. Access!NoKeyRow \in Access!KeyRows /\ Access!Down \in ServerRow
    BY DEF Access!NoKeyRow, Access!KeyRows, Access!Down, ServerRow
  <2>2. AccessTypes
    BY <2>1, NoCallSound DEF Access!Init, AccessTypes, AccessConstants
  <2>3. QED
    BY <2>2, NoCallSound DEF Access!Init, AccessInv, RevocationLasts
<1>2. AccessInv /\ [Access!Next]_Access!vars => AccessInv'
  <2> SUFFICES ASSUME AccessInv, [Access!Next]_Access!vars PROVE AccessInv'
    OBVIOUS
  <2>1. CASE UNCHANGED Access!vars
    BY <2>1 DEF Access!vars, AccessInv, AccessTypes, RevocationLasts, CallSound, Named,
       LateIsRevoked, Checked, BoundTo, ScopeOf
  <2>2. ASSUME NEW s \in Servers, \/ Access!EnsureRead(s) \/ Access!EnsureSave(s)
                                  \/ \E g \in Configs : Access!Start(s, g)
        PROVE  AccessInv'
    BY <2>2, AccessEnsureRead, AccessEnsureSave, AccessStart
  <2>3. ASSUME NEW c \in Clients,
               \/ \E s \in Servers, req \in Requests[c] : Access!Arrive(c, s, req)
               \/ Access!Check(c) \/ Access!Bind(c) \/ Access!Serve(c)
        PROVE  AccessInv'
    BY <2>3, AccessArrive, AccessCheck, AccessBind, AccessServe
  <2>4. ASSUME NEW c \in Clients,
               \/ \E k \in ApiKeys : Access!Revoke(c, k)
               \/ \E g \in AgentIds : Access!Provision(c, g)
               \/ Access!Logout(c)
               \/ \E s \in Servers, k \in ApiKeys : Access!Login(c, s, k)
        PROVE  AccessInv'
    BY <2>4, AccessRevoke, AccessProvision, AccessSession
  <2>5. QED
    BY <2>1, <2>2, <2>3, <2>4 DEF Access!Next
<1>3. AccessInv => Access!TypeOK
  <2> SUFFICES ASSUME AccessInv PROVE Access!TypeOK
    OBVIOUS
  <2>1. ASSUME NEW s \in Servers
        PROVE  /\ server[s].up \in BOOLEAN /\ server[s].todo \subseteq ApiKeys
               /\ server[s].config \in [ApiKeys -> Access!Scopes \cup {"none"}]
               /\ (server[s].read = <<>> \/ server[s].read[1] \in Access!KeyRows)
    BY DEF AccessInv, AccessTypes, ServerRow
  <2>2. ASSUME NEW c \in Clients
        PROVE  /\ call[c].pc \in {"none", "check", "bind", "handle"}
               /\ call[c].at \in Servers \cup {"none"} /\ call[c].key \in ApiKeys \cup {"none"}
               /\ (call[c].req = <<>> \/ call[c].req \in Access!Shapes)
               /\ call[c].late \in BOOLEAN /\ call[c].moved \in BOOLEAN
    BY DEF AccessInv, AccessTypes, CallRow
  <2>3. QED
    BY <2>1, <2>2 DEF AccessInv, AccessTypes, Access!TypeOK
<1>4. AccessInv => Access!AccessKept
  <2> SUFFICES ASSUME AccessInv PROVE Access!AccessKept
    OBVIOUS
  <2>1. ASSUME NEW c \in Clients, call[c].pc = "handle"
        PROVE  /\ ScopeOf(call[c]) # "none" /\ ~call[c].late
               /\ call[c].req.route \in {"revoke", "provision"} => ScopeOf(call[c]) = "operator"
               /\ ScopeOf(call[c]) = "read" => call[c].req.route \in {"seed", "recall"}
    <3>1. Checked(call[c]) /\ Named(call[c])
      BY DEF AccessInv, CallSound
    <3>2. call[c].req.route \in Access!Routes
      BY <2>1, <3>1 DEF Named, Access!Shapes
    <3>3. QED
      BY <2>1, <3>1, <3>2 DEF Checked, Access!Allows, Access!Required, Access!Routes
  <2>2. ASSUME NEW c \in Clients, call[c].pc = "handle", ScopeOf(call[c]) = "agent"
        PROVE  /\ call[c].req.inside /\ call[c].req.agent \in {"none", Bound[call[c].key]}
               /\ call[c].req.thread => threadOwner = Bound[call[c].key] \/ call[c].moved
    BY <2>2 DEF AccessInv, CallSound, BoundTo
  <2>3. QED
    BY <2>1, <2>2 DEF AccessInv, RevocationLasts, Access!AccessKept, ScopeOf
<1>5. QED
  BY <1>1, <1>2, <1>3, <1>4, PTL DEF Access!Spec

-----------------------------------------------------------------------------
(* The agents' plugins.  A post is stored, told, or neither, run by run:   *)
(* the invariant says what a stored record is from its key alone, and that *)
(* a run about to post its summary has its transcript stored.              *)

AgentPlaces == {"new", "recall", "reason", "tool", "turn", "summary", "over"}
Ended == {"turn", "summary", "over"}
RunProgress == [pc : AgentPlaces, query : SUBSET Agent!Phrases, skipped : BOOLEAN,
                live : {"yes", "no", "unknown"}, called : BOOLEAN,
                event : Events \cup {Agent!NoEvent}]
SessionRow == [live : BOOLEAN, turns : 0..Cardinality(Runs), declared : BOOLEAN]

AgentTypes ==
    /\ runtime \in Agent!Runtimes /\ mode \in {"off", "adaptive", "always"} /\ forced \in BOOLEAN
    /\ session \in SessionRow /\ agentRun \in [Runs -> RunProgress]
    /\ DOMAIN stored \subseteq Agent!Keys /\ told \subseteq Agent!Keys \X Events
    /\ \A k \in DOMAIN stored : stored[k] \in Events

\* An event answers to its key; the neutral core's keys leave the error out.
Answers(k, e) == e.text = k.text /\ (runtime # "native" => e.error = k.error)

RecordsSound ==
    /\ \A k \in DOMAIN stored : Answers(k, stored[k])
    /\ \A p \in told : p[1] \in DOMAIN stored /\ Answers(p[1], p[2])

\* OpenClaw's transcripts and the summaries that follow them.
TurnStored(scope) == \E j \in DOMAIN stored : j.kind = "turn" /\ j.scope = scope
SummariesSound ==
    runtime = "openclaw" =>
        /\ \A k \in DOMAIN stored : k.kind = "summary" => TurnStored(k.scope)
        /\ \A r \in Runs : agentRun[r].pc = "summary" => TurnStored(r)

\* What the gate decided, and an event to post.
GateHeld(a) ==
    a.skipped /\ "blank" \notin a.query /\ (forced \/ mode # "off") =>
        "memory" \notin a.query /\ (a.query = {"continuation"} => a.live # "no")
HasEvent(a) == a.pc \in {"tool", "turn", "summary"} => a.event \in Events
RunsSound == \A r \in Runs : GateHeld(agentRun[r]) /\ HasEvent(agentRun[r])

\* Turns are counted once for each run that has ended.
EndedRuns == {r \in Runs : agentRun[r].pc \in Ended}
SessionSound ==
    /\ session.turns <= Cardinality(EndedRuns)
    /\ session.live => session.declared \/ session.turns > 0

AgentInv == AgentTypes /\ RecordsSound /\ SummariesSound /\ RunsSound /\ SessionSound

LEMMA SameSize == \A T : Agent!Cardinality(T) = Cardinality(T)
BY DEF Agent!Cardinality, Cardinality

\* _event_idempotency_key
LEMMA KeyFacts ==
  ASSUME AgentConstants, NEW r \in Runs, NEW kind \in Agent!Kinds, NEW e \in Events,
         NEW k, k = Agent!KeyOf(kind, r, e)
  PROVE  /\ k \in Agent!Keys /\ k.kind = kind /\ Answers(k, e)
         /\ runtime = "openclaw" => k.scope = r
<1>1. PICK d : d = Agent!Digested(e)
  OBVIOUS
<1>2. e = [text |-> e.text, error |-> e.error]
  BY DEF AgentConstants
<1>3. d.text = e.text /\ (runtime # "native" => d.error = e.error) /\ (runtime = "native" => d.error = "none")
  BY <1>1, <1>2 DEF Agent!Digested
<1>4. d.error \in {f.error : f \in Events} /\ d.text \in {f.text : f \in Events}
  BY <1>3 DEF AgentConstants
<1>5. Agent!Scope(r, kind) \in Runs \cup {"session", "any"} /\ (runtime = "openclaw" => Agent!Scope(r, kind) = r)
  BY DEF Agent!Scope
<1>6. k = [kind |-> kind, scope |-> Agent!Scope(r, kind), text |-> d.text, error |-> d.error]
  BY <1>1 DEF Agent!KeyOf
<1>7. QED
  BY <1>3, <1>4, <1>5, <1>6 DEF Agent!Keys, Answers

\* Runs that have ended stay so.
LEMMA EndedGrows ==
  ASSUME AgentConstants, AgentInv, NEW r \in Runs, NEW a \in RunProgress,
         agentRun' = [agentRun EXCEPT ![r] = a], agentRun[r].pc \in Ended => a.pc \in Ended
  PROVE  /\ Cardinality(EndedRuns) \in Nat /\ Cardinality(EndedRuns') \in Nat
         /\ Cardinality(EndedRuns') <= Cardinality(Runs) /\ Cardinality(Runs) \in Nat
         /\ Cardinality(EndedRuns) <= Cardinality(EndedRuns')
         /\ agentRun[r].pc \notin Ended /\ a.pc \in Ended
              => Cardinality(EndedRuns') = Cardinality(EndedRuns) + 1
<1>1. agentRun \in [Runs -> RunProgress]
  BY DEF AgentInv, AgentTypes
<1>2. EndedRuns \subseteq EndedRuns' /\ EndedRuns' \subseteq Runs
  BY <1>1 DEF EndedRuns
<1>3. IsFiniteSet(EndedRuns) /\ IsFiniteSet(EndedRuns') /\ IsFiniteSet(Runs)
  BY <1>2, FS_Subset DEF AgentConstants
<1>4. ASSUME agentRun[r].pc \notin Ended, a.pc \in Ended
      PROVE  EndedRuns' = EndedRuns \cup {r} /\ r \notin EndedRuns
    BY <1>1, <1>4 DEF EndedRuns
<1>5. ASSUME agentRun[r].pc \notin Ended, a.pc \in Ended
      PROVE  Cardinality(EndedRuns') = Cardinality(EndedRuns) + 1
  <2>1. Cardinality(EndedRuns \cup {r}) = Cardinality(EndedRuns) + 1
    BY <1>3, <1>4, <1>5, FS_AddElement
  <2>2. QED
    BY <1>4, <1>5, <2>1
<1>6. QED
  BY <1>2, <1>3, <1>5, FS_Subset, FS_CardinalityType

\* A run moves and nothing is posted.
LEMMA AgentMoves ==
  ASSUME AgentConstants, AgentInv, NEW r \in Runs, NEW a \in RunProgress,
         agentRun' = [agentRun EXCEPT ![r] = a], GateHeld(a), HasEvent(a),
         agentRun[r].pc \in Ended => a.pc \in Ended,
         runtime = "openclaw" => a.pc # "summary",
         UNCHANGED <<runtime, mode, forced, stored, told>>,
         \/ UNCHANGED session
         \/ /\ session' = [session EXCEPT !.live = TRUE, !.turns = @ + 1]
            /\ agentRun[r].pc \notin Ended /\ a.pc \in Ended
  PROVE  AgentInv'
<1>1. agentRun \in [Runs -> RunProgress] /\ session \in SessionRow /\ Cardinality(Runs) \in Nat
  BY EndedGrows DEF AgentInv, AgentTypes
<1>2. session.turns \in Nat
  BY <1>1 DEF SessionRow
<1>3. session' \in SessionRow /\ SessionSound'
  <2> DEFINE m == Cardinality(EndedRuns)
             n == Cardinality(EndedRuns')
  <2>1. /\ m \in Nat /\ n \in Nat /\ n <= Cardinality(Runs) /\ m <= n
        /\ agentRun[r].pc \notin Ended /\ a.pc \in Ended => n = m + 1
    BY EndedGrows
  <2>2. session.turns <= m /\ (session.live => session.declared \/ session.turns > 0)
    BY DEF AgentInv, SessionSound
  <2>3. session'.turns <= n /\ (session'.live => session'.declared \/ session'.turns > 0) => SessionSound'
    BY DEF SessionSound
  <2> HIDE DEF m, n
  <2>4. CASE UNCHANGED session
    BY <1>1, <1>2, <2>4, <2>1, <2>2, <2>3
  <2>5. CASE /\ session' = [session EXCEPT !.live = TRUE, !.turns = @ + 1]
             /\ agentRun[r].pc \notin Ended /\ a.pc \in Ended
    <3>1. session'.live = TRUE /\ session'.turns = session.turns + 1
          /\ session'.declared = session.declared /\ session' = [live |-> TRUE,
               turns |-> session.turns + 1, declared |-> session.declared]
      BY <1>1, <2>5 DEF SessionRow
    <3>2. session.turns + 1 <= n /\ session.turns + 1 \in 0..Cardinality(Runs)
      BY <1>1, <1>2, <2>5, <2>1, <2>2
    <3>3. QED
      BY <1>1, <1>2, <2>3, <3>1, <3>2 DEF SessionRow
  <2>6. QED
    BY <2>4, <2>5
<1>4. AgentTypes'
  BY <1>1, <1>3 DEF AgentInv, AgentTypes
<1>5. RecordsSound' /\ SummariesSound'
  BY <1>1 DEF AgentInv, RecordsSound, SummariesSound, TurnStored, Answers
<1>6. RunsSound'
  BY <1>1 DEF AgentInv, RunsSound, GateHeld, HasEvent
<1>7. QED
  BY <1>3, <1>4, <1>5, <1>6 DEF AgentInv

\* evaluate_recall_gate
LEMMA AgentBegin ==
  ASSUME AgentConstants, AgentInv, NEW r \in Runs, NEW q \in Queries, Agent!Begin(r, q)
  PROVE  AgentInv'
<1>1. PICK host \in Agent!Lives : agentRun' = [agentRun EXCEPT ![r] =
        [Agent!Fresh EXCEPT !.pc = IF Agent!ShouldRecall(q, host) THEN "recall" ELSE "reason",
                            !.query = q, !.skipped = ~Agent!ShouldRecall(q, host), !.live = host]]
  BY DEF Agent!Begin
<1> DEFINE go == Agent!ShouldRecall(q, host)
           a == [Agent!Fresh EXCEPT !.pc = IF go THEN "recall" ELSE "reason",
                                    !.query = q, !.skipped = ~go, !.live = host]
<1>2. host \in {"yes", "no", "unknown"} /\ q \in SUBSET Agent!Phrases /\ mode \in {"off", "adaptive", "always"}
  BY DEF Agent!Lives, AgentConstants, AgentInv, AgentTypes
<1>3. /\ a.pc \in {"recall", "reason"} /\ a.query = q /\ a.skipped = ~go /\ a.live = host
      /\ a \in RunProgress
  BY <1>2 DEF Agent!Fresh, RunProgress, AgentPlaces
<1>4. ASSUME ~go, "blank" \notin q, forced \/ mode # "off"
      PROVE  "memory" \notin q /\ (q = {"continuation"} => host # "no")
  BY <1>2, <1>4 DEF Agent!ShouldRecall, Agent!Gate, Agent!Forced, Agent!Suppressed,
     Agent!MentionsMemory, Agent!Continues
<1>5. UNCHANGED <<runtime, mode, forced, session, stored, told>> /\ agentRun[r].pc = "new"
  BY DEF Agent!Begin
<1> HIDE DEF a, go
<1>6. GateHeld(a) /\ HasEvent(a)
  BY <1>3, <1>4 DEF GateHeld, HasEvent
<1>7. agentRun' = [agentRun EXCEPT ![r] = a]
  BY <1>1 DEF a, go
<1>8. QED
  BY <1>3, <1>5, <1>6, <1>7, AgentMoves DEF Ended

LEMMA AgentToolCall ==
  ASSUME AgentConstants, AgentInv, NEW r \in Runs, NEW e \in Events, Agent!ToolCall(r, e)
  PROVE  AgentInv'
<1>1. PICK a : a = [Agent!Fresh EXCEPT !.pc = "tool", !.called = TRUE, !.event = e]
  OBVIOUS
<1>2. a \in RunProgress /\ a.pc = "tool" /\ GateHeld(a) /\ HasEvent(a)
  BY <1>1 DEF Agent!Fresh, RunProgress, AgentPlaces, GateHeld, HasEvent
<1>3. /\ agentRun' = [agentRun EXCEPT ![r] = a] /\ agentRun[r].pc = "reason"
      /\ UNCHANGED <<runtime, mode, forced, session, stored, told>>
  BY <1>1 DEF Agent!ToolCall
<1>4. QED
  BY <1>2, <1>3, AgentMoves DEF Ended

\* sync_turn, agent_end, the wrapper's exit
LEMMA AgentFinish ==
  ASSUME AgentConstants, AgentInv, NEW r \in Runs, NEW e \in Events, Agent!Finish(r, e)
  PROVE  AgentInv'
<1>1. PICK place : place = Agent!FirstPost
  OBVIOUS
<1>2. place \in {"turn", "summary"} /\ (runtime = "openclaw" => place = "turn")
  BY <1>1 DEF Agent!FirstPost
<1>3. PICK a : a = [Agent!Fresh EXCEPT !.pc = place, !.event = e]
  OBVIOUS
<1>4. a \in RunProgress /\ a.pc = place /\ GateHeld(a) /\ HasEvent(a)
  BY <1>2, <1>3 DEF Agent!Fresh, RunProgress, AgentPlaces, GateHeld, HasEvent
<1>5. /\ agentRun' = [agentRun EXCEPT ![r] = a] /\ agentRun[r].pc = "reason"
      /\ session' = [session EXCEPT !.live = TRUE, !.turns = @ + 1]
      /\ UNCHANGED <<runtime, mode, forced, stored, told>>
  BY <1>1, <1>3 DEF Agent!Finish
<1>6. QED
  BY <1>2, <1>4, <1>5, AgentMoves DEF Ended

LEMMA AgentRunFails ==
  ASSUME AgentConstants, AgentInv, NEW r \in Runs, Agent!RunFails(r)
  PROVE  AgentInv'
<1>1. PICK a : a = [Agent!Fresh EXCEPT !.pc = "over"]
  OBVIOUS
<1>2. a \in RunProgress /\ a.pc = "over" /\ GateHeld(a) /\ HasEvent(a)
  BY <1>1 DEF Agent!Fresh, RunProgress, AgentPlaces, GateHeld, HasEvent
<1>3. /\ agentRun' = [agentRun EXCEPT ![r] = a]
      /\ UNCHANGED <<runtime, mode, forced, session, stored, told>>
  BY <1>1 DEF Agent!RunFails
<1>4. QED
  BY <1>2, <1>3, AgentMoves DEF Ended

\* A run goes on to another place with what it has.
LEMMA AgentGoesOn ==
  ASSUME AgentInv, NEW r \in Runs, NEW place \in AgentPlaces,
         NEW a, a = [agentRun[r] EXCEPT !.pc = place],
         place \in {"tool", "turn", "summary"} => agentRun[r].event \in Events
  PROVE  /\ a \in RunProgress /\ a.pc = place /\ GateHeld(a) /\ HasEvent(a)
         /\ a.event = agentRun[r].event
<1>1. agentRun[r] \in RunProgress /\ GateHeld(agentRun[r])
  BY DEF AgentInv, AgentTypes, RunsSound
<1>2. /\ a \in RunProgress /\ a.pc = place /\ a.event = agentRun[r].event /\ a.query = agentRun[r].query
      /\ a.skipped = agentRun[r].skipped /\ a.live = agentRun[r].live
  BY <1>1 DEF RunProgress
<1>3. QED
  BY <1>1, <1>2 DEF GateHeld, HasEvent

LEMMA AgentRecalled ==
  ASSUME AgentConstants, AgentInv, NEW r \in Runs, Agent!Recalled(r)
  PROVE  AgentInv'
<1>1. PICK place \in {"reason", "over"} : agentRun' = [agentRun EXCEPT ![r].pc = place]
  BY DEF Agent!Recalled
<1>2. PICK a : a = [agentRun[r] EXCEPT !.pc = place]
  OBVIOUS
<1>3. agentRun' = [agentRun EXCEPT ![r] = a] /\ agentRun[r].pc = "recall"
      /\ UNCHANGED <<runtime, mode, forced, session, stored, told>>
  BY <1>1, <1>2 DEF Agent!Recalled
<1>4. a \in RunProgress /\ a.pc = place /\ GateHeld(a) /\ HasEvent(a)
  BY <1>2, AgentGoesOn DEF AgentPlaces
<1>5. QED
  BY <1>3, <1>4, AgentMoves DEF Ended

\* A post may store a record and tell of it: the key answers to the event, and a
\* record already there stays.  OpenClaw posts a summary from where it has its
\* transcript, and goes to that place only from a transcript it was told of.
LEMMA AgentPost ==
  ASSUME AgentConstants, AgentInv, NEW r \in Runs, NEW kind \in Agent!Kinds, NEW e,
         e = agentRun[r].event, e \in Events,
         NEW onOk \in AgentPlaces \ {"tool", "turn"}, NEW onFailure \in {"reason", "over"},
         Agent!Post(kind, r, e, onOk, onFailure),
         agentRun[r].pc \in Ended => onOk \in Ended /\ onFailure \in Ended,
         runtime = "openclaw" /\ kind = "summary" => agentRun[r].pc = "summary",
         runtime = "openclaw" /\ onOk = "summary" => kind = "turn",
         UNCHANGED <<runtime, mode, forced>>,
         \/ UNCHANGED session
         \/ \E declared \in BOOLEAN : session' = [live |-> declared, turns |-> 0, declared |-> declared]
  PROVE  AgentInv'
<1>1. PICK k : k = Agent!KeyOf(kind, r, e)
  OBVIOUS
<1>2. k \in Agent!Keys /\ k.kind = kind /\ Answers(k, e) /\ (runtime = "openclaw" => k.scope = r)
  BY <1>1, KeyFacts
<1>3. /\ agentRun \in [Runs -> RunProgress] /\ session \in SessionRow
      /\ DOMAIN stored \subseteq Agent!Keys /\ told \subseteq Agent!Keys \X Events
      /\ \A j \in DOMAIN stored : stored[j] \in Events
      /\ runtime \in Agent!Runtimes /\ mode \in {"off", "adaptive", "always"} /\ forced \in BOOLEAN
  BY DEF AgentInv, AgentTypes
<1>4. PICK place \in {onOk, onFailure} : agentRun' = [agentRun EXCEPT ![r].pc = place]
        /\ (place = onOk /\ onOk # onFailure => Agent!Accept(k, e))
  BY <1>1 DEF Agent!Post
<1>5. PICK a : a = [agentRun[r] EXCEPT !.pc = place]
  OBVIOUS
<1>6. a \in RunProgress /\ a.pc = place /\ GateHeld(a) /\ HasEvent(a)
  BY <1>5, AgentGoesOn DEF AgentPlaces
<1>7. agentRun' = [agentRun EXCEPT ![r] = a] /\ (agentRun[r].pc \in Ended => a.pc \in Ended)
  BY <1>4, <1>5, <1>6
<1>8. /\ \/ Agent!Accept(k, e)
         \/ UNCHANGED stored
      /\ told' \subseteq told \cup {<<k, e>>}
      /\ told' # told => Agent!Accept(k, e)
  BY <1>1 DEF Agent!Post
<1>9. /\ DOMAIN stored \subseteq DOMAIN stored' /\ DOMAIN stored' \subseteq DOMAIN stored \cup {k}
      /\ \A j \in DOMAIN stored : stored'[j] = stored[j]
      /\ k \in DOMAIN stored' \ DOMAIN stored => stored'[k] = e
      /\ Agent!Accept(k, e) => k \in DOMAIN stored'
  BY <1>8 DEF Agent!Accept
<1>10. \A j \in DOMAIN stored' : stored'[j] \in Events /\ Answers(j, stored'[j])
  <2> SUFFICES ASSUME NEW j \in DOMAIN stored'
               PROVE  stored'[j] \in Events /\ Answers(j, stored'[j])
    OBVIOUS
  <2>1. CASE j \in DOMAIN stored
    BY <1>3, <1>9, <2>1 DEF AgentInv, RecordsSound
  <2>2. CASE j \notin DOMAIN stored
    BY <1>2, <1>9, <2>2
  <2>3. QED
    BY <2>1, <2>2
<1>11. \A p \in told' : p \in Agent!Keys \X Events /\ p[1] \in DOMAIN stored' /\ Answers(p[1], p[2])
  <2> SUFFICES ASSUME NEW p \in told'
               PROVE  p \in Agent!Keys \X Events /\ p[1] \in DOMAIN stored' /\ Answers(p[1], p[2])
    OBVIOUS
  <2>1. CASE p \in told
    BY <1>3, <1>9, <2>1 DEF AgentInv, RecordsSound
  <2>2. CASE p \notin told
    BY <1>2, <1>8, <1>9, <2>2
  <2>3. QED
    BY <2>1, <2>2
<1>12. SummariesSound'
  <2> SUFFICES ASSUME runtime = "openclaw"
               PROVE  /\ \A j \in DOMAIN stored' : j.kind = "summary" => TurnStored(j.scope)'
                      /\ \A q \in Runs : agentRun'[q].pc = "summary" => TurnStored(q)'
    BY DEF SummariesSound, TurnStored
  <2>1. \A s : TurnStored(s) => TurnStored(s)'
    BY <1>9 DEF TurnStored
  <2>2. /\ \A j \in DOMAIN stored : j.kind = "summary" => TurnStored(j.scope)
        /\ \A q \in Runs : agentRun[q].pc = "summary" => TurnStored(q)
    BY DEF AgentInv, SummariesSound
  <2>3. kind = "summary" => TurnStored(r)'
    BY <2>1, <2>2
  <2>4. ASSUME NEW j \in DOMAIN stored', j.kind = "summary"
        PROVE  TurnStored(j.scope)'
    BY <1>2, <1>9, <2>1, <2>2, <2>3, <2>4
  <2>5. place = "summary" => TurnStored(r)'
    <3> SUFFICES ASSUME place = "summary"
                 PROVE  TurnStored(r)'
      OBVIOUS
    <3>1. place = onOk /\ onOk # onFailure /\ kind = "turn"
      BY <1>4
    <3>2. k \in DOMAIN stored'
      BY <1>4, <1>9, <3>1
    <3>3. QED
      BY <1>2, <3>1, <3>2 DEF TurnStored
  <2>6. ASSUME NEW q \in Runs, agentRun'[q].pc = "summary"
        PROVE  TurnStored(q)'
    <3>1. CASE q = r
      BY <1>3, <1>6, <1>7, <2>5, <2>6, <3>1
    <3>2. CASE q # r
      BY <1>3, <1>7, <2>1, <2>2, <2>6, <3>2
    <3>3. QED
      BY <3>1, <3>2
  <2>7. QED
    BY <2>4, <2>6
<1>13. RunsSound'
  BY <1>3, <1>6, <1>7 DEF AgentInv, RunsSound, GateHeld, HasEvent
<1>14. session' \in SessionRow /\ SessionSound'
  <2> DEFINE m == Cardinality(EndedRuns)
             n == Cardinality(EndedRuns')
  <2>1. m \in Nat /\ n \in Nat /\ m <= n /\ Cardinality(Runs) \in Nat
    BY <1>6, <1>7, EndedGrows
  <2>2. session.turns <= m /\ (session.live => session.declared \/ session.turns > 0)
    BY DEF AgentInv, SessionSound
  <2>3. session'.turns <= n /\ (session'.live => session'.declared \/ session'.turns > 0) => SessionSound'
    BY DEF SessionSound
  <2>4. session.turns \in Nat
    BY <1>3, <2>1 DEF SessionRow
  <2> HIDE DEF m, n
  <2>5. CASE UNCHANGED session
    BY <1>3, <2>1, <2>2, <2>3, <2>4, <2>5
  <2>6. CASE \E declared \in BOOLEAN : session' = [live |-> declared, turns |-> 0, declared |-> declared]
    BY <2>1, <2>3, <2>6 DEF SessionRow
  <2>7. QED
    BY <2>5, <2>6
<1>15. AgentTypes'
  <2>1. agentRun' \in [Runs -> RunProgress]
    BY <1>3, <1>6, <1>7
  <2>2. DOMAIN stored' \subseteq Agent!Keys /\ told' \subseteq Agent!Keys \X Events
    BY <1>2, <1>3, <1>9, <1>11
  <2>3. QED
    BY <1>3, <1>10, <1>14, <2>1, <2>2 DEF AgentTypes
<1>16. RecordsSound'
  BY <1>10, <1>11 DEF RecordsSound, Answers
<1>17. QED
  BY <1>12, <1>13, <1>14, <1>15, <1>16 DEF AgentInv

\* The event a run has to post.
LEMMA AgentEvent ==
  ASSUME AgentInv, NEW r \in Runs,
         agentRun[r].pc \in {"tool", "turn", "summary"} \/ agentRun[r].event # Agent!NoEvent
  PROVE  agentRun[r].event \in Events
BY DEF AgentInv, AgentTypes, RunProgress, RunsSound, HasEvent

LEMMA AgentTool ==
  ASSUME AgentConstants, AgentInv, NEW r \in Runs, Agent!Tool(r)
  PROVE  AgentInv'
<1>1. /\ agentRun[r].pc = "tool" /\ Agent!Post("tool", r, agentRun[r].event, "reason", "reason")
      /\ UNCHANGED <<runtime, mode, forced, session>>
  BY DEF Agent!Tool
<1>2. agentRun[r].event \in Events
  BY <1>1, AgentEvent
<1>3. QED
  BY <1>1, <1>2, AgentPost DEF Agent!Kinds, AgentPlaces, Ended

\* append_conversation_turn, and in OpenClaw the summary after it
LEMMA AgentTurn ==
  ASSUME AgentConstants, AgentInv, NEW r \in Runs, Agent!Turn(r)
  PROVE  AgentInv'
<1>1. PICK onOk : onOk = IF runtime = "openclaw" THEN "summary" ELSE "over"
  OBVIOUS
<1>2. /\ agentRun[r].pc = "turn" /\ Agent!Post("turn", r, agentRun[r].event, onOk, "over")
      /\ UNCHANGED <<runtime, mode, forced, session>>
  BY <1>1 DEF Agent!Turn, Agent!AppendTurn
<1>3. agentRun[r].event \in Events
  BY <1>2, AgentEvent
<1>4. QED
  BY <1>1, <1>2, <1>3, AgentPost DEF Agent!Kinds, AgentPlaces, Ended

LEMMA AgentSummary ==
  ASSUME AgentConstants, AgentInv, NEW r \in Runs, Agent!Summary(r)
  PROVE  AgentInv'
<1>1. /\ agentRun[r].pc = "summary" /\ Agent!Post("summary", r, agentRun[r].event, "over", "over")
      /\ UNCHANGED <<runtime, mode, forced, session>>
  BY DEF Agent!Summary
<1>2. agentRun[r].event \in Events
  BY <1>1, AgentEvent
<1>3. QED
  BY <1>1, <1>2, AgentPost DEF Agent!Kinds, AgentPlaces, Ended

\* on_session_end
LEMMA AgentSessionEnd ==
  ASSUME AgentConstants, AgentInv, NEW r \in Runs, NEW declared \in BOOLEAN,
         Agent!SessionEnd(r, declared)
  PROVE  AgentInv'
<1>1. /\ runtime = "hermes" /\ Agent!Post("summary", r, agentRun[r].event, "over", "over")
      /\ agentRun[r].event # Agent!NoEvent
      /\ session' = [live |-> declared, turns |-> 0, declared |-> declared]
      /\ UNCHANGED <<runtime, mode, forced>>
  BY DEF Agent!SessionEnd
<1>2. agentRun[r].event \in Events
  BY <1>1, AgentEvent
<1>3. QED
  BY <1>1, <1>2, AgentPost DEF Agent!Kinds, AgentPlaces, Ended

LEMMA AgentStep ==
  ASSUME AgentConstants, AgentInv, [Agent!Next]_(Agent!vars)
  PROVE  AgentInv'
<1>1. CASE Agent!Next
  BY <1>1, AgentBegin, AgentToolCall, AgentFinish, AgentRecalled, AgentTool, AgentRunFails,
     AgentTurn, AgentSummary, AgentSessionEnd DEF Agent!Next
<1>2. CASE UNCHANGED Agent!vars
  BY <1>2 DEF Agent!vars, AgentInv, AgentTypes, RecordsSound, SummariesSound, RunsSound, SessionSound,
     Answers, TurnStored, GateHeld, HasEvent, EndedRuns
<1>3. QED
  BY <1>1, <1>2

LEMMA AgentInit ==
  ASSUME AgentConstants, Agent!Init
  PROVE  AgentInv
<1>1. PICK declared \in BOOLEAN : session = [live |-> declared, turns |-> 0, declared |-> declared]
  BY DEF Agent!Init
<1>2. Cardinality(Runs) \in Nat
  BY FS_CardinalityType DEF AgentConstants
<1>3. session \in SessionRow /\ session.turns = 0 /\ (session.live => session.declared)
  BY <1>1, <1>2 DEF SessionRow
<1>4. /\ Agent!Fresh \in RunProgress /\ Agent!Fresh.pc = "new" /\ ~Agent!Fresh.skipped
  BY DEF Agent!Fresh, RunProgress, AgentPlaces
<1>5. agentRun \in [Runs -> RunProgress] /\ \A r \in Runs : agentRun[r].pc = "new" /\ ~agentRun[r].skipped
  BY <1>4 DEF Agent!Init
<1>6. EndedRuns = {}
  BY <1>5 DEF EndedRuns, Ended
<1>7. SessionSound
  BY <1>3, <1>6, FS_EmptySet DEF SessionSound
<1>8. DOMAIN stored = {} /\ told = {} /\ runtime \in Agent!Runtimes
      /\ mode \in {"off", "adaptive", "always"} /\ forced \in BOOLEAN
  BY DEF Agent!Init
<1>9. AgentTypes /\ RecordsSound
  BY <1>3, <1>5, <1>8 DEF AgentTypes, RecordsSound
<1>10. SummariesSound /\ RunsSound
  BY <1>5, <1>8 DEF SummariesSound, RunsSound, GateHeld, HasEvent
<1>11. QED
  BY <1>7, <1>9, <1>10 DEF AgentInv

\* What a plugin told its runtime is stored is stored, OpenClaw's summary of a run
\* only with its transcript, and the gate answers a turn without recall only where
\* it may (agent_end of index.js, _event_idempotency_key, evaluate_recall_gate,
\* sync_turn): for every session, its runs interleaving, its posts or replies lost.
THEOREM AgentMemoryIsKept == AgentConstants => (Agent!Spec => [](Agent!TypeOK /\ Agent!AgentMemoryKept))
<1> SUFFICES ASSUME AgentConstants
             PROVE  Agent!Spec => [](Agent!TypeOK /\ Agent!AgentMemoryKept)
  OBVIOUS
<1>1. Agent!Init => AgentInv
  BY AgentInit
<1>2. AgentInv /\ [Agent!Next]_(Agent!vars) => AgentInv'
  BY AgentStep
<1>3. AgentInv => Agent!TypeOK
  BY SameSize DEF AgentInv, AgentTypes, Agent!TypeOK, SessionRow, RunProgress, AgentPlaces
<1>4. AgentInv => Agent!AgentMemoryKept
  <2> SUFFICES ASSUME AgentInv
               PROVE  Agent!AgentMemoryKept
    OBVIOUS
  <2>1. ASSUME NEW p \in told
        PROVE  /\ p[1] \in DOMAIN stored /\ stored[p[1]].text = p[2].text
               /\ runtime # "native" => stored[p[1]] = p[2]
    <3>1. p \in Agent!Keys \X Events /\ p[1] \in DOMAIN stored /\ Answers(p[1], p[2])
          /\ Answers(p[1], stored[p[1]]) /\ stored[p[1]] \in Events
      BY <2>1 DEF AgentInv, AgentTypes, RecordsSound
    <3>2. \A e \in Events : e = [text |-> e.text, error |-> e.error]
      BY DEF AgentConstants
    <3>3. p[2] \in Events
      BY <3>1
    <3>4. QED
      BY <3>1, <3>2, <3>3 DEF Answers
  <2>2. QED
    BY <2>1 DEF AgentInv, SummariesSound, TurnStored, RunsSound, GateHeld, SessionSound, Agent!AgentMemoryKept
<1>5. QED
  BY <1>1, <1>2, <1>3, <1>4, PTL DEF Agent!Spec

-----------------------------------------------------------------------------
(* Backups.  Files are written once and read by later steps, while the     *)
(* database changes and artifacts are damaged: the invariant says what the *)
(* files of a slot say of one another, and what each job may still assume  *)
(* of the files of its slot.                                               *)

JobPlaces == {"idle", "dump", "encrypt", "drill", "audit", "bundle", "report"}
JobRecord == [pc : JobPlaces, slot : Slots, skipDrill : BOOLEAN, skipAudit : BOOLEAN,
              signed : BOOLEAN, ok : BOOLEAN, plain : SUBSET Rows]
RestoreRecord == [pc : {"idle", "decrypt", "load"}, slot : Slots, required : BOOLEAN]
TargetRecord == [state : {"old", "partial", "restored"}, slot : Slots, required : BOOLEAN,
                 rows : SUBSET Rows]
RecoveryRecord == [pc : {"idle", "restore", "qdrant", "probe", "bind"}, slot : Slots,
                   keep : BOOLEAN, expected : 0..Cardinality(Rows)]

BackupTypes ==
    /\ live \subseteq Rows /\ exported \subseteq Slots /\ damaged \subseteq Slots
    /\ dump \in [Slots -> Backup!Opt(SUBSET Rows)]
    /\ drill \in [Slots -> Backup!Opt(0..Cardinality(Rows))]
    /\ manifest \in [Slots -> Backup!Opt(Backup!ManifestRecords)]
    /\ backupJob \in JobRecord
    /\ latest \in Backup!Opt([slot : Slots, ok : BOOLEAN, drillRequired : BOOLEAN])
    /\ restoreRun \in RestoreRecord /\ target \in TargetRecord
    /\ recovery \in RecoveryRecord /\ containers \subseteq {"postgres", "qdrant", "orphan"}
    /\ evidence \in Backup!Opt([slot : Slots, ok : BOOLEAN])

\* A drill report states the count of its own artifact.
DrillSound ==
    \A t \in Slots : drill[t] # Backup!None =>
        dump[t] # Backup!None /\ drill[t][1] = Cardinality(dump[t][1])

\* A manifest is of the files there are.
ManifestSound ==
    \A t \in Slots : manifest[t] # Backup!None =>
        /\ dump[t] # Backup!None /\ manifest[t][1].rows = dump[t][1]
        /\ manifest[t][1].damaged => t \in damaged
        /\ manifest[t][1].drilled => drill[t] # Backup!None
        /\ manifest[t][1].audited => t \in exported

\* What the steps of the job before this one left.
BackupJobSound ==
    LET t == backupJob.slot IN
    /\ backupJob.pc \in {"dump", "encrypt"} => dump[t] = Backup!None
    /\ backupJob.pc \notin {"idle", "report"} => manifest[t] = Backup!None
    /\ backupJob.pc = "drill" => dump[t] # Backup!None
    /\ backupJob.pc \in {"audit", "bundle"} /\ backupJob.ok =>
         dump[t] # Backup!None /\ (~backupJob.skipDrill => drill[t] # Backup!None)
    /\ backupJob.pc = "bundle" /\ backupJob.ok /\ ~backupJob.skipAudit => t \in exported
    /\ backupJob.pc = "report" /\ backupJob.ok =>
         manifest[t] # Backup!None /\ (~backupJob.skipDrill => drill[t] # Backup!None)

LatestSound ==
    latest # Backup!None /\ latest[1].ok =>
        /\ manifest[latest[1].slot] # Backup!None
        /\ latest[1].drillRequired => drill[latest[1].slot] # Backup!None

\* A signed manifest.
Signed(t) == manifest[t] # Backup!None /\ manifest[t][1].signed

RestoreSound ==
    /\ restoreRun.pc # "idle" =>
         dump[restoreRun.slot] # Backup!None /\ (restoreRun.required => Signed(restoreRun.slot))
    /\ restoreRun.pc = "load" => target.slot = restoreRun.slot /\ target.state = "partial"
    /\ target.state # "old" /\ target.required => Signed(target.slot)
    /\ target.state = "restored" => dump[target.slot] = <<target.rows>>

RecoverySound ==
    /\ recovery.pc # "idle" => dump[recovery.slot] # Backup!None /\ evidence = Backup!None
    /\ recovery.pc = "bind" => dump[recovery.slot][1] # {}
    /\ evidence # Backup!None /\ evidence[1].ok =>
         dump[evidence[1].slot] # Backup!None /\ dump[evidence[1].slot][1] # {}
    /\ recovery.pc = "idle" /\ ~recovery.keep => containers \subseteq {"orphan"}
    /\ "orphan" \in containers => evidence # Backup!None /\ ~evidence[1].ok

BackupInv ==
    /\ BackupTypes /\ DrillSound /\ ManifestSound /\ BackupJobSound
    /\ LatestSound /\ RestoreSound /\ RecoverySound

LEMMA SameLength == \A T : Backup!Cardinality(T) = Cardinality(T)
BY DEF Backup!Cardinality, Cardinality

\* Optional values.
LEMMA Optional ==
  /\ \A S : Backup!None \in Backup!Opt(S)
  /\ \A S : \A x \in S : <<x>> \in Backup!Opt(S)
  /\ \A x : <<x>> # Backup!None /\ <<x>>[1] = x
  /\ \A S : \A v \in Backup!Opt(S) : v # Backup!None => v = <<v[1]>> /\ v[1] \in S
<1>1. \A x : <<x>> # Backup!None /\ <<x>>[1] = x
  BY DEF Backup!None
<1>2. \A S : \A v \in Backup!Opt(S) : v # Backup!None => v = <<v[1]>> /\ v[1] \in S
  BY <1>1 DEF Backup!Opt
<1>3. QED
  BY <1>1, <1>2 DEF Backup!Opt

\* Row counts.
LEMMA CountRows ==
  ASSUME BackupConstants, NEW S \in SUBSET Rows
  PROVE  Cardinality(S) \in 0..Cardinality(Rows)
BY FS_Subset, FS_CardinalityType DEF BackupConstants

\* Files stay, a report or an export is added.
FilesGrow ==
    /\ exported \subseteq exported' /\ damaged \subseteq damaged'
    /\ \A t \in Slots :
         /\ dump[t] # Backup!None => dump'[t] = dump[t]
         /\ drill[t] # Backup!None => drill'[t] # Backup!None
         /\ manifest[t] # Backup!None => manifest'[t] = manifest[t]

LEMMA ReportsKeep ==
  ASSUME BackupInv, FilesGrow
  PROVE  /\ latest' = latest => LatestSound'
         /\ restoreRun' = restoreRun /\ target' = target => RestoreSound'
         /\ recovery' = recovery /\ evidence' = evidence /\ containers' = containers => RecoverySound'
<1>1. latest' = latest => LatestSound'
  <2> SUFFICES ASSUME latest' = latest, latest # Backup!None, latest[1].ok
               PROVE  /\ manifest'[latest[1].slot] # Backup!None
                      /\ latest[1].drillRequired => drill'[latest[1].slot] # Backup!None
    BY DEF LatestSound
  <2>1. latest[1].slot \in Slots
    BY Optional DEF BackupInv, BackupTypes
  <2>2. QED
    BY <2>1 DEF BackupInv, LatestSound, FilesGrow
<1>2. \A t \in Slots : Signed(t) => Signed(t)'
  BY DEF Signed, FilesGrow
<1>3. restoreRun' = restoreRun /\ target' = target => RestoreSound'
  <2> SUFFICES ASSUME restoreRun' = restoreRun, target' = target
               PROVE  RestoreSound'
    OBVIOUS
  <2>1. restoreRun.slot \in Slots /\ target.slot \in Slots
    BY DEF BackupInv, BackupTypes, RestoreRecord, TargetRecord
  <2>2. target.state = "restored" => dump[target.slot] # Backup!None
    BY Optional DEF BackupInv, RestoreSound
  <2>3. restoreRun.pc # "idle" => dump[restoreRun.slot] # Backup!None
    BY DEF BackupInv, RestoreSound
  <2>4. /\ target.state = "restored" => dump'[target.slot] = dump[target.slot]
        /\ restoreRun.pc # "idle" => dump'[restoreRun.slot] = dump[restoreRun.slot]
    BY <2>1, <2>2, <2>3 DEF FilesGrow
  <2>5. Signed(restoreRun.slot) => Signed(restoreRun.slot)'
    BY <1>2, <2>1 DEF Signed
  <2>6. Signed(target.slot) => Signed(target.slot)'
    BY <1>2, <2>1 DEF Signed
  <2>7. QED
    BY <2>4, <2>5, <2>6 DEF BackupInv, RestoreSound, Signed
<1>4. recovery' = recovery /\ evidence' = evidence /\ containers' = containers => RecoverySound'
  <2> SUFFICES ASSUME recovery' = recovery, evidence' = evidence, containers' = containers
               PROVE  RecoverySound'
    OBVIOUS
  <2>1. recovery.slot \in Slots
    BY DEF BackupInv, BackupTypes, RecoveryRecord
  <2>2. evidence # Backup!None => evidence[1].slot \in Slots
    BY Optional DEF BackupInv, BackupTypes
  <2>3. RecoverySound
    BY DEF BackupInv
  <2>4. QED
    BY <2>1, <2>2, <2>3 DEF FilesGrow, RecoverySound
<1>5. QED
  BY <1>1, <1>3, <1>4

\* The job goes on.
LEMMA JobGoesOn ==
  ASSUME BackupInv, NEW place \in JobPlaces, NEW ok \in BOOLEAN, Backup!StepTo(place, ok)
  PROVE  /\ backupJob' \in JobRecord /\ backupJob'.pc = place /\ backupJob'.slot = backupJob.slot
         /\ backupJob'.ok = (backupJob.ok /\ ok) /\ backupJob'.skipDrill = backupJob.skipDrill
         /\ backupJob'.skipAudit = backupJob.skipAudit /\ backupJob.slot \in Slots
BY DEF BackupInv, BackupTypes, JobRecord, Backup!StepTo

\* The job is over, or was never begun.
LEMMA NoJobYet ==
  ASSUME BackupConstants
  PROVE  Backup!NoJob \in JobRecord /\ Backup!NoJob.pc = "idle" /\ Backup!Slot0 \in Slots
BY DEF BackupConstants, Backup!NoJob, Backup!Slot0, JobRecord, JobPlaces

\* The database changes, an artifact is damaged, a job begins, is dumped or dies:
\* no file of a job is written.
LEMMA BackupNoFile ==
  ASSUME BackupConstants, BackupInv, UNCHANGED <<dump, drill, exported, manifest, latest>>,
         UNCHANGED <<restoreRun, target, recovery, containers, evidence>>,
         live' \subseteq Rows, damaged \subseteq damaged', damaged' \subseteq Slots,
         backupJob' \in JobRecord, BackupJobSound'
  PROVE  BackupInv'
<1>1. FilesGrow
  BY DEF FilesGrow
<1>2. BackupTypes' /\ DrillSound' /\ ManifestSound'
  BY DEF BackupInv, BackupTypes, DrillSound, ManifestSound
<1>3. LatestSound' /\ RestoreSound' /\ RecoverySound'
  BY <1>1, ReportsKeep
<1>4. QED
  BY <1>2, <1>3 DEF BackupInv

LEMMA BackupChange ==
  ASSUME BackupConstants, BackupInv, Backup!Change
  PROVE  BackupInv'
<1>1. /\ live' \subseteq Rows /\ UNCHANGED <<dump, drill, exported, manifest, latest>>
      /\ UNCHANGED <<restoreRun, target, recovery, containers, evidence, damaged, backupJob>>
  BY DEF Backup!Change, Backup!files, BackupInv, BackupTypes
<1>2. backupJob' \in JobRecord /\ BackupJobSound' /\ damaged \subseteq Slots
  BY <1>1 DEF BackupInv, BackupTypes, BackupJobSound
<1>3. QED
  BY <1>1, <1>2, BackupNoFile

LEMMA BackupDamage ==
  ASSUME BackupConstants, BackupInv, NEW t \in Slots, Backup!Damage(t)
  PROVE  BackupInv'
<1>1. /\ damaged' = damaged \cup {t} /\ UNCHANGED <<dump, drill, exported, manifest, latest>>
      /\ UNCHANGED <<live, restoreRun, target, recovery, containers, evidence, backupJob>>
  BY DEF Backup!Damage, Backup!files
<1>2. backupJob' \in JobRecord /\ BackupJobSound' /\ damaged \subseteq Slots /\ live' \subseteq Rows
  BY <1>1 DEF BackupInv, BackupTypes, BackupJobSound
<1>3. QED
  BY <1>1, <1>2, BackupNoFile

LEMMA BackupBegin ==
  ASSUME BackupConstants, BackupInv, NEW t \in Slots, NEW d \in BOOLEAN, NEW a \in BOOLEAN,
         NEW s \in BOOLEAN, Backup!Begin(t, d, a, s)
  PROVE  BackupInv'
<1>1. /\ dump[t] = Backup!None /\ manifest[t] = Backup!None
      /\ backupJob' = [pc |-> "dump", slot |-> t, skipDrill |-> d, skipAudit |-> a, signed |-> s,
                       ok |-> TRUE, plain |-> {}]
      /\ UNCHANGED <<dump, drill, exported, manifest, latest>>
      /\ UNCHANGED <<live, restoreRun, target, recovery, containers, evidence, damaged>>
  BY DEF Backup!Begin, Backup!files
<1>2. backupJob' \in JobRecord /\ backupJob'.pc = "dump" /\ backupJob'.slot = t
  BY <1>1 DEF JobRecord, JobPlaces
<1>3. BackupJobSound'
  BY <1>1, <1>2 DEF BackupJobSound
<1>4. QED
  BY <1>1, <1>2, <1>3, BackupNoFile DEF BackupInv, BackupTypes

LEMMA BackupDump ==
  ASSUME BackupConstants, BackupInv, Backup!Dump
  PROVE  BackupInv'
<1>1. /\ backupJob.pc = "dump" /\ UNCHANGED <<dump, drill, exported, manifest, latest>>
      /\ UNCHANGED <<live, restoreRun, target, recovery, containers, evidence, damaged>>
  BY DEF Backup!Dump, Backup!files
<1>2. backupJob \in JobRecord /\ live \subseteq Rows /\ damaged \subseteq Slots
  BY DEF BackupInv, BackupTypes
<1>3. BackupJobSound
  BY DEF BackupInv
<1>4. CASE backupJob' = [backupJob EXCEPT !.pc = "encrypt", !.plain = live]
  <2>1. backupJob' \in JobRecord /\ backupJob'.pc = "encrypt" /\ backupJob'.slot = backupJob.slot
    BY <1>2, <1>4 DEF JobRecord, JobPlaces
  <2>2. BackupJobSound'
    BY <1>1, <1>3, <2>1 DEF BackupJobSound
  <2>3. QED
    BY <1>1, <1>2, <2>1, <2>2, BackupNoFile
<1>5. CASE Backup!StepTo("audit", FALSE)
  <2>1. backupJob' \in JobRecord /\ backupJob'.pc = "audit" /\ backupJob'.slot = backupJob.slot
        /\ ~backupJob'.ok
    BY <1>5, JobGoesOn DEF JobPlaces
  <2>2. BackupJobSound'
    BY <1>1, <1>3, <2>1 DEF BackupJobSound
  <2>3. QED
    BY <1>1, <1>2, <2>1, <2>2, BackupNoFile
<1>6. QED
  BY <1>4, <1>5 DEF Backup!Dump

LEMMA BackupJobDies ==
  ASSUME BackupConstants, BackupInv, Backup!JobDies
  PROVE  BackupInv'
<1>1. /\ backupJob' = Backup!NoJob /\ UNCHANGED <<dump, drill, exported, manifest, latest>>
      /\ UNCHANGED <<live, restoreRun, target, recovery, containers, evidence, damaged>>
  BY DEF Backup!JobDies, Backup!files
<1>2. backupJob' \in JobRecord /\ backupJob'.pc = "idle"
  BY <1>1, NoJobYet
<1>3. BackupJobSound'
  BY <1>2 DEF BackupJobSound
<1>4. QED
  BY <1>1, <1>2, <1>3, BackupNoFile DEF BackupInv, BackupTypes

\* encrypt_file: the slot had no artifact, so no report or manifest is about it.
LEMMA BackupEncrypt ==
  ASSUME BackupConstants, BackupInv, Backup!Encrypt
  PROVE  BackupInv'
<1> DEFINE t == backupJob.slot
<1>1. /\ backupJob.pc = "encrypt" /\ UNCHANGED <<drill, exported, manifest, latest>>
      /\ UNCHANGED <<live, restoreRun, target, recovery, containers, evidence, damaged>>
  BY DEF Backup!Encrypt
<1>2. backupJob \in JobRecord /\ live \subseteq Rows /\ damaged \subseteq Slots /\ t \in Slots
      /\ backupJob.plain \in SUBSET Rows /\ dump \in [Slots -> Backup!Opt(SUBSET Rows)]
  BY DEF BackupInv, BackupTypes, JobRecord
<1>3. dump[t] = Backup!None /\ manifest[t] = Backup!None
  BY <1>1 DEF BackupInv, BackupJobSound
<1>4. drill[t] = Backup!None
  BY <1>2, <1>3 DEF BackupInv, DrillSound
<1>5. CASE /\ dump' = [dump EXCEPT ![t] = <<backupJob.plain>>]
           /\ Backup!StepTo(IF backupJob.skipDrill THEN "audit" ELSE "drill", TRUE)
  <2>1. PICK place \in {"audit", "drill"} : Backup!StepTo(place, TRUE) /\ (place = "audit" => backupJob.skipDrill)
    BY <1>5
  <2>2. /\ backupJob' \in JobRecord /\ backupJob'.pc = place /\ backupJob'.slot = t
        /\ backupJob'.skipDrill = backupJob.skipDrill
    BY <2>1, JobGoesOn DEF JobPlaces
  <2>3. /\ dump' \in [Slots -> Backup!Opt(SUBSET Rows)] /\ dump'[t] # Backup!None
        /\ \A u \in Slots \ {t} : dump'[u] = dump[u]
    BY <1>2, <1>5, Optional
  <2>4. FilesGrow
    BY <1>1, <1>3, <2>3 DEF FilesGrow
  <2>5. BackupTypes'
    BY <1>1, <2>2, <2>3 DEF BackupInv, BackupTypes
  <2>6. DrillSound' /\ ManifestSound'
    BY <1>1, <1>3, <1>4, <2>3 DEF BackupInv, DrillSound, ManifestSound
  <2>7. BackupJobSound'
    BY <1>1, <1>3, <2>1, <2>2, <2>3 DEF BackupJobSound
  <2>8. LatestSound' /\ RestoreSound' /\ RecoverySound'
    BY <1>1, <2>4, ReportsKeep
  <2>9. QED
    BY <2>5, <2>6, <2>7, <2>8 DEF BackupInv
<1>6. CASE Backup!StepTo("audit", FALSE) /\ UNCHANGED dump
  <2>1. backupJob' \in JobRecord /\ backupJob'.pc = "audit" /\ backupJob'.slot = t /\ ~backupJob'.ok
    BY <1>6, JobGoesOn DEF JobPlaces
  <2>2. BackupJobSound'
    BY <1>1, <1>3, <2>1 DEF BackupJobSound
  <2>3. QED
    BY <1>1, <1>2, <1>6, <2>1, <2>2, BackupNoFile
<1>7. QED
  BY <1>5, <1>6 DEF Backup!Encrypt

\* _verify_row_parity: the count reported is that of the artifact.
LEMMA BackupDrill ==
  ASSUME BackupConstants, BackupInv, Backup!Drill
  PROVE  BackupInv'
<1> DEFINE t == backupJob.slot
<1>1. /\ backupJob.pc = "drill" /\ UNCHANGED <<dump, exported, manifest, latest>>
      /\ UNCHANGED <<live, restoreRun, target, recovery, containers, evidence, damaged>>
  BY DEF Backup!Drill
<1>2. PICK ok \in BOOLEAN :
        /\ Backup!StepTo("audit", ok)
        /\ drill' = IF ok THEN [drill EXCEPT ![t] = <<Cardinality(live)>>] ELSE drill
        /\ ok => Cardinality(dump[t][1]) = Cardinality(live)
  BY SameLength DEF Backup!Drill, Backup!Parity, Backup!Decrypts
<1>3. /\ backupJob' \in JobRecord /\ backupJob'.pc = "audit" /\ backupJob'.slot = t
      /\ backupJob'.ok = (backupJob.ok /\ ok) /\ t \in Slots
  BY <1>2, JobGoesOn DEF JobPlaces
<1>4. dump[t] # Backup!None /\ manifest[t] = Backup!None
  BY <1>1 DEF BackupInv, BackupJobSound
<1>5. drill \in [Slots -> Backup!Opt(0..Cardinality(Rows))] /\ Cardinality(live) \in 0..Cardinality(Rows)
  BY CountRows DEF BackupInv, BackupTypes
<1>6. /\ drill' \in [Slots -> Backup!Opt(0..Cardinality(Rows))]
      /\ ok => drill'[t] # Backup!None /\ drill'[t][1] = Cardinality(dump[t][1])
      /\ ~ok => drill' = drill
      /\ \A u \in Slots \ {t} : drill'[u] = drill[u]
  BY <1>2, <1>3, <1>5, Optional
<1>7. FilesGrow
  BY <1>1, <1>6 DEF FilesGrow
<1>8. BackupTypes'
  BY <1>1, <1>3, <1>6 DEF BackupInv, BackupTypes
<1>9. DrillSound'
  <2> SUFFICES ASSUME NEW u \in Slots, drill'[u] # Backup!None
               PROVE  dump'[u] # Backup!None /\ drill'[u][1] = Cardinality(dump'[u][1])
    BY DEF DrillSound
  <2>1. CASE u = t /\ ok
    BY <1>1, <1>4, <1>6, <2>1
  <2>2. CASE u # t \/ ~ok
    BY <1>1, <1>6, <2>2 DEF BackupInv, DrillSound
  <2>3. QED
    BY <2>1, <2>2
<1>10. ManifestSound'
  BY <1>1, <1>7 DEF BackupInv, ManifestSound, FilesGrow
<1>11. BackupJobSound'
  BY <1>1, <1>3, <1>4, <1>6 DEF BackupJobSound
<1>12. LatestSound' /\ RestoreSound' /\ RecoverySound'
  BY <1>1, <1>7, ReportsKeep
<1>13. QED
  BY <1>8, <1>9, <1>10, <1>11, <1>12 DEF BackupInv

LEMMA BackupExportAudit ==
  ASSUME BackupConstants, BackupInv, Backup!ExportAudit
  PROVE  BackupInv'
<1> DEFINE t == backupJob.slot
<1>1. /\ backupJob.pc = "audit" /\ UNCHANGED <<dump, drill, manifest, latest>>
      /\ UNCHANGED <<live, restoreRun, target, recovery, containers, evidence, damaged>>
  BY DEF Backup!ExportAudit
<1>2. backupJob \in JobRecord
  BY DEF BackupInv, BackupTypes
<1>3. PICK ok \in BOOLEAN :
        /\ Backup!StepTo("bundle", ok)
        /\ exported' = IF ok /\ ~backupJob.skipAudit THEN exported \cup {t} ELSE exported
  BY <1>2 DEF Backup!ExportAudit, JobRecord
<1>4. /\ backupJob' \in JobRecord /\ backupJob'.pc = "bundle" /\ backupJob'.slot = t
      /\ backupJob'.ok = (backupJob.ok /\ ok) /\ t \in Slots
      /\ backupJob'.skipDrill = backupJob.skipDrill /\ backupJob'.skipAudit = backupJob.skipAudit
  BY <1>3, JobGoesOn DEF JobPlaces
<1>5. FilesGrow
  BY <1>1, <1>3 DEF FilesGrow
<1>6. BackupTypes'
  BY <1>1, <1>3, <1>4 DEF BackupInv, BackupTypes
<1>7. DrillSound' /\ ManifestSound'
  BY <1>1, <1>5 DEF BackupInv, DrillSound, ManifestSound, FilesGrow
<1>8. BackupJobSound'
  BY <1>1, <1>3, <1>4 DEF BackupInv, BackupJobSound
<1>9. LatestSound' /\ RestoreSound' /\ RecoverySound'
  BY <1>1, <1>5, ReportsKeep
<1>10. QED
  BY <1>6, <1>7, <1>8, <1>9 DEF BackupInv

\* The manifest of a job whose steps all succeeded.
LEMMA BackupBundle ==
  ASSUME BackupConstants, BackupInv, Backup!Bundle
  PROVE  BackupInv'
<1> DEFINE t == backupJob.slot
           m == [rows |-> dump[t][1], damaged |-> t \in damaged, drilled |-> ~backupJob.skipDrill,
                 audited |-> ~backupJob.skipAudit, signed |-> backupJob.signed]
<1>1. /\ backupJob.pc = "bundle" /\ UNCHANGED <<dump, drill, exported, latest>>
      /\ UNCHANGED <<live, restoreRun, target, recovery, containers, evidence, damaged>>
  BY DEF Backup!Bundle
<1>2. /\ backupJob \in JobRecord /\ t \in Slots /\ live \subseteq Rows /\ damaged \subseteq Slots
      /\ dump \in [Slots -> Backup!Opt(SUBSET Rows)]
      /\ manifest \in [Slots -> Backup!Opt(Backup!ManifestRecords)]
  BY DEF BackupInv, BackupTypes, JobRecord
<1>3. manifest[t] = Backup!None
  BY <1>1 DEF BackupInv, BackupJobSound
<1>4. CASE /\ backupJob.ok /\ manifest' = [manifest EXCEPT ![t] = <<m>>]
           /\ Backup!StepTo("report", TRUE)
  <2>1. /\ dump[t] # Backup!None /\ (~backupJob.skipDrill => drill[t] # Backup!None)
        /\ ~backupJob.skipAudit => t \in exported
    BY <1>1, <1>4 DEF BackupInv, BackupJobSound
  <2>2. dump[t][1] \in SUBSET Rows
    BY <1>2, <2>1, Optional
  <2>3. /\ m \in Backup!ManifestRecords /\ m.rows = dump[t][1] /\ (m.damaged => t \in damaged)
        /\ (m.drilled => drill[t] # Backup!None) /\ (m.audited => t \in exported)
    <3>1. /\ m.rows = dump[t][1] /\ m.damaged = (t \in damaged) /\ m.drilled = ~backupJob.skipDrill
          /\ m.audited = ~backupJob.skipAudit /\ m.signed = backupJob.signed
      OBVIOUS
    <3>2. /\ (t \in damaged) \in BOOLEAN /\ (~backupJob.skipDrill) \in BOOLEAN
          /\ (~backupJob.skipAudit) \in BOOLEAN /\ backupJob.signed \in BOOLEAN
      BY <1>2 DEF JobRecord
    <3>3. m \in Backup!ManifestRecords
      BY <2>2, <3>2, Zenon DEF Backup!ManifestRecords
    <3>4. QED
      BY <2>1, <3>1, <3>3
  <2> HIDE DEF m
  <2>4. /\ manifest' \in [Slots -> Backup!Opt(Backup!ManifestRecords)]
        /\ manifest'[t] # Backup!None /\ manifest'[t][1] = m
        /\ \A u \in Slots \ {t} : manifest'[u] = manifest[u]
    BY <1>2, <1>4, <2>3, Optional
  <2>5. /\ backupJob' \in JobRecord /\ backupJob'.pc = "report" /\ backupJob'.slot = t
        /\ backupJob'.skipDrill = backupJob.skipDrill
    BY <1>4, JobGoesOn DEF JobPlaces
  <2>6. FilesGrow
    BY <1>1, <1>3, <2>4 DEF FilesGrow
  <2>7. BackupTypes' /\ DrillSound'
    BY <1>1, <2>4, <2>5 DEF BackupInv, BackupTypes, DrillSound
  <2>8. ManifestSound'
    <3> SUFFICES ASSUME NEW u \in Slots, manifest'[u] # Backup!None
                 PROVE  /\ dump[u] # Backup!None /\ manifest'[u][1].rows = dump[u][1]
                        /\ manifest'[u][1].damaged => u \in damaged
                        /\ manifest'[u][1].drilled => drill[u] # Backup!None
                        /\ manifest'[u][1].audited => u \in exported
      BY <1>1 DEF ManifestSound
    <3>1. CASE u = t
      BY <2>1, <2>3, <2>4, <3>1
    <3>2. CASE u # t
      BY <2>4, <3>2 DEF BackupInv, ManifestSound
    <3>3. QED
      BY <3>1, <3>2
  <2>9. BackupJobSound'
    BY <1>1, <2>1, <2>4, <2>5 DEF BackupJobSound
  <2>10. LatestSound' /\ RestoreSound' /\ RecoverySound'
    BY <1>1, <2>6, ReportsKeep
  <2>11. QED
    BY <2>7, <2>8, <2>9, <2>10 DEF BackupInv
<1>5. CASE Backup!StepTo("report", FALSE) /\ UNCHANGED manifest
  <2>1. backupJob' \in JobRecord /\ backupJob'.pc = "report" /\ backupJob'.slot = t /\ ~backupJob'.ok
    BY <1>5, JobGoesOn DEF JobPlaces
  <2>2. BackupJobSound'
    BY <2>1 DEF BackupJobSound
  <2>3. QED
    BY <1>1, <1>2, <1>5, <2>1, <2>2, BackupNoFile
<1>6. QED
  BY <1>4, <1>5 DEF Backup!Bundle, Backup!MayBundle

LEMMA BackupReport ==
  ASSUME BackupConstants, BackupInv, Backup!WriteReport
  PROVE  BackupInv'
<1> DEFINE row == [slot |-> backupJob.slot, ok |-> backupJob.ok, drillRequired |-> ~backupJob.skipDrill]
<1>1. /\ backupJob.pc = "report" /\ latest' = <<row>> /\ backupJob' = Backup!NoJob
      /\ UNCHANGED <<dump, drill, exported, manifest>>
      /\ UNCHANGED <<live, restoreRun, target, recovery, containers, evidence, damaged>>
  BY DEF Backup!WriteReport
<1>2. backupJob' \in JobRecord /\ backupJob'.pc = "idle" /\ backupJob \in JobRecord
  BY <1>1, NoJobYet DEF BackupInv, BackupTypes
<1>3. /\ row \in [slot : Slots, ok : BOOLEAN, drillRequired : BOOLEAN] /\ row.slot = backupJob.slot
      /\ row.ok = backupJob.ok /\ row.drillRequired = ~backupJob.skipDrill
  BY <1>2 DEF JobRecord
<1> HIDE DEF row
<1>4. latest' \in Backup!Opt([slot : Slots, ok : BOOLEAN, drillRequired : BOOLEAN]) /\ latest'[1] = row
  BY <1>1, <1>3, Optional
<1>5. FilesGrow
  BY <1>1 DEF FilesGrow
<1>6. BackupTypes' /\ DrillSound' /\ ManifestSound' /\ BackupJobSound'
  BY <1>1, <1>2, <1>4 DEF BackupInv, BackupTypes, DrillSound, ManifestSound, BackupJobSound
<1>7. LatestSound'
  BY <1>1, <1>3, <1>4 DEF BackupInv, BackupJobSound, LatestSound
<1>8. RestoreSound' /\ RecoverySound'
  BY <1>1, <1>5, ReportsKeep
<1>9. QED
  BY <1>6, <1>7, <1>8 DEF BackupInv

\* A restore or a recovery drill leaves the files and the job alone.
LEMMA FilesStay ==
  ASSUME BackupInv, UNCHANGED <<live, dump, drill, exported, manifest, latest, damaged, backupJob>>
  PROVE  FilesGrow /\ DrillSound' /\ ManifestSound' /\ BackupJobSound' /\ LatestSound'
<1>1. FilesGrow
  BY DEF FilesGrow
<1>2. DrillSound' /\ ManifestSound' /\ BackupJobSound'
  BY DEF BackupInv, DrillSound, ManifestSound, BackupJobSound
<1>3. QED
  BY <1>1, <1>2, ReportsKeep

\* restore.py
LEMMA BackupRestore ==
  ASSUME BackupConstants, BackupInv,
         \/ \E t \in Slots, required \in BOOLEAN : Backup!RestoreStart(t, required)
         \/ Backup!RestoreDecrypt \/ Backup!RestoreLoad
  PROVE  BackupInv'
<1>1. /\ UNCHANGED <<live, dump, drill, exported, manifest, latest, damaged, backupJob>>
      /\ UNCHANGED <<recovery, containers, evidence>>
  BY DEF Backup!RestoreStart, Backup!RestoreDecrypt, Backup!RestoreLoad, Backup!files
<1>2. FilesGrow /\ DrillSound' /\ ManifestSound' /\ BackupJobSound' /\ LatestSound'
  BY <1>1, FilesStay
<1>3. RecoverySound'
  BY <1>1, <1>2, ReportsKeep
<1>4. restoreRun \in RestoreRecord /\ target \in TargetRecord /\ dump \in [Slots -> Backup!Opt(SUBSET Rows)]
  BY DEF BackupInv, BackupTypes
<1>5. Backup!NoRestore \in RestoreRecord /\ Backup!NoRestore.pc = "idle"
  BY NoJobYet DEF Backup!NoRestore, RestoreRecord
<1>6. RestoreSound
  BY DEF BackupInv
<1>7. restoreRun' \in RestoreRecord /\ target' \in TargetRecord /\ RestoreSound'
  <2>1. ASSUME NEW t \in Slots, NEW required \in BOOLEAN, Backup!RestoreStart(t, required)
        PROVE  restoreRun' \in RestoreRecord /\ target' \in TargetRecord /\ RestoreSound'
    <3>1. /\ dump[t] # Backup!None /\ target' = target /\ target = Backup!OldTarget
          /\ required => Signed(t)
          /\ restoreRun' = [pc |-> "decrypt", slot |-> t, required |-> required]
      BY <2>1 DEF Backup!RestoreStart, Backup!Unattended, Backup!Authorized, Backup!BundleVerifies, Signed
    <3>2. /\ restoreRun' \in RestoreRecord /\ restoreRun'.pc = "decrypt" /\ restoreRun'.slot = t
          /\ restoreRun'.required = required
      BY <3>1 DEF RestoreRecord
    <3>3. target.state = "old"
      BY <3>1 DEF Backup!OldTarget
    <3>4. QED
      BY <1>1, <1>4, <3>1, <3>2, <3>3 DEF RestoreSound, Signed
  <2>2. ASSUME Backup!RestoreDecrypt, Backup!Decrypts(restoreRun.slot)
        PROVE  restoreRun' \in RestoreRecord /\ target' \in TargetRecord /\ RestoreSound'
    <3>1. /\ restoreRun.pc = "decrypt" /\ restoreRun' = [restoreRun EXCEPT !.pc = "load"]
          /\ target' = [state |-> "partial", slot |-> restoreRun.slot,
                        required |-> restoreRun.required, rows |-> {}]
      BY <2>2 DEF Backup!RestoreDecrypt
    <3>2. /\ restoreRun' \in RestoreRecord /\ restoreRun'.pc = "load"
          /\ restoreRun'.slot = restoreRun.slot /\ restoreRun'.required = restoreRun.required
      BY <1>4, <3>1 DEF RestoreRecord
    <3>3. /\ target' \in TargetRecord /\ target'.state = "partial" /\ target'.slot = restoreRun.slot
          /\ target'.required = restoreRun.required
      BY <1>4, <3>1 DEF TargetRecord, RestoreRecord
    <3>4. QED
      BY <1>1, <1>6, <3>1, <3>2, <3>3 DEF RestoreSound, Signed
  <2>3. ASSUME Backup!RestoreDecrypt, ~Backup!Decrypts(restoreRun.slot)
        PROVE  restoreRun' \in RestoreRecord /\ target' \in TargetRecord /\ RestoreSound'
    <3>1. restoreRun' = Backup!NoRestore /\ target' = target
      BY <2>3 DEF Backup!RestoreDecrypt
    <3>2. QED
      BY <1>1, <1>4, <1>5, <1>6, <3>1 DEF RestoreSound, Signed
  <2>4. ASSUME Backup!RestoreLoad
        PROVE  restoreRun' \in RestoreRecord /\ target' \in TargetRecord /\ RestoreSound'
    <3>1. /\ restoreRun.pc = "load" /\ restoreRun' = Backup!NoRestore
          /\ \/ target' = target
             \/ target' = [target EXCEPT !.state = "restored", !.rows = dump[target.slot][1]]
      BY <2>4 DEF Backup!RestoreLoad
    <3>2. target.slot \in Slots /\ dump[target.slot] # Backup!None /\ target.state = "partial"
      BY <1>4, <1>6, <3>1 DEF RestoreSound, TargetRecord
    <3>3. dump[target.slot] = <<dump[target.slot][1]>> /\ dump[target.slot][1] \in SUBSET Rows
      BY <1>4, <3>2, Optional
    <3>4. CASE target' = target
      BY <1>1, <1>4, <1>5, <1>6, <3>1, <3>4 DEF RestoreSound, Signed
    <3>5. CASE target' = [target EXCEPT !.state = "restored", !.rows = dump[target.slot][1]]
      <4>1. /\ target' \in TargetRecord /\ target'.state = "restored" /\ target'.slot = target.slot
            /\ target'.required = target.required /\ target'.rows = dump[target.slot][1]
        BY <1>4, <3>3, <3>5 DEF TargetRecord
      <4>2. QED
        BY <1>1, <1>5, <1>6, <3>1, <3>2, <3>3, <4>1 DEF RestoreSound, Signed
    <3>6. QED
      BY <3>1, <3>4, <3>5
  <2>5. QED
    BY <2>1, <2>2, <2>3, <2>4
<1>8. BackupTypes'
  BY <1>1, <1>7 DEF BackupInv, BackupTypes
<1>9. QED
  BY <1>2, <1>3, <1>7, <1>8 DEF BackupInv

\* The drill ends, with or without success: its report is written and what it
\* knows of is removed unless it was told to keep it.
LEMMA RecoveryEnds ==
  ASSUME BackupConstants, BackupInv, NEW c \in SUBSET {"postgres", "qdrant", "orphan"}, NEW ok \in BOOLEAN,
         UNCHANGED <<dump, restoreRun, target>>, recovery.pc # "idle",
         recovery' = [Backup!NoRecovery EXCEPT !.keep = recovery.keep],
         evidence' = <<[slot |-> recovery.slot, ok |-> ok]>>, containers' = Backup!Cleaned(c),
         ok => dump[recovery.slot][1] # {} /\ "orphan" \notin c
  PROVE  /\ recovery' \in RecoveryRecord /\ containers' \subseteq {"postgres", "qdrant", "orphan"}
         /\ evidence' \in Backup!Opt([slot : Slots, ok : BOOLEAN]) /\ RecoverySound'
<1>1. recovery \in RecoveryRecord /\ dump[recovery.slot] # Backup!None
  BY DEF BackupInv, BackupTypes, RecoverySound
<1>2. /\ recovery' \in RecoveryRecord /\ recovery'.pc = "idle" /\ recovery'.keep = recovery.keep
  BY <1>1, NoJobYet, FS_CardinalityType DEF Backup!NoRecovery, RecoveryRecord, BackupConstants
<1>3. PICK row : row = [slot |-> recovery.slot, ok |-> ok]
  OBVIOUS
<1>4. row \in [slot : Slots, ok : BOOLEAN] /\ row.slot = recovery.slot /\ row.ok = ok
  BY <1>1, <1>3 DEF RecoveryRecord
<1>5. evidence' \in Backup!Opt([slot : Slots, ok : BOOLEAN]) /\ evidence' # Backup!None /\ evidence'[1] = row
  BY <1>3, <1>4, Optional
<1>6. /\ containers' \subseteq c /\ (~recovery.keep => containers' \subseteq {"orphan"})
  BY DEF Backup!Cleaned
<1>7. RecoverySound'
  BY <1>1, <1>2, <1>4, <1>5, <1>6 DEF RecoverySound
<1>8. QED
  BY <1>2, <1>5, <1>6, <1>7

\* isolated_recovery_drill.py
LEMMA BackupRecovery ==
  ASSUME BackupConstants, BackupInv,
         \/ \E t \in Slots, keep \in BOOLEAN : Backup!RecoveryStart(t, keep)
         \/ Backup!RecoveryRestore \/ Backup!RecoveryQdrant \/ Backup!RecoveryProbe
         \/ Backup!RecoveryBind
  PROVE  BackupInv'
<1>1. UNCHANGED <<live, dump, drill, exported, manifest, latest, damaged, backupJob, restoreRun, target>>
  BY DEF Backup!RecoveryStart, Backup!RecoveryRestore, Backup!RecoveryQdrant, Backup!RecoveryProbe,
     Backup!RecoveryBind, Backup!files
<1>2. FilesGrow /\ DrillSound' /\ ManifestSound' /\ BackupJobSound' /\ LatestSound'
  BY <1>1, FilesStay
<1>3. RestoreSound'
  BY <1>1, <1>2, ReportsKeep
<1>4. /\ recovery \in RecoveryRecord /\ containers \subseteq {"postgres", "qdrant", "orphan"}
      /\ evidence \in Backup!Opt([slot : Slots, ok : BOOLEAN])
      /\ drill \in [Slots -> Backup!Opt(0..Cardinality(Rows))] /\ live \in SUBSET Rows
  BY DEF BackupInv, BackupTypes
<1>5. RecoverySound
  BY DEF BackupInv
<1> DEFINE Good == /\ recovery' \in RecoveryRecord /\ containers' \subseteq {"postgres", "qdrant", "orphan"}
                   /\ evidence' \in Backup!Opt([slot : Slots, ok : BOOLEAN]) /\ RecoverySound'
<1>6. ASSUME recovery.pc # "idle", NEW c \in SUBSET {"postgres", "qdrant", "orphan"}, Backup!RecoveryFails(c)
      PROVE  Good
  BY <1>1, <1>6, RecoveryEnds DEF Backup!RecoveryFails
\* The drill goes on.
<1>7. ASSUME recovery.pc # "idle", evidence' = evidence, containers' \subseteq containers \cup {"postgres", "qdrant"},
             NEW place \in {"qdrant", "probe", "bind"}, recovery' = [recovery EXCEPT !.pc = place],
             place = "bind" => dump[recovery.slot][1] # {}
      PROVE  Good
  <2>1. recovery' \in RecoveryRecord /\ recovery'.pc = place /\ recovery'.slot = recovery.slot
    BY <1>4, <1>7 DEF RecoveryRecord
  <2>2. evidence = Backup!None /\ dump[recovery.slot] # Backup!None /\ "orphan" \notin containers
    BY <1>5, <1>7 DEF RecoverySound
  <2>3. RecoverySound'
    BY <1>1, <1>7, <2>1, <2>2 DEF RecoverySound
  <2>4. QED
    BY <1>4, <1>7, <2>1, <2>3
<1>8. ASSUME NEW t \in Slots, NEW keep \in BOOLEAN, Backup!RecoveryStart(t, keep)
      PROVE  Good
  <2>1. /\ dump[t] # Backup!None /\ evidence = Backup!None /\ UNCHANGED <<containers, evidence>>
        /\ recovery' = [pc |-> "restore", slot |-> t, keep |-> keep,
                        expected |-> IF drill[t] # Backup!None THEN drill[t][1] ELSE Cardinality(live)]
    BY <1>8, SameLength DEF Backup!RecoveryStart, Backup!Unattended
  <2>2. PICK n : n = IF drill[t] # Backup!None THEN drill[t][1] ELSE Cardinality(live)
    OBVIOUS
  <2>3. n \in 0..Cardinality(Rows)
    BY <1>4, <2>2, Optional, CountRows
  <2>4. recovery' \in RecoveryRecord /\ recovery'.pc = "restore" /\ recovery'.slot = t
    BY <2>1, <2>2, <2>3 DEF RecoveryRecord
  <2>5. "orphan" \notin containers
    BY <1>5, <2>1 DEF RecoverySound
  <2>6. RecoverySound'
    BY <1>1, <2>1, <2>4, <2>5 DEF RecoverySound
  <2>7. QED
    BY <1>4, <2>1, <2>4, <2>6
<1>9. Backup!RecoveryRestore => Good
  <2> SUFFICES ASSUME Backup!RecoveryRestore
               PROVE  Good
    OBVIOUS
  <2> HIDE DEF Good
  <2>1. recovery.pc = "restore"
    BY DEF Backup!RecoveryRestore
  <2>2. CASE \E c \in {containers, containers \cup {"orphan"}} : Backup!RecoveryFails(c)
    BY <1>4, <1>6, <2>1, <2>2
  <2>3. CASE /\ recovery' = [recovery EXCEPT !.pc = "qdrant"] /\ UNCHANGED evidence
             /\ containers' = containers \cup {"postgres"}
    BY <1>7, <2>1, <2>3
  <2>4. QED
    BY <2>2, <2>3 DEF Backup!RecoveryRestore
<1>10. Backup!RecoveryQdrant => Good
  <2> SUFFICES ASSUME Backup!RecoveryQdrant
               PROVE  Good
    OBVIOUS
  <2> HIDE DEF Good
  <2>1. recovery.pc = "qdrant"
    BY DEF Backup!RecoveryQdrant
  <2>2. CASE \E c \in {containers, containers \cup {"qdrant"}} : Backup!RecoveryFails(c)
    BY <1>4, <1>6, <2>1, <2>2
  <2>3. CASE /\ recovery' = [recovery EXCEPT !.pc = "probe"] /\ UNCHANGED evidence
             /\ containers' = containers \cup {"qdrant"}
    BY <1>7, <2>1, <2>3
  <2>4. QED
    BY <2>2, <2>3 DEF Backup!RecoveryQdrant
<1>11. Backup!RecoveryProbe => Good
  <2> SUFFICES ASSUME Backup!RecoveryProbe
               PROVE  Good
    OBVIOUS
  <2> HIDE DEF Good
  <2>1. recovery.pc = "probe"
    BY DEF Backup!RecoveryProbe
  <2>2. CASE Backup!RecoveryFails(containers)
    BY <1>4, <1>6, <2>1, <2>2
  <2>3. CASE /\ recovery' = [recovery EXCEPT !.pc = "bind"] /\ UNCHANGED <<containers, evidence>>
             /\ dump[recovery.slot][1] # {}
    BY <1>7, <2>1, <2>3
  <2>4. QED
    BY <2>2, <2>3 DEF Backup!RecoveryProbe
<1>12. Backup!RecoveryBind => Good
  <2> SUFFICES ASSUME Backup!RecoveryBind
               PROVE  Good
    OBVIOUS
  <2>1. recovery.pc = "bind" /\ dump[recovery.slot][1] # {} /\ "orphan" \notin containers
    BY <1>5 DEF Backup!RecoveryBind, RecoverySound
  <2>2. CASE Backup!RecoveryFails(containers)
    <3> HIDE DEF Good
    <3>1. QED
      BY <1>4, <1>6, <2>1, <2>2
  <2>3. CASE /\ recovery' = [Backup!NoRecovery EXCEPT !.keep = recovery.keep]
             /\ evidence' = <<[slot |-> recovery.slot, ok |-> TRUE]>>
             /\ containers' = Backup!Cleaned(containers)
    BY <1>1, <1>4, <2>1, <2>3, RecoveryEnds
  <2>4. QED
    BY <2>2, <2>3 DEF Backup!RecoveryBind
<1>13. Good
  BY <1>8, <1>9, <1>10, <1>11, <1>12
<1>14. BackupTypes'
  BY <1>1, <1>13 DEF BackupInv, BackupTypes
<1>15. QED
  BY <1>2, <1>3, <1>13, <1>14 DEF BackupInv

LEMMA BackupStep ==
  ASSUME BackupConstants, BackupInv, [Backup!Next]_(Backup!vars)
  PROVE  BackupInv'
<1>1. CASE Backup!Next
  BY <1>1, BackupChange, BackupDamage, BackupBegin, BackupDump, BackupEncrypt, BackupDrill,
     BackupExportAudit, BackupBundle, BackupReport, BackupJobDies, BackupRestore, BackupRecovery
  DEF Backup!Next
<1>2. CASE UNCHANGED Backup!vars
  <2>1. /\ UNCHANGED <<live, dump, drill, exported, manifest, latest, damaged, backupJob, restoreRun, target>>
        /\ UNCHANGED <<recovery, containers, evidence>>
    BY <1>2 DEF Backup!vars
  <2>2. BackupTypes'
    BY <2>1 DEF BackupInv, BackupTypes
  <2>3. QED
    BY <2>1, <2>2, FilesStay, ReportsKeep DEF BackupInv
<1>3. QED
  BY <1>1, <1>2

LEMMA BackupInit ==
  ASSUME BackupConstants, Backup!Init
  PROVE  BackupInv
<1>1. /\ live = {} /\ exported = {} /\ damaged = {} /\ containers = {} /\ latest = Backup!None
      /\ evidence = Backup!None /\ backupJob = Backup!NoJob /\ restoreRun = Backup!NoRestore
      /\ target = Backup!OldTarget /\ recovery = Backup!NoRecovery
      /\ dump = [t \in Slots |-> Backup!None] /\ drill = dump /\ manifest = dump
  BY DEF Backup!Init
<1>2. backupJob \in JobRecord /\ backupJob.pc = "idle"
  BY <1>1, NoJobYet
<1>3. /\ restoreRun \in RestoreRecord /\ target \in TargetRecord /\ recovery \in RecoveryRecord
      /\ restoreRun.pc = "idle" /\ target.state = "old" /\ recovery.pc = "idle"
  BY <1>1, NoJobYet, FS_CardinalityType DEF Backup!NoRestore, Backup!OldTarget, Backup!NoRecovery,
     RestoreRecord, TargetRecord, RecoveryRecord, BackupConstants
<1>4. BackupTypes
  BY <1>1, <1>2, <1>3, Optional DEF BackupTypes
<1>5. DrillSound /\ ManifestSound /\ BackupJobSound /\ LatestSound /\ RestoreSound /\ RecoverySound
  BY <1>1, <1>2, <1>3 DEF DrillSound, ManifestSound, BackupJobSound, LatestSound, RestoreSound, RecoverySound
<1>6. QED
  BY <1>4, <1>5 DEF BackupInv

\* The files of a slot agree unless the artifact was damaged, and a good history is
\* of drilled and audited bundles.
LEMMA HistoryHonest ==
  ASSUME BackupInv, Backup!HistoryOk(FALSE)
  PROVE  /\ Cardinality(Backup!Retained) >= MinRuns
         /\ \A t \in Backup!Retained : /\ Backup!Decrypts(t) \/ manifest[t][1].damaged
                                       /\ drill[t] # Backup!None /\ t \in exported
<1> DEFINE valid == {t \in Backup!Retained : Backup!RunValid(t, FALSE)}
<1>1. Cardinality(valid) >= MinRuns /\ valid = Backup!Retained
  BY SameLength DEF Backup!HistoryOk
<1>2. \A t \in Backup!Retained : Backup!RunValid(t, FALSE)
  BY <1>1
<1>3. \A t \in Backup!Retained : t \in Slots /\ manifest[t] # Backup!None
  BY DEF Backup!Retained
<1>4. QED
  BY <1>1, <1>2, <1>3 DEF Backup!RunValid, Backup!BundleVerifies, Backup!Decrypts, BackupInv, ManifestSound

\* Reports, the history verdict, a restore that requires a signature and recovery
\* evidence mean what they say (_verify_row_parity, verify_backup_history.py,
\* restore.py, isolated_recovery_drill.py), for any rows, slots and number of runs.
THEOREM BackupsAreHonest ==
  BackupConstants => (Backup!Spec => [](Backup!TypeOK /\ Backup!BackupHonest))
<1> SUFFICES ASSUME BackupConstants
             PROVE  Backup!Spec => [](Backup!TypeOK /\ Backup!BackupHonest)
  OBVIOUS
<1>1. Backup!Init => BackupInv
  BY BackupInit
<1>2. BackupInv /\ [Backup!Next]_(Backup!vars) => BackupInv'
  BY BackupStep
<1>3. BackupInv => Backup!TypeOK
  <2>1. Backup!Counts = 0..Cardinality(Rows)
    BY SameLength DEF Backup!Counts
  <2>2. QED
    BY <2>1 DEF BackupInv, BackupTypes, Backup!TypeOK, JobRecord, JobPlaces, RestoreRecord, TargetRecord,
       RecoveryRecord
<1>4. BackupInv => Backup!BackupHonest
  <2> SUFFICES ASSUME BackupInv
               PROVE  Backup!BackupHonest
    OBVIOUS
  <2>1. \A t \in Slots : drill[t] # Backup!None =>
          dump[t] # Backup!None /\ drill[t][1] = Backup!Cardinality(dump[t][1])
    BY SameLength DEF BackupInv, DrillSound
  <2>2. ASSUME latest # Backup!None, latest[1].ok
        PROVE  /\ manifest[latest[1].slot] # Backup!None
               /\ latest[1].drillRequired => drill[latest[1].slot] # Backup!None
               /\ latest[1].slot \notin damaged => Backup!BundleVerifies(latest[1].slot)
    <3> DEFINE t == latest[1].slot
    <3>1. t \in Slots
      BY <2>2, Optional DEF BackupInv, BackupTypes
    <3>2. manifest[t] # Backup!None /\ (latest[1].drillRequired => drill[t] # Backup!None)
      BY <2>2 DEF BackupInv, LatestSound
    <3>3. manifest[t][1].damaged \in BOOLEAN
      BY <3>1, <3>2, Optional DEF BackupInv, BackupTypes, Backup!ManifestRecords
    <3>4. QED
      BY <3>1, <3>2, <3>3 DEF BackupInv, ManifestSound, Backup!BundleVerifies
  <2>3. Backup!HistoryOk(FALSE) =>
          /\ Backup!Cardinality(Backup!Retained) >= MinRuns
          /\ \A t \in Backup!Retained : /\ Backup!Decrypts(t) \/ manifest[t][1].damaged
                                        /\ drill[t] # Backup!None /\ t \in exported
    BY HistoryHonest, SameLength
  <2>4. /\ target.state # "old" /\ target.required => Signed(target.slot)
        /\ target.state = "restored" => dump[target.slot] = <<target.rows>>
    BY DEF BackupInv, RestoreSound
  <2>5. RecoverySound
    BY DEF BackupInv
  <2>6. QED
    BY <2>1, <2>2, <2>3, <2>4, <2>5 DEF Backup!BackupHonest, RecoverySound, Signed
<1>5. QED
  BY <1>1, <1>2, <1>3, <1>4, PTL DEF Backup!Spec

-----------------------------------------------------------------------------
(* Release evidence.  A verdict is final, so what it says has to follow    *)
(* from what the verifier sees: the steps of every script, what the        *)
(* verifier demands of it, and the reads of the sealing.                   *)

Clean == [failed |-> {}, skipped |-> {}]

\* The reports, by the group of the verifier's functions that reads them.
LEMMA ReportNames ==
  /\ DOMAIN Release!EvaluatorDemands = {"agent_soak", "memory_llm", "conversation_pipeline", "embedding"}
  /\ DOMAIN Release!OperationsDemands = {"metrics_health", "ops_schedule", "observability", "load_smoke"}
  /\ DOMAIN Release!RecordDemands = {"release_notes", "scheduled_backup", "restore_recovery", "branch_protection"}
  /\ DOMAIN Release!BoundaryDemands =
       {"audit_retention", "vault_import", "deployment_preflight", "secret_files", "ui_walkthrough"}
  /\ DOMAIN Release!Steps =
       {"agent_soak", "conversation_pipeline", "load_smoke", "ui_walkthrough", "embedding", "memory_llm",
        "metrics_health", "ops_schedule", "observability", "release_notes", "scheduled_backup",
        "restore_recovery", "audit_retention", "vault_import", "deployment_preflight", "secret_files",
        "branch_protection"}
<1>1. DOMAIN Release!EvaluatorDemands = {"agent_soak", "memory_llm", "conversation_pipeline", "embedding"}
  BY DEF Release!EvaluatorDemands
<1>2. DOMAIN Release!OperationsDemands = {"metrics_health", "ops_schedule", "observability", "load_smoke"}
  BY DEF Release!OperationsDemands
<1>3. DOMAIN Release!RecordDemands = {"release_notes", "scheduled_backup", "restore_recovery", "branch_protection"}
  BY DEF Release!RecordDemands
<1>4. DOMAIN Release!BoundaryDemands =
        {"audit_retention", "vault_import", "deployment_preflight", "secret_files", "ui_walkthrough"}
  BY DEF Release!BoundaryDemands
<1>5. DOMAIN Release!Steps =
        {"agent_soak", "conversation_pipeline", "load_smoke", "ui_walkthrough", "embedding", "memory_llm",
         "metrics_health", "ops_schedule", "observability", "release_notes", "scheduled_backup",
         "restore_recovery", "audit_retention", "vault_import", "deployment_preflight", "secret_files",
         "branch_protection"}
  BY DEF Release!Steps
<1>6. QED
  BY <1>1, <1>2, <1>3, <1>4, <1>5

LEMMA DemandsByGroup ==
  /\ \A a \in DOMAIN Release!EvaluatorDemands : Release!Demands[a] = Release!EvaluatorDemands[a]
  /\ \A a \in DOMAIN Release!OperationsDemands : Release!Demands[a] = Release!OperationsDemands[a]
  /\ \A a \in DOMAIN Release!RecordDemands : Release!Demands[a] = Release!RecordDemands[a]
  /\ \A a \in DOMAIN Release!BoundaryDemands : Release!Demands[a] = Release!BoundaryDemands[a]
<1>1. \A a \in DOMAIN Release!Steps :
        Release!Demands[a] =
          CASE a \in DOMAIN Release!EvaluatorDemands -> Release!EvaluatorDemands[a]
            [] a \in DOMAIN Release!OperationsDemands -> Release!OperationsDemands[a]
            [] a \in DOMAIN Release!RecordDemands -> Release!RecordDemands[a]
            [] a \in DOMAIN Release!BoundaryDemands -> Release!BoundaryDemands[a]
  BY DEF Release!Demands
<1>2. /\ DOMAIN Release!EvaluatorDemands \subseteq DOMAIN Release!Steps
      /\ DOMAIN Release!OperationsDemands \subseteq DOMAIN Release!Steps
      /\ DOMAIN Release!RecordDemands \subseteq DOMAIN Release!Steps
      /\ DOMAIN Release!BoundaryDemands \subseteq DOMAIN Release!Steps
  BY ReportNames
<1>3. /\ DOMAIN Release!EvaluatorDemands \cap DOMAIN Release!OperationsDemands = {}
      /\ DOMAIN Release!EvaluatorDemands \cap DOMAIN Release!RecordDemands = {}
      /\ DOMAIN Release!EvaluatorDemands \cap DOMAIN Release!BoundaryDemands = {}
      /\ DOMAIN Release!OperationsDemands \cap DOMAIN Release!RecordDemands = {}
      /\ DOMAIN Release!OperationsDemands \cap DOMAIN Release!BoundaryDemands = {}
      /\ DOMAIN Release!RecordDemands \cap DOMAIN Release!BoundaryDemands = {}
  BY ReportNames
<1>4. \A a \in DOMAIN Release!EvaluatorDemands : Release!Demands[a] = Release!EvaluatorDemands[a]
  BY <1>1, <1>2, <1>3
<1>5. \A a \in DOMAIN Release!OperationsDemands : Release!Demands[a] = Release!OperationsDemands[a]
  BY <1>1, <1>2, <1>3
<1>6. \A a \in DOMAIN Release!RecordDemands : Release!Demands[a] = Release!RecordDemands[a]
  BY <1>1, <1>2, <1>3
<1>7. \A a \in DOMAIN Release!BoundaryDemands : Release!Demands[a] = Release!BoundaryDemands[a]
  BY <1>1, <1>2, <1>3
<1>8. QED
  BY <1>4, <1>5, <1>6, <1>7

\* What the verifier demands of a script, the script lists when nothing goes wrong.
LEMMA EvaluatorsListed ==
  \A a \in DOMAIN Release!EvaluatorDemands \ {"conversation_pipeline"} : Release!Demands[a] \subseteq StepNames(a)
<1>1. /\ Release!Steps["agent_soak"] = Release!SoakSteps
      /\ Release!Steps["memory_llm"] = Release!LlmSteps
      /\ Release!Steps["embedding"] = Release!EmbeddingSteps
  BY DEF Release!Steps
<1>2. Release!EvaluatorDemands["agent_soak"] \subseteq StepNames("agent_soak")
  BY <1>1 DEF Release!EvaluatorDemands, Release!SoakSteps, StepNames
<1>3. Release!EvaluatorDemands["memory_llm"] \subseteq StepNames("memory_llm")
  BY <1>1 DEF Release!EvaluatorDemands, Release!LlmSteps, StepNames
<1>4. Release!EvaluatorDemands["embedding"] \subseteq StepNames("embedding")
  BY <1>1 DEF Release!EvaluatorDemands, Release!EmbeddingSteps, StepNames
<1>5. QED
  BY <1>2, <1>3, <1>4, ReportNames, DemandsByGroup

LEMMA OperationsListed ==
  \A a \in DOMAIN Release!OperationsDemands : Release!Demands[a] \subseteq StepNames(a)
<1>1. /\ Release!Steps["metrics_health"] = Release!MetricsSteps
      /\ Release!Steps["ops_schedule"] = Release!ScheduleSteps
      /\ Release!Steps["observability"] = Release!ObservabilitySteps
      /\ Release!Steps["load_smoke"] = Release!LoadSteps
  BY DEF Release!Steps
<1>2. Release!OperationsDemands["metrics_health"] \subseteq StepNames("metrics_health")
  BY <1>1 DEF Release!OperationsDemands, Release!MetricsSteps, StepNames
<1>3. Release!OperationsDemands["ops_schedule"] \subseteq StepNames("ops_schedule")
  BY <1>1 DEF Release!OperationsDemands, Release!ScheduleSteps, StepNames
<1>4. Release!OperationsDemands["observability"] \subseteq StepNames("observability")
  BY <1>1 DEF Release!OperationsDemands, Release!ObservabilitySteps, StepNames
<1>5. Release!OperationsDemands["load_smoke"] \subseteq StepNames("load_smoke")
  BY <1>1 DEF Release!OperationsDemands, Release!LoadSteps, StepNames
<1>6. QED
  BY <1>2, <1>3, <1>4, <1>5, ReportNames, DemandsByGroup

LEMMA RecordListed ==
  \A a \in DOMAIN Release!RecordDemands : Release!Demands[a] \subseteq StepNames(a)
<1>1. /\ Release!Steps["release_notes"] = Release!NotesSteps
      /\ Release!Steps["scheduled_backup"] = Release!BackupSteps
      /\ Release!Steps["restore_recovery"] = Release!RecoverySteps
      /\ Release!Steps["branch_protection"] = Release!BranchSteps
  BY DEF Release!Steps
<1>2. Release!RecordDemands["release_notes"] \subseteq StepNames("release_notes")
  BY <1>1 DEF Release!RecordDemands, Release!NotesSteps, StepNames
<1>3. Release!RecordDemands["scheduled_backup"] \subseteq StepNames("scheduled_backup")
  BY <1>1 DEF Release!RecordDemands, Release!BackupSteps, StepNames
<1>4. Release!RecordDemands["restore_recovery"] \subseteq StepNames("restore_recovery")
  BY <1>1 DEF Release!RecordDemands, Release!RecoverySteps, StepNames
<1>5. Release!RecordDemands["branch_protection"] \subseteq StepNames("branch_protection")
  BY <1>1 DEF Release!RecordDemands, Release!BranchSteps, StepNames
<1>6. QED
  BY <1>2, <1>3, <1>4, <1>5, ReportNames, DemandsByGroup

LEMMA BoundaryListed ==
  \A a \in DOMAIN Release!BoundaryDemands : Release!Demands[a] \subseteq StepNames(a)
<1>1. /\ Release!Steps["audit_retention"] = Release!RetentionSteps
      /\ Release!Steps["vault_import"] = Release!ImportSteps
      /\ Release!Steps["deployment_preflight"] = Release!BoundarySteps
      /\ Release!Steps["secret_files"] = Release!SecretSteps
      /\ Release!Steps["ui_walkthrough"] = Release!WalkthroughSteps
  BY DEF Release!Steps
<1>2. Release!BoundaryDemands["audit_retention"] \subseteq StepNames("audit_retention")
  BY <1>1 DEF Release!BoundaryDemands, Release!RetentionSteps, StepNames
<1>3. Release!BoundaryDemands["vault_import"] \subseteq StepNames("vault_import")
  BY <1>1 DEF Release!BoundaryDemands, Release!ImportSteps, StepNames
<1>4. Release!BoundaryDemands["deployment_preflight"] \subseteq StepNames("deployment_preflight")
  BY <1>1 DEF Release!BoundaryDemands, Release!BoundarySteps, StepNames
<1>5. Release!BoundaryDemands["secret_files"] \subseteq StepNames("secret_files")
  BY <1>1 DEF Release!BoundaryDemands, Release!SecretSteps, StepNames
<1>6. Release!BoundaryDemands["ui_walkthrough"] \subseteq StepNames("ui_walkthrough")
  BY <1>1 DEF Release!BoundaryDemands, Release!WalkthroughSteps, StepNames
<1>7. QED
  BY <1>2, <1>3, <1>4, <1>5, <1>6, ReportNames, DemandsByGroup

LEMMA DemandsListed ==
  \A a \in DOMAIN Release!Steps \ {"conversation_pipeline"} : Release!Demands[a] \subseteq StepNames(a)
<1>1. DOMAIN Release!Steps \ {"conversation_pipeline"} \subseteq
        (DOMAIN Release!EvaluatorDemands \ {"conversation_pipeline"}) \cup DOMAIN Release!OperationsDemands
          \cup DOMAIN Release!RecordDemands \cup DOMAIN Release!BoundaryDemands
  BY ReportNames
<1>2. QED
  BY <1>1, EvaluatorsListed, OperationsListed, RecordListed, BoundaryListed

\* Of the live evaluators only the soak has a check the verifier does not ask for.
LEMMA LiveAllDemanded ==
  \A a \in Release!LiveReports \ {"conversation_pipeline"} :
     a \in DOMAIN Release!Steps /\ StepNames(a) \subseteq Release!Demands[a] \cup {"auth-required"}
<1>1. /\ Release!Demands["agent_soak"] = Release!EvaluatorDemands["agent_soak"]
      /\ Release!Demands["load_smoke"] = Release!OperationsDemands["load_smoke"]
      /\ Release!Demands["ui_walkthrough"] = Release!BoundaryDemands["ui_walkthrough"]
  BY ReportNames, DemandsByGroup
<1>2. /\ Release!Steps["agent_soak"] = Release!SoakSteps /\ Release!Steps["load_smoke"] = Release!LoadSteps
      /\ Release!Steps["ui_walkthrough"] = Release!WalkthroughSteps
  BY DEF Release!Steps
<1>3. StepNames("agent_soak") \subseteq Release!EvaluatorDemands["agent_soak"] \cup {"auth-required"}
  BY <1>2 DEF StepNames, Release!SoakSteps, Release!EvaluatorDemands
<1>4. StepNames("load_smoke") \subseteq Release!OperationsDemands["load_smoke"]
  BY <1>2 DEF StepNames, Release!LoadSteps, Release!OperationsDemands
<1>5. StepNames("ui_walkthrough") \subseteq Release!BoundaryDemands["ui_walkthrough"]
  BY <1>2 DEF StepNames, Release!WalkthroughSteps, Release!BoundaryDemands
<1>6. Release!LiveReports \ {"conversation_pipeline"} = {"agent_soak", "load_smoke", "ui_walkthrough"}
  BY DEF Release!LiveReports
<1>7. QED
  BY <1>1, <1>3, <1>4, <1>5, <1>6, ReportNames

\* The checks of a script are numbered from 1.
LEMMA StepsNumbered == \A a \in DOMAIN Release!Steps : \E n \in Nat : DOMAIN Release!Steps[a] = 1 .. n
<1>1. DOMAIN Release!SoakSteps = 1 .. 6
  BY DEF Release!SoakSteps
<1>2. DOMAIN Release!PipelineSteps = 1 .. 9
  BY DEF Release!PipelineSteps
<1>3. DOMAIN Release!LoadSteps = 1 .. 7
  BY DEF Release!LoadSteps
<1>4. DOMAIN Release!WalkthroughSteps = 1 .. 9
  BY DEF Release!WalkthroughSteps
<1>5. DOMAIN Release!EmbeddingSteps = 1 .. 6
  BY DEF Release!EmbeddingSteps
<1>6. DOMAIN Release!LlmSteps = 1 .. 2
  BY DEF Release!LlmSteps
<1>7. DOMAIN Release!MetricsSteps = 1 .. 5
  BY DEF Release!MetricsSteps
<1>8. DOMAIN Release!ScheduleSteps = 1 .. 7
  BY DEF Release!ScheduleSteps
<1>9. DOMAIN Release!ObservabilitySteps = 1 .. 5
  BY DEF Release!ObservabilitySteps
<1>10. DOMAIN Release!NotesSteps = 1 .. 2
  BY DEF Release!NotesSteps
<1>11. DOMAIN Release!BackupSteps = 1 .. 4
  BY DEF Release!BackupSteps
<1>12. DOMAIN Release!RecoverySteps = 1 .. 5
  BY DEF Release!RecoverySteps
<1>13. DOMAIN Release!RetentionSteps = 1 .. 3
  BY DEF Release!RetentionSteps
<1>14. DOMAIN Release!ImportSteps = 1 .. 3
  BY DEF Release!ImportSteps
<1>15. DOMAIN Release!BoundarySteps = 1 .. 4
  BY DEF Release!BoundarySteps
<1>16. DOMAIN Release!SecretSteps = 1 .. 4
  BY DEF Release!SecretSteps
<1>17. DOMAIN Release!BranchSteps = 1 .. 4
  BY DEF Release!BranchSteps
<1>18. /\ Release!Steps["agent_soak"] = Release!SoakSteps
       /\ Release!Steps["conversation_pipeline"] = Release!PipelineSteps
       /\ Release!Steps["load_smoke"] = Release!LoadSteps
       /\ Release!Steps["ui_walkthrough"] = Release!WalkthroughSteps
       /\ Release!Steps["embedding"] = Release!EmbeddingSteps
       /\ Release!Steps["memory_llm"] = Release!LlmSteps
       /\ Release!Steps["metrics_health"] = Release!MetricsSteps
       /\ Release!Steps["ops_schedule"] = Release!ScheduleSteps
       /\ Release!Steps["observability"] = Release!ObservabilitySteps
       /\ Release!Steps["release_notes"] = Release!NotesSteps
       /\ Release!Steps["scheduled_backup"] = Release!BackupSteps
       /\ Release!Steps["restore_recovery"] = Release!RecoverySteps
       /\ Release!Steps["audit_retention"] = Release!RetentionSteps
       /\ Release!Steps["vault_import"] = Release!ImportSteps
       /\ Release!Steps["deployment_preflight"] = Release!BoundarySteps
       /\ Release!Steps["secret_files"] = Release!SecretSteps
       /\ Release!Steps["branch_protection"] = Release!BranchSteps
  BY DEF Release!Steps
<1>19. /\ 6 \in Nat /\ 9 \in Nat /\ 7 \in Nat /\ 2 \in Nat /\ 5 \in Nat /\ 4 \in Nat /\ 3 \in Nat
  OBVIOUS
<1>20. QED
  BY <1>1, <1>2, <1>3, <1>4, <1>5, <1>6, <1>7, <1>8, <1>9,
     <1>10, <1>11, <1>12, <1>13, <1>14, <1>15, <1>16, <1>17, <1>18, <1>19, ReportNames, ZenonT(60)

\* Of the numbers of some steps one is the first.
LEMMA FirstOfNumbers ==
  ASSUME NEW n \in Nat, NEW S \in SUBSET (1 .. n), S # {}
  PROVE  \E m \in S : \A i \in S : m <= i
<1> DEFINE T == {1 .. i : i \in S}
<1>1. IsFiniteSet(1 .. n)
  BY FS_Interval
<1>2. T \subseteq FiniteSubsetsOf(1 .. n) /\ T # {}
  <2>1. ASSUME NEW i \in S PROVE 1 .. i \in FiniteSubsetsOf(1 .. n)
    <3>1. 1 .. i \subseteq 1 .. n /\ IsFiniteSet(1 .. i)
      BY FS_Interval
    <3>2. QED
      BY <3>1 DEF FiniteSubsetsOf
  <2>2. QED
    BY <2>1
<1>3. PICK x \in T : \A y \in T : <<y, x>> \notin StrictSubsetOrdering(1 .. n)
  BY <1>1, <1>2, WFMin, FS_StrictSubsetOrderingWellFounded
<1>4. PICK m \in S : x = 1 .. m
  OBVIOUS
<1>5. ASSUME NEW i \in S, i < m PROVE FALSE
  <2>1. /\ 1 .. i \subseteq 1 .. m /\ 1 .. m \subseteq 1 .. n
        /\ m \in 1 .. m /\ m \notin 1 .. i
    BY <1>5
  <2>2. <<1 .. i, x>> \in StrictSubsetOrdering(1 .. n)
    BY <1>4, <2>1 DEF StrictSubsetOrdering
  <2>3. QED
    BY <1>3, <2>2
<1>6. QED
  BY <1>5

\* A script that says ok has no failed check, also none it did not reach: the check
\* that stopped it would be listed as failed.
LEMMA NoFailureHidden ==
  ASSUME NEW a \in DOMAIN Release!Steps, NEW o, o.failed \subseteq StepNames(a), Release!SaysOk(a, o)
  PROVE  o.failed = {}
<1> SUFFICES ASSUME NEW x \in o.failed PROVE FALSE
  OBVIOUS
<1>1. PICK s : s = Release!Steps[a]
  OBVIOUS
<1>2. PICK last \in Nat : DOMAIN s = 1 .. last
  BY <1>1, StepsNumbered
<1>3. PICK S : S = {i \in 1 .. last : s[i] \in o.failed}
  OBVIOUS
<1>4. S # {}
  BY <1>1, <1>2, <1>3 DEF StepNames
<1>5. S \in SUBSET (1 .. last)
  BY <1>3
<1>6. PICK m \in S : \A i \in S : m <= i
  BY <1>2, <1>4, <1>5, FirstOfNumbers
<1>7. m \in 1 .. last /\ s[m] \in o.failed
  BY <1>3, <1>6
<1>8. \A k \in 1 .. (m - 1) : s[k] \notin o.failed
  <2> SUFFICES ASSUME NEW k \in 1 .. (m - 1), s[k] \in o.failed PROVE FALSE
    OBVIOUS
  <2>1. k \in 1 .. last /\ k < m
    BY <1>2, <1>7
  <2>2. k \in S
    BY <1>3, <2>1
  <2>3. QED
    BY <1>6, <1>7, <2>1, <2>2
<1>9. m \in Release!Reached(a, o.failed)
  BY <1>1, <1>2, <1>7, <1>8 DEF Release!Reached
<1>10. QED
  BY <1>1, <1>7, <1>9 DEF Release!SaysOk

\* Nothing failed and nothing skipped: the verifier is content.
LEMMA CleanPasses ==
  ASSUME NEW a \in DOMAIN Release!Steps \ {"conversation_pipeline"}
  PROVE  Release!Listed(a, Clean) = StepNames(a) /\ Release!Passes(a, Clean)
<1>1. Clean.failed = {} /\ Clean.skipped = {}
  BY DEF Clean
<1>2. Release!Reached(a, {}) = DOMAIN Release!Steps[a]
  BY DEF Release!Reached
<1>3. Release!Listed(a, Clean) = StepNames(a)
  BY <1>1, <1>2 DEF Release!Listed, StepNames
<1>4. Release!SaysOk(a, Clean)
  BY <1>1 DEF Release!SaysOk
<1>5. QED
  BY <1>3, <1>4, DemandsListed DEF Release!Passes

\* A report that passes has no failed check and skipped none that is demanded.
LEMMA PassingIsClean ==
  ASSUME ReleaseConstants, NEW a \in Artifacts, NEW o \in Outcomes[a] \cup {Clean}, Release!Passes(a, o)
  PROVE  o.failed = {} /\ (a \in Release!LiveReports => o.skipped \subseteq {"auth-required"})
<1>1. a \in DOMAIN Release!Steps \ {"conversation_pipeline"}
  BY DEF ReleaseConstants
<1>2. o.failed \subseteq StepNames(a) /\ o.skipped \subseteq StepNames(a)
  <2>1. CASE o \in Outcomes[a]
    BY <2>1 DEF ReleaseConstants
  <2>2. CASE o = Clean
    BY <2>2 DEF Clean
  <2>3. QED
    BY <2>1, <2>2
<1>3. o.failed = {}
  BY <1>1, <1>2, NoFailureHidden DEF Release!Passes
<1>4. o.skipped \cap Release!Demands[a] = {}
  BY DEF Release!Passes, Release!Listed
<1>5. a \in Release!LiveReports => StepNames(a) \subseteq Release!Demands[a] \cup {"auth-required"}
  BY <1>1, LiveAllDemanded
<1>6. QED
  BY <1>2, <1>3, <1>4, <1>5

LEMMA DemandsMet ==
  \A a \in DOMAIN Release!Demands \ {"conversation_pipeline"} :
     Release!Demands[a] \subseteq Release!Listed(a, [failed |-> {}, skipped |-> {}])
<1>1. DOMAIN Release!Demands = DOMAIN Release!Steps
  BY DEF Release!Demands
<1>2. [failed |-> {}, skipped |-> {}] = Clean
  BY DEF Clean
<1>3. QED
  BY <1>1, <1>2, CleanPasses, DemandsListed

AnyReport ==
    [outcome : {Clean} \cup UNION {Outcomes[a] : a \in Artifacts}, build : Builds \cup {"none"},
     at : 0 .. MaxClock, model : ModelNames \cup {"none"}]

\* Of a manifest: that it is being sealed, that it is signed.
HashesTaken(m) ==
    m \in [target : Builds, sealed : [Artifacts -> AnyReport], models : {<<>>}, at : {0}]
Sealed(m) == m.target \in Builds /\ m.sealed \in [Artifacts -> AnyReport] /\ m.at \in 0 .. MaxClock

\* What ReleaseHonest says of a verdict.
RightlyAccepted(v) ==
    /\ v.bundle = v.by.sealed /\ v.target = v.by.target
    /\ \A a \in Artifacts :
         LET r == v.bundle[a] IN
         /\ r.outcome.failed = {}
         /\ a \in Release!LiveReports => r.outcome.skipped \subseteq {"auth-required"}
         /\ a \in Release!Pinned => r.build = v.target
         /\ a \in Release!Timed => v.hour <= r.at + 2 * MaxAge
         /\ a \in Release!ModelReports => v.by.models[a] = r.model
RightlyRefused(v) ==
    \/ v.target # v.by.target
    \/ v.hour > v.by.at + MaxAge
    \/ \E a \in Artifacts :
         LET r == v.bundle[a] IN
         \/ ~Release!Green(a, r) \/ r # v.by.sealed[a]
         \/ a \in Release!Pinned /\ r.build # v.target
         \/ a \in Release!Timed /\ v.by.at > r.at + MaxAge
         \/ a \in Release!ModelReports /\ v.by.models[a] # r.model

ReleaseTypes ==
    /\ deployed \in Builds /\ hour \in 0 .. MaxClock /\ running \in [Artifacts -> Builds \cup {"none"}]
    /\ reports \in [Artifacts -> AnyReport]
    /\ \A a \in Artifacts : reports[a].outcome \in Outcomes[a] \cup {Clean}
    /\ deploys \in 0 .. MaxDeploys /\ writes \in 0 .. MaxWrites
    /\ sealing = Release!NoManifest \/ HashesTaken(sealing)
    /\ signed = Release!NoManifest \/ Sealed(signed)
VerdictJust ==
    \/ verdict = Release!NoVerdict
    \/ verdict.pass = TRUE /\ RightlyAccepted(verdict)
    \/ verdict.pass = FALSE /\ RightlyRefused(verdict)
ReleaseInv == ReleaseTypes /\ VerdictJust

LEMMA ReleaseDeploys ==
  ASSUME ReleaseConstants, ReleaseTypes, NEW b \in Builds, Release!Deploy(b)
  PROVE  ReleaseTypes' /\ verdict' = verdict
<1>1. UNCHANGED <<hour, running, reports, sealing, signed, verdict, writes>> /\ deployed' = b
  BY DEF Release!Deploy
<1>2. deploys' \in 0 .. MaxDeploys
  BY DEF Release!Deploy, ReleaseTypes, ReleaseConstants
<1>3. QED
  BY <1>1, <1>2 DEF ReleaseTypes

LEMMA ReleaseTicks ==
  ASSUME ReleaseConstants, ReleaseTypes, Release!Tick
  PROVE  ReleaseTypes' /\ verdict' = verdict
<1>1. UNCHANGED <<deployed, running, reports, sealing, signed, verdict, deploys, writes>>
  BY DEF Release!Tick
<1>2. hour' \in 0 .. MaxClock
  BY DEF Release!Tick, ReleaseTypes, ReleaseConstants
<1>3. QED
  BY <1>1, <1>2 DEF ReleaseTypes

LEMMA ReleaseCaptures ==
  ASSUME ReleaseTypes, NEW a \in Artifacts, Release!CaptureBuild(a)
  PROVE  ReleaseTypes' /\ verdict' = verdict
<1>1. UNCHANGED <<deployed, hour, reports, sealing, signed, verdict, deploys, writes>>
  BY DEF Release!CaptureBuild
<1>2. running' \in [Artifacts -> Builds \cup {"none"}]
  BY DEF Release!CaptureBuild, ReleaseTypes
<1>3. QED
  BY <1>1, <1>2 DEF ReleaseTypes

LEMMA ReleaseWrites ==
  ASSUME ReleaseConstants, ReleaseTypes, NEW a \in Artifacts, NEW m \in ModelNames \cup {"none"}, NEW o \in Outcomes[a],
         Release!WriteReport(a, o, m)
  PROVE  ReleaseTypes' /\ verdict' = verdict
<1>1. UNCHANGED <<deployed, hour, sealing, signed, verdict, deploys>>
  BY DEF Release!WriteReport
<1>2. writes' \in 0 .. MaxWrites
  BY DEF Release!WriteReport, ReleaseTypes, ReleaseConstants
<1>3. running' \in [Artifacts -> Builds \cup {"none"}]
  BY DEF Release!WriteReport, ReleaseTypes
<1>4. Release!BuildNamed(a, o) \in Builds \cup {"none"}
  BY DEF Release!BuildNamed, ReleaseTypes
<1>5. PICK q : q = [outcome |-> o, build |-> Release!BuildNamed(a, o), at |-> hour, model |-> m]
  OBVIOUS
<1>6. q \in AnyReport /\ q.outcome = o
  BY <1>4, <1>5 DEF AnyReport, ReleaseTypes
<1>7. reports' = [reports EXCEPT ![a] = q]
  BY <1>5 DEF Release!WriteReport
<1>8. reports' \in [Artifacts -> AnyReport] /\ \A x \in Artifacts : reports'[x].outcome \in Outcomes[x] \cup {Clean}
  BY <1>6, <1>7 DEF ReleaseTypes
<1>9. QED
  BY <1>1, <1>2, <1>3, <1>8 DEF ReleaseTypes

LEMMA ReleaseHashes ==
  ASSUME ReleaseTypes, NEW b \in Builds, Release!HashReports(b)
  PROVE  ReleaseTypes' /\ verdict' = verdict
<1>1. UNCHANGED <<deployed, hour, running, reports, signed, verdict, deploys, writes>>
  BY DEF Release!HashReports
<1>2. sealing' = [target |-> b, sealed |-> reports, models |-> <<>>, at |-> 0]
  BY DEF Release!HashReports, Release!NoManifest
<1>3. HashesTaken(sealing')
  BY <1>2 DEF HashesTaken, ReleaseTypes
<1>4. QED
  BY <1>1, <1>3 DEF ReleaseTypes

LEMMA ReleaseSigns ==
  ASSUME ReleaseTypes, Release!SignManifest
  PROVE  ReleaseTypes' /\ verdict' = verdict
<1>1. UNCHANGED <<deployed, hour, running, reports, verdict, deploys, writes>> /\ sealing' = Release!NoManifest
  BY DEF Release!SignManifest
<1>2. HashesTaken(sealing)
  BY DEF Release!SignManifest, ReleaseTypes
<1>3. signed'.target = sealing.target /\ signed'.sealed = sealing.sealed /\ signed'.at = hour
  BY <1>2 DEF Release!SignManifest, HashesTaken
<1>4. Sealed(signed')
  BY <1>2, <1>3 DEF Sealed, HashesTaken, ReleaseTypes
<1>5. QED
  BY <1>1, <1>4, Zenon DEF ReleaseTypes

\* What an accepted release rests on: the reports are those that were sealed, and the
\* age limits of the manifest and of a report add up.
LEMMA AcceptedIsRight ==
  ASSUME ReleaseConstants, ReleaseTypes, signed # Release!NoManifest, NEW b \in Builds, Release!Accepts(b),
         NEW v, v.target = b, v.hour = hour, v.bundle = reports, v.by = signed
  PROVE  RightlyAccepted(v)
<1>1. Sealed(signed)
  BY DEF ReleaseTypes
<1>2. signed.target = b /\ hour <= signed.at + MaxAge
  BY DEF Release!Accepts
<1>3. ASSUME NEW a \in Artifacts
      PROVE  /\ reports[a] = signed.sealed[a] /\ Release!Passes(a, reports[a].outcome)
             /\ a \in Release!Pinned => reports[a].build = signed.target
             /\ a \in Release!Timed => signed.at <= reports[a].at + MaxAge
             /\ a \in Release!ModelReports => reports[a].model = signed.models[a]
  BY <1>3 DEF Release!Accepts, Release!Intact, Release!Timely
<1>4. reports = signed.sealed
  <2>1. signed.sealed \in [Artifacts -> AnyReport] /\ reports \in [Artifacts -> AnyReport]
    BY <1>1 DEF Sealed, ReleaseTypes
  <2>2. \A a \in Artifacts : reports[a] = signed.sealed[a]
    BY <1>3
  <2>3. QED
    BY <2>1, <2>2
<1>5. ASSUME NEW a \in Artifacts
      PROVE  /\ reports[a].outcome.failed = {}
             /\ a \in Release!LiveReports => reports[a].outcome.skipped \subseteq {"auth-required"}
  <2>1. reports[a].outcome \in Outcomes[a] \cup {Clean}
    BY DEF ReleaseTypes
  <2>2. QED
    BY <1>3, <2>1, PassingIsClean
<1>6. ASSUME NEW a \in Artifacts, a \in Release!Timed PROVE hour <= reports[a].at + 2 * MaxAge
  <2>1. reports[a].at \in 0 .. MaxClock
    BY DEF ReleaseTypes, AnyReport
  <2>2. signed.at <= reports[a].at + MaxAge
    BY <1>3, <1>6
  <2>3. QED
    BY <1>1, <1>2, <2>1, <2>2 DEF Sealed, ReleaseTypes, ReleaseConstants
<1>7. QED
  BY <1>2, <1>3, <1>4, <1>5, <1>6, Zenon DEF RightlyAccepted

\* A release is refused for a cause: clean reports pass.
LEMMA RefusedIsRight ==
  ASSUME ReleaseConstants, ReleaseTypes, signed # Release!NoManifest, NEW b \in Builds, ~Release!Accepts(b),
         NEW v, v.target = b, v.hour = hour, v.bundle = reports, v.by = signed
  PROVE  RightlyRefused(v)
<1> SUFFICES ASSUME ~RightlyRefused(v) PROVE FALSE
  OBVIOUS
<1>1. Sealed(signed)
  BY DEF ReleaseTypes
<1>2. signed.target = b
  BY DEF RightlyRefused
<1>3. hour <= signed.at + MaxAge
  <2>1. ~(hour > signed.at + MaxAge)
    BY DEF RightlyRefused
  <2>2. QED
    BY <1>1, <2>1 DEF Sealed, ReleaseTypes, ReleaseConstants
<1>4. ASSUME NEW a \in Artifacts
      PROVE  /\ Release!Intact(a) /\ Release!Passes(a, reports[a].outcome)
             /\ a \in Release!Pinned => reports[a].build = signed.target
             /\ a \in Release!Timed => Release!Timely(reports[a], signed)
             /\ a \in Release!ModelReports => reports[a].model = signed.models[a]
  <2>1. /\ Release!Green(a, reports[a]) /\ reports[a] = signed.sealed[a]
        /\ a \in Release!Pinned => reports[a].build = b
        /\ a \in Release!Timed => ~(signed.at > reports[a].at + MaxAge)
        /\ a \in Release!ModelReports => signed.models[a] = reports[a].model
    BY Zenon DEF RightlyRefused
  <2>2. Release!Passes(a, reports[a].outcome)
    <3>1. reports[a].outcome = Clean
      BY <2>1 DEF Release!Green, Clean
    <3>2. a \in DOMAIN Release!Steps \ {"conversation_pipeline"}
      BY DEF ReleaseConstants
    <3>3. QED
      BY <3>1, <3>2, CleanPasses
  <2>3. a \in Release!Timed => Release!Timely(reports[a], signed)
    <3>1. reports[a].at \in 0 .. MaxClock
      BY DEF ReleaseTypes, AnyReport
    <3>2. QED
      BY <1>1, <2>1, <3>1 DEF Release!Timely, Sealed, ReleaseConstants
  <2>4. QED
    BY <1>2, <2>1, <2>2, <2>3 DEF Release!Intact
<1>5. Release!Accepts(b)
  BY <1>2, <1>3, <1>4, Zenon DEF Release!Accepts
<1>6. QED
  BY <1>5

LEMMA ReleaseVerifies ==
  ASSUME ReleaseConstants, ReleaseTypes, NEW b \in Builds, Release!Verify(b)
  PROVE  ReleaseInv'
<1>1. UNCHANGED <<deployed, hour, running, reports, sealing, signed, deploys, writes>>
      /\ signed # Release!NoManifest
  BY DEF Release!Verify
<1>2. ReleaseTypes'
  BY <1>1 DEF ReleaseTypes
<1>3. PICK v : v = verdict'
  OBVIOUS
<1>4. /\ v.pass = Release!Accepts(b) /\ v.target = b /\ v.hour = hour /\ v.bundle = reports /\ v.by = signed
  BY <1>3 DEF Release!Verify
<1>5. (v.pass = TRUE /\ RightlyAccepted(v)) \/ (v.pass = FALSE /\ RightlyRefused(v))
  <2>1. CASE Release!Accepts(b)
    <3>1. v.pass = TRUE
      BY <1>4, <2>1
    <3>2. RightlyAccepted(v)
      BY <1>1, <1>4, <2>1, AcceptedIsRight
    <3>3. QED
      BY <3>1, <3>2
  <2>2. CASE ~Release!Accepts(b)
    <3>1. v.pass = FALSE
      BY <1>4, <2>2
    <3>2. RightlyRefused(v)
      BY <1>1, <1>4, <2>2, RefusedIsRight
    <3>3. QED
      BY <3>1, <3>2
  <2>3. QED
    BY <2>1, <2>2
<1>6. VerdictJust'
  BY <1>3, <1>5, Zenon DEF VerdictJust, RightlyAccepted, RightlyRefused
<1>7. QED
  BY <1>2, <1>6 DEF ReleaseInv

LEMMA ReleaseStep ==
  ASSUME ReleaseConstants, ReleaseInv, [Release!Next]_Release!vars
  PROVE  ReleaseInv'
<1>1. ReleaseTypes
  BY DEF ReleaseInv
<1>2. ASSUME ReleaseTypes', verdict' = verdict PROVE ReleaseInv'
  <2>1. VerdictJust'
    BY <1>2, Zenon DEF ReleaseInv, VerdictJust, RightlyAccepted, RightlyRefused
  <2>2. QED
    BY <1>2, <2>1 DEF ReleaseInv
<1>3. CASE Release!Tick
  BY <1>1, <1>2, <1>3, ReleaseTicks
<1>4. CASE Release!SignManifest
  BY <1>1, <1>2, <1>4, ReleaseSigns
<1>5. CASE \E b \in Builds : Release!Deploy(b) \/ Release!HashReports(b) \/ Release!Verify(b)
  <2>1. PICK b \in Builds : Release!Deploy(b) \/ Release!HashReports(b) \/ Release!Verify(b)
    BY <1>5
  <2>2. CASE Release!Deploy(b)
    BY <1>1, <1>2, <2>2, ReleaseDeploys
  <2>3. CASE Release!HashReports(b)
    BY <1>1, <1>2, <2>3, ReleaseHashes
  <2>4. CASE Release!Verify(b)
    BY <1>1, <2>4, ReleaseVerifies
  <2>5. QED
    BY <2>1, <2>2, <2>3, <2>4
<1>6. CASE \E a \in Artifacts : Release!CaptureBuild(a)
  BY <1>1, <1>2, <1>6, ReleaseCaptures
<1>7. CASE \E a \in Artifacts, m \in ModelNames \cup {"none"} : \E o \in Outcomes[a] : Release!WriteReport(a, o, m)
  BY <1>1, <1>2, <1>7, ReleaseWrites
<1>8. CASE UNCHANGED Release!vars
  <2>1. UNCHANGED <<deployed, hour, running, reports, sealing, signed, verdict, deploys, writes>>
    BY <1>8 DEF Release!vars
  <2>2. QED
    BY <1>1, <1>2, <2>1 DEF ReleaseTypes
<1>9. QED
  BY <1>3, <1>4, <1>5, <1>6, <1>7, <1>8 DEF Release!Next

LEMMA ReleaseStarts == ASSUME ReleaseConstants, Release!Init PROVE ReleaseInv
<1>1. /\ deployed \in Builds /\ hour \in 0 .. MaxClock /\ running \in [Artifacts -> Builds \cup {"none"}]
      /\ deploys \in 0 .. MaxDeploys /\ writes \in 0 .. MaxWrites
  BY DEF Release!Init, ReleaseConstants
<1>2. Release!NoReport \in AnyReport /\ Release!NoReport.outcome = Clean
  BY DEF Release!NoReport, AnyReport, Clean, ReleaseConstants
<1>3. reports \in [Artifacts -> AnyReport] /\ \A a \in Artifacts : reports[a].outcome = Clean
  BY <1>2 DEF Release!Init
<1>4. sealing = Release!NoManifest /\ signed = Release!NoManifest /\ verdict = Release!NoVerdict
  BY DEF Release!Init
<1>5. QED
  BY <1>1, <1>3, <1>4 DEF ReleaseInv, ReleaseTypes, VerdictJust

LEMMA ReleaseTyped == ASSUME ReleaseConstants, ReleaseInv PROVE Release!TypeOK
<1>1. ReleaseTypes
  BY DEF ReleaseInv
<1>2. Release!NoReport.outcome = Clean
  BY DEF Release!NoReport, Clean
<1>3. \A a \in Artifacts : reports[a] \in
        [outcome : {Release!NoReport.outcome} \cup UNION {Outcomes[x] : x \in Artifacts},
         build : Builds \cup {"none"}, at : 0 .. MaxClock, model : ModelNames \cup {"none"}]
  BY <1>1, <1>2 DEF ReleaseTypes, AnyReport
<1>4. sealing = Release!NoManifest \/ (sealing.target \in Builds /\ DOMAIN sealing.sealed = Artifacts)
  BY <1>1 DEF ReleaseTypes, HashesTaken
<1>5. signed.target \in Builds \cup {"none"} /\ signed.at \in 0 .. MaxClock
  <2>1. CASE signed = Release!NoManifest
    BY <2>1 DEF Release!NoManifest, ReleaseConstants
  <2>2. CASE Sealed(signed)
    BY <2>2 DEF Sealed
  <2>3. QED
    BY <1>1, <2>1, <2>2 DEF ReleaseTypes
<1>6. verdict.pass \in BOOLEAN
  <2>1. Release!NoVerdict.pass = FALSE
    BY DEF Release!NoVerdict
  <2>2. QED
    BY <2>1 DEF ReleaseInv, VerdictJust
<1>7. deployed \in Builds /\ hour \in 0 .. MaxClock /\ running \in [Artifacts -> Builds \cup {"none"}]
      /\ deploys \in 0 .. MaxDeploys /\ writes \in 0 .. MaxWrites
  BY <1>1 DEF ReleaseTypes
<1>8. QED
  BY <1>3, <1>4, <1>5, <1>6, <1>7, Zenon DEF Release!TypeOK

LEMMA ReleaseJust == ASSUME ReleaseInv PROVE Release!ReleaseHonest
<1>1. verdict.pass => RightlyAccepted(verdict)
  <2>1. Release!NoVerdict.pass = FALSE
    BY DEF Release!NoVerdict
  <2>2. QED
    BY <2>1 DEF ReleaseInv, VerdictJust
<1>2. verdict # Release!NoVerdict /\ ~verdict.pass => RightlyRefused(verdict)
  BY DEF ReleaseInv, VerdictJust
<1>3. QED
  BY <1>1, <1>2, DemandsMet, Zenon DEF Release!ReleaseHonest, Release!DemandsMet, RightlyAccepted, RightlyRefused

\* A release that verifies rests on what really ran, a refused one has a cause, and
\* every script but the conversation pipeline's lists what is demanded of it
\* (verify_manifest, build_manifest).
THEOREM ReleaseVerdictsAreHonest ==
  ReleaseConstants => (Release!Spec => [](Release!TypeOK /\ Release!ReleaseHonest))
<1> SUFFICES ASSUME ReleaseConstants PROVE Release!Spec => [](Release!TypeOK /\ Release!ReleaseHonest)
  OBVIOUS
<1>1. Release!Init => ReleaseInv
  BY ReleaseStarts
<1>2. ReleaseInv /\ [Release!Next]_Release!vars => ReleaseInv'
  BY ReleaseStep
<1>3. ReleaseInv => Release!TypeOK /\ Release!ReleaseHonest
  BY ReleaseTyped, ReleaseJust
<1>4. QED
  BY <1>1, <1>2, <1>3, PTL DEF Release!Spec

-----------------------------------------------------------------------------
(* The components side by side.  Whatever the others do, each makes its    *)
(* own steps or none: it keeps what was proved of it alone.                *)

LEMMA HeartbeatPart == OperationsSpec => Heartbeat!Spec
<1>1. OperationsInit => Heartbeat!Init
  BY DEF OperationsInit
<1>2. [OperationsNext]_operationsVars => [Heartbeat!Next]_(Heartbeat!vars)
  BY DEF OperationsNext, StepOf, OthersThan, operationsVars, heartbeatVars, Heartbeat!vars
<1>3. QED
  BY <1>1, <1>2, PTL DEF OperationsSpec, Heartbeat!Spec

LEMMA AuditPart == OperationsSpec => Audit!Spec
<1>1. OperationsInit => Audit!Init
  BY DEF OperationsInit
<1>2. [OperationsNext]_operationsVars => [Audit!Next]_(Audit!vars)
  BY DEF OperationsNext, StepOf, OthersThan, operationsVars, auditVars, Audit!vars
<1>3. QED
  BY <1>1, <1>2, PTL DEF OperationsSpec, Audit!Spec

LEMMA AccessPart == OperationsSpec => Access!Spec
<1>1. OperationsInit => Access!Init
  BY DEF OperationsInit
<1>2. [OperationsNext]_operationsVars => [Access!Next]_(Access!vars)
  BY DEF OperationsNext, StepOf, OthersThan, operationsVars, accessVars, Access!vars
<1>3. QED
  BY <1>1, <1>2, PTL DEF OperationsSpec, Access!Spec

LEMMA AgentPart == OperationsSpec => Agent!Spec
<1>1. OperationsInit => Agent!Init
  BY DEF OperationsInit
<1>2. [OperationsNext]_operationsVars => [Agent!Next]_(Agent!vars)
  BY DEF OperationsNext, StepOf, OthersThan, operationsVars, agentVars, Agent!vars
<1>3. QED
  BY <1>1, <1>2, PTL DEF OperationsSpec, Agent!Spec

LEMMA BackupPart == OperationsSpec => Backup!Spec
<1>1. OperationsInit => Backup!Init
  BY DEF OperationsInit
<1>2. [OperationsNext]_operationsVars => [Backup!Next]_(Backup!vars)
  BY DEF OperationsNext, StepOf, OthersThan, operationsVars, backupVars, Backup!vars
<1>3. QED
  BY <1>1, <1>2, PTL DEF OperationsSpec, Backup!Spec

LEMMA ReleasePart == OperationsSpec => Release!Spec
<1>1. OperationsInit => Release!Init
  BY DEF OperationsInit
<1>2. [OperationsNext]_operationsVars => [Release!Next]_(Release!vars)
  BY DEF OperationsNext, StepOf, OthersThan, operationsVars, releaseVars, Release!vars
<1>3. QED
  BY <1>1, <1>2, PTL DEF OperationsSpec, Release!Spec

\* worker_readiness, WorkerHeartbeatEmitter.stop: with any workers, kinds and TTL, and
\* beside any steps of the other components, readiness names processes that run.
THEOREM ReadinessHolds == OperationsSpec => []ReadinessTruthful
<1>1. Heartbeat!Spec => [](Heartbeat!TypeOK /\ Heartbeat!ReadinessTruthful)
  BY OperationsAssumptions, ReadinessIsTrue
<1>2. Heartbeat!ReadinessTruthful => ReadinessTruthful
  BY DEF ReadinessTruthful
<1>3. QED
  BY <1>1, <1>2, HeartbeatPart, PTL

\* scripts/audit_retention.py: with any events, cutoffs, batches and runs, what is
\* pruned was exported, but for late commits and bundles that a rerun overwrote.
THEOREM PruningHolds == OperationsSpec => []PrunedIsExported
<1>1. Audit!Spec => [](Audit!TypeOK /\ Audit!PrunedIsExported)
  BY OperationsAssumptions, PruningIsExported
<1>2. Audit!PrunedIsExported => PrunedIsExported
  BY DEF PrunedIsExported
<1>3. QED
  BY <1>1, <1>2, AuditPart, PTL

\* require_api_key, _agent_binding_error, ensure_configured_key: with any keys,
\* configurations, servers and clients, handlers run only for keys that may.
THEOREM AccessHolds == OperationsSpec => []AccessKept
<1>1. Access!Spec => [](Access!TypeOK /\ Access!AccessKept)
  BY OperationsAssumptions, AccessIsKept
<1>2. Access!AccessKept => AccessKept
  BY DEF AccessKept
<1>3. QED
  BY <1>1, <1>2, AccessPart, PTL

\* _event_idempotency_key, agent_end, evaluate_recall_gate: with any runs, queries and
\* events, what a runtime was told is stored is stored.
THEOREM AgentMemoryHolds == OperationsSpec => []AgentMemoryKept
<1>1. Agent!Spec => [](Agent!TypeOK /\ Agent!AgentMemoryKept)
  BY OperationsAssumptions, AgentMemoryIsKept
<1>2. Agent!AgentMemoryKept => AgentMemoryKept
  BY DEF AgentMemoryKept
<1>3. QED
  BY <1>1, <1>2, AgentPart, PTL

\* scheduled_backup, verify_backup_history, restore, restore_drill,
\* isolated_recovery_drill: with any rows, slots and modes, success reports are true.
THEOREM BackupsHold == OperationsSpec => []BackupHonest
<1>1. Backup!Spec => [](Backup!TypeOK /\ Backup!BackupHonest)
  BY OperationsAssumptions, BackupsAreHonest
<1>2. Backup!BackupHonest => BackupHonest
  BY DEF BackupHonest
<1>3. QED
  BY <1>1, <1>2, BackupPart, PTL

\* verify_release_evidence: with any reports, builds, models and limits, an accepted
\* release rests on what was sealed, and a refused one lacks something.
THEOREM ReleaseHolds == OperationsSpec => []ReleaseHonest
<1>1. Release!Spec => [](Release!TypeOK /\ Release!ReleaseHonest)
  BY OperationsAssumptions, ReleaseVerdictsAreHonest
<1>2. Release!ReleaseHonest => ReleaseHonest
  BY DEF ReleaseHonest
<1>3. QED
  BY <1>1, <1>2, ReleasePart, PTL
=============================================================================
