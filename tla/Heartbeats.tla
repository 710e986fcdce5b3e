------------------------------ MODULE Heartbeats ------------------------------
(***************************************************************************)
(* Liveness rows of the asynchronous workers and the readiness the API     *)
(* derives from them.  A worker process writes its row from threads: one   *)
(* write when it starts, one per interval from a background task, one      *)
(* "stopping" write when its loop ends.  Cancelling the background task    *)
(* does not stop a write that its thread has already begun.                *)
(*                                                                         *)
(* Time is kept as ages: Tick makes every row and every absence one unit   *)
(* older, and an age saturates where nothing tells it from a greater one.  *)
(***************************************************************************)
EXTENDS Naturals

CONSTANTS Workers,      \* process identities (tenant, kind and id of a row)
          KindOf,       \* the kind each worker reports
          Required,     \* UAM_REQUIRED_WORKERS
          TTL,          \* UAM_WORKER_HEARTBEAT_TTL_SECONDS, in units of Tick
          Retention     \* the age past which a row is deleted (24 hours)

VARIABLES beats,        \* worker_heartbeats: status and age of each row
          proc,         \* where each process is
          writing,      \* the writes its threads have begun and not finished
          exit,         \* how the process last ended
          absent        \* for how long it has been gone

vars == <<beats, proc, writing, exit, absent>>

NoRow == [status |-> "none", age |-> Retention]
Row == [status : {"none", "running", "stopping"}, age : 0..Retention]

TypeOK ==
  /\ beats \in [Workers -> Row]
  /\ proc \in [Workers -> {"down", "starting", "running", "deaf", "stopping", "closing"}]
  /\ writing \in [Workers -> SUBSET {"running", "stopping"}]
  /\ exit \in [Workers -> {"up", "clean", "overlapped", "unsaid", "killed"}]
  /\ absent \in [Workers -> 0..Retention]

Init ==
  /\ beats = [w \in Workers |-> NoRow]
  /\ proc = [w \in Workers |-> "down"]
  /\ writing = [w \in Workers |-> {}]
  /\ exit = [w \in Workers |-> "killed"]
  /\ absent = [w \in Workers |-> Retention]

-----------------------------------------------------------------------------
(* The process connects and waits for its first row to be written.         *)
Start(w) ==
  /\ proc[w] = "down"
  /\ proc' = [proc EXCEPT ![w] = "starting"]
  /\ writing' = [writing EXCEPT ![w] = {"running"}]
  /\ exit' = [exit EXCEPT ![w] = "up"]
  /\ absent' = [absent EXCEPT ![w] = 0]
  /\ UNCHANGED beats

(* The background task wakes up and hands its write to a thread.           *)
Beat(w) ==
  /\ proc[w] = "running"
  /\ "running" \notin writing[w]
  /\ writing' = [writing EXCEPT ![w] = @ \cup {"running"}]
  /\ UNCHANGED <<beats, proc, exit, absent>>

\* Mutant: the database keeps the first status of a row.
UpsertedOnce(w, status) ==
  [beats EXCEPT ![w] = [status |-> IF @.status = "none" THEN status ELSE @.status,
                        age |-> 0]]

(* The upsert of one row, which also deletes the rows nobody refreshed.    *)
Upserted(w, status) ==
  [v \in Workers |->
     IF v = w THEN [status |-> status, age |-> 0]
     ELSE IF beats[v].age = Retention THEN NoRow ELSE beats[v]]

(* What the end of a write lets its process do.                            *)
After(w, status, failed) ==
  CASE proc[w] = "starting" -> IF failed THEN "down" ELSE "running"
    [] proc[w] = "running" /\ failed -> "deaf"
    [] proc[w] = "stopping" /\ status = "stopping" ->
         IF writing[w] = {"stopping"} THEN "down" ELSE "closing"
    [] proc[w] = "closing" -> "down"
    [] OTHER -> proc[w]

(* A thread's transaction commits.                                         *)
WriteDone(w, status) ==
  /\ status \in writing[w]
  /\ writing' = [writing EXCEPT ![w] = @ \ {status}]
  /\ beats' = Upserted(w, status)
  /\ proc' = [proc EXCEPT ![w] = After(w, status, FALSE)]
  /\ UNCHANGED <<exit, absent>>

(* The write raises: the start gives up, the background task ends, and a   *)
(* failed "stopping" write is only logged.                                 *)
WriteFails(w, status) ==
  /\ status \in writing[w]
  /\ writing' = [writing EXCEPT ![w] = @ \ {status}]
  /\ proc' = [proc EXCEPT ![w] = After(w, status, TRUE)]
  /\ exit' = [exit EXCEPT ![w] = IF status = "stopping" THEN "unsaid"
                                 ELSE IF proc[w] = "starting" THEN "killed" ELSE @]
  /\ UNCHANGED <<beats, absent>>

(* The loop ends: by an interrupt, an error of the work itself, or because *)
(* it found its heartbeat task finished.  The task is cancelled, a write   *)
(* its thread has begun goes on, and the "stopping" write starts.          *)
Leave(w) ==
  /\ proc[w] \in {"running", "deaf"}
  /\ proc' = [proc EXCEPT ![w] = "stopping"]
  /\ exit' = [exit EXCEPT ![w] = IF writing[w] = {} THEN "clean" ELSE "overlapped"]
  /\ writing' = [writing EXCEPT ![w] = @ \cup {"stopping"}]
  /\ UNCHANGED <<beats, absent>>

(* The process is killed; the transactions of its threads roll back.       *)
Kill(w) ==
  /\ proc[w] # "down"
  /\ proc' = [proc EXCEPT ![w] = "down"]
  /\ writing' = [writing EXCEPT ![w] = {}]
  /\ exit' = [exit EXCEPT ![w] = "killed"]
  /\ UNCHANGED <<beats, absent>>

Older(n) == IF n = Retention THEN n ELSE n + 1

Tick ==
  /\ beats' = [w \in Workers |-> [beats[w] EXCEPT !.age = Older(@)]]
  /\ absent' = [w \in Workers |-> IF proc[w] = "down" THEN Older(absent[w]) ELSE 0]
  /\ UNCHANGED <<proc, writing, exit>>

Next ==
  \/ \E w \in Workers : Start(w) \/ Beat(w) \/ Leave(w) \/ Kill(w)
  \/ \E w \in Workers, s \in {"running", "stopping"} : WriteDone(w, s) \/ WriteFails(w, s)
  \/ Tick

Spec == Init /\ [][Next]_vars

-----------------------------------------------------------------------------
\* Mutant: a running row counts whatever its age.
FreshAnyAge(k) == {w \in Workers : KindOf[w] = k /\ beats[w].status = "running"}

(* Rows of a kind that count as running replicas, and those that do not.   *)
Fresh(k) == {w \in Workers : KindOf[w] = k /\ beats[w].status = "running" /\ beats[w].age <= TTL}
WorkersReady == \A k \in Required : Fresh(k) # {}

(* GET /ready, for a canonical store that answers or does not and          *)
(* retrieval sources that are healthy or degraded.                         *)
ReadyStatus(canonical, degraded) ==
  IF ~canonical \/ ~WorkersReady THEN "not_ready"
  ELSE IF degraded THEN "degraded" ELSE "ready"

-----------------------------------------------------------------------------
(* Whatever else the API reports, it calls itself ready only while each    *)
(* required kind had a process within the last TTL.                        *)
ReadyMeansAlive ==
  \A canonical, degraded \in BOOLEAN :
    ReadyStatus(canonical, degraded) # "not_ready" =>
      \A k \in Required : \E w \in Workers : KindOf[w] = k /\ absent[w] <= TTL

(* A process that ended after its "stopping" write, with no heartbeat of   *)
(* its background task still in a thread, is not counted as running.       *)
StoppedIsSeen ==
  \A w \in Workers : proc[w] = "down" /\ exit[w] = "clean" => beats[w].status # "running"

(* What GET /ready says of the workers is true of their processes          *)
(* (worker_readiness, WorkerHeartbeatEmitter.stop).                        *)
ReadinessTruthful == ReadyMeansAlive /\ StoppedIsSeen
=============================================================================
