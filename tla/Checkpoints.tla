------------------------------ MODULE Checkpoints ------------------------------
(***************************************************************************)
(* Working-memory checkpoints of one thread: save, update and compact      *)
(* (services/checkpoint.py and PostgresCheckpointStore of                  *)
(* adapters/postgres.py).  A write loads the head, chooses its revision    *)
(* from it, and appends in a later transaction that compares the head,     *)
(* under the thread's advisory lock, with the revision the caller expects. *)
(***************************************************************************)
EXTENDS Naturals, FiniteSets

CONSTANTS
    Requests,   \* concurrent API requests
    MaxRev,     \* bound: revisions written
    MaxAhead    \* how far ahead of the head a caller's expected revision may be:
                \* 0 for callers that wait for each answer, more for pipelining

ASSUME CheckpointAssumptions == MaxRev \in Nat /\ MaxAhead \in Nat

VARIABLES
    rows,       \* revisions in table checkpoints
    base,       \* base[v]: the head its writer expected when v was appended
    request     \* request[r]: a write between its load and its commit

vars == <<rows, base, request>>

Revisions == 1 .. MaxRev
Idle == [pc |-> "idle", expected |-> 0, revision |-> 0]

\* get_head: order by revision desc limit 1; 0 if there is no checkpoint.
Head == IF rows = {} THEN 0 ELSE CHOOSE v \in rows : \A u \in rows : u <= v

Init ==
    /\ rows = {}
    /\ base = [v \in Revisions |-> 0]
    /\ request = [r \in Requests |-> Idle]

-----------------------------------------------------------------------------
\* Mutant: the revision is numbered past the next one.
LoadSkipping(r, expected) ==
    /\ request[r].pc = "idle"
    /\ Head < MaxRev
    /\ request' = [request EXCEPT ![r] =
         [pc |-> "append", expected |-> expected, revision |-> Head + 2]]
    /\ UNCHANGED <<rows, base>>

\* get_head, then a revision one above the head that was read.
Load(r, expected) ==
    /\ request[r].pc = "idle"
    /\ Head < MaxRev
    /\ request' = [request EXCEPT ![r] =
         [pc |-> "append", expected |-> expected, revision |-> Head + 1]]
    /\ UNCHANGED <<rows, base>>

\* CheckpointService.save: expects the head it has just read.
SaveLoad(r) == Load(r, Head)

\* CheckpointService.update: expects what the caller says, numbers from the head
\* it has just read.
UpdateLoad(r, expected) ==
    /\ rows # {}
    /\ expected \in 1 .. Head + MaxAhead
    /\ Load(r, expected)

\* Mutant: the head is not compared under the lock.
AppendableUnlocked(r) == request[r].revision \notin rows

\* Mutant: nothing keeps revisions of a thread apart.
AppendableTwice(r) == Head = request[r].expected

\* save_if_head and unique (thread_id, revision).
Appendable(r) == Head = request[r].expected /\ request[r].revision \notin rows

\* save_if_head commits, or raises and writes nothing.
Append(r) ==
    /\ request[r].pc = "append"
    /\ IF Appendable(r)
       THEN /\ rows' = rows \cup {request[r].revision}
            /\ base' = [base EXCEPT ![request[r].revision] = request[r].expected]
       ELSE UNCHANGED <<rows, base>>
    /\ request' = [request EXCEPT ![r] = Idle]

\* Mutant: the newest revisions are the ones deleted.
KeptOldest(keep) == {v \in rows : Cardinality({u \in rows : u < v}) < keep}

\* order by revision desc offset keep_last
Kept(keep) == {v \in rows : Cardinality({u \in rows : u > v}) < keep}

\* compact: keep_last is at least 1.
Compact(keep) ==
    /\ keep >= 1
    /\ rows' = Kept(keep)
    /\ UNCHANGED <<base, request>>

\* The request dies between its load and its append.
Abandon(r) ==
    /\ request[r].pc = "append"
    /\ request' = [request EXCEPT ![r] = Idle]
    /\ UNCHANGED <<rows, base>>

Next ==
    \/ \E r \in Requests :
         \/ SaveLoad(r) \/ Append(r) \/ Abandon(r)
         \/ \E v \in 1 .. MaxRev + MaxAhead : UpdateLoad(r, v)
    \/ \E keep \in Revisions : Compact(keep)

Spec == Init /\ [][Next]_vars

-----------------------------------------------------------------------------
\* Type invariant: stored revisions, their bases and the pending writes stay in
\* their domains.
TypeOK ==
    /\ rows \subseteq Revisions
    /\ base \in [Revisions -> 0 .. MaxRev]
    /\ request \in [Requests -> [pc : {"idle", "append"}, expected : 0 .. MaxRev + MaxAhead,
                                 revision : 0 .. MaxRev]]

\* save_if_head ("preventing lost updates"): the writer of every revision had seen
\* exactly the one before it, whatever ran between its load and its append.
NoLostUpdate == \A v \in rows : base[v] = v - 1

\* save / update / compact: a write that succeeds becomes the head, directly after
\* the old one, and compaction never takes the head away.
WritesBecomeHead ==
    [][/\ rows' \ rows # {} => rows' \ rows = {Head + 1} /\ Head' = Head + 1
       /\ Head' >= Head]_vars
=============================================================================
