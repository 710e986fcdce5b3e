------------------------------ MODULE OutboxRelay ------------------------------
(***************************************************************************)
(* The transactional outbox and the relay workers that move its rows to    *)
(* the JetStream stream (services/outbox.py, workers/outbox_main.py, the   *)
(* outbox methods of adapters/postgres.py and adapters/nats.py).           *)
(*                                                                         *)
(* Time is abstracted.  A row's lease is "none" (lease_until is null),     *)
(* "live" or "expired", and a row is due or delayed: the steps             *)
(* LeaseLapses, LeaseAbandoned and RetryDue are the clock passing          *)
(* lease_until and available_at.  Lapses under a worker that is still      *)
(* sending, and crashes, draw on one budget, MaxFaults.                    *)
(***************************************************************************)
EXTENDS Naturals, FiniteSets

CONSTANTS
    Events,        \* outbox rows: naturals in the order (occurred_at, id)
    Workers,       \* relay worker ids
    NoWorker,      \* lease_owner is null
    BatchSize,     \* UAM_OUTBOX_BATCH_SIZE
    MaxAttempts,   \* UAM_OUTBOX_MAX_ATTEMPTS
    MaxCopies,     \* bound: copies of one event the stream may hold
    MaxFaults      \* bound: lapses under a working relay, plus crashes

ASSUME RelayAssumptions ==
    /\ Events \subseteq Nat
    /\ NoWorker \notin Workers
    /\ BatchSize \in Nat \ {0}
    /\ MaxAttempts \in Nat \ {0}
    /\ MaxCopies \in Nat \ {0}
    /\ MaxFaults \in Nat

VARIABLES
    outbox,        \* outbox[e]: the row of table outbox_events
    batch,         \* batch[w]: ClaimedEvents that run_once has still to handle
    pc,            \* pc[w]: where run_once is
    cur,           \* cur[w]: the ClaimedEvent being marked or released
    stream,        \* stream[e]: copies of e in the stream MEMORY_EVENTS
    faults         \* part of MaxFaults used so far

vars == <<outbox, batch, pc, cur, stream, faults>>

Claims == [event : Events, attempts : Nat]
NoClaim == [event |-> NoWorker, attempts |-> 0]

Row == [state    : {"absent", "pending", "published", "dead"},
        owner    : Workers \cup {NoWorker},
        lease    : {"none", "live", "expired"},
        when     : {"due", "delayed"},
        attempts : Nat]

Init ==
    /\ outbox = [e \in Events |-> [state |-> "absent", owner |-> NoWorker,
                                   lease |-> "none", when |-> "due", attempts |-> 0]]
    /\ batch = [w \in Workers |-> {}]
    /\ pc = [w \in Workers |-> "loop"]
    /\ cur = [w \in Workers |-> NoClaim]
    /\ stream = [e \in Events |-> 0]
    /\ faults = 0

-----------------------------------------------------------------------------
\* The ledger transaction that writes an item inserts its event row with it.
Commit(e) ==
    /\ outbox[e].state = "absent"
    /\ outbox' = [outbox EXCEPT ![e].state = "pending"]
    /\ UNCHANGED <<batch, pc, cur, stream, faults>>

\* Mutant: an expired lease never makes a row claimable again.
ClaimableNeverLeased(e) ==
    outbox[e].state = "pending" /\ outbox[e].when = "due" /\ outbox[e].lease = "none"

\* The where clause of claim_outbox.
Claimable(e) ==
    /\ outbox[e].state = "pending"
    /\ outbox[e].when = "due"
    /\ outbox[e].lease # "live"

\* order by occurred_at, id limit BatchSize
FirstOf(S) == {e \in S : Cardinality({f \in S : f < e}) < BatchSize}

\* Rows another worker's mark or release transaction may hold locked.
Locked == {cur[w].event : w \in {v \in Workers : pc[v] # "loop"}}

\* Mutant: the claim keeps the owner of the lease it takes over.
LeasedKeepingOwner(row, w) ==
    [state |-> row.state, owner |-> IF row.owner = NoWorker THEN w ELSE row.owner,
     lease |-> "live", when |-> row.when, attempts |-> row.attempts + 1]

\* The set clause of claim_outbox.
Leased(row, w) ==
    [state |-> row.state, owner |-> w, lease |-> "live", when |-> row.when,
     attempts |-> row.attempts + 1]

\* claim_outbox: one statement; rows locked by others are skipped.
Claim(w) ==
    /\ pc[w] = "loop"
    /\ batch[w] = {}
    /\ \E skipped \in SUBSET (Locked \cap Events) :
         LET due == FirstOf({e \in Events : Claimable(e)} \ skipped)
         IN  /\ due # {}
             /\ outbox' = [e \in Events |->
                  IF e \in due THEN Leased(outbox[e], w) ELSE outbox[e]]
             /\ batch' = [batch EXCEPT ![w] =
                  {[event |-> e, attempts |-> outbox[e].attempts + 1] : e \in due}]
    /\ UNCHANGED <<pc, cur, stream, faults>>

\* Mutant: the broker deduplicates nothing.
StoreAlways(e) == stream' = [stream EXCEPT ![e] = @ + 1]

\* The broker stores another copy of e, or drops it as a duplicate of a copy
\* it already stored.
StoreOrDedupe(e) ==
    \E n \in {stream[e], stream[e] + 1} \cap (1 .. MaxCopies) :
        stream' = [stream EXCEPT ![e] = n]

\* sink.send returns: the broker acknowledged the publication.
SendAcked(w, c) ==
    /\ pc[w] = "loop"
    /\ c \in batch[w]
    /\ StoreOrDedupe(c.event)
    /\ pc' = [pc EXCEPT ![w] = "mark"]
    /\ cur' = [cur EXCEPT ![w] = c]
    /\ UNCHANGED <<outbox, batch, faults>>

\* Mutant: a failed send is acknowledged like a confirmed one.
SendFailsUnnoticed(w, c) ==
    /\ pc[w] = "loop"
    /\ c \in batch[w]
    /\ pc' = [pc EXCEPT ![w] = "mark"]
    /\ cur' = [cur EXCEPT ![w] = c]
    /\ UNCHANGED <<outbox, batch, stream, faults>>

\* sink.send raises: the publication was lost, or only its acknowledgement.
SendFails(w, c) ==
    /\ pc[w] = "loop"
    /\ c \in batch[w]
    /\ StoreOrDedupe(c.event) \/ UNCHANGED stream
    /\ pc' = [pc EXCEPT ![w] = "release"]
    /\ cur' = [cur EXCEPT ![w] = c]
    /\ UNCHANGED <<outbox, batch, faults>>

\* Mutant: the worker holding the lease is not checked.
OwnedByAnyone(w, e) == outbox[e].state # "published"

\* where id = ... and lease_owner = worker and published_at is null
Owned(w, e) == outbox[e].owner = w /\ outbox[e].state # "published"

\* run_once moves to the next claimed row.
NextRow(w) ==
    /\ batch' = [batch EXCEPT ![w] = batch[w] \ {cur[w]}]
    /\ pc' = [pc EXCEPT ![w] = "loop"]
    /\ cur' = [cur EXCEPT ![w] = NoClaim]

\* The set clause of mark_outbox_published.
Published(row) ==
    [state |-> "published", owner |-> NoWorker, lease |-> "none", when |-> row.when,
     attempts |-> row.attempts]

\* mark_outbox_published
MarkPublished(w) ==
    /\ pc[w] = "mark"
    /\ outbox' = IF Owned(w, cur[w].event)
                 THEN [outbox EXCEPT ![cur[w].event] = Published(outbox[cur[w].event])]
                 ELSE outbox
    /\ NextRow(w)
    /\ UNCHANGED <<stream, faults>>

\* Mutant: one attempt too many.
ExhaustedLate(row) == row.attempts > MaxAttempts

\* attempts >= max_attempts
Exhausted(row) == row.attempts >= MaxAttempts

\* The set clause of release_outbox: back to the queue after a delay, or
\* dead-lettered.
Released(row) ==
    [state    |-> IF Exhausted(row) THEN "dead" ELSE row.state,
     owner    |-> NoWorker,
     lease    |-> "none",
     when     |-> IF Exhausted(row) THEN "due" ELSE "delayed",
     attempts |-> row.attempts]

\* release_outbox
Release(w) ==
    /\ pc[w] = "release"
    /\ outbox' = IF Owned(w, cur[w].event)
                 THEN [outbox EXCEPT ![cur[w].event] = Released(outbox[cur[w].event])]
                 ELSE outbox
    /\ NextRow(w)
    /\ UNCHANGED <<stream, faults>>

\* The owner has e in the batch it is working through.
Working(e) ==
    \E w \in Workers : outbox[e].owner = w /\ \E c \in batch[w] : c.event = e

\* The clock passes lease_until while the owner is still busy with its batch:
\* run_once never renews a lease.
LeaseLapses(e) ==
    /\ outbox[e].lease = "live"
    /\ Working(e)
    /\ faults < MaxFaults
    /\ faults' = faults + 1
    /\ outbox' = [outbox EXCEPT ![e].lease = "expired"]
    /\ UNCHANGED <<batch, pc, cur, stream>>

\* The clock passes the lease_until of a row whose owner crashed.
LeaseAbandoned(e) ==
    /\ outbox[e].lease = "live"
    /\ ~ Working(e)
    /\ outbox' = [outbox EXCEPT ![e].lease = "expired"]
    /\ UNCHANGED <<batch, pc, cur, stream, faults>>

\* The clock passes available_at.
RetryDue(e) ==
    /\ outbox[e].when = "delayed"
    /\ outbox' = [outbox EXCEPT ![e].when = "due"]
    /\ UNCHANGED <<batch, pc, cur, stream, faults>>

\* The process stops, or a database call of run_once raises (run has no
\* handler for it), and the container restarts it under the same worker id.
Crash(w) ==
    /\ batch[w] # {}
    /\ faults < MaxFaults
    /\ faults' = faults + 1
    /\ batch' = [batch EXCEPT ![w] = {}]
    /\ pc' = [pc EXCEPT ![w] = "loop"]
    /\ cur' = [cur EXCEPT ![w] = NoClaim]
    /\ UNCHANGED <<outbox, stream>>

-----------------------------------------------------------------------------
RelayStep(w) ==
    \/ Claim(w)
    \/ \E c \in batch[w] : SendAcked(w, c) \/ SendFails(w, c)
    \/ MarkPublished(w)
    \/ Release(w)

Clock(e) == LeaseAbandoned(e) \/ RetryDue(e)

Next ==
    \/ \E e \in Events : Commit(e) \/ LeaseLapses(e) \/ Clock(e)
    \/ \E w \in Workers : RelayStep(w) \/ Crash(w)

Spec == Init /\ [][Next]_vars

\* The relay loop and the clock never stop; commits and faults are not forced.
FairSpec ==
    /\ Spec
    /\ \A w \in Workers : WF_vars(RelayStep(w))
    /\ \A e \in Events : WF_vars(LeaseAbandoned(e)) /\ WF_vars(RetryDue(e))

-----------------------------------------------------------------------------
\* Type invariant: rows, claims and stream counters stay in their domains; the
\* broker's copies of an event stay within its deduplication bound.
TypeOK ==
    /\ outbox \in [Events -> Row]
    /\ batch \in [Workers -> SUBSET Claims]
    /\ pc \in [Workers -> {"loop", "mark", "release"}]
    /\ cur \in [Workers -> Claims \cup {NoClaim}]
    /\ stream \in [Events -> 0 .. MaxCopies]
    /\ faults \in 0 .. MaxFaults

\* mark_outbox_published: a row is published only once the broker holds the
\* event, whatever was lost, retried or raced on the way.
PublishedIsStored == \A e \in Events : outbox[e].state = "published" => stream[e] > 0

\* claim_outbox / release_outbox: the owner recorded in a row that a worker
\* still has in its batch is that worker's latest claim, so a worker that was
\* overtaken can never settle the row under its successor's lease.
OwnerHoldsLatestClaim ==
    \A w \in Workers : \A c \in batch[w] :
        outbox[c.event].owner = w => outbox[c.event].attempts = c.attempts

\* release_outbox: an event is given up only after MaxAttempts claims, and
\* claims beyond that are paid for by lapsed leases and crashes only.
AttemptsBounded ==
    \A e \in Events :
        /\ outbox[e].state = "dead" => outbox[e].attempts >= MaxAttempts
        /\ outbox[e].attempts <= MaxAttempts + faults

Settled(e) == outbox[e].state \in {"published", "dead"}

\* mark/release: once a row is published or dead-lettered no worker, however
\* late, changes it again; in particular a dead letter is never republished.
SettledIsFinal == [][\A e \in Events : Settled(e) => outbox'[e] = outbox[e]]_vars

\* OutboxRelay: every committed event is eventually published or dead-lettered.
EventuallySettled == \A e \in Events : outbox[e].state = "pending" ~> Settled(e)
=============================================================================
