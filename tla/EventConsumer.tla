----------------------------- MODULE EventConsumer -----------------------------
(***************************************************************************)
(* The JetStream pull workers and their durable idempotency table          *)
(* (workers/nats_consumer.py, services/consumer.py, the processed_events   *)
(* methods of adapters/postgres.py, scripts/replay_nats_dlq.py).           *)
(*                                                                         *)
(* Every durable consumer (embedding, maintenance) receives every message  *)
(* of the stream; the replicas of one consumer compete for its deliveries. *)
(* The broker is external: it redelivers a message that is neither         *)
(* acknowledged nor terminated when it is nak'ed or its ack wait passes,   *)
(* and an acknowledgement of an old delivery still counts.  Leases and ack *)
(* waits that pass under a live worker, crashes, failed database calls,    *)
(* lost acknowledgements and failed dead-letter publications draw on one   *)
(* budget, MaxFaults; a handler may fail at any time for free.             *)
(***************************************************************************)
EXTENDS Naturals, FiniteSets

CONSTANTS
    Events,         \* event ids
    Consumers,      \* durable consumer names
    Replicas,       \* worker processes of each consumer
    NoWorker,       \* lease_owner is null
    FetchSize,      \* batch_size of run_once
    MaxDeliveries,  \* UAM_NATS_MAX_DELIVERIES
    MaxCopies,      \* bound: copies of one event the stream may hold
    MaxFaults       \* bound: faults of the kinds listed above

Workers == Consumers \X Replicas

ASSUME ConsumerAssumptions ==
    /\ NoWorker \notin Workers
    /\ FetchSize \in Nat \ {0}
    /\ MaxDeliveries \in Nat \ {0}
    /\ MaxCopies \in Nat \ {0}
    /\ MaxFaults \in Nat

VARIABLES
    stream,     \* stream[e]: copies of e in the stream MEMORY_EVENTS
    jet,        \* jet[c][m]: delivery state of message m for consumer c
    processed,  \* processed[c][e]: the row of table processed_events
    applied,    \* applied[c][e]: a handler of c ran to its end for e
    dlq,        \* records in the stream MEMORY_DLQ
    dlqIds,     \* Nats-Msg-Ids the DLQ's deduplication window may remember
    batch,      \* batch[w]: fetched deliveries run_once has still to handle
    pc,         \* pc[w]: where run_once is
    cur,        \* cur[w]: the delivery being handled
    lapses,     \* leases that passed under a running handler
    faults      \* part of MaxFaults used so far

brokerVars == <<jet, dlq, dlqIds>>
tableVars  == <<processed, applied>>
workerVars == <<batch, pc, cur>>
vars == <<stream, brokerVars, tableVars, workerVars, lapses, faults>>

Messages   == Events \X (1 .. MaxCopies)
Deliveries == [msg : Messages, attempts : Nat]
NoDelivery == [msg |-> NoWorker, attempts |-> 0]

EventOf(d)    == d.msg[1]
ConsumerOf(w) == w[1]
RowOf(w)      == processed[ConsumerOf(w)][EventOf(cur[w])]

NoRow   == [done |-> FALSE, owner |-> NoWorker, lease |-> "none"]
DoneRow == [done |-> TRUE, owner |-> NoWorker, lease |-> "none"]

InitConsumer ==
    /\ jet = [c \in Consumers |-> [m \in Messages |-> [state |-> "ready", delivered |-> 0]]]
    /\ processed = [c \in Consumers |-> [e \in Events |-> NoRow]]
    /\ applied = [c \in Consumers |-> [e \in Events |-> FALSE]]
    /\ dlq = {}
    /\ dlqIds = {}
    /\ batch = [w \in Workers |-> {}]
    /\ pc = [w \in Workers |-> "loop"]
    /\ cur = [w \in Workers |-> NoDelivery]
    /\ lapses = 0
    /\ faults = 0

Init == stream = [e \in Events |-> 0] /\ InitConsumer

-----------------------------------------------------------------------------
Fault == faults < MaxFaults /\ faults' = faults + 1

Stored(m) == m[2] <= stream[m[1]]

\* The outbox relay stores a copy of an event (module OutboxRelay).
Publish(e) ==
    /\ stream[e] < MaxCopies
    /\ stream' = [stream EXCEPT ![e] = @ + 1]
    /\ UNCHANGED <<brokerVars, tableVars, workerVars, lapses, faults>>

\* subscription.fetch: up to FetchSize messages that are due for delivery.
Fetch(w) ==
    LET c == ConsumerOf(w)
        ready == {m \in Messages : Stored(m) /\ jet[c][m].state = "ready"}
    IN  /\ pc[w] = "loop"
        /\ batch[w] = {}
        /\ \E S \in SUBSET ready :
             /\ Cardinality(S) \in 1 .. FetchSize
             /\ jet' = [jet EXCEPT ![c] = [m \in Messages |->
                  IF m \in S THEN [state |-> "inflight", delivered |-> jet[c][m].delivered + 1]
                             ELSE jet[c][m]]]
             /\ batch' = [batch EXCEPT ![w] =
                  {[msg |-> m, attempts |-> jet[c][m].delivered + 1] : m \in S}]
    /\ UNCHANGED <<stream, dlq, dlqIds, tableVars, pc, cur, lapses, faults>>

Goto(w, label) == pc' = [pc EXCEPT ![w] = label]

SetRow(w, row) ==
    processed' = [processed EXCEPT ![ConsumerOf(w)][EventOf(cur[w])] = row]

\* run_once takes the next message d of its batch.
Take(w, d) ==
    /\ pc[w] = "loop"
    /\ cur' = [cur EXCEPT ![w] = d]
    /\ batch' = [batch EXCEPT ![w] = @ \ {d}]

\* Mutant: a row that is leased but unfinished counts as free.
FreeIfUnfinished(row) == ~ row.done

\* No row, or an unfinished one whose lease is null or has passed.
Free(row) == ~ row.done /\ row.lease # "live"

Lease(w, d) ==
    processed' = [processed EXCEPT ![ConsumerOf(w)][EventOf(d)] =
                    [done |-> FALSE, owner |-> w, lease |-> "live"]]

\* handle() begins: claim_event_processing returns ACQUIRED, COMPLETED or BUSY.
Claim(w, d) ==
    LET row == processed[ConsumerOf(w)][EventOf(d)]
    IN  /\ Take(w, d)
        /\ \/ Free(row) /\ Lease(w, d) /\ Goto(w, "handle")
           \/ row.done /\ UNCHANGED processed /\ Goto(w, "ack")
           \/ ~ row.done /\ ~ Free(row) /\ UNCHANGED processed /\ Goto(w, "retry")
        /\ UNCHANGED <<stream, brokerVars, applied, lapses, faults>>

\* claim_event_processing raises: the transaction was rolled back, or it
\* committed and only its answer was lost.  run_once retries the message.
ClaimRaises(w, d) ==
    /\ Take(w, d)
    /\ Fault
    /\ \/ UNCHANGED processed
       \/ Free(processed[ConsumerOf(w)][EventOf(d)]) /\ Lease(w, d)
    /\ Goto(w, "retry")
    /\ UNCHANGED <<stream, brokerVars, applied, lapses>>

\* The handler returns: its effect is durable.
HandlerReturns(w) ==
    /\ pc[w] = "handle"
    /\ applied' = [applied EXCEPT ![ConsumerOf(w)][EventOf(cur[w])] = TRUE]
    /\ Goto(w, "complete")
    /\ UNCHANGED <<stream, brokerVars, processed, batch, cur, lapses, faults>>

\* Mutant: the error is swallowed and the event completed.
HandlerRaisesUnnoticed(w) ==
    /\ pc[w] = "handle"
    /\ Goto(w, "complete")
    /\ UNCHANGED <<stream, brokerVars, tableVars, batch, cur, lapses, faults>>

\* The handler raises, before or after its effect became durable.
HandlerRaises(w) ==
    /\ pc[w] = "handle"
    /\ applied' \in {applied, [applied EXCEPT ![ConsumerOf(w)][EventOf(cur[w])] = TRUE]}
    /\ Goto(w, "release")
    /\ UNCHANGED <<stream, brokerVars, processed, batch, cur, lapses, faults>>

\* Mutant: anyone may settle the row.
HoldsAlways(w) == TRUE

\* where lease_owner = worker and processed_at is null
Holds(w) == RowOf(w).owner = w /\ ~ RowOf(w).done

\* Mutant: the result of complete_event_processing is not looked at.
CompleteUnchecked(w) ==
    /\ pc[w] = "complete"
    /\ IF Holds(w) THEN SetRow(w, DoneRow) ELSE UNCHANGED processed
    /\ Goto(w, "ack")
    /\ UNCHANGED <<stream, brokerVars, applied, batch, cur, lapses, faults>>

\* complete_event_processing: false, and the message is retried, when another
\* worker took the lease over.
Complete(w) ==
    /\ pc[w] = "complete"
    /\ IF Holds(w)
       THEN SetRow(w, DoneRow) /\ Goto(w, "ack")
       ELSE UNCHANGED processed /\ Goto(w, "retry")
    /\ UNCHANGED <<stream, brokerVars, applied, batch, cur, lapses, faults>>

\* Mutant: the release settles the row as the completion does.
ReleaseSettles(w) ==
    /\ pc[w] = "release"
    /\ IF Holds(w) THEN SetRow(w, DoneRow) ELSE UNCHANGED processed
    /\ Goto(w, "retry")
    /\ UNCHANGED <<stream, brokerVars, applied, batch, cur, lapses, faults>>

\* release_event_processing, then the handler's error reaches run_once.
ReleaseLease(w) ==
    /\ pc[w] = "release"
    /\ IF Holds(w) THEN SetRow(w, NoRow) ELSE UNCHANGED processed
    /\ Goto(w, "retry")
    /\ UNCHANGED <<stream, brokerVars, applied, batch, cur, lapses, faults>>

\* The completion or the release raises.
DatabaseRaises(w) ==
    /\ pc[w] \in {"complete", "release"}
    /\ Fault
    /\ \/ UNCHANGED processed
       \/ pc[w] = "complete" /\ Holds(w) /\ SetRow(w, DoneRow)
       \/ pc[w] = "release" /\ Holds(w) /\ SetRow(w, NoRow)
    /\ Goto(w, "retry")
    /\ UNCHANGED <<stream, brokerVars, applied, batch, cur, lapses>>

-----------------------------------------------------------------------------
\* The broker settles or requeues the message of w's delivery; it ignores an
\* answer for a message that is already settled.
Answer(w, state) ==
    LET c == ConsumerOf(w)
        m == cur[w].msg
    IN  jet' = IF jet[c][m].state \in {"acked", "termed"} THEN jet
               ELSE [jet EXCEPT ![c][m].state = state]

\* run_once moves to the next message.
NextMessage(w) ==
    /\ Goto(w, "loop")
    /\ cur' = [cur EXCEPT ![w] = NoDelivery]
    /\ UNCHANGED batch

\* message.ack_sync
Ack(w) ==
    /\ pc[w] = "ack"
    /\ Answer(w, "acked")
    /\ NextMessage(w)
    /\ UNCHANGED <<stream, dlq, dlqIds, tableVars, lapses, faults>>

\* ack_sync raises: the acknowledgement was lost, or only its confirmation.
AckRaises(w) ==
    /\ pc[w] = "ack"
    /\ Fault
    /\ Answer(w, "acked") \/ UNCHANGED jet
    /\ Goto(w, "retry")
    /\ UNCHANGED <<stream, dlq, dlqIds, tableVars, batch, cur, lapses>>

\* Mutant: a failed message is acknowledged.
NakAsAck(w) ==
    /\ pc[w] = "retry"
    /\ cur[w].attempts < MaxDeliveries
    /\ Answer(w, "acked")
    /\ NextMessage(w)
    /\ UNCHANGED <<stream, dlq, dlqIds, tableVars, lapses, faults>>

\* _retry_or_dead_letter below the delivery limit.
Nak(w) ==
    /\ pc[w] = "retry"
    /\ cur[w].attempts < MaxDeliveries
    /\ Answer(w, "ready")
    /\ NextMessage(w)
    /\ UNCHANGED <<stream, dlq, dlqIds, tableVars, lapses, faults>>

\* Mutant: the record does not name its consumer.
DlqRecordAnonymous(w) == [msg |-> cur[w].msg, attempts |-> cur[w].attempts]

\* The body of _publish_dead_letter.
DlqRecord(w) == [msg |-> cur[w].msg, attempts |-> cur[w].attempts, consumer |-> ConsumerOf(w)]

\* The id is the hash of the raw message and its delivery count, and all
\* consumers share one dead-letter stream.
DlqId(w) == [msg |-> cur[w].msg, attempts |-> cur[w].attempts]

\* Mutant: the dead letter is lost without an error.
StoreDeadLetterNever(w) == UNCHANGED <<dlq, dlqIds>>

\* The broker stores the record, or drops it as a duplicate of an id it has
\* seen; either way the publication is acknowledged.
StoreDeadLetter(w) ==
    \/ dlq' = dlq \cup {DlqRecord(w)} /\ dlqIds' = dlqIds \cup {DlqId(w)}
    \/ DlqId(w) \in dlqIds /\ UNCHANGED <<dlq, dlqIds>>

\* _publish_dead_letter returns.
PublishDeadLetter(w) ==
    /\ pc[w] = "retry"
    /\ cur[w].attempts >= MaxDeliveries
    /\ StoreDeadLetter(w)
    /\ Goto(w, "term")
    /\ UNCHANGED <<stream, jet, tableVars, batch, cur, lapses, faults>>

\* _publish_dead_letter raises: the message is nak'ed, never terminated.
DeadLetterRaises(w) ==
    /\ pc[w] = "retry"
    /\ cur[w].attempts >= MaxDeliveries
    /\ Fault
    /\ StoreDeadLetter(w) \/ UNCHANGED <<dlq, dlqIds>>
    /\ Answer(w, "ready")
    /\ NextMessage(w)
    /\ UNCHANGED <<stream, tableVars, lapses>>

\* message.term
Terminate(w) ==
    /\ pc[w] = "term"
    /\ Answer(w, "termed")
    /\ NextMessage(w)
    /\ UNCHANGED <<stream, dlq, dlqIds, tableVars, lapses, faults>>

\* The operator replays a record: publish a new copy, then delete the record;
\* the script may die in between.
Replay(r) ==
    /\ stream[r.msg[1]] < MaxCopies
    /\ stream' = [stream EXCEPT ![r.msg[1]] = @ + 1]
    /\ dlq' \in {dlq, dlq \ {r}}
    /\ UNCHANGED <<jet, dlqIds, tableVars, workerVars, lapses, faults>>

-----------------------------------------------------------------------------
\* w has message m fetched or in hand.
Holding(w, m) == cur[w].msg = m \/ \E d \in batch[w] : d.msg = m

\* w is between acquiring and giving up the lease on e.
Handling(w, e) ==
    pc[w] \in {"handle", "complete", "release"} /\ EventOf(cur[w]) = e

\* The ack wait of a delivery passes: it is due again.
AckWaitPasses(c, m) ==
    /\ jet[c][m].state = "inflight"
    /\ IF \E w \in Workers : ConsumerOf(w) = c /\ Holding(w, m)
       THEN Fault ELSE UNCHANGED faults
    /\ jet' = [jet EXCEPT ![c][m].state = "ready"]
    /\ UNCHANGED <<stream, dlq, dlqIds, tableVars, workerVars, lapses>>

\* The clock passes lease_until: handle() never renews it.
LeasePasses(c, e) ==
    /\ processed[c][e].lease = "live"
    /\ IF \E w \in Workers : processed[c][e].owner = w /\ Handling(w, e)
       THEN Fault /\ lapses' = lapses + 1
       ELSE UNCHANGED <<faults, lapses>>
    /\ processed' = [processed EXCEPT ![c][e].lease = "expired"]
    /\ UNCHANGED <<stream, brokerVars, applied, workerVars>>

\* The process stops anywhere and restarts under the same worker id.
Crash(w) ==
    /\ batch[w] # {} \/ pc[w] # "loop"
    /\ Fault
    /\ batch' = [batch EXCEPT ![w] = {}]
    /\ pc' = [pc EXCEPT ![w] = "loop"]
    /\ cur' = [cur EXCEPT ![w] = NoDelivery]
    /\ UNCHANGED <<stream, brokerVars, tableVars, lapses>>

WorkerStep(w) ==
    \/ Fetch(w) \/ \E d \in batch[w] : Claim(w, d)
    \/ HandlerReturns(w) \/ HandlerRaises(w)
    \/ Complete(w) \/ ReleaseLease(w)
    \/ Ack(w) \/ Nak(w) \/ PublishDeadLetter(w) \/ Terminate(w)

WorkerFault(w) ==
    \/ \E d \in batch[w] : ClaimRaises(w, d)
    \/ DatabaseRaises(w) \/ AckRaises(w) \/ DeadLetterRaises(w) \/ Crash(w)

ConsumerNext ==
    \/ \E w \in Workers : WorkerStep(w) \/ WorkerFault(w)
    \/ \E c \in Consumers : \/ \E m \in Messages : AckWaitPasses(c, m)
                            \/ \E e \in Events : LeasePasses(c, e)
    \/ \E r \in dlq : Replay(r)

Next == ConsumerNext \/ \E e \in Events : Publish(e)

Spec == Init /\ [][Next]_vars

\* Worker loops and clocks never stop; faults, replays and publications are
\* not forced.
ConsumerFairness ==
    /\ \A w \in Workers : WF_vars(WorkerStep(w))
    /\ \A c \in Consumers : /\ \A m \in Messages : WF_vars(AckWaitPasses(c, m))
                            /\ \A e \in Events : WF_vars(LeasePasses(c, e))

FairSpec == Spec /\ ConsumerFairness

-----------------------------------------------------------------------------
\* Type invariant: broker state, table rows, dead letters and worker states stay
\* in their domains.
TypeOK ==
    /\ stream \in [Events -> 0 .. MaxCopies]
    /\ jet \in [Consumers -> [Messages -> [state : {"ready", "inflight", "acked", "termed"},
                                           delivered : Nat]]]
    /\ processed \in [Consumers -> [Events -> [done : BOOLEAN,
                                               owner : Workers \cup {NoWorker},
                                               lease : {"none", "live", "expired"}]]]
    /\ applied \in [Consumers -> [Events -> BOOLEAN]]
    /\ dlq \subseteq [msg : Messages, attempts : Nat, consumer : Consumers]
    /\ dlqIds \subseteq [msg : Messages, attempts : Nat]
    /\ batch \in [Workers -> SUBSET Deliveries]
    /\ pc \in [Workers -> {"loop", "handle", "complete", "release",
                           "ack", "retry", "term"}]
    /\ cur \in [Workers -> Deliveries \cup {NoDelivery}]
    /\ lapses \in 0 .. MaxFaults
    /\ faults \in 0 .. MaxFaults

\* NatsPullWorker.run_once: the broker forgets a message of a consumer only
\* after the consumer's handler took effect for its event and that completion
\* is on record, whichever delivery, worker or retry acknowledged it.
AckedIsDone ==
    \A c \in Consumers, m \in Messages :
        jet[c][m].state = "acked" => processed[c][m[1]].done /\ applied[c][m[1]]

\* An event that is not finished for c can still reach c: a record of it waits
\* in the dead-letter stream, or the stream holds a copy c has not settled.
Recoverable(c, e) ==
    \/ processed[c][e].done
    \/ \E r \in dlq : r.msg[1] = e
    \/ \E m \in Messages : /\ m[1] = e /\ Stored(m)
                           /\ jet[c][m].state \in {"ready", "inflight"}

\* _retry_or_dead_letter ("never terminally drop without a DLQ copy"): giving a
\* message up never loses its event, although consumers share the dead-letter
\* ids and the operator may be replaying and deleting records meanwhile.
NothingLost ==
    \A c \in Consumers, e \in Events : stream[e] > 0 => Recoverable(c, e)

\* IdempotentEventConsumer: two workers of a consumer are inside the handler of
\* one event only if a lease passed under a running handler.
ExclusiveUnlessLapsed ==
    lapses = 0 =>
        \A v, w \in Workers : \A e \in Events :
            /\ v # w /\ ConsumerOf(v) = ConsumerOf(w)
            /\ pc[v] = "handle" /\ pc[w] = "handle"
            => ~ (EventOf(cur[v]) = e /\ EventOf(cur[w]) = e)

\* IdempotentEventConsumer ("Prevent concurrent duplicates"): no two workers of
\* a consumer are ever inside the handler of one event.
NoConcurrentHandlers ==
    \A v, w \in Workers :
        /\ v # w /\ ConsumerOf(v) = ConsumerOf(w)
        /\ pc[v] = "handle" /\ pc[w] = "handle"
        => EventOf(cur[v]) # EventOf(cur[w])

\* complete_event_processing: a recorded completion is never undone, so an event
\* that was finished is never handled again.
CompletionIsFinal ==
    [][\A c \in Consumers, e \in Events :
         processed[c][e].done =>
            /\ processed'[c][e] = processed[c][e]
            /\ \A w \in Workers :
                 ConsumerOf(w) = c /\ pc'[w] = "handle" /\ EventOf(cur'[w]) = e
                 => pc[w] = "handle"]_vars

\* NatsPullWorker: for every consumer a stored event is eventually finished or
\* parked in the dead-letter stream.
EventuallyFinished ==
    \A c \in Consumers, e \in Events :
        stream[e] > 0 ~> processed[c][e].done \/ \E r \in dlq : r.msg[1] = e
=============================================================================
