----------------------------- MODULE EventPipeline -----------------------------
(***************************************************************************)
(* The path of an event from the ledger transaction that wrote it to its   *)
(* consumers: the relay of module OutboxRelay and the pull workers of      *)
(* module EventConsumer meet in the stream MEMORY_EVENTS and share the     *)
(* fault budget.  The stream's publications are the relay's sends and the  *)
(* operator's replays.                                                     *)
(***************************************************************************)
EXTENDS Naturals, FiniteSets

CONSTANTS Events, RelayWorkers, Consumers, Replicas, NoWorker,
          BatchSize, MaxAttempts, FetchSize, MaxDeliveries, MaxCopies, MaxFaults

\* What the two components assume of their parameters.
ASSUME PipelineAssumptions ==
    /\ Events \subseteq Nat
    /\ NoWorker \notin RelayWorkers /\ NoWorker \notin Consumers \X Replicas
    /\ {BatchSize, MaxAttempts, FetchSize, MaxDeliveries, MaxCopies} \subseteq Nat \ {0}
    /\ MaxFaults \in Nat

VARIABLES
    outbox, relayBatch, relayPc, relayCur,
    stream, faults,
    jet, processed, applied, dlq, dlqIds, batch, pc, cur, lapses

relayVars    == <<outbox, relayBatch, relayPc, relayCur>>
consumerVars == <<jet, processed, applied, dlq, dlqIds, batch, pc, cur, lapses>>
vars == <<relayVars, stream, faults, consumerVars>>

Relay == INSTANCE OutboxRelay WITH
    Workers <- RelayWorkers, batch <- relayBatch, pc <- relayPc, cur <- relayCur

Consumer == INSTANCE EventConsumer

Init == Relay!Init /\ Consumer!InitConsumer

Next ==
    \/ Relay!Next /\ UNCHANGED consumerVars
    \/ Consumer!ConsumerNext /\ UNCHANGED relayVars

Spec == Init /\ [][Next]_vars

-----------------------------------------------------------------------------
\* Refinement mapping: the pipeline's state as the promise sees it.
Delivery == INSTANCE EventDelivery WITH
    committed <- {e \in Events : outbox[e].state # "absent"},
    effect    <- [c \in Consumers |-> {e \in Events : applied[c][e]}],
    finished  <- [c \in Consumers |-> {e \in Events : processed[c][e].done}]

\* The pipeline implements the promise of module EventDelivery: no crash, lapse,
\* duplicate or replay makes a consumer act on an uncommitted event, finish an
\* event without effect, or undo a completion.
ImplementsDelivery == Delivery!Spec

\* OutboxRelay + NatsPullWorker: an event the outbox reports as published is
\* finished by each consumer, or waits for it in the stream or the dead letters.
PublishedReachesConsumers ==
    \A e \in Events, c \in Consumers :
        outbox[e].state = "published" => Consumer!Recoverable(c, e)
=============================================================================
