-------------------------- MODULE EventPipelineProofs --------------------------
(***************************************************************************)
(* Proofs about the composition of module EventPipeline, for any events,   *)
(* relays, consumers and replicas and any limits.                          *)
(*                                                                         *)
(* Each component keeps its own invariant (OutboxRelayProofs,              *)
(* EventConsumerProofs) under the other's steps, because all one does to   *)
(* the variables of the other is to add copies to the stream and to use up *)
(* faults.  One more fact links them: only committed events are in the     *)
(* stream.  From these follow that published events reach the consumers    *)
(* and, step by step, that the pipeline implements EventDelivery.          *)
(***************************************************************************)
EXTENDS EventPipeline, TLAPS

\* The components again, with what is proved of them.
RelayProofs == INSTANCE OutboxRelayProofs WITH
    Workers <- RelayWorkers, batch <- relayBatch, pc <- relayPc, cur <- relayCur

ConsumerProofs == INSTANCE EventConsumerProofs

\* The two instances of each component are the same: action by action.
LEMMA ConsumerSame == Consumer!ConsumerNext => ConsumerProofs!ConsumerNext
<1> USE DEF Consumer!Workers, ConsumerProofs!Workers, Consumer!Messages,
  ConsumerProofs!Messages, Consumer!ConsumerOf, ConsumerProofs!ConsumerOf, Consumer!Stored,
  ConsumerProofs!Stored, Consumer!tableVars, ConsumerProofs!tableVars, Consumer!brokerVars,
  ConsumerProofs!brokerVars, Consumer!workerVars, ConsumerProofs!workerVars, Consumer!Fault,
  ConsumerProofs!Fault, Consumer!EventOf, ConsumerProofs!EventOf, Consumer!Goto,
  ConsumerProofs!Goto, Consumer!SetRow, ConsumerProofs!SetRow, Consumer!Take,
  ConsumerProofs!Take, Consumer!Free, ConsumerProofs!Free, Consumer!Lease, ConsumerProofs!Lease,
  Consumer!Holds, ConsumerProofs!Holds, Consumer!RowOf, ConsumerProofs!RowOf, Consumer!NoRow,
  ConsumerProofs!NoRow, Consumer!DoneRow, ConsumerProofs!DoneRow, Consumer!Answer,
  ConsumerProofs!Answer, Consumer!NextMessage, ConsumerProofs!NextMessage, Consumer!NoDelivery,
  ConsumerProofs!NoDelivery, Consumer!DlqRecord, ConsumerProofs!DlqRecord, Consumer!DlqId,
  ConsumerProofs!DlqId, Consumer!StoreDeadLetter, ConsumerProofs!StoreDeadLetter,
  Consumer!Holding, ConsumerProofs!Holding, Consumer!Handling, ConsumerProofs!Handling
<1>1. \A w : Consumer!Fetch(w) => ConsumerProofs!Fetch(w)
  <2> SUFFICES ASSUME NEW w, Consumer!Fetch(w) PROVE ConsumerProofs!Fetch(w)
    OBVIOUS
  <2> DEFINE c == w[1]
             ready == {m \in Events \X (1 .. MaxCopies) : m[2] <= stream[m[1]] /\ jet[c][m].state = "ready"}
  <2>1. PICK S \in SUBSET ready :
             /\ Consumer!Cardinality(S) \in 1 .. FetchSize
             /\ jet' = [jet EXCEPT ![c] = [m \in Events \X (1 .. MaxCopies) |->
                  IF m \in S THEN [state |-> "inflight", delivered |-> jet[c][m].delivered + 1]
                             ELSE jet[c][m]]]
             /\ batch' = [batch EXCEPT ![w] =
                  {[msg |-> m, attempts |-> jet[c][m].delivered + 1] : m \in S}]
    BY DEF Consumer!Fetch
  <2>2. QED
    <3>1. Consumer!Cardinality(S) = ConsumerProofs!Cardinality(S)
      BY DEF Consumer!Cardinality, ConsumerProofs!Cardinality
    <3>2. pc[w] = "loop" /\ batch[w] = {}
          /\ UNCHANGED <<stream, dlq, dlqIds, processed, applied, pc, cur, lapses, faults>>
      BY DEF Consumer!Fetch
    <3>3. QED
      BY <2>1, <3>1, <3>2 DEF ConsumerProofs!Fetch
<1>2. \A w : Consumer!HandlerReturns(w) => ConsumerProofs!HandlerReturns(w)
  BY DEF Consumer!HandlerReturns, ConsumerProofs!HandlerReturns
<1>3. \A w : Consumer!HandlerRaises(w) => ConsumerProofs!HandlerRaises(w)
  BY DEF Consumer!HandlerRaises, ConsumerProofs!HandlerRaises
<1>4. \A w : Consumer!Complete(w) => ConsumerProofs!Complete(w)
  BY SMTT(30) DEF Consumer!Complete, ConsumerProofs!Complete
<1>5. \A w : Consumer!ReleaseLease(w) => ConsumerProofs!ReleaseLease(w)
  BY SMTT(30) DEF Consumer!ReleaseLease, ConsumerProofs!ReleaseLease
<1>6. \A w : Consumer!DatabaseRaises(w) => ConsumerProofs!DatabaseRaises(w)
  BY DEF Consumer!DatabaseRaises, ConsumerProofs!DatabaseRaises
<1>7. \A w : Consumer!Ack(w) => ConsumerProofs!Ack(w)
  BY DEF Consumer!Ack, ConsumerProofs!Ack
<1>8. \A w : Consumer!AckRaises(w) => ConsumerProofs!AckRaises(w)
  BY DEF Consumer!AckRaises, ConsumerProofs!AckRaises
<1>9. \A w : Consumer!Nak(w) => ConsumerProofs!Nak(w)
  BY DEF Consumer!Nak, ConsumerProofs!Nak
<1>10. \A w : Consumer!PublishDeadLetter(w) => ConsumerProofs!PublishDeadLetter(w)
  BY DEF Consumer!PublishDeadLetter, ConsumerProofs!PublishDeadLetter
<1>11. \A w : Consumer!DeadLetterRaises(w) => ConsumerProofs!DeadLetterRaises(w)
  BY DEF Consumer!DeadLetterRaises, ConsumerProofs!DeadLetterRaises
<1>12. \A w : Consumer!Terminate(w) => ConsumerProofs!Terminate(w)
  BY DEF Consumer!Terminate, ConsumerProofs!Terminate
<1>13. \A w : Consumer!Crash(w) => ConsumerProofs!Crash(w)
  BY SMTT(30) DEF Consumer!Crash, ConsumerProofs!Crash
<1>14. \A w, d : Consumer!Claim(w, d) => ConsumerProofs!Claim(w, d)
  BY DEF Consumer!Claim, ConsumerProofs!Claim
<1>15. \A w, d : Consumer!ClaimRaises(w, d) => ConsumerProofs!ClaimRaises(w, d)
  BY DEF Consumer!ClaimRaises, ConsumerProofs!ClaimRaises
<1>16. \A c, m : Consumer!AckWaitPasses(c, m) => ConsumerProofs!AckWaitPasses(c, m)
  BY DEF Consumer!AckWaitPasses, ConsumerProofs!AckWaitPasses
<1>17. \A c, e : Consumer!LeasePasses(c, e) => ConsumerProofs!LeasePasses(c, e)
  BY DEF Consumer!LeasePasses, ConsumerProofs!LeasePasses
<1>18. \A r : Consumer!Replay(r) => ConsumerProofs!Replay(r)
  BY DEF Consumer!Replay, ConsumerProofs!Replay
<1>19. QED
  BY <1>1, <1>2, <1>3, <1>4, <1>5, <1>6, <1>7, <1>8, <1>9, <1>10, <1>11, <1>12, <1>13,
     <1>14, <1>15, <1>16, <1>17, <1>18
  DEF Consumer!ConsumerNext, ConsumerProofs!ConsumerNext, Consumer!WorkerStep,
      ConsumerProofs!WorkerStep, Consumer!WorkerFault, ConsumerProofs!WorkerFault

\* The same for the relay.
LEMMA RelaySame == Relay!Next => RelayProofs!Next
<1> USE DEF Relay!NoClaim, RelayProofs!NoClaim, Relay!Claimable, RelayProofs!Claimable,
  Relay!Locked, RelayProofs!Locked, Relay!Leased, RelayProofs!Leased, Relay!Owned,
  RelayProofs!Owned, Relay!NextRow, RelayProofs!NextRow, Relay!Published, RelayProofs!Published,
  Relay!Exhausted, RelayProofs!Exhausted, Relay!Released, RelayProofs!Released,
  Relay!StoreOrDedupe, RelayProofs!StoreOrDedupe, Relay!Working, RelayProofs!Working
<1>1. \A e : Relay!Commit(e) => RelayProofs!Commit(e)
  BY DEF Relay!Commit, RelayProofs!Commit
<1>2. \A e : Relay!LeaseLapses(e) => RelayProofs!LeaseLapses(e)
  BY DEF Relay!LeaseLapses, RelayProofs!LeaseLapses
<1>3. \A e : Relay!Clock(e) => RelayProofs!Clock(e)
  BY DEF Relay!Clock, RelayProofs!Clock, Relay!LeaseAbandoned, RelayProofs!LeaseAbandoned,
         Relay!RetryDue, RelayProofs!RetryDue
<1>4. \A S : Relay!FirstOf(S) = RelayProofs!FirstOf(S)
  <2>1. \A T : Relay!Cardinality(T) = RelayProofs!Cardinality(T)
    BY DEF Relay!Cardinality, RelayProofs!Cardinality
  <2>2. QED
    BY <2>1 DEF Relay!FirstOf, RelayProofs!FirstOf
<1>5. \A w : Relay!Claim(w) => RelayProofs!Claim(w)
  BY <1>4, ZenonT(60) DEF Relay!Claim, RelayProofs!Claim
<1>6. \A w, c : Relay!SendAcked(w, c) => RelayProofs!SendAcked(w, c)
  BY DEF Relay!SendAcked, RelayProofs!SendAcked
<1>7. \A w, c : Relay!SendFails(w, c) => RelayProofs!SendFails(w, c)
  BY DEF Relay!SendFails, RelayProofs!SendFails
<1>8. \A w : Relay!MarkPublished(w) => RelayProofs!MarkPublished(w)
  BY DEF Relay!MarkPublished, RelayProofs!MarkPublished
<1>9. \A w : Relay!Release(w) => RelayProofs!Release(w)
  BY DEF Relay!Release, RelayProofs!Release
<1>10. \A w : Relay!Crash(w) => RelayProofs!Crash(w)
  BY DEF Relay!Crash, RelayProofs!Crash
<1>11. QED
  BY <1>1, <1>2, <1>3, <1>5, <1>6, <1>7, <1>8, <1>9, <1>10
  DEF Relay!Next, RelayProofs!Next, Relay!RelayStep, RelayProofs!RelayStep

-----------------------------------------------------------------------------
\* The two components' invariants, and what links them: only committed events are
\* in the stream.
PipelineInv == RelayProofs!Inv /\ RelayProofs!SentCommitted /\ ConsumerProofs!Inv

\* The components' assumptions follow from the pipeline's.
LEMMA Parameters == /\ Events \subseteq Nat /\ NoWorker \notin RelayWorkers
                    /\ NoWorker \notin ConsumerProofs!Workers
                    /\ BatchSize \in Nat \ {0} /\ MaxAttempts \in Nat \ {0}
                    /\ FetchSize \in Nat \ {0} /\ MaxDeliveries \in Nat \ {0}
                    /\ MaxCopies \in Nat \ {0} /\ MaxFaults \in Nat
BY PipelineAssumptions DEF ConsumerProofs!Workers

\* The empty pipeline satisfies it.
LEMMA PipelineInit == Init => PipelineInv
<1> SUFFICES ASSUME Init PROVE PipelineInv
  OBVIOUS
<1>1. RelayProofs!Init
  BY DEF Init, Relay!Init, RelayProofs!Init, Relay!NoClaim, RelayProofs!NoClaim
<1>2. ConsumerProofs!Init
  BY DEF Init, Relay!Init, Consumer!InitConsumer, ConsumerProofs!Init,
         ConsumerProofs!InitConsumer, Consumer!Messages, ConsumerProofs!Messages, Consumer!NoRow,
         ConsumerProofs!NoRow, Consumer!NoDelivery, ConsumerProofs!NoDelivery, Consumer!Workers,
         ConsumerProofs!Workers
<1>3. RelayProofs!Inv
  BY <1>1, Parameters, RelayProofs!InvInit
<1>4. ConsumerProofs!Inv
  BY <1>2, Parameters, ConsumerProofs!InvInit
<1>5. RelayProofs!SentCommitted
  BY <1>1 DEF RelayProofs!Init, RelayProofs!SentCommitted
<1>6. QED
  BY <1>3, <1>4, <1>5 DEF PipelineInv

\* A relay step: to the consumers, the stream grows and faults are used up.
LEMMA RelaySteps ==
  ASSUME PipelineInv, Relay!Next, UNCHANGED consumerVars
  PROVE  /\ PipelineInv'
         /\ RelayProofs!CommitsOne \/ RelayProofs!CommitsNone
<1>1. RelayProofs!Next
  BY RelaySame
<1>2. RelayProofs!CommitsOne \/ RelayProofs!CommitsNone
  BY <1>1, Parameters, RelayProofs!CommitsAtMostOne DEF PipelineInv
<1>3. RelayProofs!Inv'
  BY <1>1, Parameters, RelayProofs!InvStep DEF PipelineInv
<1>4. /\ RelayProofs!SentCommitted'
      /\ stream' \in [Events -> 0 .. MaxCopies]
      /\ \A e \in Events : stream[e] <= stream'[e]
      /\ faults' \in faults .. MaxFaults
  BY <1>1, Parameters, RelayProofs!SentCommittedStep DEF PipelineInv
<1>5. ConsumerProofs!Grows
  BY <1>4 DEF ConsumerProofs!Grows, consumerVars, ConsumerProofs!brokerVars,
              ConsumerProofs!tableVars, ConsumerProofs!workerVars
<1>6. ConsumerProofs!Inv'
  BY <1>5, Parameters, ConsumerProofs!InvGrows DEF PipelineInv
<1>7. QED
  BY <1>2, <1>3, <1>4, <1>6 DEF PipelineInv

\* A consumer step: to the relay, copies of events it already sent are added and
\* faults are used up.
LEMMA ConsumerSteps ==
  ASSUME PipelineInv, Consumer!ConsumerNext, UNCHANGED relayVars
  PROVE  /\ PipelineInv'
         /\ ConsumerProofs!AppliesOne \/ ConsumerProofs!FinishesOne \/ ConsumerProofs!Unseen
<1>1. ConsumerProofs!ConsumerNext
  BY ConsumerSame
<1>2. ConsumerProofs!AppliesOne \/ ConsumerProofs!FinishesOne \/ ConsumerProofs!Unseen
  BY <1>1, Parameters, ConsumerProofs!ConsumerEffects DEF PipelineInv
<1>3. ConsumerProofs!Inv'
  BY <1>1, Parameters, ConsumerProofs!InvConsumer DEF PipelineInv
<1>4. /\ stream' \in [Events -> 0 .. MaxCopies]
      /\ \A e \in Events : stream[e] <= stream'[e]
      /\ \A e \in Events : stream'[e] > 0 => stream[e] > 0
      /\ faults' \in faults .. MaxFaults
  BY <1>1, Parameters, ConsumerProofs!ConsumerShares DEF PipelineInv
<1>5. RelayProofs!Grows
  BY <1>4 DEF RelayProofs!Grows, relayVars
<1>6. RelayProofs!Inv'
  BY <1>5, Parameters, RelayProofs!InvGrows DEF PipelineInv
<1>7. RelayProofs!SentCommitted'
  BY <1>4 DEF PipelineInv, RelayProofs!SentCommitted, RelayProofs!Committed, relayVars
<1>8. QED
  BY <1>2, <1>3, <1>6, <1>7 DEF PipelineInv

\* A stuttering step.
LEMMA PipelineStutters == ASSUME PipelineInv, UNCHANGED vars PROVE PipelineInv'
<1>1. RelayProofs!Inv'
  BY Parameters, RelayProofs!InvStep DEF PipelineInv, vars, relayVars, RelayProofs!vars
<1>2. ConsumerProofs!Inv'
  BY Parameters, ConsumerProofs!InvStep
  DEF PipelineInv, vars, consumerVars, ConsumerProofs!vars, ConsumerProofs!brokerVars,
      ConsumerProofs!tableVars, ConsumerProofs!workerVars
<1>3. RelayProofs!SentCommitted'
  BY DEF PipelineInv, RelayProofs!SentCommitted, RelayProofs!Committed, vars, relayVars
<1>4. QED
  BY <1>1, <1>2, <1>3 DEF PipelineInv

\* Hence the invariant of the composition.
LEMMA PipelineInvariance == Spec => []PipelineInv
<1>1. PipelineInv /\ [Next]_vars => PipelineInv'
  BY RelaySteps, ConsumerSteps, PipelineStutters DEF Next
<1>2. QED
  BY <1>1, PipelineInit, PTL DEF Spec

\* OutboxRelay + NatsPullWorker: an event the outbox reports as published is
\* finished by each consumer, or still waits for it, for any number of events,
\* relays, consumers and replicas.
THEOREM PublishedReaches == Spec => []PublishedReachesConsumers
<1>1. PipelineInv => PublishedReachesConsumers
  <2> SUFFICES ASSUME PipelineInv, NEW e \in Events, NEW c \in Consumers,
                      outbox[e].state = "published"
               PROVE  Consumer!Recoverable(c, e)
    BY DEF PublishedReachesConsumers
  <2>1. stream[e] > 0
    BY DEF PipelineInv, RelayProofs!Inv, RelayProofs!PublishedIsStored
  <2>2. ConsumerProofs!NothingLost
    BY Parameters, ConsumerProofs!InvKeepsAll DEF PipelineInv
  <2>3. ConsumerProofs!Recoverable(c, e)
    BY <2>1, <2>2 DEF ConsumerProofs!NothingLost
  <2>4. QED
    BY <2>3 DEF ConsumerProofs!Recoverable, Consumer!Recoverable, ConsumerProofs!Messages,
                Consumer!Messages, ConsumerProofs!Stored, Consumer!Stored
<1>2. QED
  BY <1>1, PipelineInvariance, PTL

-----------------------------------------------------------------------------
\* The refinement mapping, by name.
committedBar == {e \in Events : outbox[e].state # "absent"}
effectBar    == [c \in Consumers |-> {e \in Events : applied[c][e]}]
finishedBar  == [c \in Consumers |-> {e \in Events : processed[c][e].done}]

\* A relay step commits one event, or is invisible.
LEMMA RelayRefines ==
  ASSUME PipelineInv, Relay!Next, UNCHANGED consumerVars
  PROVE  Delivery!Next \/ UNCHANGED <<committedBar, effectBar, finishedBar>>
<1>1. UNCHANGED <<effectBar, finishedBar>>
  BY DEF consumerVars, effectBar, finishedBar
<1>2. CASE RelayProofs!CommitsOne
  <2>1. PICK x \in Events :
          /\ outbox[x].state = "absent"
          /\ \A e \in Events : outbox'[e].state # "absent" <=> outbox[e].state # "absent" \/ e = x
    BY <1>2 DEF RelayProofs!CommitsOne, RelayProofs!Committed
  <2>2. x \notin committedBar /\ committedBar' = committedBar \cup {x}
    BY <2>1 DEF committedBar
  <2>3. Delivery!Commit(x)
    BY <1>1, <2>2 DEF Delivery!Commit, committedBar, effectBar, finishedBar
  <2>4. QED
    BY <2>3 DEF Delivery!Next
<1>3. CASE RelayProofs!CommitsNone
  BY <1>1, <1>3 DEF RelayProofs!CommitsNone, RelayProofs!Committed, committedBar
<1>4. QED
  BY <1>2, <1>3, RelaySteps

\* A consumer step applies one committed event, finishes one that was applied, or
\* is invisible.
LEMMA ConsumerRefines ==
  ASSUME PipelineInv, Consumer!ConsumerNext, UNCHANGED relayVars
  PROVE  Delivery!Next \/ UNCHANGED <<committedBar, effectBar, finishedBar>>
<1>1. UNCHANGED committedBar
  BY DEF relayVars, committedBar
<1>2. CASE ConsumerProofs!AppliesOne
  <2>1. PICK c \in Consumers, e \in Events :
          /\ stream[e] > 0 /\ ConsumerProofs!SameDone
          /\ \A b \in Consumers, f \in Events :
               applied'[b][f] <=> applied[b][f] \/ (b = c /\ f = e)
    BY <1>2 DEF ConsumerProofs!AppliesOne
  <2>2. e \in committedBar
    BY <2>1 DEF PipelineInv, RelayProofs!SentCommitted, RelayProofs!Committed, committedBar
  <2>3. UNCHANGED finishedBar
    BY <2>1 DEF ConsumerProofs!SameDone, finishedBar
  <2>4. effectBar' = [effectBar EXCEPT ![c] = @ \cup {e}]
    BY <2>1 DEF effectBar
  <2>5. Delivery!Apply(c, e)
    BY <1>1, <2>2, <2>3, <2>4 DEF Delivery!Apply, committedBar, effectBar, finishedBar
  <2>6. QED
    BY <2>5 DEF Delivery!Next
<1>3. CASE ConsumerProofs!FinishesOne
  <2>1. PICK c \in Consumers, e \in Events :
          /\ applied[c][e] /\ ~ processed[c][e].done /\ applied' = applied
          /\ \A b \in Consumers, f \in Events :
               processed'[b][f].done <=> processed[b][f].done \/ (b = c /\ f = e)
    BY <1>3 DEF ConsumerProofs!FinishesOne
  <2>2. e \in effectBar[c] \ finishedBar[c] /\ UNCHANGED effectBar
    BY <2>1 DEF effectBar, finishedBar
  <2>3. finishedBar' = [finishedBar EXCEPT ![c] = @ \cup {e}]
    BY <2>1 DEF finishedBar
  <2>4. Delivery!Finish(c, e)
    BY <1>1, <2>2, <2>3 DEF Delivery!Finish, committedBar, effectBar, finishedBar
  <2>5. QED
    BY <2>4 DEF Delivery!Next
<1>4. CASE ConsumerProofs!Unseen
  BY <1>1, <1>4 DEF ConsumerProofs!Unseen, ConsumerProofs!SameDone, effectBar, finishedBar
<1>5. QED
  BY <1>2, <1>3, <1>4, ConsumerSteps

\* The pipeline implements module EventDelivery: every step of relays, consumers,
\* clocks, crashes and replays is a commit, an effect of a committed event, a
\* completion after an effect, or invisible.
THEOREM PipelineImplements == Spec => ImplementsDelivery
<1>1. Init => Delivery!Init
  BY DEF Init, Relay!Init, Consumer!InitConsumer, Consumer!NoRow, Delivery!Init
<1>2. ASSUME PipelineInv, [Next]_vars PROVE [Delivery!Next]_(Delivery!vars)
  <2>1. CASE UNCHANGED vars
    BY <2>1 DEF vars, relayVars, consumerVars, Delivery!vars
  <2>2. CASE Next
    BY <1>2, <2>2, RelayRefines, ConsumerRefines
    DEF Next, Delivery!vars, committedBar, effectBar, finishedBar
  <2>3. QED
    BY <1>2, <2>1, <2>2
<1>3. QED
  BY <1>1, <1>2, PipelineInvariance, PTL DEF Spec, ImplementsDelivery, Delivery!Spec
=============================================================================
