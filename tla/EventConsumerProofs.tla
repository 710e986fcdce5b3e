-------------------------- MODULE EventConsumerProofs --------------------------
(***************************************************************************)
(* Proofs about module EventConsumer, for any events, consumers, replicas, *)
(* delivery limit, copies and fault budget.                                *)
(*                                                                         *)
(* The invariant is three layers, each proved on top of the one before:    *)
(* where messages are (Placed), what rows and workers know of each other   *)
(* (RowsAgree), and why no event is lost (Kept).  The last is not          *)
(* inductive as stated: which copy of an event is still to be delivered    *)
(* changes with every replay.  NewestKept names it: the newest one.        *)
(***************************************************************************)
EXTENDS EventConsumer, TLAPS

States == {"ready", "inflight", "acked", "termed"}
Labels == {"loop", "handle", "complete", "release", "ack", "retry", "term"}
Row == [done : BOOLEAN, owner : Workers \cup {NoWorker}, lease : {"none", "live", "expired"}]
Job == [state : States, delivered : Nat]

\* A worker works on a delivery of a stored message.
CurStored ==
    \A w \in Workers :
        /\ pc[w] # "loop" => cur[w] \in Deliveries /\ Stored(cur[w].msg)
        /\ \A d \in batch[w] : Stored(d.msg)

\* A message that is not stored yet was never delivered.
UnsentReady == \A c \in Consumers, m \in Messages : jet[c][m].state # "ready" => Stored(m)

\* Dead letters are of stored messages.
ParkedStored == (\A r \in dlq : Stored(r.msg)) /\ (\A i \in dlqIds : Stored(i.msg))

\* Every message is where the stream put it.
Placed == TypeOK /\ CurStored /\ UnsentReady /\ ParkedStored /\ lapses <= faults

\* What the actions of other components may do here: the stream grows, faults
\* are used up.
Grows ==
    /\ stream' \in [Events -> 0 .. MaxCopies]
    /\ \A e \in Events : stream[e] <= stream'[e]
    /\ faults' \in faults .. MaxFaults
    /\ UNCHANGED <<brokerVars, tableVars, workerVars, lapses>>

LEMMA PublishGrows ==
  ASSUME Placed, (\E e \in Events : Publish(e)) \/ UNCHANGED vars
  PROVE  Grows
<1>1. ASSUME NEW e \in Events, Publish(e) PROVE Grows
  <2>1. /\ stream' = [stream EXCEPT ![e] = @ + 1] /\ stream[e] < MaxCopies
        /\ UNCHANGED <<brokerVars, tableVars, workerVars, lapses, faults>>
    BY <1>1 DEF Publish
  <2>2. \A f \in Events : stream'[f] = IF f = e THEN stream[f] + 1 ELSE stream[f]
    BY <2>1 DEF Placed, TypeOK
  <2>3. stream' \in [Events -> 0 .. MaxCopies] /\ \A f \in Events : stream[f] <= stream'[f]
    BY <2>1, <2>2, ConsumerAssumptions DEF Placed, TypeOK
  <2>4. faults' \in faults .. MaxFaults
    BY <2>1, ConsumerAssumptions DEF Placed, TypeOK
  <2>5. QED
    BY <2>1, <2>3, <2>4 DEF Grows
<1>2. CASE UNCHANGED vars
  BY <1>2, ConsumerAssumptions DEF Placed, TypeOK, Grows, vars
<1>3. QED
  BY <1>1, <1>2

\* A worker and the consumer it works for, a message and its event.
LEMMA WorkerFacts == \A w \in Workers : ConsumerOf(w) \in Consumers
BY DEF Workers, ConsumerOf

LEMMA MessageFacts ==
  \A m \in Messages : m[1] \in Events /\ m[2] \in 1 .. MaxCopies /\ m = <<m[1], m[2]>>
BY DEF Messages

LEMMA DeliveryFacts ==
  \A d \in Deliveries : d.msg \in Messages /\ d.attempts \in Nat /\ EventOf(d) \in Events
BY MessageFacts DEF Deliveries, EventOf

LEMMA PlacedGrows == ASSUME Placed, Grows PROVE Placed'
<1>1. TypeOK'
  BY ConsumerAssumptions DEF Placed, TypeOK, Grows, brokerVars, tableVars, workerVars
<1>2. \A m \in Messages : Stored(m) => Stored(m)'
  <2>1. ASSUME NEW m \in Messages, Stored(m) PROVE Stored(m)'
    <3>1. m[1] \in Events /\ m[2] \in Nat
      BY MessageFacts, ConsumerAssumptions
    <3>2. stream[m[1]] \in Nat /\ stream'[m[1]] \in Nat /\ stream[m[1]] <= stream'[m[1]]
      BY <3>1, ConsumerAssumptions DEF Placed, TypeOK, Grows
    <3>3. QED
      BY <2>1, <3>1, <3>2 DEF Stored
  <2>2. QED
    BY <2>1
<1>3. CurStored' /\ UnsentReady' /\ ParkedStored'
  BY <1>2 DEF Placed, TypeOK, CurStored, UnsentReady, ParkedStored, Grows, Deliveries,
              brokerVars, tableVars, workerVars
<1>4. lapses' <= faults'
  BY ConsumerAssumptions DEF Placed, TypeOK, Grows
<1>5. QED
  BY <1>1, <1>3, <1>4 DEF Placed

\* A worker that is past its loop has a delivery of a stored message in hand.
LEMMA InHand ==
  ASSUME Placed, NEW w \in Workers, pc[w] # "loop"
  PROVE  /\ cur[w] \in Deliveries /\ cur[w].msg \in Messages /\ Stored(cur[w].msg)
         /\ EventOf(cur[w]) \in Events /\ EventOf(cur[w]) = cur[w].msg[1]
         /\ cur[w].attempts \in Nat
BY DeliveryFacts DEF Placed, CurStored, EventOf

\* An answer settles or requeues at most the message in hand, and nothing that is
\* settled already.
LEMMA AnswerFacts ==
  ASSUME Placed, NEW w \in Workers, pc[w] # "loop", NEW state \in States, Answer(w, state)
  PROVE  /\ jet' \in [Consumers -> [Messages -> Job]]
         /\ \A c \in Consumers, m \in Messages :
              jet'[c][m].state # jet[c][m].state =>
                /\ c = ConsumerOf(w) /\ m = cur[w].msg /\ jet'[c][m].state = state
                /\ jet[c][m].state \notin {"acked", "termed"}
<1> DEFINE c == ConsumerOf(w)
           m == cur[w].msg
<1>1. c \in Consumers /\ m \in Messages
  BY WorkerFacts, InHand
<1>2. jet \in [Consumers -> [Messages -> Job]]
  BY DEF Placed, TypeOK, Job, States
<1>3. CASE jet[c][m].state \in {"acked", "termed"}
  BY <1>2, <1>3 DEF Answer
<1>4. CASE jet[c][m].state \notin {"acked", "termed"}
  <2>1. jet' = [jet EXCEPT ![c] = [jet[c] EXCEPT ![m] = [jet[c][m] EXCEPT !.state = state]]]
    BY <1>4 DEF Answer
  <2>2. [jet[c][m] EXCEPT !.state = state] \in Job
    BY <1>1, <1>2 DEF Job
  <2>3. [jet[c] EXCEPT ![m] = [jet[c][m] EXCEPT !.state = state]] \in [Messages -> Job]
    BY <1>1, <1>2, <2>2
  <2>4. jet' \in [Consumers -> [Messages -> Job]]
    BY <1>1, <1>2, <2>1, <2>3
  <2>5. [jet[c][m] EXCEPT !.state = state].state = state
    BY <1>1, <1>2 DEF Job
  <2>6. QED
    BY <1>1, <1>2, <1>4, <2>1, <2>4, <2>5
<1>5. QED
  BY <1>3, <1>4

\* claim_event_processing, complete_event_processing and release_event_processing
\* write at most one row, and a row.
LEMMA RowFacts ==
  ASSUME Placed, NEW c \in Consumers, NEW e \in Events, NEW row \in Row,
         processed' = [processed EXCEPT ![c][e] = row]
  PROVE  /\ processed' \in [Consumers -> [Events -> Row]]
         /\ \A b \in Consumers, f \in Events :
              processed'[b][f] = IF b = c /\ f = e THEN row ELSE processed[b][f]
<1>1. processed \in [Consumers -> [Events -> Row]]
  BY DEF Placed, TypeOK, Row
<1>2. [processed[c] EXCEPT ![e] = row] \in [Events -> Row]
  BY <1>1
<1>3. processed' = [processed EXCEPT ![c] = [processed[c] EXCEPT ![e] = row]]
  OBVIOUS
<1>4. QED
  BY <1>1, <1>2, <1>3

\* The handler of an event takes effect.
LEMMA AppliedFacts ==
  ASSUME Placed, NEW c \in Consumers, NEW e \in Events,
         applied' = [applied EXCEPT ![c][e] = TRUE]
  PROVE  /\ applied' \in [Consumers -> [Events -> BOOLEAN]]
         /\ \A b \in Consumers, f \in Events :
              applied'[b][f] = IF b = c /\ f = e THEN TRUE ELSE applied[b][f]
<1>1. applied \in [Consumers -> [Events -> BOOLEAN]]
  BY DEF Placed, TypeOK
<1>2. [applied[c] EXCEPT ![e] = TRUE] \in [Events -> BOOLEAN]
  BY <1>1
<1>3. applied' = [applied EXCEPT ![c] = [applied[c] EXCEPT ![e] = TRUE]]
  OBVIOUS
<1>4. QED
  BY <1>1, <1>2, <1>3, ZenonT(60)

\* A fault is drawn from the budget.
LEMMA FaultFacts ==
  ASSUME Placed, Fault
  PROVE  faults' \in 0 .. MaxFaults /\ faults' = faults + 1 /\ lapses + 1 <= faults'
BY ConsumerAssumptions DEF Placed, TypeOK, Fault

\* fetch hands out stored messages.
LEMMA FetchFacts ==
  ASSUME Placed, NEW w \in Workers, Fetch(w)
  PROVE  /\ jet' \in [Consumers -> [Messages -> Job]]
         /\ \A b \in Consumers, m \in Messages :
              jet'[b][m].state # jet[b][m].state =>
                Stored(m) /\ jet[b][m].state = "ready" /\ jet'[b][m].state = "inflight"
         /\ batch' \in [Workers -> SUBSET Deliveries]
         /\ \A v \in Workers : \A d \in batch'[v] : Stored(d.msg)
         /\ UNCHANGED <<stream, dlq, dlqIds, tableVars, pc, cur, lapses, faults>>
<1> DEFINE c == ConsumerOf(w)
<1>1. PICK S \in SUBSET {m \in Messages : Stored(m) /\ jet[c][m].state = "ready"} :
        /\ jet' = [jet EXCEPT ![c] = [m \in Messages |->
             IF m \in S THEN [state |-> "inflight", delivered |-> jet[c][m].delivered + 1]
                        ELSE jet[c][m]]]
        /\ batch' = [batch EXCEPT ![w] =
             {[msg |-> m, attempts |-> jet[c][m].delivered + 1] : m \in S}]
  BY DEF Fetch
<1>2. UNCHANGED <<stream, dlq, dlqIds, tableVars, pc, cur, lapses, faults>>
  BY DEF Fetch
<1>3. c \in Consumers /\ jet \in [Consumers -> [Messages -> Job]]
  BY WorkerFacts DEF Placed, TypeOK, Job, States
<1>4. \A m \in S : m \in Messages /\ Stored(m) /\ jet[c][m].delivered + 1 \in Nat
  BY <1>3 DEF Job
<1>5. jet' \in [Consumers -> [Messages -> Job]]
  <2>1. \A m \in S : [state |-> "inflight", delivered |-> jet[c][m].delivered + 1] \in Job
    BY <1>4 DEF Job, States
  <2>2. [m \in Messages |->
           IF m \in S THEN [state |-> "inflight", delivered |-> jet[c][m].delivered + 1]
                      ELSE jet[c][m]] \in [Messages -> Job]
    BY <1>3, <2>1
  <2>3. QED
    BY <1>1, <1>3, <2>2
<1>6. \A b \in Consumers, m \in Messages :
        jet'[b][m].state # jet[b][m].state =>
          Stored(m) /\ jet[b][m].state = "ready" /\ jet'[b][m].state = "inflight"
  BY <1>1, <1>3, <1>4
<1>7. \A d \in {[msg |-> m, attempts |-> jet[c][m].delivered + 1] : m \in S} :
        d \in Deliveries /\ Stored(d.msg)
  BY <1>4 DEF Deliveries
<1>8. batch' \in [Workers -> SUBSET Deliveries] /\ \A v \in Workers : \A d \in batch'[v] : Stored(d.msg)
  BY <1>1, <1>7 DEF Placed, TypeOK, CurStored
<1>9. QED
  BY <1>2, <1>5, <1>6, <1>8

LEMMA PlacedFetch == ASSUME Placed, NEW w \in Workers, Fetch(w) PROVE Placed'
<1>1. TypeOK'
  BY FetchFacts DEF Placed, TypeOK, Job, States, tableVars
<1>2. CurStored'
  BY FetchFacts DEF Placed, CurStored, Stored
<1>3. UnsentReady' /\ ParkedStored' /\ lapses' <= faults'
  BY FetchFacts DEF Placed, UnsentReady, ParkedStored, Stored
<1>4. QED
  BY <1>1, <1>2, <1>3 DEF Placed

\* What handle() does with a delivery, up to the answer: only the row, the effect
\* and the worker's place change.
Handle(w) ==
    /\ UNCHANGED <<stream, brokerVars>>
    /\ processed' \in [Consumers -> [Events -> Row]]
    /\ applied' \in [Consumers -> [Events -> BOOLEAN]]
    /\ \E label \in Labels : pc' = [pc EXCEPT ![w] = label]
    /\ \/ pc[w] # "loop" /\ UNCHANGED <<batch, cur>>
       \/ \E d \in batch[w] : /\ cur' = [cur EXCEPT ![w] = d]
                              /\ batch' = [batch EXCEPT ![w] = @ \ {d}]
    /\ faults' \in faults .. MaxFaults /\ lapses' = lapses

LEMMA PlacedHandle == ASSUME Placed, NEW w \in Workers, Handle(w) PROVE Placed'
<1> PICK label \in Labels : pc' = [pc EXCEPT ![w] = label]
  BY DEF Handle
<1>1. \A d \in batch[w] : d \in Deliveries /\ Stored(d.msg)
  BY DEF Placed, TypeOK, CurStored
<1>2. pc' \in [Workers -> Labels]
  BY DEF Placed, TypeOK, Labels
<1>3. batch' \in [Workers -> SUBSET Deliveries] /\ cur' \in [Workers -> Deliveries \cup {NoDelivery}]
  BY <1>1, ZenonT(60) DEF Handle, Placed, TypeOK
<1>4. lapses' \in 0 .. MaxFaults /\ faults' \in 0 .. MaxFaults /\ lapses' <= faults'
  BY ConsumerAssumptions DEF Handle, Placed, TypeOK
<1>5. TypeOK'
  BY <1>2, <1>3, <1>4 DEF Handle, Placed, TypeOK, Row, Labels, brokerVars
<1>6. CurStored'
  <2>1. ASSUME NEW v \in Workers, v # w
        PROVE  pc'[v] = pc[v] /\ cur'[v] = cur[v] /\ batch'[v] = batch[v]
    BY <2>1 DEF Handle, Placed, TypeOK
  <2>2. cur'[w] \in Deliveries /\ Stored(cur'[w].msg) /\ batch'[w] \subseteq batch[w]
    BY <1>1, InHand DEF Handle, Placed, TypeOK
  <2>3. \A v \in Workers : /\ pc'[v] # "loop" => cur'[v] \in Deliveries /\ Stored(cur'[v].msg)
                           /\ \A d \in batch'[v] : Stored(d.msg)
    BY <2>1, <2>2 DEF Placed, CurStored
  <2>4. QED
    BY <2>3 DEF CurStored, Stored, Handle
<1>7. UnsentReady' /\ ParkedStored'
  BY DEF Handle, Placed, UnsentReady, ParkedStored, Stored, brokerVars
<1>8. QED
  BY <1>4, <1>5, <1>6, <1>7 DEF Placed

\* A fault that costs no lease fits Handle.
LEMMA FaultRange == ASSUME Placed, Fault \/ faults' = faults PROVE faults' \in faults .. MaxFaults
BY ConsumerAssumptions DEF Placed, TypeOK, Fault

LEMMA RowTypes ==
  ASSUME NEW w \in Workers
  PROVE  /\ NoRow \in Row /\ DoneRow \in Row
         /\ [done |-> FALSE, owner |-> w, lease |-> "live"] \in Row
BY DEF NoRow, DoneRow, Row

\* claim_event_processing: the row of the delivery taken is leased, or nothing is
\* written.
LEMMA ClaimFacts ==
  ASSUME Placed, NEW w \in Workers, NEW d \in batch[w], Claim(w, d) \/ ClaimRaises(w, d)
  PROVE  /\ Handle(w) /\ applied' = applied
         /\ pc[w] = "loop" /\ d \in Deliveries /\ cur'[w] = d
         /\ \A v \in Workers \ {w} : cur'[v] = cur[v] /\ pc'[v] = pc[v]
         /\ LET c == ConsumerOf(w)
                e == EventOf(d)
            IN  \/ processed' = processed /\ pc'[w] = "ack" /\ processed[c][e].done
                \/ processed' = processed /\ pc'[w] = "retry"
                \/ /\ Free(processed[c][e]) /\ pc'[w] \in {"handle", "retry"}
                   /\ processed' = [processed EXCEPT ![c][e] =
                                      [done |-> FALSE, owner |-> w, lease |-> "live"]]
<1> DEFINE c == ConsumerOf(w)
           e == EventOf(d)
           row == [done |-> FALSE, owner |-> w, lease |-> "live"]
<1>1. d \in Deliveries /\ e \in Events /\ c \in Consumers
  BY DeliveryFacts, WorkerFacts DEF Placed, TypeOK
<1>2. /\ pc[w] = "loop" /\ cur' = [cur EXCEPT ![w] = d] /\ batch' = [batch EXCEPT ![w] = @ \ {d}]
      /\ UNCHANGED <<stream, brokerVars>> /\ applied' = applied /\ lapses' = lapses
  BY DEF Claim, ClaimRaises, Take
<1>3. PICK label \in {"handle", "ack", "retry"} :
        /\ pc' = [pc EXCEPT ![w] = label]
        /\ \/ processed' = processed /\ label = "ack" /\ processed[c][e].done
           \/ processed' = processed /\ label = "retry"
           \/ /\ Free(processed[c][e]) /\ label # "ack"
              /\ processed' = [processed EXCEPT ![c][e] = row]
  BY DEF Claim, ClaimRaises, Goto, Lease
<1>4. processed' \in [Consumers -> [Events -> Row]]
  <2>1. CASE processed' = processed
    BY <2>1 DEF Placed, TypeOK, Row
  <2>2. CASE processed' = [processed EXCEPT ![c][e] = row]
    BY <1>1, <2>2, RowFacts, RowTypes
  <2>3. QED
    BY <1>3, <2>1, <2>2
<1>5. faults' \in faults .. MaxFaults
  BY FaultRange DEF Claim, ClaimRaises
<1>6. Handle(w)
  <2>1. label \in Labels /\ applied' \in [Consumers -> [Events -> BOOLEAN]]
    BY <1>2 DEF Labels, Placed, TypeOK
  <2>2. QED
    BY <1>2, <1>3, <1>4, <1>5, <2>1 DEF Handle
<1>7. pc'[w] = label /\ cur'[w] = d /\ \A v \in Workers \ {w} : cur'[v] = cur[v] /\ pc'[v] = pc[v]
  BY <1>2, <1>3 DEF Placed, TypeOK
<1>8. QED
  BY <1>1, <1>2, <1>3, <1>6, <1>7

\* The handler ends, with or without an error.
LEMMA HandlerFacts ==
  ASSUME Placed, NEW w \in Workers, HandlerReturns(w) \/ HandlerRaises(w)
  PROVE  /\ Handle(w) /\ processed' = processed /\ cur' = cur
         /\ pc[w] = "handle" /\ pc'[w] \in {"complete", "release"}
         /\ \A v \in Workers \ {w} : pc'[v] = pc[v]
         /\ \/ pc'[w] # "complete" /\ applied' = applied
            \/ applied' = [applied EXCEPT ![ConsumerOf(w)][EventOf(cur[w])] = TRUE]
<1>1. /\ pc[w] = "handle" /\ UNCHANGED <<stream, brokerVars, batch, cur, lapses, faults>>
      /\ processed' = processed
  BY DEF HandlerReturns, HandlerRaises
<1>2. PICK label \in {"complete", "release"} :
        /\ pc' = [pc EXCEPT ![w] = label]
        /\ \/ label # "complete" /\ applied' = applied
           \/ applied' = [applied EXCEPT ![ConsumerOf(w)][EventOf(cur[w])] = TRUE]
  BY DEF HandlerReturns, HandlerRaises, Goto
<1>3. ConsumerOf(w) \in Consumers /\ EventOf(cur[w]) \in Events
  BY <1>1, WorkerFacts, InHand
<1>4. applied' \in [Consumers -> [Events -> BOOLEAN]]
  BY <1>2, <1>3, AppliedFacts DEF Placed, TypeOK
<1>5. processed' \in [Consumers -> [Events -> Row]] /\ faults' \in faults .. MaxFaults
  BY <1>1, FaultRange DEF Placed, TypeOK, Row
<1>6. Handle(w)
  BY <1>1, <1>2, <1>4, <1>5 DEF Handle, Labels
<1>7. pc'[w] = label /\ \A v \in Workers \ {w} : pc'[v] = pc[v]
  BY <1>2 DEF Placed, TypeOK
<1>8. QED
  BY <1>1, <1>2, <1>6, <1>7

\* The worker settles its row if it still holds it, or its call raises.
LEMMA SettleFacts ==
  ASSUME Placed, NEW w \in Workers, Complete(w) \/ ReleaseLease(w) \/ DatabaseRaises(w)
  PROVE  /\ Handle(w) /\ applied' = applied /\ cur' = cur
         /\ pc[w] \in {"complete", "release"} /\ pc'[w] \in {"ack", "retry"}
         /\ \A v \in Workers \ {w} : pc'[v] = pc[v]
         /\ LET c == ConsumerOf(w)
                e == EventOf(cur[w])
            IN  \/ processed' = processed /\ pc'[w] # "ack"
                \/ /\ Holds(w) /\ pc[w] = "complete"
                   /\ processed' = [processed EXCEPT ![c][e] = DoneRow]
                \/ /\ Holds(w) /\ pc'[w] # "ack"
                   /\ processed' = [processed EXCEPT ![c][e] = NoRow]
<1> DEFINE c == ConsumerOf(w)
           e == EventOf(cur[w])
<1>1. /\ pc[w] \in {"complete", "release"} /\ UNCHANGED <<stream, brokerVars, batch, cur, lapses>>
      /\ applied' = applied
  BY DEF Complete, ReleaseLease, DatabaseRaises
<1>2. PICK label \in {"ack", "retry"} :
        /\ pc' = [pc EXCEPT ![w] = label]
        /\ \/ processed' = processed /\ label # "ack"
           \/ /\ Holds(w) /\ pc[w] = "complete"
              /\ processed' = [processed EXCEPT ![c][e] = DoneRow]
           \/ Holds(w) /\ label # "ack" /\ processed' = [processed EXCEPT ![c][e] = NoRow]
  BY DEF Complete, ReleaseLease, DatabaseRaises, Goto, SetRow
<1>3. c \in Consumers /\ e \in Events
  BY <1>1, WorkerFacts, InHand
<1>4. processed' \in [Consumers -> [Events -> Row]]
  <2>1. CASE processed' = processed
    BY <2>1 DEF Placed, TypeOK, Row
  <2>2. ASSUME NEW row \in {NoRow, DoneRow},
               processed' = [processed EXCEPT ![c][e] = row]
        PROVE  processed' \in [Consumers -> [Events -> Row]]
    BY <1>3, <2>2, RowFacts, RowTypes
  <2>3. QED
    BY <1>2, <2>1, <2>2
<1>5. faults' \in faults .. MaxFaults
  BY FaultRange DEF Complete, ReleaseLease, DatabaseRaises
<1>6. Handle(w)
  BY <1>1, <1>2, <1>4, <1>5 DEF Handle, Labels, Placed, TypeOK
<1>7. pc'[w] = label /\ \A v \in Workers \ {w} : pc'[v] = pc[v]
  BY <1>2 DEF Placed, TypeOK
<1>8. QED
  BY <1>1, <1>2, <1>6, <1>7

\* What a worker does with its answer: the broker's view of the message in hand,
\* the dead letters and the worker's place change.
Reply(w) ==
    /\ UNCHANGED <<stream, tableVars>>
    /\ pc[w] # "loop" /\ batch' = batch
    /\ \E label \in Labels : /\ pc' = [pc EXCEPT ![w] = label]
                             /\ label # "loop" => UNCHANGED cur
    /\ cur' \in {cur, [cur EXCEPT ![w] = NoDelivery]}
    /\ jet' = jet \/ \E state \in States : Answer(w, state)
    /\ UNCHANGED <<dlq, dlqIds>> \/ StoreDeadLetter(w)
    /\ faults' \in faults .. MaxFaults /\ lapses' = lapses

LEMMA PlacedReply == ASSUME Placed, NEW w \in Workers, Reply(w) PROVE Placed'
<1>1. /\ cur[w] \in Deliveries /\ cur[w].msg \in Messages /\ Stored(cur[w].msg)
      /\ cur[w].attempts \in Nat /\ ConsumerOf(w) \in Consumers
  BY InHand, WorkerFacts DEF Reply
<1>2. /\ jet' \in [Consumers -> [Messages -> Job]]
      /\ \A c \in Consumers, m \in Messages : jet'[c][m].state # jet[c][m].state => Stored(m)
  <2>1. CASE jet' = jet
    BY <2>1 DEF Placed, TypeOK, Job, States
  <2>2. ASSUME NEW state \in States, Answer(w, state)
        PROVE  /\ jet' \in [Consumers -> [Messages -> Job]]
               /\ \A c \in Consumers, m \in Messages :
                    jet'[c][m].state # jet[c][m].state => Stored(m)
    BY <1>1, <2>2, AnswerFacts DEF Reply
  <2>3. QED
    BY <2>1, <2>2 DEF Reply
<1>3. /\ dlq' \subseteq [msg : Messages, attempts : Nat, consumer : Consumers]
      /\ dlqIds' \subseteq [msg : Messages, attempts : Nat]
      /\ \A r \in dlq' : Stored(r.msg)
      /\ \A i \in dlqIds' : Stored(i.msg)
  BY <1>1 DEF Reply, StoreDeadLetter, DlqRecord, DlqId, Placed, TypeOK, ParkedStored
<1>4. PICK label \in Labels : pc' = [pc EXCEPT ![w] = label] /\ (label # "loop" => UNCHANGED cur)
  BY DEF Reply
<1>5. pc' \in [Workers -> Labels] /\ cur' \in [Workers -> Deliveries \cup {NoDelivery}]
  BY <1>4 DEF Reply, Placed, TypeOK, Labels
<1>6. lapses' \in 0 .. MaxFaults /\ faults' \in 0 .. MaxFaults /\ lapses' <= faults'
  BY ConsumerAssumptions DEF Reply, Placed, TypeOK
<1>7. TypeOK'
  BY <1>2, <1>3, <1>5, <1>6 DEF Reply, Placed, TypeOK, Labels, Job, States, tableVars
<1>8. CurStored'
  <2>1. \A v \in Workers : pc'[v] # "loop" => cur'[v] = cur[v] /\ pc[v] # "loop"
    BY <1>4 DEF Reply, Placed, TypeOK
  <2>2. QED
    BY <2>1 DEF Reply, Placed, CurStored, Stored
<1>9. UnsentReady' /\ ParkedStored'
  BY <1>2, <1>3 DEF Reply, Placed, UnsentReady, ParkedStored, Stored
<1>10. QED
  BY <1>6, <1>7, <1>8, <1>9 DEF Placed

\* Each of the answers is a Reply.
LEMMA ReplySteps ==
  ASSUME Placed, NEW w \in Workers,
         \/ Ack(w) \/ AckRaises(w) \/ Nak(w) \/ PublishDeadLetter(w) \/ DeadLetterRaises(w)
         \/ Terminate(w)
  PROVE  Reply(w)
<1>1. Ack(w) \/ Nak(w) \/ Terminate(w) => Reply(w)
  BY FaultRange DEF Ack, Nak, Terminate, NextMessage, Goto, Reply, Labels, States
<1>2. AckRaises(w) => Reply(w)
  BY FaultRange DEF AckRaises, Goto, Reply, Labels, States
<1>3. PublishDeadLetter(w) => Reply(w)
  BY FaultRange DEF PublishDeadLetter, Goto, Reply, Labels
<1>4. DeadLetterRaises(w) => Reply(w)
  BY FaultRange DEF DeadLetterRaises, NextMessage, Goto, Reply, Labels, States
<1>5. QED
  BY <1>1, <1>2, <1>3, <1>4

\* The operator's replay stores one more copy and may delete the record.
LEMMA ReplayFacts ==
  ASSUME Placed, NEW r \in dlq, Replay(r)
  PROVE  /\ r.msg[1] \in Events
         /\ stream' \in [Events -> 0 .. MaxCopies]
         /\ \A e \in Events : stream'[e] = IF e = r.msg[1] THEN stream[e] + 1 ELSE stream[e]
         /\ dlq' \in {dlq, dlq \ {r}}
         /\ UNCHANGED <<jet, dlqIds, tableVars, workerVars, lapses, faults>>
<1>1. r.msg[1] \in Events
  BY MessageFacts DEF Placed, TypeOK
<1>2. \A e \in Events : stream[e] \in 0 .. MaxCopies
  BY DEF Placed, TypeOK
<1>3. /\ stream' = [stream EXCEPT ![r.msg[1]] = @ + 1] /\ stream[r.msg[1]] < MaxCopies
      /\ dlq' \in {dlq, dlq \ {r}}
      /\ UNCHANGED <<jet, dlqIds, tableVars, workerVars, lapses, faults>>
  BY DEF Replay
<1>4. \A e \in Events : stream'[e] = IF e = r.msg[1] THEN stream[e] + 1 ELSE stream[e]
  BY <1>1, <1>3 DEF Placed, TypeOK
<1>5. stream' \in [Events -> 0 .. MaxCopies]
  BY <1>1, <1>2, <1>3, ConsumerAssumptions DEF Placed, TypeOK
<1>6. QED
  BY <1>1, <1>3, <1>4, <1>5

LEMMA PlacedReplay == ASSUME Placed, NEW r \in dlq, Replay(r) PROVE Placed'
<1>1. \A m \in Messages : Stored(m) => Stored(m)'
  <2>1. ASSUME NEW m \in Messages, Stored(m) PROVE Stored(m)'
    <3>1. m[1] \in Events /\ m[2] \in Nat /\ stream[m[1]] \in Nat
      BY MessageFacts, ConsumerAssumptions DEF Placed, TypeOK
    <3>2. QED
      BY <2>1, <3>1, ReplayFacts DEF Stored
  <2>2. QED
    BY <2>1
<1>2. TypeOK'
  BY ReplayFacts DEF Placed, TypeOK, tableVars, workerVars
<1>3. CurStored' /\ UnsentReady' /\ ParkedStored' /\ lapses' <= faults'
  BY <1>1, ReplayFacts DEF Placed, TypeOK, CurStored, UnsentReady, ParkedStored, Deliveries,
                           workerVars
<1>4. QED
  BY <1>2, <1>3 DEF Placed

\* An ack wait passes.
LEMMA AckWaitFacts ==
  ASSUME Placed, NEW c \in Consumers, NEW m \in Messages, AckWaitPasses(c, m)
  PROVE  /\ jet' \in [Consumers -> [Messages -> Job]]
         /\ \A b \in Consumers, n \in Messages :
              jet'[b][n].state # jet[b][n].state =>
                b = c /\ n = m /\ jet[b][n].state = "inflight" /\ jet'[b][n].state = "ready"
         /\ faults' \in faults .. MaxFaults
         /\ UNCHANGED <<stream, dlq, dlqIds, tableVars, workerVars, lapses>>
<1>1. jet \in [Consumers -> [Messages -> Job]]
  BY DEF Placed, TypeOK, Job, States
<1>2. [jet[c][m] EXCEPT !.state = "ready"] \in Job /\ [jet[c][m] EXCEPT !.state = "ready"].state = "ready"
  BY <1>1 DEF Job, States
<1>3. jet' = [jet EXCEPT ![c] = [jet[c] EXCEPT ![m] = [jet[c][m] EXCEPT !.state = "ready"]]]
  BY DEF AckWaitPasses
<1>4. [jet[c] EXCEPT ![m] = [jet[c][m] EXCEPT !.state = "ready"]] \in [Messages -> Job]
  BY <1>1, <1>2
<1>5. jet[c][m].state = "inflight"
  BY DEF AckWaitPasses
<1>6. /\ jet' \in [Consumers -> [Messages -> Job]]
      /\ \A b \in Consumers, n \in Messages :
              jet'[b][n].state # jet[b][n].state =>
                b = c /\ n = m /\ jet[b][n].state = "inflight" /\ jet'[b][n].state = "ready"
  BY <1>1, <1>2, <1>3, <1>4, <1>5
<1>7. faults' \in faults .. MaxFaults
  BY FaultRange DEF AckWaitPasses
<1>8. QED
  BY <1>6, <1>7 DEF AckWaitPasses

\* A lease passes, at the cost of a fault if its owner is still at work.
LEMMA LeaseFacts ==
  ASSUME Placed, NEW c \in Consumers, NEW e \in Events, LeasePasses(c, e)
  PROVE  /\ processed[c][e].lease = "live"
         /\ processed' \in [Consumers -> [Events -> Row]]
         /\ \A b \in Consumers, f \in Events :
              /\ processed'[b][f].done = processed[b][f].done
              /\ b # c \/ f # e => processed'[b][f] = processed[b][f]
         /\ \/ /\ \A w \in Workers : ~ (processed[c][e].owner = w /\ Handling(w, e))
               /\ UNCHANGED <<faults, lapses>>
            \/ Fault /\ lapses' = lapses + 1
         /\ UNCHANGED <<stream, brokerVars, applied, workerVars>>
<1> DEFINE row == [processed[c][e] EXCEPT !.lease = "expired"]
<1>1. processed[c][e] \in Row
  BY DEF Placed, TypeOK, Row
<1>2. row \in Row /\ row.done = processed[c][e].done
  BY <1>1 DEF Row
<1>3. processed' = [processed EXCEPT ![c][e] = row]
  BY DEF LeasePasses
<1>4. /\ processed' \in [Consumers -> [Events -> Row]]
      /\ \A b \in Consumers, f \in Events :
              processed'[b][f] = IF b = c /\ f = e THEN row ELSE processed[b][f]
  BY <1>2, <1>3, RowFacts, ZenonT(60)
<1>5. /\ processed[c][e].lease = "live"
      /\ \/ /\ \A w \in Workers : ~ (processed[c][e].owner = w /\ Handling(w, e))
            /\ UNCHANGED <<faults, lapses>>
         \/ Fault /\ lapses' = lapses + 1
      /\ UNCHANGED <<stream, brokerVars, applied, workerVars>>
  BY DEF LeasePasses
<1>6. QED
  BY <1>2, <1>4, <1>5

LEMMA PlacedOther ==
  ASSUME Placed,
         \/ \E c \in Consumers, m \in Messages : AckWaitPasses(c, m)
         \/ \E c \in Consumers, e \in Events : LeasePasses(c, e)
         \/ \E w \in Workers : Crash(w)
  PROVE  Placed'
<1>1. ASSUME NEW c \in Consumers, NEW m \in Messages, AckWaitPasses(c, m) PROVE Placed'
  <2>1. faults' \in 0 .. MaxFaults /\ lapses' <= faults'
    BY <1>1, AckWaitFacts, ConsumerAssumptions DEF Placed, TypeOK
  <2>2. TypeOK'
    BY <1>1, <2>1, AckWaitFacts DEF Placed, TypeOK, Job, States, tableVars, workerVars
  <2>3. CurStored' /\ UnsentReady' /\ ParkedStored'
    BY <1>1, AckWaitFacts DEF Placed, CurStored, UnsentReady, ParkedStored, Stored, workerVars
  <2>4. QED
    BY <2>1, <2>2, <2>3 DEF Placed
<1>2. ASSUME NEW c \in Consumers, NEW e \in Events, LeasePasses(c, e) PROVE Placed'
  <2>1. faults' \in 0 .. MaxFaults /\ lapses' \in 0 .. MaxFaults /\ lapses' <= faults'
    <3>1. UNCHANGED <<faults, lapses>> \/ (Fault /\ lapses' = lapses + 1)
      BY <1>2, LeaseFacts
    <3>2. QED
      BY <3>1, ConsumerAssumptions DEF Fault, Placed, TypeOK
  <2>2. TypeOK'
    BY <1>2, <2>1, LeaseFacts DEF Placed, TypeOK, Row, brokerVars, workerVars
  <2>3. CurStored' /\ UnsentReady' /\ ParkedStored'
    BY <1>2, LeaseFacts DEF Placed, CurStored, UnsentReady, ParkedStored, Stored,
                            brokerVars, workerVars
  <2>4. QED
    BY <2>1, <2>2, <2>3 DEF Placed
<1>3. ASSUME NEW w \in Workers, Crash(w) PROVE Placed'
  <2>1. faults' \in 0 .. MaxFaults /\ lapses' <= faults'
    BY <1>3, ConsumerAssumptions DEF Crash, Fault, Placed, TypeOK
  <2>2. TypeOK'
    BY <1>3, <2>1 DEF Crash, Placed, TypeOK, brokerVars, tableVars
  <2>3. CurStored' /\ UnsentReady' /\ ParkedStored'
    BY <1>3 DEF Crash, Placed, TypeOK, CurStored, UnsentReady, ParkedStored, Stored,
                brokerVars, tableVars
  <2>4. QED
    BY <2>1, <2>2, <2>3 DEF Placed
<1>4. QED
  BY <1>1, <1>2, <1>3

\* The first layer: every step of a worker, the broker, a clock or the operator
\* keeps messages where they belong.
LEMMA PlacedStep == ASSUME Placed, ConsumerNext PROVE Placed'
<1>1. ASSUME NEW w \in Workers, WorkerStep(w) \/ WorkerFault(w) PROVE Placed'
  BY <1>1, PlacedFetch, PlacedHandle, PlacedReply, PlacedOther,
     ClaimFacts, HandlerFacts, SettleFacts, ReplySteps DEF WorkerStep, WorkerFault
<1>2. QED
  BY <1>1, PlacedOther, PlacedReplay DEF ConsumerNext

-----------------------------------------------------------------------------
\* A completed row names no owner and no lease, and the handler took effect.
DoneClosed ==
    \A c \in Consumers, e \in Events :
        processed[c][e].done => processed[c][e] = DoneRow /\ applied[c][e]

\* What a worker knows still holds when it acts on it: the effect before it
\* completes, the completion before it acknowledges.
WorkerKnows ==
    \A w \in Workers :
        /\ pc[w] = "complete" => applied[ConsumerOf(w)][EventOf(cur[w])]
        /\ pc[w] = "ack" => RowOf(w).done

\* While no lease passed under its owner, a worker at work owns a live lease.
LeaseHeld ==
    lapses = 0 =>
        \A w \in Workers : pc[w] \in {"handle", "complete", "release"} =>
            RowOf(w).owner = w /\ RowOf(w).lease = "live"

RowsAgree == DoneClosed /\ WorkerKnows /\ LeaseHeld /\ AckedIsDone

\* complete_event_processing and its guards: what is done stays done, and what took
\* effect stays so.
DoneStays ==
    \A c \in Consumers, e \in Events :
        /\ processed[c][e].done => processed'[c][e] = processed[c][e]
        /\ applied[c][e] => applied'[c][e]

\* Rows and effects are left alone, and so are the workers that look at them.
LEMMA RowsGrow ==
  ASSUME Placed, RowsAgree, UNCHANGED <<jet, processed, applied, pc, cur, lapses>>
  PROVE  RowsAgree' /\ DoneStays
BY DEF RowsAgree, DoneClosed, WorkerKnows, LeaseHeld, AckedIsDone, RowOf, DoneStays

LEMMA RowsClaim ==
  ASSUME Placed, RowsAgree, NEW w \in Workers, NEW d \in batch[w], Claim(w, d) \/ ClaimRaises(w, d)
  PROVE  RowsAgree' /\ DoneStays
<1> DEFINE c == ConsumerOf(w)
           e == EventOf(d)
           row == [done |-> FALSE, owner |-> w, lease |-> "live"]
<1>1. /\ applied' = applied /\ pc[w] = "loop" /\ d \in Deliveries /\ cur'[w] = d
      /\ \A v \in Workers \ {w} : cur'[v] = cur[v] /\ pc'[v] = pc[v]
      /\ jet' = jet /\ lapses' = lapses
  BY ClaimFacts DEF Handle, brokerVars
<1>2. c \in Consumers /\ e \in Events /\ row \in Row
  BY <1>1, WorkerFacts, DeliveryFacts, RowTypes
<1>3. CASE /\ processed' = processed
           /\ (pc'[w] = "ack" /\ processed[c][e].done) \/ pc'[w] = "retry"
  BY <1>1, <1>3 DEF RowsAgree, DoneClosed, WorkerKnows, LeaseHeld, AckedIsDone, RowOf, DoneStays
<1>4. CASE /\ Free(processed[c][e]) /\ pc'[w] \in {"handle", "retry"}
           /\ processed' = [processed EXCEPT ![c][e] = row]
  <2>1. \A b \in Consumers, f \in Events :
          processed'[b][f] = IF b = c /\ f = e THEN row ELSE processed[b][f]
    BY <1>2, <1>4, RowFacts, ZenonT(60)
  <2>2. ~ processed[c][e].done /\ processed[c][e].lease # "live"
    BY <1>4 DEF Free
  <2>3. DoneStays
    BY <1>1, <2>1, <2>2 DEF DoneStays
  <2>4. DoneClosed' /\ AckedIsDone'
    BY <1>1, <2>1, <2>2, MessageFacts DEF RowsAgree, DoneClosed, AckedIsDone
  <2>5. WorkerKnows'
    <3>1. ASSUME NEW v \in Workers, v # w, pc[v] = "ack" PROVE RowOf(v)'.done
      <4>1. ConsumerOf(v) \in Consumers /\ EventOf(cur[v]) \in Events /\ RowOf(v).done
        BY <3>1, WorkerFacts, InHand DEF RowsAgree, WorkerKnows
      <4>2. QED
        BY <1>1, <2>1, <2>2, <3>1, <4>1 DEF RowOf
    <3>2. QED
      BY <1>1, <1>4, <3>1 DEF RowsAgree, WorkerKnows
  <2>6. LeaseHeld'
    <3>1. ASSUME lapses = 0, NEW v \in Workers, v # w,
                 pc[v] \in {"handle", "complete", "release"}
          PROVE  RowOf(v)'.owner = v /\ RowOf(v)'.lease = "live"
      <4>1. ConsumerOf(v) \in Consumers /\ EventOf(cur[v]) \in Events
        BY <3>1, WorkerFacts, InHand
      <4>2. RowOf(v).owner = v /\ RowOf(v).lease = "live"
        BY <3>1 DEF RowsAgree, LeaseHeld
      <4>3. QED
        BY <1>1, <2>1, <2>2, <3>1, <4>1, <4>2 DEF RowOf
    <3>2. RowOf(w)'.owner = w /\ RowOf(w)'.lease = "live"
      BY <1>1, <1>2, <2>1 DEF RowOf
    <3>3. QED
      BY <1>1, <3>1, <3>2 DEF LeaseHeld
  <2>7. QED
    BY <2>3, <2>4, <2>5, <2>6 DEF RowsAgree
<1>5. QED
  BY <1>3, <1>4, ClaimFacts

LEMMA RowsHandler ==
  ASSUME Placed, RowsAgree, NEW w \in Workers, HandlerReturns(w) \/ HandlerRaises(w)
  PROVE  RowsAgree' /\ DoneStays
<1>1. /\ processed' = processed /\ cur' = cur /\ jet' = jet /\ lapses' = lapses
      /\ pc[w] = "handle" /\ pc'[w] \in {"complete", "release"}
      /\ \A v \in Workers \ {w} : pc'[v] = pc[v]
  BY HandlerFacts DEF Handle, brokerVars
<1>2. ConsumerOf(w) \in Consumers /\ EventOf(cur[w]) \in Events
  BY <1>1, WorkerFacts, InHand
<1>3. /\ \A c \in Consumers, e \in Events : applied[c][e] => applied'[c][e]
      /\ pc'[w] = "complete" => applied'[ConsumerOf(w)][EventOf(cur[w])]
  <2>1. CASE pc'[w] # "complete" /\ applied' = applied
    BY <2>1
  <2>2. CASE applied' = [applied EXCEPT ![ConsumerOf(w)][EventOf(cur[w])] = TRUE]
    <3>1. \A b \in Consumers, f \in Events :
            applied'[b][f] = IF b = ConsumerOf(w) /\ f = EventOf(cur[w]) THEN TRUE ELSE applied[b][f]
      BY <1>2, <2>2, AppliedFacts, ZenonT(60)
    <3>2. applied'[ConsumerOf(w)][EventOf(cur[w])]
      BY <1>2, <3>1
    <3>3. QED
      BY <3>1, <3>2
  <2>3. QED
    BY <2>1, <2>2, HandlerFacts
<1>4. DoneStays /\ DoneClosed'
  BY <1>1, <1>3 DEF RowsAgree, DoneClosed, DoneStays
<1>5. WorkerKnows'
  <2>1. ASSUME NEW v \in Workers, v # w, pc[v] = "complete"
        PROVE  applied'[ConsumerOf(v)][EventOf(cur[v])]
    BY <1>3, <2>1, WorkerFacts, InHand DEF RowsAgree, WorkerKnows
  <2>2. QED
    BY <1>1, <1>3, <2>1 DEF RowsAgree, WorkerKnows, RowOf
<1>6. LeaseHeld' /\ AckedIsDone'
  BY <1>1, <1>3, MessageFacts DEF RowsAgree, LeaseHeld, AckedIsDone, RowOf
<1>7. QED
  BY <1>4, <1>5, <1>6 DEF RowsAgree

LEMMA RowsSettle ==
  ASSUME Placed, RowsAgree, NEW w \in Workers, Complete(w) \/ ReleaseLease(w) \/ DatabaseRaises(w)
  PROVE  RowsAgree' /\ DoneStays
<1> DEFINE c == ConsumerOf(w)
           e == EventOf(cur[w])
<1>1. /\ applied' = applied /\ cur' = cur /\ jet' = jet /\ lapses' = lapses
      /\ pc[w] \in {"complete", "release"} /\ pc'[w] \in {"ack", "retry"}
      /\ \A v \in Workers \ {w} : pc'[v] = pc[v]
  BY SettleFacts DEF Handle, brokerVars
<1>2. c \in Consumers /\ e \in Events
  BY <1>1, WorkerFacts, InHand
<1>3. CASE processed' = processed /\ pc'[w] # "ack"
  BY <1>1, <1>3 DEF RowsAgree, DoneClosed, WorkerKnows, LeaseHeld, AckedIsDone, RowOf, DoneStays
<1>4. ASSUME NEW row \in {NoRow, DoneRow}, Holds(w),
             row = DoneRow => pc[w] = "complete",
             row = NoRow => pc'[w] # "ack",
             processed' = [processed EXCEPT ![c][e] = row]
      PROVE  RowsAgree' /\ DoneStays
  <2>1. \A b \in Consumers, f \in Events :
          processed'[b][f] = IF b = c /\ f = e THEN row ELSE processed[b][f]
    BY <1>2, <1>4, RowFacts, RowTypes, ZenonT(60)
  <2>2. ~ processed[c][e].done /\ processed[c][e].owner = w
    BY <1>4 DEF Holds, RowOf
  <2>3. DoneStays
    BY <1>1, <2>1, <2>2 DEF DoneStays
  <2>4. row.done => row = DoneRow /\ applied[c][e]
    BY <1>4 DEF NoRow, DoneRow, RowsAgree, WorkerKnows
  <2>5. DoneClosed' /\ AckedIsDone'
    BY <1>1, <2>1, <2>2, <2>4, MessageFacts DEF RowsAgree, DoneClosed, AckedIsDone
  <2>6. WorkerKnows'
    <3>1. ASSUME NEW v \in Workers, v # w, pc[v] = "ack" PROVE RowOf(v)'.done
      <4>1. ConsumerOf(v) \in Consumers /\ EventOf(cur[v]) \in Events /\ RowOf(v).done
        BY <3>1, WorkerFacts, InHand DEF RowsAgree, WorkerKnows
      <4>2. QED
        BY <1>1, <2>1, <2>2, <3>1, <4>1 DEF RowOf
    <3>2. pc'[w] = "ack" => RowOf(w)'.done
      BY <1>1, <1>2, <1>4, <2>1 DEF RowOf, DoneRow
    <3>3. QED
      BY <1>1, <3>1, <3>2 DEF RowsAgree, WorkerKnows
  <2>7. LeaseHeld'
    <3>1. ASSUME lapses = 0, NEW v \in Workers, v # w,
                 pc[v] \in {"handle", "complete", "release"}
          PROVE  RowOf(v)'.owner = v /\ RowOf(v)'.lease = "live"
      <4>1. ConsumerOf(v) \in Consumers /\ EventOf(cur[v]) \in Events
        BY <3>1, WorkerFacts, InHand
      <4>2. RowOf(v).owner = v /\ RowOf(v).lease = "live"
        BY <3>1 DEF RowsAgree, LeaseHeld
      <4>3. QED
        BY <1>1, <2>1, <2>2, <3>1, <4>1, <4>2 DEF RowOf
    <3>2. QED
      BY <1>1, <3>1 DEF LeaseHeld
  <2>8. QED
    BY <2>3, <2>5, <2>6, <2>7 DEF RowsAgree
<1>5. NoRow # DoneRow
  BY DEF NoRow, DoneRow
<1>6. QED
  BY <1>3, <1>4, <1>5, SettleFacts

\* Answers: only what is done is acknowledged.
LEMMA RowsReply ==
  ASSUME Placed, RowsAgree, NEW w \in Workers,
         \/ Ack(w) \/ AckRaises(w) \/ Nak(w) \/ PublishDeadLetter(w) \/ DeadLetterRaises(w)
         \/ Terminate(w)
  PROVE  RowsAgree' /\ DoneStays
<1>1. Reply(w)
  BY ReplySteps
<1>2. /\ processed' = processed /\ applied' = applied /\ lapses' = lapses
      /\ \A v \in Workers \ {w} : pc'[v] = pc[v] /\ cur'[v] = cur[v]
      /\ pc[w] # "loop"
  BY <1>1 DEF Reply, tableVars, Placed, TypeOK
<1>3. pc'[w] \in {"loop", "retry", "term"}
  BY DEF Ack, AckRaises, Nak, PublishDeadLetter, DeadLetterRaises, Terminate, NextMessage, Goto,
         Placed, TypeOK
<1>4. DoneClosed' /\ WorkerKnows' /\ LeaseHeld' /\ DoneStays
  BY <1>2, <1>3 DEF RowsAgree, DoneClosed, WorkerKnows, LeaseHeld, RowOf, DoneStays
<1>5. AckedIsDone'
  <2>1. CASE jet' = jet
    BY <1>2, <2>1 DEF RowsAgree, AckedIsDone
  <2>2. ASSUME NEW state \in {"ready", "termed"}, Answer(w, state) PROVE AckedIsDone'
    <3>1. \A c \in Consumers, m \in Messages :
            jet'[c][m].state = "acked" => jet[c][m].state = "acked"
      BY <1>2, <2>2, AnswerFacts DEF States
    <3>2. QED
      BY <1>2, <3>1 DEF RowsAgree, AckedIsDone
  <2>3. CASE pc[w] = "ack" /\ Answer(w, "acked")
    <3>1. \A c \in Consumers, m \in Messages :
            jet'[c][m].state = "acked" =>
              jet[c][m].state = "acked" \/ (c = ConsumerOf(w) /\ m = cur[w].msg)
      BY <1>2, <2>3, AnswerFacts DEF States
    <3>2. processed[ConsumerOf(w)][cur[w].msg[1]].done /\ applied[ConsumerOf(w)][cur[w].msg[1]]
      BY <2>3, InHand, WorkerFacts DEF RowsAgree, WorkerKnows, DoneClosed, RowOf
    <3>3. QED
      BY <1>2, <3>1, <3>2 DEF RowsAgree, AckedIsDone
  <2>4. QED
    BY <2>1, <2>2, <2>3 DEF Ack, AckRaises, Nak, PublishDeadLetter, DeadLetterRaises, Terminate
<1>6. QED
  BY <1>4, <1>5 DEF RowsAgree

\* Fetches, ack waits, crashes and replays write no row; a lease that passes under
\* its owner is counted.
LEMMA RowsOther ==
  ASSUME Placed, RowsAgree,
         \/ \E w \in Workers : Fetch(w) \/ Crash(w)
         \/ \E c \in Consumers, m \in Messages : AckWaitPasses(c, m)
         \/ \E c \in Consumers, e \in Events : LeasePasses(c, e)
         \/ \E r \in dlq : Replay(r)
  PROVE  RowsAgree' /\ DoneStays
<1>1. ASSUME UNCHANGED <<processed, applied, pc, cur, lapses>>,
             \A c \in Consumers, m \in Messages :
               jet'[c][m].state = "acked" => jet[c][m].state = "acked"
      PROVE  RowsAgree' /\ DoneStays
  BY <1>1 DEF RowsAgree, DoneClosed, WorkerKnows, LeaseHeld, AckedIsDone, RowOf, DoneStays
<1>2. ASSUME NEW w \in Workers, Fetch(w) PROVE RowsAgree' /\ DoneStays
  <2>1. \A c \in Consumers, m \in Messages :
          jet'[c][m].state = "acked" => jet[c][m].state = "acked"
    BY <1>2, FetchFacts
  <2>2. QED
    BY <1>1, <1>2, <2>1, FetchFacts DEF tableVars
<1>3. ASSUME NEW c \in Consumers, NEW m \in Messages, AckWaitPasses(c, m)
      PROVE  RowsAgree' /\ DoneStays
  <2>1. \A b \in Consumers, n \in Messages :
          jet'[b][n].state = "acked" => jet[b][n].state = "acked"
    BY <1>3, AckWaitFacts
  <2>2. QED
    BY <1>1, <1>3, <2>1, AckWaitFacts DEF tableVars, workerVars
<1>4. ASSUME NEW r \in dlq, Replay(r) PROVE RowsAgree' /\ DoneStays
  BY <1>1, <1>4, ReplayFacts DEF tableVars, workerVars
<1>5. ASSUME NEW w \in Workers, Crash(w) PROVE RowsAgree' /\ DoneStays
  <2>1. /\ UNCHANGED <<jet, processed, applied, lapses>> /\ pc'[w] = "loop"
        /\ \A v \in Workers \ {w} : pc'[v] = pc[v] /\ cur'[v] = cur[v]
    BY <1>5 DEF Crash, Placed, TypeOK, brokerVars, tableVars
  <2>2. QED
    BY <2>1 DEF RowsAgree, DoneClosed, WorkerKnows, LeaseHeld, AckedIsDone, RowOf, DoneStays
<1>6. ASSUME NEW c \in Consumers, NEW e \in Events, LeasePasses(c, e)
      PROVE  RowsAgree' /\ DoneStays
  <2>1. /\ UNCHANGED <<jet, applied, pc, cur>>
        /\ \A b \in Consumers, f \in Events :
             /\ processed'[b][f].done = processed[b][f].done
             /\ b # c \/ f # e => processed'[b][f] = processed[b][f]
        /\ processed[c][e].lease = "live"
    BY <1>6, LeaseFacts DEF brokerVars, workerVars
  <2>2. ~ processed[c][e].done
    BY <2>1 DEF RowsAgree, DoneClosed, DoneRow
  <2>3. DoneStays /\ DoneClosed' /\ AckedIsDone'
    BY <2>1, <2>2, MessageFacts DEF RowsAgree, DoneClosed, AckedIsDone, DoneStays
  <2>4. WorkerKnows'
    <3>1. ASSUME NEW v \in Workers, pc[v] = "ack" PROVE RowOf(v)'.done
      <4>1. ConsumerOf(v) \in Consumers /\ EventOf(cur[v]) \in Events /\ RowOf(v).done
        BY <3>1, WorkerFacts, InHand DEF RowsAgree, WorkerKnows
      <4>2. QED
        BY <2>1, <4>1 DEF RowOf
    <3>2. QED
      BY <2>1, <3>1 DEF RowsAgree, WorkerKnows
  <2>5. LeaseHeld'
    <3>1. CASE Fault /\ lapses' = lapses + 1
      BY <3>1 DEF LeaseHeld, Placed, TypeOK
    <3>2. CASE /\ \A w \in Workers : ~ (processed[c][e].owner = w /\ Handling(w, e))
               /\ UNCHANGED <<faults, lapses>>
      <4>1. ASSUME lapses = 0, NEW v \in Workers, pc[v] \in {"handle", "complete", "release"}
            PROVE  RowOf(v)'.owner = v /\ RowOf(v)'.lease = "live"
        <5>1. ConsumerOf(v) \in Consumers /\ EventOf(cur[v]) \in Events
          BY <4>1, WorkerFacts, InHand
        <5>2. RowOf(v).owner = v /\ RowOf(v).lease = "live"
          BY <4>1 DEF RowsAgree, LeaseHeld
        <5>3. ~ (ConsumerOf(v) = c /\ EventOf(cur[v]) = e)
          BY <3>2, <4>1, <5>2 DEF Handling, RowOf
        <5>4. QED
          BY <2>1, <5>1, <5>2, <5>3 DEF RowOf
      <4>2. QED
        BY <2>1, <3>2, <4>1 DEF LeaseHeld
    <3>3. QED
      BY <1>6, <3>1, <3>2, LeaseFacts
  <2>6. QED
    BY <2>3, <2>4, <2>5 DEF RowsAgree
<1>7. QED
  BY <1>2, <1>3, <1>4, <1>5, <1>6

\* The second layer.
LEMMA RowsStep == ASSUME Placed, RowsAgree, ConsumerNext PROVE RowsAgree' /\ DoneStays
<1>1. ASSUME NEW w \in Workers, WorkerStep(w) \/ WorkerFault(w) PROVE RowsAgree' /\ DoneStays
  BY <1>1, RowsClaim, RowsHandler, RowsSettle, RowsReply, RowsOther DEF WorkerStep, WorkerFault
<1>2. QED
  BY <1>1, RowsOther DEF ConsumerNext

-----------------------------------------------------------------------------
\* An event that waits in the dead-letter stream.
Waiting(e) == \E r \in dlq : r.msg[1] = e

\* A message the dead-letter stream remembers: a record of its event waits, or it
\* was replayed as a newer copy.
Parked(m) == Waiting(m[1]) \/ m[2] < stream[m[1]]

\* A deduplicated dead letter loses nothing, whichever consumer's record it met.
IdsParked == \A i \in dlqIds : Parked(i.msg)

\* A message is terminated only when it is parked.
TermParked == \A w \in Workers : pc[w] = "term" => Parked(cur[w].msg)

\* The newest copy of an unfinished event that does not wait is still to be
\* delivered.
NewestKept ==
    \A c \in Consumers, e \in Events :
        stream[e] > 0 =>
            \/ processed[c][e].done
            \/ Waiting(e)
            \/ jet[c][<<e, stream[e]>>].state \in {"ready", "inflight"}

Kept == IdsParked /\ TermParked /\ NewestKept

Inv == Placed /\ RowsAgree /\ Kept

\* The copy that makes the stream grow was never delivered.
LEMMA NewestIsReady ==
  ASSUME Placed, Placed', jet' = jet, NEW c \in Consumers, NEW e \in Events,
         stream[e] < stream'[e]
  PROVE  jet'[c][<<e, stream'[e]>>].state = "ready"
<1> DEFINE m == <<e, stream'[e]>>
<1>1. stream[e] \in Nat /\ stream'[e] \in 1 .. MaxCopies
  BY ConsumerAssumptions DEF Placed, TypeOK
<1>2. m \in Messages /\ m[1] = e /\ m[2] = stream'[e]
  BY <1>1 DEF Messages
<1>3. ~ Stored(m)
  BY <1>1, <1>2, ConsumerAssumptions DEF Stored
<1>4. QED
  BY <1>2, <1>3 DEF Placed, UnsentReady

\* Publications and faults elsewhere.
LEMMA KeptGrows == ASSUME Placed, Placed', Kept, Grows PROVE Kept'
<1>1. /\ UNCHANGED <<jet, dlq, dlqIds, processed, pc, cur>>
      /\ \A e \in Events : stream[e] \in Nat /\ stream'[e] \in Nat /\ stream[e] <= stream'[e]
  BY ConsumerAssumptions DEF Grows, Placed, TypeOK, brokerVars, tableVars, workerVars
<1>2. \A m \in Messages : Parked(m) => Parked(m)'
  <2>1. ASSUME NEW m \in Messages, Parked(m) PROVE Parked(m)'
    <3>1. m[1] \in Events /\ m[2] \in Nat
      BY MessageFacts, ConsumerAssumptions
    <3>2. QED
      BY <1>1, <2>1, <3>1 DEF Parked, Waiting
  <2>2. QED
    BY <2>1
<1>3. IdsParked'
  BY <1>1, <1>2 DEF Kept, IdsParked, Placed, TypeOK
<1>4. TermParked'
  BY <1>1, <1>2, InHand DEF Kept, TermParked
<1>5. NewestKept'
  <2>1. ASSUME NEW c \in Consumers, NEW e \in Events, stream'[e] > 0
        PROVE  \/ processed'[c][e].done \/ Waiting(e)'
               \/ jet'[c][<<e, stream'[e]>>].state \in {"ready", "inflight"}
    <3>1. CASE stream'[e] = stream[e]
      BY <1>1, <2>1, <3>1 DEF Kept, NewestKept, Waiting
    <3>2. CASE stream[e] < stream'[e]
      BY <1>1, <3>2, NewestIsReady
    <3>3. QED
      BY <1>1, <3>1, <3>2
  <2>2. QED
    BY <2>1 DEF NewestKept
<1>6. QED
  BY <1>3, <1>4, <1>5 DEF Kept

\* The operator deletes a record only once it stored a newer copy.
LEMMA KeptReplay == ASSUME Placed, Placed', Kept, NEW r \in dlq, Replay(r) PROVE Kept'
<1> DEFINE x == r.msg[1]
<1>1. /\ x \in Events
      /\ \A e \in Events : stream'[e] = IF e = x THEN stream[e] + 1 ELSE stream[e]
      /\ dlq' \in {dlq, dlq \ {r}}
      /\ UNCHANGED <<jet, dlqIds, processed, pc, cur>>
  BY ReplayFacts DEF tableVars, workerVars
<1>2. \A e \in Events : stream[e] \in Nat
  BY ConsumerAssumptions DEF Placed, TypeOK
<1>3. \A e \in Events \ {x} : Waiting(e) => Waiting(e)'
  BY <1>1 DEF Waiting
<1>4. ASSUME NEW m \in Messages, Stored(m), Parked(m) PROVE Parked(m)'
  <2>1. m[1] \in Events /\ m[2] \in Nat
    BY MessageFacts, ConsumerAssumptions
  <2>2. CASE m[1] = x
    BY <1>1, <1>2, <1>4, <2>1, <2>2 DEF Stored, Parked
  <2>3. CASE m[1] # x
    BY <1>1, <1>3, <1>4, <2>1, <2>3 DEF Parked
  <2>4. QED
    BY <2>2, <2>3
<1>5. IdsParked'
  BY <1>1, <1>4 DEF Kept, IdsParked, Placed, TypeOK, ParkedStored
<1>6. TermParked'
  BY <1>1, <1>4, InHand DEF Kept, TermParked
<1>7. NewestKept'
  <2>1. ASSUME NEW c \in Consumers, NEW e \in Events, stream'[e] > 0
        PROVE  \/ processed'[c][e].done \/ Waiting(e)'
               \/ jet'[c][<<e, stream'[e]>>].state \in {"ready", "inflight"}
    <3>1. CASE e # x
      BY <1>1, <1>3, <2>1, <3>1 DEF Kept, NewestKept
    <3>2. CASE e = x
      BY <1>1, <1>2, <3>2, NewestIsReady
    <3>3. QED
      BY <3>1, <3>2
  <2>2. QED
    BY <2>1 DEF NewestKept
<1>8. QED
  BY <1>5, <1>6, <1>7 DEF Kept

\* Any other step: what it terminates is parked, what it parks has a record.
LEMMA KeptFrame ==
  ASSUME Placed, Placed', RowsAgree', DoneStays, Kept,
         stream' = stream, dlq \subseteq dlq',
         \A i \in dlqIds' : i \in dlqIds \/ Waiting(i.msg[1])',
         \A w \in Workers : pc'[w] = "term" => Parked(cur[w].msg)',
         \A c \in Consumers, m \in Messages :
           jet'[c][m].state = "termed" => jet[c][m].state = "termed" \/ Parked(m)
  PROVE  Kept'
<1>1. \A e : Waiting(e) => Waiting(e)'
  BY DEF Waiting
<1>2. IdsParked'
  BY <1>1 DEF Kept, IdsParked, Parked
<1>3. TermParked'
  BY DEF TermParked
<1>4. NewestKept'
  <2>1. ASSUME NEW c \in Consumers, NEW e \in Events, stream[e] > 0
        PROVE  \/ processed'[c][e].done \/ Waiting(e)'
               \/ jet'[c][<<e, stream[e]>>].state \in {"ready", "inflight"}
    <3> DEFINE m == <<e, stream[e]>>
    <3>1. stream[e] \in 1 .. MaxCopies
      BY <2>1, ConsumerAssumptions DEF Placed, TypeOK
    <3>2. m \in Messages /\ m[1] = e /\ m[2] = stream[e]
      BY <3>1 DEF Messages
    <3>3. jet'[c][m].state \in States
      BY <3>2 DEF Placed, TypeOK, States
    <3>4. CASE jet'[c][m].state = "acked"
      BY <3>2, <3>4 DEF RowsAgree, AckedIsDone
    <3>5. CASE jet'[c][m].state = "termed"
      <4>1. CASE jet[c][m].state = "termed"
        <5>1. processed[c][e].done \/ Waiting(e)
          BY <2>1, <4>1 DEF Kept, NewestKept
        <5>2. QED
          BY <1>1, <5>1 DEF DoneStays
      <4>2. CASE Parked(m)
        BY <1>1, <3>1, <3>2, <4>2, ConsumerAssumptions DEF Parked
      <4>3. QED
        BY <3>2, <3>5, <4>1, <4>2
    <3>6. QED
      BY <3>3, <3>4, <3>5 DEF States
  <2>2. QED
    BY <2>1 DEF NewestKept
<1>5. QED
  BY <1>2, <1>3, <1>4 DEF Kept

\* The third layer.
LEMMA KeptStep ==
  ASSUME Placed, Placed', RowsAgree, RowsAgree', DoneStays, Kept, ConsumerNext
  PROVE  Kept'
<1>1. ASSUME UNCHANGED <<stream, dlq, dlqIds>>,
             \A w \in Workers : pc'[w] = "term" => pc[w] = "term" /\ cur'[w] = cur[w],
             \A c \in Consumers, m \in Messages :
               jet'[c][m].state = "termed" => jet[c][m].state = "termed"
      PROVE  Kept'
  <2>1. \A w \in Workers : pc'[w] = "term" => Parked(cur[w].msg)'
    BY <1>1 DEF Kept, TermParked, Parked, Waiting
  <2>2. QED
    BY <1>1, <2>1, KeptFrame
<1>2. ASSUME NEW w \in Workers, NEW d \in batch[w], Claim(w, d) \/ ClaimRaises(w, d) PROVE Kept'
  BY <1>1, <1>2, ClaimFacts DEF Handle, brokerVars
<1>3. ASSUME NEW w \in Workers, HandlerReturns(w) \/ HandlerRaises(w) PROVE Kept'
  BY <1>1, <1>3, HandlerFacts DEF Handle, brokerVars
<1>4. ASSUME NEW w \in Workers, Complete(w) \/ ReleaseLease(w) \/ DatabaseRaises(w) PROVE Kept'
  BY <1>1, <1>4, SettleFacts DEF Handle, brokerVars
<1>5. ASSUME NEW w \in Workers, Fetch(w) PROVE Kept'
  <2>1. \A c \in Consumers, m \in Messages :
          jet'[c][m].state = "termed" => jet[c][m].state = "termed"
    BY <1>5, FetchFacts
  <2>2. QED
    BY <1>1, <1>5, <2>1, FetchFacts
<1>6. ASSUME NEW c \in Consumers, NEW m \in Messages, AckWaitPasses(c, m) PROVE Kept'
  <2>1. \A b \in Consumers, n \in Messages :
          jet'[b][n].state = "termed" => jet[b][n].state = "termed"
    BY <1>6, AckWaitFacts
  <2>2. QED
    BY <1>1, <1>6, <2>1, AckWaitFacts DEF workerVars
<1>7. ASSUME NEW c \in Consumers, NEW e \in Events, LeasePasses(c, e) PROVE Kept'
  BY <1>1, <1>7, LeaseFacts DEF brokerVars, workerVars
<1>8. ASSUME NEW w \in Workers, Crash(w) PROVE Kept'
  <2>1. \A v \in Workers : pc'[v] = "term" => pc[v] = "term" /\ cur'[v] = cur[v]
    BY <1>8 DEF Crash, Placed, TypeOK
  <2>2. QED
    BY <1>1, <1>8, <2>1 DEF Crash, brokerVars
<1>9. ASSUME NEW w \in Workers, Ack(w) \/ AckRaises(w) \/ Nak(w) PROVE Kept'
  <2>1. pc[w] # "loop" /\ (jet' = jet \/ \E state \in {"acked", "ready"} : Answer(w, state))
    BY <1>9 DEF Ack, AckRaises, Nak
  <2>2. \A c \in Consumers, m \in Messages :
          jet'[c][m].state = "termed" => jet[c][m].state = "termed"
    BY <2>1, AnswerFacts DEF States
  <2>3. \A v \in Workers : pc'[v] = "term" => pc[v] = "term" /\ cur'[v] = cur[v]
    BY <1>9 DEF Ack, AckRaises, Nak, NextMessage, Goto, Placed, TypeOK
  <2>4. UNCHANGED <<stream, dlq, dlqIds>>
    BY <1>9 DEF Ack, AckRaises, Nak
  <2>5. QED
    BY <1>1, <2>2, <2>3, <2>4
<1>10. ASSUME NEW w \in Workers, Terminate(w) PROVE Kept'
  <2>1. UNCHANGED <<stream, dlq, dlqIds>> /\ pc[w] = "term" /\ Answer(w, "termed")
    BY <1>10 DEF Terminate
  <2>2. \A v \in Workers : pc'[v] = "term" => pc[v] = "term" /\ cur'[v] = cur[v]
    BY <1>10 DEF Terminate, NextMessage, Goto, Placed, TypeOK
  <2>3. \A v \in Workers : pc'[v] = "term" => Parked(cur[v].msg)'
    BY <2>1, <2>2 DEF Kept, TermParked, Parked, Waiting
  <2>4. \A c \in Consumers, m \in Messages :
          jet'[c][m].state = "termed" => jet[c][m].state = "termed" \/ Parked(m)
    BY <2>1, AnswerFacts DEF States, Kept, TermParked
  <2>5. QED
    BY <2>1, <2>3, <2>4, KeptFrame
<1>11. ASSUME NEW w \in Workers, PublishDeadLetter(w) \/ DeadLetterRaises(w) PROVE Kept'
  <2>1. /\ pc[w] = "retry" /\ stream' = stream
        /\ StoreDeadLetter(w) \/ (UNCHANGED <<dlq, dlqIds>> /\ DeadLetterRaises(w))
        /\ jet' = jet \/ Answer(w, "ready")
    BY <1>11 DEF PublishDeadLetter, DeadLetterRaises
  <2>2. dlq \subseteq dlq' /\ \A i \in dlqIds' : i \in dlqIds \/ Waiting(i.msg[1])'
    <3>1. DlqRecord(w).msg[1] = DlqId(w).msg[1]
      BY DEF DlqRecord, DlqId
    <3>2. CASE dlq' = dlq \cup {DlqRecord(w)} /\ dlqIds' = dlqIds \cup {DlqId(w)}
      <4>1. DlqRecord(w) \in dlq'
        BY <3>2
      <4>2. ASSUME NEW i \in dlqIds', i \notin dlqIds PROVE \E r \in dlq' : r.msg[1] = i.msg[1]
        BY <3>1, <3>2, <4>1, <4>2
      <4>3. QED
        BY <3>2, <4>2 DEF Waiting
    <3>3. QED
      BY <2>1, <3>2 DEF StoreDeadLetter
  <2>3. PublishDeadLetter(w) => Parked(cur[w].msg)'
    <3>1. ASSUME PublishDeadLetter(w), dlq' = dlq \cup {DlqRecord(w)} PROVE Parked(cur[w].msg)'
      <4>1. Parked(cur[w].msg)' <=>
              (\E r \in dlq' : r.msg[1] = cur'[w].msg[1]) \/ cur'[w].msg[2] < stream'[cur'[w].msg[1]]
        BY DEF Parked, Waiting
      <4>2. cur' = cur
        BY <3>1 DEF PublishDeadLetter
      <4>3. QED
        <5>1. DlqRecord(w) \in dlq' /\ DlqRecord(w).msg[1] = cur'[w].msg[1]
          BY <3>1, <4>2 DEF DlqRecord
        <5>2. QED
          BY <4>1, <5>1
    <3>2. ASSUME PublishDeadLetter(w), DlqId(w) \in dlqIds, dlq' = dlq PROVE Parked(cur[w].msg)'
      <4>1. Parked(DlqId(w).msg) /\ DlqId(w).msg = cur[w].msg /\ cur' = cur
        BY <3>2 DEF Kept, IdsParked, DlqId, PublishDeadLetter
      <4>2. QED
        BY <2>1, <3>2, <4>1 DEF Parked, Waiting
    <3>3. QED
      BY <3>1, <3>2 DEF PublishDeadLetter, StoreDeadLetter
  <2>4. \A v \in Workers : pc'[v] = "term" => Parked(cur[v].msg)'
    <3>1. ASSUME NEW v \in Workers, v # w, pc'[v] = "term" PROVE Parked(cur[v].msg)'
      <4>1. pc[v] = "term" /\ cur'[v] = cur[v]
        BY <1>11, <3>1 DEF PublishDeadLetter, DeadLetterRaises, NextMessage, Goto, Placed, TypeOK
      <4>2. QED
        BY <2>1, <2>2, <4>1 DEF Kept, TermParked, Parked, Waiting
    <3>2. pc'[w] = "term" => PublishDeadLetter(w) /\ cur'[w] = cur[w]
      BY <1>11 DEF PublishDeadLetter, DeadLetterRaises, NextMessage, Goto, Placed, TypeOK
    <3>3. QED
      BY <2>3, <3>1, <3>2
  <2>5. \A c \in Consumers, m \in Messages :
          jet'[c][m].state = "termed" => jet[c][m].state = "termed"
    BY <2>1, AnswerFacts DEF States
  <2>6. QED
    BY <2>1, <2>2, <2>4, <2>5, KeptFrame
<1>12. ASSUME NEW w \in Workers, WorkerStep(w) \/ WorkerFault(w) PROVE Kept'
  BY <1>2, <1>3, <1>4, <1>5, <1>8, <1>9, <1>10, <1>11, <1>12 DEF WorkerStep, WorkerFault
<1>13. QED
  BY <1>6, <1>7, <1>12, KeptReplay DEF ConsumerNext

-----------------------------------------------------------------------------
\* No worker, no row and an empty stream satisfy the invariant.
LEMMA InvInit == Init => Inv
<1> SUFFICES ASSUME Init PROVE Inv
  OBVIOUS
<1>1. TypeOK
  BY ConsumerAssumptions DEF Init, InitConsumer, TypeOK, NoRow, NoDelivery
<1>2. Placed
  BY <1>1 DEF Init, InitConsumer, Placed, CurStored, UnsentReady, ParkedStored
<1>3. RowsAgree
  BY DEF Init, InitConsumer, RowsAgree, DoneClosed, WorkerKnows, LeaseHeld, AckedIsDone, NoRow
<1>4. Kept
  BY DEF Init, InitConsumer, Kept, IdsParked, TermParked, NewestKept
<1>5. QED
  BY <1>2, <1>3, <1>4 DEF Inv

\* The consumers' own steps.
LEMMA InvConsumer == ASSUME Inv, ConsumerNext PROVE Inv' /\ DoneStays
BY PlacedStep, RowsStep, KeptStep DEF Inv

\* The steps of the components around them.
LEMMA InvGrows == ASSUME Inv, Grows PROVE Inv' /\ DoneStays
BY PlacedGrows, RowsGrow, KeptGrows DEF Inv, Grows, brokerVars, tableVars, workerVars

LEMMA InvStep == ASSUME Inv, [Next]_vars PROVE Inv' /\ DoneStays
BY InvConsumer, InvGrows, PublishGrows DEF Next, Inv

LEMMA Invariance == Spec => []Inv
<1>1. Inv /\ [Next]_vars => Inv'
  BY InvStep
<1>2. QED
  BY <1>1, InvInit, PTL DEF Spec

\* The newest copy is a copy.
LEMMA InvKeepsAll == Inv => NothingLost
<1> SUFFICES ASSUME Inv, NEW c \in Consumers, NEW e \in Events, stream[e] > 0
             PROVE  Recoverable(c, e)
  BY DEF NothingLost
<1> DEFINE m == <<e, stream[e]>>
<1>1. stream[e] \in 1 .. MaxCopies
  BY ConsumerAssumptions DEF Inv, Placed, TypeOK
<1>2. m \in Messages /\ m[1] = e /\ Stored(m)
  BY <1>1, ConsumerAssumptions DEF Messages, Stored
<1>3. \/ processed[c][e].done \/ Waiting(e)
      \/ jet[c][m].state \in {"ready", "inflight"}
  BY DEF Inv, Kept, NewestKept
<1>4. QED
  BY <1>2, <1>3 DEF Recoverable, Waiting

\* A worker enters the handler only for an event that is not done.
LEMMA EntersUndone ==
  ASSUME Inv, [Next]_vars, NEW w \in Workers, pc[w] # "handle", pc'[w] = "handle"
  PROVE  ~ processed[ConsumerOf(w)][EventOf(cur'[w])].done
<1>1. Placed
  BY DEF Inv
<1>2. ASSUME NEW v \in Workers, NEW d \in batch[v], Claim(v, d) \/ ClaimRaises(v, d)
      PROVE  ~ processed[ConsumerOf(w)][EventOf(cur'[w])].done
  BY <1>1, <1>2, ClaimFacts DEF Free
<1>3. ASSUME NEW v \in Workers, HandlerReturns(v) \/ HandlerRaises(v) PROVE FALSE
  BY <1>1, <1>3, HandlerFacts
<1>4. ASSUME NEW v \in Workers, Complete(v) \/ ReleaseLease(v) \/ DatabaseRaises(v) PROVE FALSE
  BY <1>1, <1>4, SettleFacts
<1>5. ASSUME NEW v \in Workers,
             \/ Ack(v) \/ AckRaises(v) \/ Nak(v) \/ PublishDeadLetter(v) \/ DeadLetterRaises(v)
             \/ Terminate(v) \/ Crash(v) \/ Fetch(v)
      PROVE  FALSE
  BY <1>1, <1>5 DEF Ack, AckRaises, Nak, PublishDeadLetter, DeadLetterRaises, Terminate, Crash,
     Fetch, NextMessage, Goto, Placed, TypeOK
<1>6. CASE pc' = pc
  BY <1>6
<1>7. QED
  BY <1>2, <1>3, <1>4, <1>5, <1>6
  DEF Next, ConsumerNext, WorkerStep, WorkerFault, Publish, AckWaitPasses, LeasePasses, Replay,
      vars, workerVars

-----------------------------------------------------------------------------
\* Type correctness of the pull workers, their table and their broker (run_once,
\* claim_event_processing, complete_event_processing, _publish_dead_letter).
THEOREM TypeCorrect == Spec => []TypeOK
<1>1. Inv => TypeOK
  BY DEF Inv, Placed
<1>2. QED
  BY <1>1, Invariance, PTL

\* run_once: the broker forgets a message only after its event's handler took
\* effect and the completion is on record.
THEOREM AckedAreDone == Spec => []AckedIsDone
<1>1. Inv => AckedIsDone
  BY DEF Inv, RowsAgree
<1>2. QED
  BY <1>1, Invariance, PTL

\* _retry_or_dead_letter: no event is lost to any consumer, although they share
\* dead-letter ids and records are replayed and deleted meanwhile.
THEOREM NoEventLost == Spec => []NothingLost
<1>1. QED
  BY InvKeepsAll, Invariance, PTL

\* claim_event_processing: unless a lease passed under a running handler, no two
\* workers of a consumer are inside the handler of one event.
THEOREM HandlersExclude == Spec => []ExclusiveUnlessLapsed
<1>1. Inv => ExclusiveUnlessLapsed
  BY DEF Inv, RowsAgree, LeaseHeld, ExclusiveUnlessLapsed, RowOf
<1>2. QED
  BY <1>1, Invariance, PTL

\* complete_event_processing: no step undoes a completion or handles a completed
\* event again.
THEOREM CompletionsFinal == Spec => CompletionIsFinal
<1> DEFINE Final == \A c \in Consumers, e \in Events :
         processed[c][e].done =>
            /\ processed'[c][e] = processed[c][e]
            /\ \A w \in Workers :
                 ConsumerOf(w) = c /\ pc'[w] = "handle" /\ EventOf(cur'[w]) = e
                 => pc[w] = "handle"
<1>1. ASSUME Inv, [Next]_vars PROVE [Final]_vars
  BY <1>1, InvStep, EntersUndone DEF DoneStays
<1>2. QED
  BY <1>1, Invariance, PTL DEF CompletionIsFinal, Spec
-----------------------------------------------------------------------------
\* For the composition with the relay: what a consumer's step shows outside.
SameDone == \A c \in Consumers, e \in Events : processed'[c][e].done <=> processed[c][e].done

\* One handler takes effect, for a stored event.
AppliesOne ==
    \E c \in Consumers, e \in Events :
        /\ stream[e] > 0 /\ SameDone
        /\ \A b \in Consumers, f \in Events :
             applied'[b][f] <=> applied[b][f] \/ (b = c /\ f = e)

\* One event is put on record as finished, after an effect.
FinishesOne ==
    \E c \in Consumers, e \in Events :
        /\ applied[c][e] /\ ~ processed[c][e].done /\ applied' = applied
        /\ \A b \in Consumers, f \in Events :
             processed'[b][f].done <=> processed[b][f].done \/ (b = c /\ f = e)

\* Every other step is of the transport, the leases or the dead letters.
Unseen == applied' = applied /\ SameDone

LEMMA ConsumerEffects ==
  ASSUME Inv, ConsumerNext
  PROVE  AppliesOne \/ FinishesOne \/ Unseen
<1>1. Placed /\ RowsAgree
  BY DEF Inv
<1>2. ASSUME NEW w \in Workers, NEW d \in batch[w], Claim(w, d) \/ ClaimRaises(w, d)
      PROVE  Unseen
  <2> DEFINE c == ConsumerOf(w)
             e == EventOf(d)
             row == [done |-> FALSE, owner |-> w, lease |-> "live"]
  <2>1. applied' = applied /\ d \in Deliveries
    BY <1>1, <1>2, ClaimFacts
  <2>2. \/ processed' = processed
        \/ Free(processed[c][e]) /\ processed' = [processed EXCEPT ![c][e] = row]
    BY <1>1, <1>2, ClaimFacts
  <2>3. CASE Free(processed[c][e]) /\ processed' = [processed EXCEPT ![c][e] = row]
    <3>1. c \in Consumers /\ e \in Events /\ row \in Row
      BY <2>1, WorkerFacts, DeliveryFacts, RowTypes
    <3>2. \A b \in Consumers, f \in Events :
            processed'[b][f] = IF b = c /\ f = e THEN row ELSE processed[b][f]
      BY <1>1, <2>3, <3>1, RowFacts, ZenonT(60)
    <3>3. ~ row.done /\ ~ processed[c][e].done
      BY <2>3 DEF Free
    <3>4. QED
      BY <2>1, <3>2, <3>3 DEF Unseen, SameDone
  <2>4. QED
    BY <2>1, <2>2, <2>3 DEF Unseen, SameDone
<1>3. ASSUME NEW w \in Workers, HandlerReturns(w) \/ HandlerRaises(w)
      PROVE  AppliesOne \/ Unseen
  <2> DEFINE c == ConsumerOf(w)
             e == EventOf(cur[w])
  <2>1. processed' = processed /\ pc[w] = "handle"
        /\ (applied' = applied \/ applied' = [applied EXCEPT ![c][e] = TRUE])
    BY <1>1, <1>3, HandlerFacts
  <2>2. CASE applied' = [applied EXCEPT ![c][e] = TRUE]
    <3>1. /\ c \in Consumers /\ e \in Events /\ cur[w].msg \in Messages
          /\ Stored(cur[w].msg) /\ e = cur[w].msg[1]
      BY <1>1, <2>1, WorkerFacts, InHand
    <3>2. stream[e] > 0
      BY <1>1, <3>1, MessageFacts, ConsumerAssumptions DEF Stored, Placed, TypeOK
    <3>3. \A b \in Consumers, f \in Events :
            applied'[b][f] = IF b = c /\ f = e THEN TRUE ELSE applied[b][f]
      BY <1>1, <2>2, <3>1, AppliedFacts, ZenonT(60)
    <3>4. \A b \in Consumers, f \in Events : applied'[b][f] <=> applied[b][f] \/ (b = c /\ f = e)
      BY <3>3
    <3>5. SameDone
      BY <2>1 DEF SameDone
    <3>6. QED
      BY <3>1, <3>2, <3>4, <3>5 DEF AppliesOne
  <2>3. QED
    BY <2>1, <2>2 DEF Unseen, SameDone
<1>4. ASSUME NEW w \in Workers, Complete(w) \/ ReleaseLease(w) \/ DatabaseRaises(w)
      PROVE  FinishesOne \/ Unseen
  <2> DEFINE c == ConsumerOf(w)
             e == EventOf(cur[w])
  <2>1. applied' = applied /\ pc[w] \in {"complete", "release"}
    BY <1>1, <1>4, SettleFacts
  <2>2. c \in Consumers /\ e \in Events /\ NoRow \in Row /\ DoneRow \in Row
    BY <1>1, <2>1, WorkerFacts, InHand, RowTypes
  <2>3. \/ processed' = processed
        \/ /\ Holds(w) /\ pc[w] = "complete"
           /\ processed' = [processed EXCEPT ![c][e] = DoneRow]
        \/ Holds(w) /\ processed' = [processed EXCEPT ![c][e] = NoRow]
    BY <1>1, <1>4, SettleFacts
  <2>4. Holds(w) => ~ processed[c][e].done
    BY DEF Holds, RowOf
  <2>5. CASE /\ Holds(w) /\ pc[w] = "complete"
             /\ processed' = [processed EXCEPT ![c][e] = DoneRow]
    <3>1. \A b \in Consumers, f \in Events :
            processed'[b][f] = IF b = c /\ f = e THEN DoneRow ELSE processed[b][f]
      BY <1>1, <2>2, <2>5, RowFacts, ZenonT(60)
    <3>2. applied[c][e]
      BY <1>1, <2>5 DEF RowsAgree, WorkerKnows
    <3>3. \A b \in Consumers, f \in Events :
            processed'[b][f].done <=> processed[b][f].done \/ (b = c /\ f = e)
      BY <3>1 DEF DoneRow
    <3>4. QED
      BY <2>1, <2>2, <2>4, <2>5, <3>2, <3>3 DEF FinishesOne
  <2>6. CASE Holds(w) /\ processed' = [processed EXCEPT ![c][e] = NoRow]
    <3>1. \A b \in Consumers, f \in Events :
            processed'[b][f] = IF b = c /\ f = e THEN NoRow ELSE processed[b][f]
      BY <1>1, <2>2, <2>6, RowFacts, ZenonT(60)
    <3>2. QED
      BY <2>1, <2>4, <2>6, <3>1 DEF Unseen, SameDone, NoRow
  <2>7. QED
    BY <2>1, <2>3, <2>5, <2>6 DEF Unseen, SameDone
<1>5. ASSUME NEW c \in Consumers, NEW e \in Events, LeasePasses(c, e) PROVE Unseen
  BY <1>1, <1>5, LeaseFacts DEF Unseen, SameDone
<1>6. CASE UNCHANGED tableVars
  BY <1>6 DEF tableVars, Unseen, SameDone
<1>7. ASSUME NEW w \in Workers, WorkerStep(w) \/ WorkerFault(w)
      PROVE  AppliesOne \/ FinishesOne \/ Unseen
  BY <1>2, <1>3, <1>4, <1>6, <1>7 DEF WorkerStep, WorkerFault, Fetch, Ack, AckRaises, Nak,
     PublishDeadLetter, DeadLetterRaises, Terminate, Crash
<1>8. QED
  BY <1>5, <1>6, <1>7 DEF ConsumerNext, AckWaitPasses, Replay

\* And what it does to the stream and the fault budget: a replay adds a copy of an
\* event the stream already held, nothing else touches the stream.
LEMMA ConsumerShares ==
  ASSUME Inv, ConsumerNext
  PROVE  /\ stream' \in [Events -> 0 .. MaxCopies]
         /\ \A e \in Events : stream[e] <= stream'[e]
         /\ \A e \in Events : stream'[e] > 0 => stream[e] > 0
         /\ faults' \in faults .. MaxFaults
<1>1. Placed
  BY DEF Inv
<1>2. \A e \in Events : stream[e] \in Nat
  BY <1>1 DEF Placed, TypeOK
<1>3. ASSUME stream' = stream, faults' \in faults .. MaxFaults
      PROVE  /\ stream' \in [Events -> 0 .. MaxCopies]
             /\ \A e \in Events : stream[e] <= stream'[e]
             /\ \A e \in Events : stream'[e] > 0 => stream[e] > 0
             /\ faults' \in faults .. MaxFaults
  BY <1>1, <1>2, <1>3 DEF Placed, TypeOK
<1>4. ASSUME NEW w \in Workers, WorkerStep(w) \/ WorkerFault(w)
      PROVE  stream' = stream /\ faults' \in faults .. MaxFaults
  <2>1. stream' = stream
    BY <1>4 DEF WorkerStep, WorkerFault, Fetch, Claim, ClaimRaises, HandlerReturns, HandlerRaises,
       Complete, ReleaseLease, DatabaseRaises, Ack, AckRaises, Nak, PublishDeadLetter,
       DeadLetterRaises, Terminate, Crash
  <2>2. Fault \/ faults' = faults
    BY <1>4 DEF WorkerStep, WorkerFault, Fetch, Claim, ClaimRaises, HandlerReturns, HandlerRaises,
       Complete, ReleaseLease, DatabaseRaises, Ack, AckRaises, Nak, PublishDeadLetter,
       DeadLetterRaises, Terminate, Crash
  <2>3. QED
    BY <1>1, <2>1, <2>2, FaultRange
<1>5. ASSUME NEW c \in Consumers, NEW m \in Messages, AckWaitPasses(c, m)
      PROVE  stream' = stream /\ faults' \in faults .. MaxFaults
  BY <1>1, <1>5, AckWaitFacts
<1>6. ASSUME NEW c \in Consumers, NEW e \in Events, LeasePasses(c, e)
      PROVE  stream' = stream /\ faults' \in faults .. MaxFaults
  BY <1>1, <1>6, FaultRange DEF LeasePasses
<1>7. ASSUME NEW r \in dlq, Replay(r)
      PROVE  /\ stream' \in [Events -> 0 .. MaxCopies]
             /\ \A e \in Events : stream[e] <= stream'[e]
             /\ \A e \in Events : stream'[e] > 0 => stream[e] > 0
             /\ faults' \in faults .. MaxFaults
  <2> DEFINE x == r.msg[1]
  <2>1. /\ x \in Events
        /\ stream' \in [Events -> 0 .. MaxCopies]
        /\ \A e \in Events : stream'[e] = IF e = x THEN stream[e] + 1 ELSE stream[e]
        /\ faults' = faults
    BY <1>1, <1>7, ReplayFacts
  <2>2. r.msg \in Messages /\ Stored(r.msg)
    BY <1>1 DEF Placed, TypeOK, ParkedStored
  <2>3. stream[x] > 0
    BY <1>2, <2>1, <2>2, MessageFacts, ConsumerAssumptions DEF Stored
  <2>4. faults' \in faults .. MaxFaults
    BY <1>1, <2>1, FaultRange
  <2>5. QED
    BY <1>2, <2>1, <2>3, <2>4
<1>8. QED
  BY <1>3, <1>4, <1>5, <1>6, <1>7 DEF ConsumerNext

-----------------------------------------------------------------------------
\* For the index behind embed-v1: where the handler of a worker is, and what a step
\* of the consumer does to it.
Inside(w) == pc[w] \in {"handle", "complete"}

GoesOn(w) == IF Inside(w) THEN pc'[w] = pc[w] /\ cur'[w] = cur[w] ELSE ~ Inside(w)'

Entering(w) ==
    /\ ~ Inside(w) /\ pc'[w] = "handle" /\ SameDone
    /\ cur'[w] \in Deliveries /\ Stored(cur'[w].msg)
    /\ ~ processed[ConsumerOf(w)][EventOf(cur'[w])].done

Returning(w) == pc[w] = "handle" /\ pc'[w] = "complete" /\ cur'[w] = cur[w] /\ SameDone

Finishing(w) ==
    /\ pc[w] = "complete" /\ ~ Inside(w)'
    /\ \A b \in Consumers, f \in Events :
         processed'[b][f].done <=> processed[b][f].done \/ (b = ConsumerOf(w) /\ f = EventOf(cur[w]))

Leaving(w) == Inside(w) /\ ~ Inside(w)' /\ SameDone

\* At most one worker's handler moves.
Moves(w) ==
    /\ Entering(w) \/ Returning(w) \/ Finishing(w) \/ Leaving(w) \/ (SameDone /\ GoesOn(w))
    /\ \A v \in Workers \ {w} : GoesOn(v)

\* The steps that keep the rows, and the place of every worker but one.
LEMMA OthersGoOn ==
  ASSUME NEW w \in Workers, \A v \in Workers \ {w} : pc'[v] = pc[v] /\ cur'[v] = cur[v]
  PROVE  \A v \in Workers \ {w} : GoesOn(v)
BY DEF GoesOn, Inside

LEMMA ClaimView ==
  ASSUME Inv, NEW w \in Workers, NEW d \in batch[w], Claim(w, d) \/ ClaimRaises(w, d)
  PROVE  Moves(w)
<1>1. Placed
  BY DEF Inv
<1>2. SameDone
  <2> DEFINE c == ConsumerOf(w)
             e == EventOf(d)
             row == [done |-> FALSE, owner |-> w, lease |-> "live"]
  <2>1. /\ d \in Deliveries
        /\ \/ processed' = processed
           \/ Free(processed[c][e]) /\ processed' = [processed EXCEPT ![c][e] = row]
    BY <1>1, ClaimFacts
  <2>2. CASE Free(processed[c][e]) /\ processed' = [processed EXCEPT ![c][e] = row]
    <3>1. c \in Consumers /\ e \in Events /\ row \in Row
      BY <2>1, WorkerFacts, DeliveryFacts, RowTypes
    <3>2. \A b \in Consumers, f \in Events :
            processed'[b][f] = IF b = c /\ f = e THEN row ELSE processed[b][f]
      BY <1>1, <2>2, <3>1, RowFacts, ZenonT(60)
    <3>3. ~ row.done /\ ~ processed[c][e].done
      BY <2>2 DEF Free
    <3>4. QED
      BY <3>2, <3>3 DEF SameDone
  <2>3. QED
    BY <2>1, <2>2 DEF SameDone
<1>3. \A v \in Workers \ {w} : GoesOn(v)
  BY <1>1, ClaimFacts, OthersGoOn
<1>4. pc[w] = "loop" /\ cur'[w] = d /\ d \in Deliveries /\ pc'[w] \in {"handle", "ack", "retry"}
  BY <1>1, ClaimFacts
<1>5. pc'[w] = "handle" => ~ processed[ConsumerOf(w)][EventOf(d)].done
  BY <1>1, <1>4, ClaimFacts DEF Free
<1>6. Stored(d.msg)
  BY <1>1 DEF Placed, CurStored
<1>7. Entering(w) \/ (SameDone /\ GoesOn(w))
  BY <1>2, <1>4, <1>5, <1>6 DEF Entering, GoesOn, Inside
<1>8. QED
  BY <1>3, <1>7 DEF Moves

LEMMA HandlerView ==
  ASSUME Inv, NEW w \in Workers, HandlerReturns(w) \/ HandlerRaises(w)
  PROVE  Moves(w)
<1>1. /\ processed' = processed /\ cur' = cur /\ pc[w] = "handle"
      /\ pc'[w] \in {"complete", "release"} /\ \A v \in Workers \ {w} : pc'[v] = pc[v]
  BY HandlerFacts DEF Inv
<1>2. SameDone /\ \A v \in Workers \ {w} : GoesOn(v)
  BY <1>1, OthersGoOn DEF SameDone
<1>3. Returning(w) \/ Leaving(w)
  BY <1>1, <1>2 DEF Returning, Leaving, Inside
<1>4. QED
  BY <1>2, <1>3 DEF Moves

LEMMA SettleView ==
  ASSUME Inv, NEW w \in Workers, Complete(w) \/ ReleaseLease(w) \/ DatabaseRaises(w)
  PROVE  Moves(w)
<1> DEFINE c == ConsumerOf(w)
           e == EventOf(cur[w])
<1>1. /\ Placed /\ cur' = cur /\ pc[w] \in {"complete", "release"} /\ pc'[w] \in {"ack", "retry"}
      /\ \A v \in Workers \ {w} : pc'[v] = pc[v]
  BY SettleFacts DEF Inv
<1>2. \A v \in Workers \ {w} : GoesOn(v)
  BY <1>1, OthersGoOn
<1>3. \/ processed' = processed
      \/ pc[w] = "complete" /\ processed' = [processed EXCEPT ![c][e] = DoneRow]
      \/ Holds(w) /\ processed' = [processed EXCEPT ![c][e] = NoRow]
  BY <1>1, SettleFacts
<1>4. c \in Consumers /\ e \in Events /\ NoRow \in Row /\ DoneRow \in Row
  BY <1>1, WorkerFacts, InHand, RowTypes
<1>5. CASE pc[w] = "complete" /\ processed' = [processed EXCEPT ![c][e] = DoneRow]
  <2>1. \A b \in Consumers, f \in Events :
          processed'[b][f] = IF b = c /\ f = e THEN DoneRow ELSE processed[b][f]
    BY <1>1, <1>4, <1>5, RowFacts, ZenonT(60)
  <2>2. Finishing(w)
    BY <1>1, <1>5, <2>1 DEF Finishing, Inside, DoneRow
  <2>3. QED
    BY <1>2, <2>2 DEF Moves
<1>6. ASSUME SameDone PROVE Moves(w)
  <2>1. Leaving(w) \/ GoesOn(w)
    BY <1>1, <1>6 DEF Leaving, GoesOn, Inside
  <2>2. QED
    BY <1>2, <1>6, <2>1 DEF Moves
<1>7. CASE Holds(w) /\ processed' = [processed EXCEPT ![c][e] = NoRow]
  <2>1. \A b \in Consumers, f \in Events :
          processed'[b][f] = IF b = c /\ f = e THEN NoRow ELSE processed[b][f]
    BY <1>1, <1>4, <1>7, RowFacts, ZenonT(60)
  <2>2. ~ processed[c][e].done
    BY <1>7 DEF Holds, RowOf
  <2>3. QED
    BY <1>6, <2>1, <2>2 DEF SameDone, NoRow
<1>8. CASE processed' = processed
  BY <1>6, <1>8 DEF SameDone
<1>9. QED
  BY <1>3, <1>5, <1>7, <1>8

\* Fetches, answers and crashes write no row.
LEMMA OtherView ==
  ASSUME Inv, NEW w \in Workers,
         \/ Fetch(w) \/ Crash(w) \/ Ack(w) \/ AckRaises(w) \/ Nak(w) \/ PublishDeadLetter(w)
         \/ DeadLetterRaises(w) \/ Terminate(w)
  PROVE  Moves(w)
<1>1. pc \in [Workers -> Labels] /\ cur \in [Workers -> Deliveries \cup {NoDelivery}]
  BY DEF Inv, Placed, TypeOK, Labels
<1>2. CASE Fetch(w)
  BY <1>2 DEF Fetch, Moves, GoesOn, Inside, SameDone, tableVars
<1>3. CASE Crash(w)
  <2>1. \A v \in Workers \ {w} : pc'[v] = pc[v] /\ cur'[v] = cur[v]
    BY <1>1, <1>3 DEF Crash
  <2>2. SameDone /\ pc'[w] = "loop"
    BY <1>1, <1>3 DEF Crash, SameDone, tableVars
  <2>3. Leaving(w) \/ GoesOn(w)
    BY <2>2 DEF Leaving, GoesOn, Inside
  <2>4. QED
    BY <2>1, <2>2, <2>3, OthersGoOn DEF Moves
<1>4. CASE \/ Ack(w) \/ AckRaises(w) \/ Nak(w) \/ PublishDeadLetter(w) \/ DeadLetterRaises(w)
           \/ Terminate(w)
  <2>1. Reply(w)
    BY <1>4, ReplySteps DEF Inv
  <2>2. SameDone /\ \A v \in Workers \ {w} : pc'[v] = pc[v] /\ cur'[v] = cur[v]
    BY <1>1, <2>1 DEF Reply, SameDone, tableVars
  <2>3. pc[w] \in {"ack", "retry", "term"} /\ pc'[w] \in {"loop", "retry", "term"}
    BY <1>1, <1>4 DEF Ack, AckRaises, Nak, PublishDeadLetter, DeadLetterRaises, Terminate,
                      NextMessage, Goto
  <2>4. GoesOn(w)
    BY <2>3 DEF GoesOn, Inside
  <2>5. QED
    BY <2>2, <2>4, OthersGoOn DEF Moves
<1>5. QED
  BY <1>2, <1>3, <1>4

LEMMA ConsumerView ==
  ASSUME Inv, ConsumerNext
  PROVE  (\E w \in Workers : Moves(w)) \/ (SameDone /\ \A w \in Workers : GoesOn(w))
<1>1. ASSUME NEW w \in Workers, WorkerStep(w) \/ WorkerFault(w) PROVE Moves(w)
  BY <1>1, ClaimView, HandlerView, SettleView, OtherView DEF WorkerStep, WorkerFault
<1>2. ASSUME NEW c \in Consumers, NEW e \in Events, LeasePasses(c, e)
      PROVE  SameDone /\ UNCHANGED workerVars
  BY <1>2, LeaseFacts DEF Inv, SameDone
<1>3. ASSUME UNCHANGED workerVars PROVE \A w \in Workers : GoesOn(w)
  BY <1>3 DEF workerVars, GoesOn, Inside
<1>4. QED
  BY <1>1, <1>2, <1>3 DEF ConsumerNext, AckWaitPasses, Replay, SameDone, tableVars
=============================================================================
