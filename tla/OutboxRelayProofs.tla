--------------------------- MODULE OutboxRelayProofs ---------------------------
(***************************************************************************)
(* Proofs about module OutboxRelay, for any set of events and workers, any *)
(* batch size, attempt limit and fault budget.                             *)
(*                                                                         *)
(* TypeOK is inductive by itself.  The safety properties are not: that a   *)
(* published row is stored rests on what a worker knows between its send   *)
(* and its mark, that a settled row is final rests on settled rows having  *)
(* no owner, and the bound on attempts rests on how each lease state was   *)
(* paid for.  Inv collects these facts.                                    *)
(***************************************************************************)
EXTENDS OutboxRelay, TLAPS

\* claim_outbox turns a row into a row.
LEMMA LeasedType ==
  ASSUME NEW row \in Row, NEW w \in Workers
  PROVE  Leased(row, w) \in Row
BY DEF Leased, Row

\* So do mark_outbox_published and release_outbox.
LEMMA SettledType ==
  ASSUME NEW row \in Row
  PROVE  Published(row) \in Row /\ Released(row) \in Row
BY DEF Published, Released, Row

\* Every step of a relay worker, the clock or a crash keeps every row, claim and
\* counter in its domain.
LEMMA TypeStep == TypeOK /\ [Next]_vars => TypeOK'
<1> SUFFICES ASSUME TypeOK, [Next]_vars PROVE TypeOK'
  OBVIOUS
<1>1. ASSUME NEW e \in Events, Commit(e) PROVE TypeOK'
  BY <1>1 DEF TypeOK, Commit, Row
<1>2. ASSUME NEW e \in Events, LeaseLapses(e) PROVE TypeOK'
  BY <1>2, RelayAssumptions, SMTT(30) DEF TypeOK, LeaseLapses, Row
<1>3. ASSUME NEW e \in Events, Clock(e) PROVE TypeOK'
  BY <1>3 DEF TypeOK, Clock, LeaseAbandoned, RetryDue, Row
<1>4. ASSUME NEW w \in Workers, Claim(w) PROVE TypeOK'
  <2>1. PICK due \in SUBSET Events :
          /\ outbox' = [e \in Events |->
               IF e \in due THEN Leased(outbox[e], w) ELSE outbox[e]]
          /\ batch' = [batch EXCEPT ![w] =
               {[event |-> e, attempts |-> outbox[e].attempts + 1] : e \in due}]
    BY <1>4 DEF Claim, FirstOf
  <2>2. ASSUME NEW e \in Events PROVE Leased(outbox[e], w) \in Row
    BY LeasedType DEF TypeOK
  <2>3. outbox' \in [Events -> Row]
    BY <2>1, <2>2 DEF TypeOK
  <2>4. \A e \in due : [event |-> e, attempts |-> outbox[e].attempts + 1] \in Claims
    BY DEF TypeOK, Row, Claims
  <2>5. batch' \in [Workers -> SUBSET Claims]
    BY <2>1, <2>4 DEF TypeOK
  <2>6. QED
    BY <1>4, <2>3, <2>5 DEF TypeOK, Claim
<1>5. ASSUME NEW w \in Workers, NEW c \in batch[w], SendAcked(w, c) \/ SendFails(w, c)
      PROVE TypeOK'
  <2>1. c \in Claims
    BY DEF TypeOK
  <2>2. stream' \in [Events -> 0 .. MaxCopies]
    BY <1>5, <2>1, RelayAssumptions DEF TypeOK, SendAcked, SendFails, StoreOrDedupe, Claims
  <2>3. QED
    BY <1>5, <2>1, <2>2 DEF TypeOK, SendAcked, SendFails
<1>6. ASSUME NEW w \in Workers, MarkPublished(w) \/ Release(w) PROVE TypeOK'
  <2>1. outbox' \in [Events -> Row]
    BY <1>6, SettledType DEF TypeOK, MarkPublished, Release
  <2>2. QED
    BY <1>6, <2>1 DEF TypeOK, MarkPublished, Release, NextRow
<1>7. ASSUME NEW w \in Workers, Crash(w) PROVE TypeOK'
  BY <1>7, RelayAssumptions DEF TypeOK, Crash
<1>8. CASE UNCHANGED vars
  BY <1>8 DEF TypeOK, vars
<1>9. QED
  BY <1>1, <1>2, <1>3, <1>4, <1>5, <1>6, <1>7, <1>8 DEF Next, RelayStep

\* Type correctness of the outbox and its relay workers (claim_outbox,
\* mark_outbox_published, release_outbox, run_once): rows, claims, stream
\* counters and the fault budget never leave their domains.
THEOREM TypeCorrect == Spec => []TypeOK
<1>1. Init => TypeOK
  BY RelayAssumptions DEF Init, TypeOK, Row
<1>2. QED
  BY <1>1, TypeStep, PTL DEF Spec

-----------------------------------------------------------------------------
\* The row a worker is about to mark or release is one it claimed.
CurInBatch == \A w \in Workers : pc[w] # "loop" => cur[w] \in batch[w]

\* What send's acknowledgement told the worker still holds when it marks the row.
MarkIsStored == \A w \in Workers : pc[w] = "mark" => stream[cur[w].event] > 0

\* A row that is absent, settled or waiting for its retry has no owner and no
\* lease; only the last of these has a delay to wait for.
QuietUnowned ==
    \A e \in Events :
        /\ outbox[e].state # "pending" => outbox[e].when = "due"
        /\ outbox[e].state # "pending" \/ outbox[e].when = "delayed"
             => outbox[e].owner = NoWorker /\ outbox[e].lease = "none"

\* How a row's attempts are paid for.  An unleased row has an attempt left; a
\* lease that passed, or whose owner is gone, has cost a fault.
AttemptsPaid ==
    \A e \in Events :
        /\ outbox[e].state \in {"absent", "pending"} /\ outbox[e].lease = "none"
             => outbox[e].attempts < MaxAttempts
        /\ outbox[e].lease = "expired" \/ (outbox[e].lease = "live" /\ ~ Working(e))
             => outbox[e].attempts < MaxAttempts + faults

\* The inductive invariant.
Inv ==
    /\ TypeOK
    /\ CurInBatch
    /\ MarkIsStored /\ PublishedIsStored
    /\ OwnerHoldsLatestClaim
    /\ QuietUnowned
    /\ AttemptsPaid /\ AttemptsBounded

\* An empty outbox satisfies the invariant.
LEMMA InvInit == Init => Inv
BY RelayAssumptions
DEF Init, Inv, TypeOK, Row, CurInBatch, MarkIsStored, PublishedIsStored,
    OwnerHoldsLatestClaim, QuietUnowned, AttemptsPaid, AttemptsBounded

\* What claim_outbox does, whichever locked rows it skipped.
LEMMA ClaimFacts ==
  ASSUME NEW w \in Workers, Claim(w)
  PROVE  /\ pc[w] = "loop" /\ batch[w] = {}
         /\ UNCHANGED <<pc, cur, stream, faults>>
         /\ \E due \in SUBSET {e \in Events : Claimable(e)} :
              /\ outbox' = [e \in Events |->
                   IF e \in due THEN Leased(outbox[e], w) ELSE outbox[e]]
              /\ batch' = [batch EXCEPT ![w] =
                   {[event |-> e, attempts |-> outbox[e].attempts + 1] : e \in due}]
BY DEF Claim, FirstOf

\* claim_outbox: the rows it leases have no other live owner, and their new
\* attempt was paid for.
LEMMA InvClaim ==
  ASSUME Inv, NEW w \in Workers, Claim(w)
  PROVE  Inv'
<1> USE RelayAssumptions
<1>1. PICK due \in SUBSET {e \in Events : Claimable(e)} :
        /\ outbox' = [e \in Events |->
             IF e \in due THEN Leased(outbox[e], w) ELSE outbox[e]]
        /\ batch' = [batch EXCEPT ![w] =
             {[event |-> e, attempts |-> outbox[e].attempts + 1] : e \in due}]
  BY ClaimFacts
<1>2. pc[w] = "loop" /\ batch[w] = {} /\ UNCHANGED <<pc, cur, stream, faults>>
  BY ClaimFacts
<1>3. TypeOK /\ TypeOK'
  BY TypeStep DEF Inv, Next, RelayStep
<1>4. CurInBatch' /\ MarkIsStored'
  BY <1>1, <1>2, <1>3 DEF Inv, TypeOK, CurInBatch, MarkIsStored
<1>6. \A e \in due : outbox[e].state = "pending" /\ outbox[e].when = "due"
                    /\ outbox[e].lease # "live" /\ e \in Events
  BY DEF Claimable
<1>7. \A e \in Events :
        IF e \in due
        THEN /\ outbox'[e].state = "pending" /\ outbox'[e].when = "due"
             /\ outbox'[e].owner = w /\ outbox'[e].lease = "live"
             /\ outbox'[e].attempts = outbox[e].attempts + 1
        ELSE outbox'[e] = outbox[e]
  BY <1>1, <1>6 DEF Leased
<1>8. PublishedIsStored' /\ QuietUnowned'
  BY <1>2, <1>7 DEF Inv, PublishedIsStored, QuietUnowned
<1>9. OwnerHoldsLatestClaim'
  <2> SUFFICES ASSUME NEW v \in Workers, NEW c \in batch'[v], outbox'[c.event].owner = v
               PROVE  outbox'[c.event].attempts = c.attempts
    BY DEF OwnerHoldsLatestClaim
  <2>1. c \in Claims /\ c.event \in Events
    BY <1>3 DEF TypeOK, Claims
  <2>2. CASE v = w
    BY <1>1, <1>3, <1>7, <2>2 DEF TypeOK
  <2>3. CASE v # w
    <3>1. c \in batch[v] /\ c.event \notin due
      BY <1>1, <1>3, <1>7, <2>1, <2>3 DEF TypeOK
    <3>2. QED
      BY <1>7, <2>1, <3>1 DEF Inv, OwnerHoldsLatestClaim
  <2>4. QED
    BY <2>2, <2>3
<1>10. ASSUME NEW e \in Events PROVE Working(e) => Working(e)'
  <2> SUFFICES ASSUME NEW v \in Workers, outbox[e].owner = v,
                      NEW c \in batch[v], c.event = e
               PROVE  Working(e)'
    BY DEF Working
  <2>1. v # w
    BY <1>2
  <2>2. c \in batch'[v]
    BY <1>1, <1>3, <2>1 DEF TypeOK
  <2>3. CASE e \in due
    <3>1. [event |-> e, attempts |-> outbox[e].attempts + 1] \in batch'[w]
      BY <1>1, <1>3, <2>3 DEF TypeOK
    <3>2. QED
      BY <1>7, <2>3, <3>1 DEF Working
  <2>4. CASE e \notin due
    BY <1>7, <2>2, <2>4 DEF Working
  <2>5. QED
    BY <2>3, <2>4
<1>11. \A e \in due : Working(e)'
  <2> SUFFICES ASSUME NEW e \in due PROVE Working(e)'
    OBVIOUS
  <2>1. [event |-> e, attempts |-> outbox[e].attempts + 1] \in batch'[w]
    BY <1>1, <1>3 DEF TypeOK
  <2>2. QED
    BY <1>6, <1>7, <2>1 DEF Working
<1>12. AttemptsPaid' /\ AttemptsBounded'
  <2> SUFFICES ASSUME NEW e \in Events
               PROVE  /\ outbox'[e].state \in {"absent", "pending"} /\ outbox'[e].lease = "none"
                           => outbox'[e].attempts < MaxAttempts
                      /\ outbox'[e].lease = "expired" \/ (outbox'[e].lease = "live" /\ ~ Working(e)')
                           => outbox'[e].attempts < MaxAttempts + faults'
                      /\ outbox'[e].state = "dead" => outbox'[e].attempts >= MaxAttempts
                      /\ outbox'[e].attempts <= MaxAttempts + faults'
    BY DEF AttemptsPaid, AttemptsBounded
  <2>1. /\ outbox[e].attempts \in Nat /\ outbox[e].lease \in {"none", "live", "expired"}
        /\ faults \in Nat /\ faults' = faults
    BY <1>2, <1>3 DEF TypeOK, Row
  <2>2. CASE e \in due
    <3>1. outbox[e].lease = "none" => outbox[e].attempts < MaxAttempts
      BY <1>6, <2>2 DEF Inv, AttemptsPaid
    <3>2. outbox[e].lease = "expired" => outbox[e].attempts < MaxAttempts + faults
      BY DEF Inv, AttemptsPaid
    <3>3. outbox[e].attempts < MaxAttempts + faults
      BY <1>6, <2>1, <2>2, <3>1, <3>2
    <3>4. outbox'[e].attempts <= MaxAttempts + faults
      BY <1>7, <2>1, <2>2, <3>3
    <3>5. QED
      BY <1>7, <1>11, <2>1, <2>2, <3>4
  <2>3. CASE e \notin due
    BY <1>7, <1>10, <2>1, <2>3 DEF Inv, AttemptsPaid, AttemptsBounded
  <2>4. QED
    BY <2>2, <2>3
<1>13. QED
  BY <1>3, <1>4, <1>8, <1>9, <1>12 DEF Inv

\* send: whether it is acknowledged or not, no row changes; an acknowledged send
\* leaves the event in the stream.
LEMMA InvSend ==
  ASSUME Inv, NEW w \in Workers, NEW c \in batch[w], SendAcked(w, c) \/ SendFails(w, c)
  PROVE  Inv'
<1> USE RelayAssumptions
<1>1. TypeOK /\ TypeOK'
  BY TypeStep DEF Inv, Next, RelayStep
<1>2. UNCHANGED <<outbox, batch, faults>>
  BY DEF SendAcked, SendFails
<1>3. c.event \in Events
  BY <1>1 DEF TypeOK, Claims
<1>4. \A e \in Events : stream[e] > 0 => stream'[e] > 0
  BY <1>1, <1>3 DEF TypeOK, SendAcked, SendFails, StoreOrDedupe
<1>5. SendAcked(w, c) => stream'[c.event] > 0
  BY <1>1, <1>3 DEF TypeOK, SendAcked, StoreOrDedupe
<1>6. CurInBatch'
  BY <1>1, <1>2 DEF Inv, TypeOK, CurInBatch, SendAcked, SendFails
<1>7. MarkIsStored'
  <2> SUFFICES ASSUME NEW v \in Workers, pc'[v] = "mark" PROVE stream'[cur'[v].event] > 0
    BY DEF MarkIsStored
  <2>1. CASE v = w
    BY <1>1, <1>5, <2>1 DEF TypeOK, SendAcked, SendFails
  <2>2. CASE v # w
    <3>1. pc[v] = "mark" /\ cur'[v] = cur[v]
      BY <1>1, <2>2 DEF TypeOK, SendAcked, SendFails
    <3>2. cur[v].event \in Events
      BY <1>1, <3>1 DEF Inv, CurInBatch, TypeOK, Claims
    <3>3. stream[cur[v].event] > 0
      BY <3>1 DEF Inv, MarkIsStored
    <3>4. QED
      BY <1>4, <3>1, <3>2, <3>3
  <2>3. QED
    BY <2>1, <2>2
<1>8. PublishedIsStored'
  BY <1>1, <1>2, <1>4 DEF Inv, PublishedIsStored, TypeOK
<1>9. OwnerHoldsLatestClaim' /\ QuietUnowned' /\ AttemptsPaid' /\ AttemptsBounded'
  BY <1>2 DEF Inv, OwnerHoldsLatestClaim, QuietUnowned, AttemptsPaid, AttemptsBounded, Working
<1>10. QED
  BY <1>1, <1>6, <1>7, <1>8, <1>9 DEF Inv

\* mark_outbox_published and release_outbox: the worker leaves its row; the row
\* changes only if the worker still owns it, and then it is the pending row of
\* the worker's own claim.
LEMMA InvSettle ==
  ASSUME Inv, NEW w \in Workers, MarkPublished(w) \/ Release(w)
  PROVE  Inv'
<1> USE RelayAssumptions
<1> DEFINE x == cur[w].event
<1>1. TypeOK /\ TypeOK'
  BY TypeStep DEF Inv, Next, RelayStep
<1>2. /\ batch' = [batch EXCEPT ![w] = batch[w] \ {cur[w]}]
      /\ pc' = [pc EXCEPT ![w] = "loop"]
      /\ cur' = [cur EXCEPT ![w] = NoClaim]
      /\ UNCHANGED <<stream, faults>>
  BY DEF MarkPublished, Release, NextRow
<1>3. cur[w] \in batch[w] /\ cur[w] \in Claims /\ x \in Events
  BY <1>1 DEF Inv, CurInBatch, TypeOK, Claims, MarkPublished, Release
<1>4. CurInBatch' /\ MarkIsStored'
  BY <1>1, <1>2 DEF Inv, TypeOK, CurInBatch, MarkIsStored
<1>5. \A e \in Events \ {x} : outbox'[e] = outbox[e]
  BY <1>1, <1>3 DEF TypeOK, MarkPublished, Release
<1>6. ~ Owned(w, x) => outbox' = outbox
  BY DEF MarkPublished, Release
<1>7. Owned(w, x) => /\ outbox[x].owner = w /\ outbox[x].state = "pending"
                     /\ outbox[x].when = "due"
  <2>1. outbox[x].when \in {"due", "delayed"}
    BY <1>1, <1>3 DEF TypeOK, Row
  <2>2. outbox[x].state # "pending" \/ outbox[x].when = "delayed" => outbox[x].owner = NoWorker
    BY <1>3 DEF Inv, QuietUnowned
  <2>3. QED
    BY <2>1, <2>2 DEF Owned
<1>8. Owned(w, x) => /\ outbox'[x].owner = NoWorker /\ outbox'[x].lease = "none"
                     /\ outbox'[x].attempts = outbox[x].attempts
  BY <1>1, <1>3 DEF TypeOK, MarkPublished, Release, Published, Released
<1>9. Owned(w, x) =>
        \/ /\ outbox'[x].state = "published" /\ outbox'[x].when = "due"
           /\ pc[w] = "mark"
        \/ /\ outbox'[x].state = "dead" /\ outbox'[x].when = "due"
           /\ outbox[x].attempts >= MaxAttempts
        \/ /\ outbox'[x].state = "pending"
           /\ ~ (outbox[x].attempts >= MaxAttempts)
  <2>1. CASE MarkPublished(w)
    BY <1>1, <1>3, <1>7, <2>1 DEF TypeOK, MarkPublished, Published
  <2>2. CASE Release(w)
    <3>1. Owned(w, x) => outbox'[x] = Released(outbox[x])
      BY <1>1, <1>3, <2>2 DEF TypeOK, Release
    <3>2. QED
      BY <1>7, <3>1 DEF Released, Exhausted
  <2>3. QED
    BY <2>1, <2>2
<1>10. PublishedIsStored'
  BY <1>2, <1>5, <1>6, <1>9 DEF Inv, PublishedIsStored, MarkIsStored
<1>11. OwnerHoldsLatestClaim'
  <2> SUFFICES ASSUME NEW v \in Workers, NEW c \in batch'[v], outbox'[c.event].owner = v
               PROVE  outbox'[c.event].attempts = c.attempts
    BY DEF OwnerHoldsLatestClaim
  <2>1. c \in batch[v] /\ c.event \in Events
    BY <1>1, <1>2 DEF TypeOK, Claims
  <2>2. outbox'[c.event] = outbox[c.event]
    BY <1>5, <1>6, <1>8, <2>1
  <2>3. QED
    BY <2>1, <2>2 DEF Inv, OwnerHoldsLatestClaim
<1>12. QuietUnowned'
  BY <1>5, <1>6, <1>8, <1>9 DEF Inv, QuietUnowned
<1>13. ASSUME NEW e \in Events, outbox'[e] = outbox[e], Working(e) PROVE Working(e)'
  <2>1. PICK v \in Workers : outbox[e].owner = v /\ \E c \in batch[v] : c.event = e
    BY <1>13 DEF Working
  <2>2. PICK c \in batch[v] : c.event = e
    BY <2>1
  <2>3. c \in batch'[v]
    <3>1. CASE v = w /\ c = cur[w]
      <4>1. (e = x /\ Owned(w, x)) \/ outbox[e].state = "published"
        BY <2>1, <2>2, <3>1 DEF Owned
      <4>2. outbox[e].state # "published"
        BY <2>1 DEF Inv, QuietUnowned
      <4>3. QED
        BY <1>8, <1>13, <2>1, <4>1, <4>2
    <3>2. CASE ~ (v = w /\ c = cur[w])
      BY <1>1, <1>2, <3>2 DEF TypeOK
    <3>3. QED
      BY <3>1, <3>2
  <2>4. QED
    BY <1>13, <2>1, <2>2, <2>3 DEF Working
<1>14. AttemptsPaid' /\ AttemptsBounded'
  <2> SUFFICES ASSUME NEW e \in Events
               PROVE  /\ outbox'[e].state \in {"absent", "pending"} /\ outbox'[e].lease = "none"
                           => outbox'[e].attempts < MaxAttempts
                      /\ outbox'[e].lease = "expired" \/ (outbox'[e].lease = "live" /\ ~ Working(e)')
                           => outbox'[e].attempts < MaxAttempts + faults'
                      /\ outbox'[e].state = "dead" => outbox'[e].attempts >= MaxAttempts
                      /\ outbox'[e].attempts <= MaxAttempts + faults'
    BY DEF AttemptsPaid, AttemptsBounded
  <2>1. outbox[e].attempts \in Nat /\ faults' = faults
    BY <1>1, <1>2 DEF TypeOK, Row
  <2>2. outbox[e].attempts <= MaxAttempts + faults
    BY DEF Inv, AttemptsBounded
  <2>3. CASE e = x /\ Owned(w, x)
    BY <1>8, <1>9, <2>1, <2>2, <2>3
  <2>4. CASE ~ (e = x /\ Owned(w, x))
    <3>1. outbox'[e] = outbox[e]
      BY <1>5, <1>6, <2>4
    <3>2. QED
      BY <1>13, <2>1, <3>1 DEF Inv, AttemptsPaid, AttemptsBounded
  <2>5. QED
    BY <2>3, <2>4
<1>15. QED
  BY <1>1, <1>4, <1>10, <1>11, <1>12, <1>14 DEF Inv

\* The ledger commits an event: the new row is unleased and unclaimed.
LEMMA InvCommit ==
  ASSUME Inv, NEW x \in Events, Commit(x)
  PROVE  Inv'
<1> USE RelayAssumptions
<1>1. TypeOK /\ TypeOK'
  BY TypeStep DEF Inv, Next
<1>2. UNCHANGED <<batch, pc, cur, stream, faults>>
  BY DEF Commit
<1>3. /\ outbox[x].state = "absent" /\ outbox'[x].state = "pending"
      /\ outbox'[x].owner = outbox[x].owner /\ outbox'[x].lease = outbox[x].lease
      /\ outbox'[x].when = outbox[x].when /\ outbox'[x].attempts = outbox[x].attempts
  BY <1>1 DEF Commit, TypeOK, Row
<1>4. \A e \in Events \ {x} : outbox'[e] = outbox[e]
  BY <1>1 DEF Commit, TypeOK
<1>5. outbox[x].owner = NoWorker /\ outbox[x].lease = "none" /\ outbox[x].when = "due"
  BY <1>3 DEF Inv, QuietUnowned
<1>6. CurInBatch' /\ MarkIsStored'
  BY <1>2 DEF Inv, CurInBatch, MarkIsStored
<1>7. PublishedIsStored' /\ QuietUnowned'
  BY <1>2, <1>3, <1>4, <1>5 DEF Inv, PublishedIsStored, QuietUnowned
<1>8. \A w \in Workers : \A c \in batch[w] : c.event \in Events
  BY <1>1 DEF TypeOK, Claims
<1>9. OwnerHoldsLatestClaim'
  <2>1. \A e \in Events : /\ outbox'[e].owner = outbox[e].owner
                          /\ outbox'[e].attempts = outbox[e].attempts
    BY <1>3, <1>4
  <2> SUFFICES ASSUME NEW v \in Workers, NEW c \in batch'[v], outbox'[c.event].owner = v
               PROVE  outbox'[c.event].attempts = c.attempts
    BY DEF OwnerHoldsLatestClaim
  <2>2. c \in batch[v] /\ c.event \in Events
    BY <1>2, <1>8
  <2>3. QED
    BY <2>1, <2>2 DEF Inv, OwnerHoldsLatestClaim
<1>10. \A e \in Events : Working(e) => Working(e)'
  BY <1>2, <1>3, <1>4 DEF Working
<1>11. AttemptsPaid' /\ AttemptsBounded'
  BY <1>2, <1>3, <1>4, <1>10 DEF Inv, AttemptsPaid, AttemptsBounded
<1>12. QED
  BY <1>1, <1>6, <1>7, <1>9, <1>11 DEF Inv

\* The clock: a lease passes, under a working owner at the price of a fault, or
\* a retry delay does.
LEMMA InvClock ==
  ASSUME Inv, NEW x \in Events, LeaseLapses(x) \/ Clock(x)
  PROVE  Inv'
<1> USE RelayAssumptions
<1>1. TypeOK /\ TypeOK'
  BY TypeStep DEF Inv, Next
<1>2. UNCHANGED <<batch, pc, cur, stream>>
  BY DEF LeaseLapses, Clock, LeaseAbandoned, RetryDue
<1>3. /\ outbox'[x].state = outbox[x].state /\ outbox'[x].owner = outbox[x].owner
      /\ outbox'[x].attempts = outbox[x].attempts
  BY <1>1 DEF LeaseLapses, Clock, LeaseAbandoned, RetryDue, TypeOK, Row
<1>4. \A e \in Events \ {x} : outbox'[e] = outbox[e]
  BY <1>1 DEF LeaseLapses, Clock, LeaseAbandoned, RetryDue, TypeOK
<1>5. \/ /\ outbox[x].lease = "live" /\ outbox'[x].lease = "expired"
         /\ outbox'[x].when = outbox[x].when
         /\ \/ faults' = faults + 1
            \/ faults' = faults /\ ~ Working(x)
      \/ /\ outbox[x].when = "delayed" /\ outbox'[x].when = "due"
         /\ outbox'[x].lease = outbox[x].lease /\ faults' = faults
  BY <1>1 DEF LeaseLapses, Clock, LeaseAbandoned, RetryDue, TypeOK, Row
<1>6. CurInBatch' /\ MarkIsStored'
  BY <1>2 DEF Inv, CurInBatch, MarkIsStored
<1>7. PublishedIsStored' /\ QuietUnowned'
  BY <1>2, <1>3, <1>4, <1>5 DEF Inv, PublishedIsStored, QuietUnowned
<1>8. \A w \in Workers : \A c \in batch[w] : c.event \in Events
  BY <1>1 DEF TypeOK, Claims
<1>9. OwnerHoldsLatestClaim'
  <2>1. \A e \in Events : /\ outbox'[e].owner = outbox[e].owner
                          /\ outbox'[e].attempts = outbox[e].attempts
    BY <1>3, <1>4
  <2> SUFFICES ASSUME NEW v \in Workers, NEW c \in batch'[v], outbox'[c.event].owner = v
               PROVE  outbox'[c.event].attempts = c.attempts
    BY DEF OwnerHoldsLatestClaim
  <2>2. c \in batch[v] /\ c.event \in Events
    BY <1>2, <1>8
  <2>3. QED
    BY <2>1, <2>2 DEF Inv, OwnerHoldsLatestClaim
<1>10. \A e \in Events : Working(e) => Working(e)'
  BY <1>2, <1>3, <1>4 DEF Working
<1>11. faults \in Nat /\ faults' \in Nat /\ faults <= faults'
  BY <1>1, <1>5 DEF TypeOK
<1>12. \A e \in Events : outbox[e].attempts \in Nat
  BY <1>1 DEF TypeOK, Row
<1>13. AttemptsPaid'
  <2> SUFFICES ASSUME NEW e \in Events
               PROVE  /\ outbox'[e].state \in {"absent", "pending"} /\ outbox'[e].lease = "none"
                           => outbox'[e].attempts < MaxAttempts
                      /\ outbox'[e].lease = "expired" \/ (outbox'[e].lease = "live" /\ ~ Working(e)')
                           => outbox'[e].attempts < MaxAttempts + faults'
    BY DEF AttemptsPaid
  <2>1. outbox[e].attempts <= MaxAttempts + faults
    BY DEF Inv, AttemptsBounded
  <2>2. /\ outbox[e].state \in {"absent", "pending"} /\ outbox[e].lease = "none"
             => outbox[e].attempts < MaxAttempts
        /\ outbox[e].lease = "expired" \/ (outbox[e].lease = "live" /\ ~ Working(e))
             => outbox[e].attempts < MaxAttempts + faults
    BY DEF Inv, AttemptsPaid
  <2>3. CASE e = x /\ outbox'[x].lease = "expired"
    <3>1. outbox[x].attempts < MaxAttempts + faults'
      BY <1>3, <1>5, <1>11, <1>12, <2>1, <2>2, <2>3
    <3>2. QED
      BY <1>3, <2>3, <3>1
  <2>4. CASE ~ (e = x /\ outbox'[x].lease = "expired")
    <3>1. outbox'[e].lease = outbox[e].lease /\ outbox'[e].state = outbox[e].state
      BY <1>3, <1>4, <1>5, <2>4
    <3>2. outbox'[e].attempts = outbox[e].attempts
      BY <1>3, <1>4
    <3>3. QED
      BY <1>10, <1>11, <1>12, <2>2, <3>1, <3>2
  <2>5. QED
    BY <2>3, <2>4
<1>14. AttemptsBounded'
  BY <1>3, <1>4, <1>11, <1>12 DEF Inv, AttemptsBounded
<1>15. QED
  BY <1>1, <1>6, <1>7, <1>9, <1>13, <1>14 DEF Inv

\* A crash empties the worker's batch, at the price of a fault; the rows it had
\* leased stay leased.
LEMMA InvCrash ==
  ASSUME Inv, NEW w \in Workers, Crash(w)
  PROVE  Inv'
<1> USE RelayAssumptions
<1>1. TypeOK /\ TypeOK'
  BY TypeStep DEF Inv, Next
<1>2. /\ UNCHANGED <<outbox, stream>> /\ faults' = faults + 1
      /\ batch' = [batch EXCEPT ![w] = {}] /\ pc' = [pc EXCEPT ![w] = "loop"]
      /\ cur' = [cur EXCEPT ![w] = NoClaim]
  BY DEF Crash
<1>3. CurInBatch' /\ MarkIsStored'
  BY <1>1, <1>2 DEF Inv, TypeOK, CurInBatch, MarkIsStored
<1>4. PublishedIsStored' /\ QuietUnowned'
  BY <1>2 DEF Inv, PublishedIsStored, QuietUnowned
<1>5. OwnerHoldsLatestClaim'
  BY <1>1, <1>2 DEF Inv, TypeOK, OwnerHoldsLatestClaim
<1>6. faults \in Nat
  BY <1>1 DEF TypeOK
<1>7. \A e \in Events : outbox[e].attempts \in Nat
  BY <1>1 DEF TypeOK, Row
<1>8. AttemptsPaid' /\ AttemptsBounded'
  BY <1>2, <1>6, <1>7 DEF Inv, AttemptsPaid, AttemptsBounded
<1>9. QED
  BY <1>1, <1>3, <1>4, <1>5, <1>8 DEF Inv

\* Every step keeps the invariant: one lemma per kind of step.
LEMMA InvStep == Inv /\ [Next]_vars => Inv'
<1> SUFFICES ASSUME Inv, [Next]_vars PROVE Inv'
  OBVIOUS
<1>1. CASE UNCHANGED vars
  BY <1>1 DEF vars, Inv, TypeOK, CurInBatch, MarkIsStored, PublishedIsStored,
     OwnerHoldsLatestClaim, QuietUnowned, AttemptsPaid, AttemptsBounded, Working
<1>2. CASE Next
  BY <1>2, InvCommit, InvClock, InvClaim, InvSend, InvSettle, InvCrash DEF Next, RelayStep
<1>3. QED
  BY <1>1, <1>2

\* Hence it holds in every reachable state.
LEMMA Invariance == Spec => []Inv
BY InvInit, InvStep, PTL DEF Spec

\* mark_outbox_published, for any number of events and workers: a row is published
\* only once the broker holds the event.
THEOREM PublishedStored == Spec => []PublishedIsStored
<1>1. Inv => PublishedIsStored
  BY DEF Inv
<1>2. QED
  BY <1>1, Invariance, PTL

\* claim_outbox / release_outbox: the owner of a row in a batch is the batch's
\* claim, so a worker that was overtaken never settles its successor's claim.
THEOREM OwnerIsLatest == Spec => []OwnerHoldsLatestClaim
<1>1. Inv => OwnerHoldsLatestClaim
  BY DEF Inv
<1>2. QED
  BY <1>1, Invariance, PTL

\* release_outbox: dead letters had all their attempts, and attempts beyond the
\* limit number at most the lapses and crashes.
THEOREM AttemptsAreBounded == Spec => []AttemptsBounded
<1>1. Inv => AttemptsBounded
  BY DEF Inv
<1>2. QED
  BY <1>1, Invariance, PTL

\* mark/release/claim/clock: no step changes a published or dead-lettered row.
THEOREM SettledRowsFinal == Spec => SettledIsFinal
<1>1. ASSUME Inv, [Next]_vars, NEW e \in Events, Settled(e) PROVE outbox'[e] = outbox[e]
  <2> USE RelayAssumptions
  <2>1. /\ outbox[e].owner = NoWorker /\ outbox[e].lease = "none"
        /\ outbox[e].when = "due" /\ outbox[e].state \in {"published", "dead"}
    BY <1>1 DEF Inv, QuietUnowned, Settled
  <2>2. TypeOK
    BY <1>1 DEF Inv
  <2>3. CASE \E x \in Events : Commit(x) \/ LeaseLapses(x) \/ Clock(x)
    BY <2>1, <2>2, <2>3 DEF TypeOK, Commit, LeaseLapses, Clock, LeaseAbandoned, RetryDue
  <2>4. ASSUME NEW w \in Workers, Claim(w) PROVE outbox'[e] = outbox[e]
    BY <2>1, <2>4, ClaimFacts DEF Claimable
  <2>5. ASSUME NEW w \in Workers, NEW c \in batch[w], SendAcked(w, c) \/ SendFails(w, c)
        PROVE  outbox'[e] = outbox[e]
    BY <2>5 DEF SendAcked, SendFails
  <2>6. ASSUME NEW w \in Workers, MarkPublished(w) \/ Release(w)
        PROVE  outbox'[e] = outbox[e]
    <3>1. cur[w].event = e => ~ Owned(w, e)
      BY <2>1 DEF Owned
    <3>2. QED
      BY <2>2, <2>6, <3>1 DEF TypeOK, MarkPublished, Release
  <2>7. ASSUME NEW w \in Workers, Crash(w) PROVE outbox'[e] = outbox[e]
    BY <2>7 DEF Crash
  <2>8. CASE UNCHANGED vars
    BY <2>8 DEF vars
  <2>9. QED
    BY <1>1, <2>3, <2>4, <2>5, <2>6, <2>7, <2>8 DEF Next, RelayStep
<1>2. Inv /\ [Next]_vars => [\A e \in Events : Settled(e) => outbox'[e] = outbox[e]]_vars
  BY <1>1
<1>3. QED
  BY <1>2, Invariance, PTL DEF Spec, SettledIsFinal

-----------------------------------------------------------------------------
\* For the composition with the consumers: what a step of another component may
\* do to the variables it shares with the relay.
Grows ==
    /\ stream' \in [Events -> 0 .. MaxCopies]
    /\ \A e \in Events : stream[e] <= stream'[e]
    /\ faults' \in faults .. MaxFaults
    /\ UNCHANGED <<outbox, batch, pc, cur>>

\* The relay tolerates such a step.
LEMMA InvGrows == ASSUME Inv, Grows PROVE Inv'
<1> USE RelayAssumptions
<1>1. TypeOK /\ TypeOK'
  BY DEF Inv, TypeOK, Grows
<1>2. \A e \in Events : /\ stream[e] > 0 => stream'[e] > 0
                        /\ outbox[e].attempts \in Nat
  BY <1>1 DEF TypeOK, Grows, Row
<1>3. faults \in Nat /\ faults' \in Nat /\ faults <= faults'
  BY <1>1 DEF TypeOK, Grows
<1>4. \A w \in Workers : pc[w] = "mark" => cur[w].event \in Events
  BY <1>1 DEF Inv, TypeOK, CurInBatch, Claims
<1>5. CurInBatch' /\ OwnerHoldsLatestClaim' /\ QuietUnowned'
  BY DEF Inv, Grows, CurInBatch, OwnerHoldsLatestClaim, QuietUnowned
<1>6. MarkIsStored' /\ PublishedIsStored'
  BY <1>2, <1>4 DEF Inv, Grows, MarkIsStored, PublishedIsStored
<1>7. \A e \in Events : Working(e)' = Working(e)
  BY DEF Grows, Working
<1>8. AttemptsPaid' /\ AttemptsBounded'
  <2> SUFFICES ASSUME NEW e \in Events
               PROVE  /\ outbox[e].state \in {"absent", "pending"} /\ outbox[e].lease = "none"
                           => outbox[e].attempts < MaxAttempts
                      /\ outbox[e].lease = "expired" \/ (outbox[e].lease = "live" /\ ~ Working(e))
                           => outbox[e].attempts < MaxAttempts + faults'
                      /\ outbox[e].state = "dead" => outbox[e].attempts >= MaxAttempts
                      /\ outbox[e].attempts <= MaxAttempts + faults'
    BY <1>7 DEF AttemptsPaid, AttemptsBounded, Grows
  <2>1. QED
    BY <1>2, <1>3 DEF Inv, AttemptsPaid, AttemptsBounded
<1>9. QED
  BY <1>1, <1>5, <1>6, <1>8 DEF Inv

Committed(e) == outbox[e].state # "absent"

\* The stream and the batches hold committed events only.
SentCommitted ==
    /\ \A e \in Events : stream[e] > 0 => Committed(e)
    /\ \A w \in Workers : \A c \in batch[w] : Committed(c.event)

\* What a relay step does to the outbox, seen from outside: the ledger commits one
\* event, or the committed events stay the same.
CommitsOne ==
    \E x \in Events :
        /\ ~ Committed(x)
        /\ \A e \in Events : Committed(e)' <=> Committed(e) \/ e = x
CommitsNone == \A e \in Events : Committed(e)' <=> Committed(e)

LEMMA CommitsAtMostOne == ASSUME Inv, Next PROVE CommitsOne \/ CommitsNone
<1> USE RelayAssumptions
<1>1. TypeOK
  BY DEF Inv
<1>2. ASSUME NEW x \in Events, Commit(x) PROVE CommitsOne
  BY <1>1, <1>2 DEF TypeOK, Commit, Row, CommitsOne, Committed
<1>3. ASSUME NEW x \in Events, LeaseLapses(x) \/ Clock(x) PROVE CommitsNone
  BY <1>1, <1>3 DEF TypeOK, LeaseLapses, Clock, LeaseAbandoned, RetryDue, Row, CommitsNone, Committed
<1>4. ASSUME NEW w \in Workers, Claim(w) PROVE CommitsNone
  BY <1>1, <1>4, ClaimFacts DEF Leased, CommitsNone, Committed
<1>5. ASSUME NEW w \in Workers, Crash(w) \/ \E c \in batch[w] : SendAcked(w, c) \/ SendFails(w, c)
      PROVE  CommitsNone
  BY <1>5 DEF SendAcked, SendFails, Crash, CommitsNone, Committed
<1>6. ASSUME NEW w \in Workers, MarkPublished(w) \/ Release(w) PROVE CommitsNone
  <2> DEFINE x == cur[w].event
  <2>1. CASE ~ Owned(w, x)
    BY <1>6, <2>1 DEF MarkPublished, Release, CommitsNone, Committed
  <2>2. CASE Owned(w, x)
    <3>1. x \in Events
      BY <1>1, <1>6 DEF Inv, CurInBatch, TypeOK, Claims, MarkPublished, Release
    <3>2. Committed(x)
      BY <2>2, <3>1 DEF Inv, QuietUnowned, Owned, Committed
    <3>3. \A e \in Events \ {x} : outbox'[e] = outbox[e]
      BY <1>1, <1>6, <3>1 DEF TypeOK, MarkPublished, Release
    <3>4. outbox'[x] = Published(outbox[x]) \/ outbox'[x] = Released(outbox[x])
      BY <1>1, <1>6, <2>2, <3>1 DEF TypeOK, MarkPublished, Release
    <3>5. outbox'[x].state # "absent"
      BY <3>2, <3>4 DEF Published, Released, Committed
    <3>6. QED
      BY <3>2, <3>3, <3>5 DEF CommitsNone, Committed
  <2>3. QED
    BY <2>1, <2>2
<1>7. QED
  BY <1>2, <1>3, <1>4, <1>5, <1>6 DEF Next, RelayStep

\* Claims are of committed rows, and only claimed rows are sent.
LEMMA SentCommittedStep ==
  ASSUME Inv, SentCommitted, Next
  PROVE  /\ SentCommitted'
         /\ stream' \in [Events -> 0 .. MaxCopies]
         /\ \A e \in Events : stream[e] <= stream'[e]
         /\ faults' \in faults .. MaxFaults
<1> USE RelayAssumptions
<1>1. TypeOK /\ TypeOK'
  BY TypeStep DEF Inv
<1>2. \A e \in Events : Committed(e) => Committed(e)'
  BY CommitsAtMostOne DEF CommitsOne, CommitsNone
<1>3. faults' \in faults .. MaxFaults
  BY <1>1 DEF TypeOK, Next, RelayStep, Commit, LeaseLapses, Clock, LeaseAbandoned, RetryDue,
              Claim, SendAcked, SendFails, MarkPublished, Release, Crash
<1>4. \A w \in Workers : \A c \in batch[w] : c.event \in Events
  BY <1>1 DEF TypeOK, Claims
<1>5. /\ \A e \in Events : stream[e] <= stream'[e]
      /\ \A e \in Events : stream'[e] > 0 => stream[e] > 0 \/ Committed(e)
  <2>1. CASE stream' = stream
    BY <1>1, <2>1 DEF TypeOK
  <2>2. ASSUME NEW w \in Workers, NEW c \in batch[w], StoreOrDedupe(c.event)
        PROVE  /\ \A e \in Events : stream[e] <= stream'[e]
               /\ \A e \in Events : stream'[e] > 0 => stream[e] > 0 \/ Committed(e)
    <3>1. c.event \in Events /\ Committed(c.event)
      BY <1>4 DEF SentCommitted
    <3>2. PICK n \in {stream[c.event], stream[c.event] + 1} : stream' = [stream EXCEPT ![c.event] = n]
      BY <2>2 DEF StoreOrDedupe
    <3>3. QED
      BY <1>1, <3>1, <3>2 DEF TypeOK
  <2>3. stream' = stream \/ \E w \in Workers : \E c \in batch[w] : StoreOrDedupe(c.event)
    BY DEF Next, RelayStep, Commit, LeaseLapses, Clock, LeaseAbandoned, RetryDue,
           Claim, SendAcked, SendFails, MarkPublished, Release, Crash
  <2>4. QED
    BY <2>1, <2>2, <2>3
<1>6. \A w \in Workers : \A c \in batch'[w] : c.event \in Events /\ Committed(c.event)
  <2> SUFFICES ASSUME NEW w \in Workers, NEW c \in batch'[w]
               PROVE  c.event \in Events /\ Committed(c.event)
    OBVIOUS
  <2>1. CASE c \in batch[w]
    BY <1>4, <2>1 DEF SentCommitted
  <2>2. ASSUME NEW v \in Workers, Claim(v) PROVE c.event \in Events /\ Committed(c.event)
    <3>1. PICK due \in SUBSET {e \in Events : Claimable(e)} :
            batch' = [batch EXCEPT ![v] =
              {[event |-> e, attempts |-> outbox[e].attempts + 1] : e \in due}]
      BY <2>2, ClaimFacts
    <3>2. c \in batch[w] \/ \E e \in due : c = [event |-> e, attempts |-> outbox[e].attempts + 1]
      BY <1>1, <3>1 DEF TypeOK
    <3>3. QED
      BY <2>1, <3>2 DEF Claimable, Committed
  <2>3. CASE \A v \in Workers : batch'[v] \subseteq batch[v]
    BY <2>1, <2>3
  <2>4. (\E v \in Workers : Claim(v)) \/ (\A v \in Workers : batch'[v] \subseteq batch[v])
    BY <1>1 DEF TypeOK, Next, RelayStep, Commit, LeaseLapses, Clock, LeaseAbandoned, RetryDue,
           SendAcked, SendFails, MarkPublished, Release, NextRow, Crash
  <2>5. QED
    BY <2>2, <2>3, <2>4
<1>7. SentCommitted'
  BY <1>2, <1>5, <1>6 DEF SentCommitted
<1>8. QED
  BY <1>1, <1>3, <1>5, <1>7 DEF TypeOK
=============================================================================
