---------------------------- MODULE ProposalsProofs ----------------------------
(***************************************************************************)
(* Proofs about module Proposals, for any proposals, keys and concurrent   *)
(* reviews.                                                                *)
(*                                                                         *)
(* That a proposal yields one memory is not inductive: it rests on an open *)
(* proposal having none (OpenHasNone), which the accepting transaction     *)
(* relies on and no step may undo.                                         *)
(***************************************************************************)
EXTENDS Proposals, TLAPS

\* A review in progress names a proposal, and an acceptance the key it will use.
Busy ==
    \A r \in Reviewers :
        /\ reviews[r].pc # "idle" => reviews[r].proposal \in ProposalIds
        /\ reviews[r].pc = "accept" => reviews[r].key \in Keys

\* No memory was made from a proposal that is not decided.
OpenHasNone ==
    \A p \in ProposalIds, k \in Keys :
        proposals[p].status \in {"absent", "open"} => made[k] # p

Inv == TypeOK /\ Busy /\ OpenHasNone /\ OneMemoryPerProposal /\ AcceptedHasMemory

Status == {"absent", "open", "accepted", "rejected"}
Row == [status : Status, memory : Keys \cup {None}]

\* The default keys of a proposal and the keys of callers are keys.
LEMMA ReviewKeys ==
  ASSUME NEW p \in ProposalIds
  PROVE  DefaultKeys(p) \cup {<<"client", c>> : c \in ClientKeys} \subseteq Keys
BY DEF Keys

\* accept_proposal_with_memory: under the locks the proposal is open, so the memory
\* it stores is its first.
LEMMA InvAcceptCommit ==
  ASSUME Inv, NEW r \in Reviewers, AcceptCommit(r)
  PROVE  Inv'
<1> DEFINE p == reviews[r].proposal
           k == reviews[r].key
<1>1. p \in ProposalIds /\ k \in Keys
  BY DEF AcceptCommit, Inv, Busy
<1>2. reviews' = [reviews EXCEPT ![r] = NoReview]
  BY DEF AcceptCommit
<1>3. reviews' \in [Reviewers -> Review] /\ Busy'
  BY <1>2 DEF Inv, TypeOK, Busy, NoReview, Review
<1>4. CASE Acceptable(p, k)
  <2>1. /\ proposals' = [proposals EXCEPT ![p] = [status |-> "accepted", memory |-> k]]
        /\ made' = [made EXCEPT ![k] = p]
    BY <1>4 DEF AcceptCommit, Accepted
  <2>2. made[k] = None /\ proposals[p].status = "open" /\ k # None /\ None \notin ProposalIds
    BY <1>1, <1>4, KeyAssumption, ProposalAssumptions DEF Acceptable
  <2>3. [status |-> "accepted", memory |-> k] \in Row
    BY <1>1 DEF Row, Status
  <2>4. TypeOK'
    BY <1>1, <1>3, <2>1, <2>3 DEF Inv, TypeOK, Row, Status
  <2>5. OpenHasNone'
    BY <1>1, <2>1, <2>2 DEF Inv, TypeOK, OpenHasNone
  <2>6. OneMemoryPerProposal'
    BY <1>1, <2>1, <2>2 DEF Inv, TypeOK, OpenHasNone, OneMemoryPerProposal
  <2>7. AcceptedHasMemory'
    <3>1. ASSUME NEW q \in ProposalIds, proposals'[q].status = "accepted"
          PROVE  proposals'[q].memory # None /\ made'[proposals'[q].memory] = q
      <4>1. CASE q = p
        BY <1>1, <2>1, <2>2, <4>1 DEF Inv, TypeOK
      <4>2. CASE q # p
        <5>1. proposals'[q] = proposals[q]
          BY <1>1, <2>1, <4>2 DEF Inv, TypeOK
        <5>2. proposals[q].memory # None /\ made[proposals[q].memory] = q
          BY <3>1, <5>1 DEF Inv, AcceptedHasMemory
        <5>3. proposals[q].memory # k
          BY <2>2, <5>2
        <5>4. proposals[q].memory \in Keys
          BY <5>2 DEF Inv, TypeOK
        <5>5. QED
          BY <1>1, <2>1, <5>1, <5>2, <5>3, <5>4 DEF Inv, TypeOK
      <4>3. QED
        BY <4>1, <4>2
    <3>2. QED
      BY <3>1 DEF AcceptedHasMemory
  <2>8. QED
    BY <1>3, <2>4, <2>5, <2>6, <2>7 DEF Inv
<1>5. CASE ~ Acceptable(p, k)
  <2>1. proposals' = proposals /\ made' = made
    BY <1>5 DEF AcceptCommit
  <2>2. QED
    BY <1>3, <2>1 DEF Inv, TypeOK, OpenHasNone, OneMemoryPerProposal, AcceptedHasMemory
<1>6. QED
  BY <1>4, <1>5

\* save_proposal_review writes a rejection over whatever the row says.
LEMMA InvRejectSave ==
  ASSUME Inv, NEW r \in Reviewers, RejectSave(r)
  PROVE  Inv'
<1> DEFINE p == reviews[r].proposal
<1>1. p \in ProposalIds /\ reviews[r].memory \in Keys \cup {None}
  BY DEF RejectSave, Inv, Busy, TypeOK, Review
<1>2. /\ proposals' = [proposals EXCEPT ![p] = [status |-> "rejected", memory |-> reviews[r].memory]]
      /\ reviews' = [reviews EXCEPT ![r] = NoReview]
      /\ made' = made
  BY DEF RejectSave, Reviewed
<1>3. reviews' \in [Reviewers -> Review] /\ Busy'
  BY <1>2 DEF Inv, TypeOK, Busy, NoReview, Review
<1>4. [status |-> "rejected", memory |-> reviews[r].memory] \in Row
  BY <1>1 DEF Row, Status
<1>5. TypeOK'
  BY <1>1, <1>2, <1>3, <1>4 DEF Inv, TypeOK, Row, Status
<1>6. OpenHasNone' /\ AcceptedHasMemory' /\ OneMemoryPerProposal'
  BY <1>1, <1>2 DEF Inv, TypeOK, OpenHasNone, AcceptedHasMemory, OneMemoryPerProposal
<1>7. QED
  BY <1>3, <1>5, <1>6 DEF Inv

\* append_proposal adds an open proposal that nothing was made from.
LEMMA InvSubmit ==
  ASSUME Inv, NEW p \in ProposalIds, Submit(p)
  PROVE  Inv'
<1>1. /\ \A q \in ProposalIds : /\ proposals'[q].memory = proposals[q].memory
                                /\ proposals'[q].status =
                                     IF q = p THEN "open" ELSE proposals[q].status
      /\ proposals' \in [ProposalIds -> Row] /\ proposals[p].status = "absent"
      /\ made' = made /\ reviews' = reviews
  BY DEF Submit, Inv, TypeOK, Row, Status
<1>2. TypeOK' /\ Busy'
  BY <1>1 DEF Inv, TypeOK, Busy, Row, Status
<1>3. OpenHasNone' /\ OneMemoryPerProposal' /\ AcceptedHasMemory'
  BY <1>1 DEF Inv, OpenHasNone, OneMemoryPerProposal, AcceptedHasMemory
<1>4. QED
  BY <1>2, <1>3 DEF Inv

\* A retain under a caller's key leaves the memories of proposals alone.
LEMMA InvRetainElsewhere ==
  ASSUME Inv, NEW c \in ClientKeys, RetainElsewhere(<<"client", c>>)
  PROVE  Inv'
<1>1. PICK k \in Keys : /\ made[k] = None /\ made' = [made EXCEPT ![k] = Elsewhere]
                        /\ proposals' = proposals /\ reviews' = reviews
  BY DEF RetainElsewhere, Keys
<1>2. None \notin ProposalIds /\ Elsewhere \notin ProposalIds
  BY ProposalAssumptions
<1>3. TypeOK' /\ Busy'
  BY <1>1 DEF Inv, TypeOK, Busy
<1>4. OpenHasNone' /\ OneMemoryPerProposal'
  BY <1>1, <1>2 DEF Inv, TypeOK, OpenHasNone, OneMemoryPerProposal
<1>5. AcceptedHasMemory'
  BY <1>1, <1>2 DEF Inv, TypeOK, AcceptedHasMemory
<1>6. QED
  BY <1>3, <1>4, <1>5 DEF Inv

\* accept and reject, up to their load, and a request that dies.
LEMMA InvReviewOnly ==
  ASSUME Inv, NEW r \in Reviewers, NEW review \in Review,
         reviews' = [reviews EXCEPT ![r] = review], proposals' = proposals, made' = made,
         review.pc # "idle" => review.proposal \in ProposalIds,
         review.pc = "accept" => review.key \in Keys
  PROVE  Inv'
<1>1. TypeOK' /\ Busy'
  BY DEF Inv, TypeOK, Busy
<1>2. OpenHasNone' /\ OneMemoryPerProposal' /\ AcceptedHasMemory'
  BY DEF Inv, OpenHasNone, OneMemoryPerProposal, AcceptedHasMemory
<1>3. QED
  BY <1>1, <1>2 DEF Inv

LEMMA InvStep == Inv /\ [Next]_vars => Inv'
<1> SUFFICES ASSUME Inv, [Next]_vars PROVE Inv'
  OBVIOUS
<1>1. ASSUME NEW p \in ProposalIds, Submit(p) PROVE Inv'
  BY <1>1, InvSubmit
<1>2. ASSUME NEW c \in ClientKeys, RetainElsewhere(<<"client", c>>) PROVE Inv'
  BY <1>2, InvRetainElsewhere
<1>3. ASSUME NEW r \in Reviewers, NEW p \in ProposalIds,
             NEW k \in DefaultKeys(p) \cup {<<"client", c>> : c \in ClientKeys},
             AcceptLoad(r, p, k)
      PROVE  Inv'
  <2>1. k \in Keys
    BY ReviewKeys
  <2>2. [pc |-> "accept", proposal |-> p, key |-> k, memory |-> None] \in Review
    BY <2>1 DEF Review
  <2>3. reviews' = [reviews EXCEPT ![r] =
          [pc |-> "accept", proposal |-> p, key |-> k, memory |-> None]]
    BY <1>3 DEF AcceptLoad
  <2>4. QED
    BY <1>3, <2>1, <2>2, <2>3, InvReviewOnly DEF AcceptLoad
<1>4. ASSUME NEW r \in Reviewers, NEW p \in ProposalIds, RejectLoad(r, p) PROVE Inv'
  <2>1. [pc |-> "reject", proposal |-> p, key |-> None, memory |-> proposals[p].memory] \in Review
    BY DEF Review, Inv, TypeOK
  <2>2. reviews' = [reviews EXCEPT ![r] =
          [pc |-> "reject", proposal |-> p, key |-> None, memory |-> proposals[p].memory]]
    BY <1>4 DEF RejectLoad
  <2>3. QED
    BY <1>4, <2>1, <2>2, InvReviewOnly DEF RejectLoad
<1>5. ASSUME NEW r \in Reviewers, Abandon(r) PROVE Inv'
  <2>1. NoReview \in Review /\ NoReview.pc = "idle"
    BY DEF Review, NoReview
  <2>2. QED
    BY <1>5, <2>1, InvReviewOnly DEF Abandon
<1>6. ASSUME NEW r \in Reviewers, AcceptCommit(r) \/ RejectSave(r) PROVE Inv'
  BY <1>6, InvAcceptCommit, InvRejectSave
<1>7. CASE UNCHANGED vars
  BY <1>7 DEF Inv, TypeOK, Busy, OpenHasNone, OneMemoryPerProposal, AcceptedHasMemory, vars
<1>8. QED
  BY <1>1, <1>2, <1>3, <1>4, <1>5, <1>6, <1>7 DEF Next

LEMMA InvInit == Init => Inv
BY ProposalAssumptions DEF Init, Inv, TypeOK, Busy, OpenHasNone, OneMemoryPerProposal,
   AcceptedHasMemory, NoReview, Review

LEMMA Invariance == Spec => []Inv
BY InvInit, InvStep, PTL DEF Spec

-----------------------------------------------------------------------------
\* submit, accept, auto_accept, reject and retain: proposal rows, stored memories and
\* reviews in progress stay in their domains.
THEOREM TypeCorrect == Spec => []TypeOK
<1>1. Inv => TypeOK
  BY DEF Inv
<1>2. QED
  BY <1>1, Invariance, PTL

\* accept_proposal_with_memory: racing accepts, automatic accepts, retries under
\* other keys and rejects make at most one memory of a proposal, and an accepted
\* proposal names it.
THEOREM OneMemory == Spec => []AcceptanceMakesOneMemory
<1>1. Inv => AcceptanceMakesOneMemory
  BY DEF Inv, AcceptanceMakesOneMemory
<1>2. QED
  BY <1>1, Invariance, PTL

\* accept and reject: no step undoes a rejection, and only a rejection decided
\* earlier undoes an acceptance.
THEOREM DecisionsStay == Spec => SettledStays
<1> DEFINE Stays == \A p \in ProposalIds :
         /\ proposals[p].status = "rejected" => proposals'[p].status = "rejected"
         /\ proposals[p].status = "accepted" =>
              \/ proposals'[p] = proposals[p]
              \/ \E r \in Reviewers : /\ reviews[r].pc = "reject" /\ reviews[r].proposal = p
                                      /\ reviews'[r].pc = "idle"
<1>1. ASSUME Inv, [Next]_vars PROVE [Stays]_vars
  <2>1. ASSUME NEW q \in ProposalIds, Submit(q) PROVE Stays
    BY <1>1, <2>1 DEF Submit, Inv, TypeOK
  <2>2. ASSUME NEW r \in Reviewers, AcceptCommit(r) PROVE Stays
    BY <1>1, <2>2 DEF AcceptCommit, Acceptable, Inv, TypeOK
  <2>3. ASSUME NEW r \in Reviewers, RejectSave(r) PROVE Stays
    <3>1. reviews[r].pc = "reject" /\ reviews'[r].pc = "idle"
      BY <1>1, <2>3 DEF RejectSave, NoReview, Inv, TypeOK
    <3>2. proposals' = [proposals EXCEPT ![reviews[r].proposal] =
            [status |-> "rejected", memory |-> reviews[r].memory]]
      BY <2>3 DEF RejectSave, Reviewed
    <3>3. QED
      BY <1>1, <3>1, <3>2 DEF Inv, TypeOK
  <2>4. CASE proposals' = proposals
    BY <2>4
  <2>5. QED
    BY <1>1, <2>1, <2>2, <2>3, <2>4
    DEF Next, RetainElsewhere, AcceptLoad, RejectLoad, Abandon, vars
<1>2. QED
  BY <1>1, Invariance, PTL DEF SettledStays, Spec
=============================================================================
