------------------------------- MODULE Proposals -------------------------------
(***************************************************************************)
(* Review of memory proposals: submit, accept, automatic accept and reject *)
(* (services/proposals.py and the proposal methods of                      *)
(* adapters/postgres.py).  A review loads the proposal, decides on what it *)
(* read, and writes in a later transaction.  The accepting transaction     *)
(* locks its idempotency key and the proposal row, so it is one step; the  *)
(* rejecting one is a single unconditional update.                         *)
(***************************************************************************)
EXTENDS Naturals, FiniteSets

CONSTANTS
    ProposalIds,   \* proposals that may be submitted
    GraphIds,      \* those of target "graph", which accept refuses
    Reviewers,     \* concurrent review requests (operators, workers)
    ClientKeys,    \* idempotency keys a caller may supply
    None,          \* no value
    Elsewhere      \* memory made by a caller other than a review

ASSUME ProposalAssumptions ==
    /\ GraphIds \subseteq ProposalIds
    /\ None \notin ProposalIds /\ Elsewhere \notin ProposalIds
    /\ None # Elsewhere

VARIABLES
    proposals,   \* proposals[p]: status and metadata.accepted_memory_id
    made,        \* made[k]: the proposal whose memory was stored under key k
    reviews      \* reviews[r]: the review request in progress

vars == <<proposals, made, reviews>>

\* "accept-proposal:<id>" and "auto-accept-proposal:<id>"
DefaultKeys(p) == {<<"accept", p>>, <<"auto", p>>}

\* A memory item is named by the key it was stored under.
Keys == {<<"client", k>> : k \in ClientKeys} \cup UNION {DefaultKeys(p) : p \in ProposalIds}

\* No value is no key.
ASSUME KeyAssumption == None \notin Keys

NoReview == [pc |-> "idle", proposal |-> None, key |-> None, memory |-> None]

Init ==
    /\ proposals = [p \in ProposalIds |-> [status |-> "absent", memory |-> None]]
    /\ made = [k \in Keys |-> None]
    /\ reviews = [r \in Reviewers |-> NoReview]

-----------------------------------------------------------------------------
\* append_proposal
Submit(p) ==
    /\ proposals[p].status = "absent"
    /\ proposals' = [proposals EXCEPT ![p].status = "open"]
    /\ UNCHANGED <<made, reviews>>

\* RetentionService.retain under a key that a reviewer may also use.
RetainElsewhere(k) ==
    /\ made[k] = None
    /\ made' = [made EXCEPT ![k] = Elsewhere]
    /\ UNCHANGED <<proposals, reviews>>

\* accept and auto_accept: load the proposal, refuse a rejected or a graph one.
AcceptLoad(r, p, k) ==
    /\ reviews[r].pc = "idle"
    /\ proposals[p].status \in {"open", "accepted"}
    /\ p \notin GraphIds
    /\ reviews' = [reviews EXCEPT ![r] =
         [pc |-> "accept", proposal |-> p, key |-> k, memory |-> None]]
    /\ UNCHANGED <<proposals, made>>

\* Mutant: the proposal is not read again under the row lock.
AcceptableUnread(p, k) == made[k] = None

\* Mutant: an accepted proposal may be accepted again under another key.
AcceptableAgain(p, k) == made[k] = None /\ proposals[p].status # "rejected"

\* Under the locks: still open, and no memory under this key.
Acceptable(p, k) == made[k] = None /\ proposals[p].status = "open"

\* Mutant: the accepted proposal does not record its memory.
AcceptedUnlinked(k) == [status |-> "accepted", memory |-> None]

\* The row as the accepting transaction updates it.
Accepted(k) == [status |-> "accepted", memory |-> k]

\* accept_proposal_with_memory: item, key, event and status in one commit.  It
\* returns the existing item, or raises, when the proposal is not acceptable.
AcceptCommit(r) ==
    LET p == reviews[r].proposal
        k == reviews[r].key
    IN  /\ reviews[r].pc = "accept"
        /\ IF Acceptable(p, k)
           THEN /\ proposals' = [proposals EXCEPT ![p] = Accepted(k)]
                /\ made' = [made EXCEPT ![k] = p]
           ELSE UNCHANGED <<proposals, made>>
        /\ reviews' = [reviews EXCEPT ![r] = NoReview]

\* reject: load the proposal, refuse an accepted one.
RejectLoad(r, p) ==
    /\ reviews[r].pc = "idle"
    /\ proposals[p].status \in {"open", "rejected"}
    /\ reviews' = [reviews EXCEPT ![r] =
         [pc |-> "reject", proposal |-> p, key |-> None, memory |-> proposals[p].memory]]
    /\ UNCHANGED <<proposals, made>>

\* Mutant: the review is written back with the status it was loaded with.
ReviewedReopened(r) == [status |-> "open", memory |-> reviews[r].memory]

\* Mutant: the review drops the proposal's metadata.
ReviewedBare(r) == [status |-> "rejected"]

\* _reviewed_proposal: status and the metadata as they were loaded.
Reviewed(r) == [status |-> "rejected", memory |-> reviews[r].memory]

\* save_proposal_review: where id = ... and nothing else.
RejectSave(r) ==
    /\ reviews[r].pc = "reject"
    /\ proposals' = [proposals EXCEPT ![reviews[r].proposal] = Reviewed(r)]
    /\ reviews' = [reviews EXCEPT ![r] = NoReview]
    /\ UNCHANGED made

\* The request dies between its load and its write.
Abandon(r) ==
    /\ reviews[r].pc # "idle"
    /\ reviews' = [reviews EXCEPT ![r] = NoReview]
    /\ UNCHANGED <<proposals, made>>

Next ==
    \/ \E p \in ProposalIds : Submit(p)
    \/ \E k \in ClientKeys : RetainElsewhere(<<"client", k>>)
    \/ \E r \in Reviewers, p \in ProposalIds :
         \/ \E k \in DefaultKeys(p) \cup {<<"client", c>> : c \in ClientKeys} : AcceptLoad(r, p, k)
         \/ RejectLoad(r, p)
    \/ \E r \in Reviewers : AcceptCommit(r) \/ RejectSave(r) \/ Abandon(r)

Spec == Init /\ [][Next]_vars

-----------------------------------------------------------------------------
Review == [pc : {"idle", "accept", "reject"}, proposal : ProposalIds \cup {None},
           key : Keys \cup {None}, memory : Keys \cup {None}]

\* Type invariant: proposal rows, stored memories and reviews in progress stay in
\* their domains.
TypeOK ==
    /\ proposals \in [ProposalIds -> [status : {"absent", "open", "accepted", "rejected"},
                                      memory : Keys \cup {None}]]
    /\ made \in [Keys -> ProposalIds \cup {None, Elsewhere}]
    /\ reviews \in [Reviewers -> Review]

\* accept_proposal_with_memory: however accepts, automatic accepts, retries under
\* other keys and rejects race, one proposal yields at most one memory.
OneMemoryPerProposal ==
    \A j, k \in Keys : made[j] = made[k] /\ made[j] \in ProposalIds => j = k

\* accept_proposal_with_memory: an accepted proposal names the memory made from it.
AcceptedHasMemory ==
    \A p \in ProposalIds :
        proposals[p].status = "accepted" =>
            proposals[p].memory # None /\ made[proposals[p].memory] = p

\* accept_proposal_with_memory: an acceptance makes one memory and names it.
AcceptanceMakesOneMemory == OneMemoryPerProposal /\ AcceptedHasMemory

\* accept / reject: a rejection is final, and an acceptance is only ever undone by
\* a rejection that was decided before it.
SettledStays ==
    [][\A p \in ProposalIds :
         /\ proposals[p].status = "rejected" => proposals'[p].status = "rejected"
         /\ proposals[p].status = "accepted" =>
              \/ proposals'[p] = proposals[p]
              \/ \E r \in Reviewers : /\ reviews[r].pc = "reject" /\ reviews[r].proposal = p
                                      /\ reviews'[r].pc = "idle"]_vars

\* reject ("Reject a proposal without creating durable memory"; "accepted proposal
\* cannot be rejected"): no memory was made from a rejected proposal.
RejectedHasNoMemory ==
    \A p \in ProposalIds, k \in Keys : proposals[p].status = "rejected" => made[k] # p
=============================================================================
