----------------------------- MODULE KnowledgeProofs -----------------------------
(***************************************************************************)
(* Proofs about where memories come from: module Conversations (turns and  *)
(* their curation), reflection, the vault and documents, each for any      *)
(* value of its constants.  At the end what was proved of the last three   *)
(* is carried over to all components running side by side (Operations).    *)
(***************************************************************************)
EXTENDS Conversations, Operations, FiniteSetTheorems, SequenceTheorems, WellFoundedInduction,
        TLAPS

-----------------------------------------------------------------------------
(* Conversations.  A curation call acts on what it read transactions ago.  *)
(* The invariant says what is left of it: Staged for the turns and their   *)
(* expiry, Calls for the call in progress, Sources for the proposals and   *)
(* what they quote, Covered for a call that is about to purge.  The        *)
(* proposals and their reviews keep the invariant of module                *)
(* ProposalsProofs.                                                        *)

ReviewProofs == INSTANCE ProposalsProofs
    WITH ProposalIds <- CurationKeys, GraphIds <- {}, ClientKeys <- {},
         Reviewers <- Curators \cup Operators

KeysOf(t) == RequestKeys(t) \cup {WorkerKey(t)}

\* append_turn: only curated_only turns expire; no other turn loses its text.
Staged ==
    \A t \in Turns :
        /\ turns[t].expires # "never" => turns[t].policy = "curated_only"
        /\ turns[t].policy # "curated_only" => turns[t].state \in {"absent", "active"}

\* The text is gone for good.
Gone(t) == turns[t].state \notin {"absent", "active"}

\* A call in progress is about a turn that may be curated, under a key of that
\* turn; unless it read the raw text, the text was gone.
Calls ==
    \A c \in Curators : curations[c].pc # "idle" =>
        /\ curations[c].turn \in Turns /\ Curatable(curations[c].turn)
        /\ curations[c].pc # "purge" => curations[c].key \in KeysOf(curations[c].turn)
        /\ curations[c].pc = "submit" => curations[c].text = "raw" \/ Gone(curations[c].turn)

\* A proposal quotes a turn that may be curated, under a key of that turn; unless
\* it quotes the raw text, the text was gone.
Sources ==
    \A k \in CurationKeys :
        /\ proposals[k].status = "absent" => source[k].turn = None
        /\ proposals[k].status # "absent" =>
             /\ source[k].turn \in Turns /\ Curatable(source[k].turn)
             /\ k \in KeysOf(source[k].turn)
             /\ source[k].text = "raw" \/ Gone(source[k].turn)

\* A stored proposal quotes the text of t, or a caller spent its key on another turn.
Quoted(t) ==
    \E k \in CurationKeys :
        \/ source[k].turn = t /\ source[k].text = "raw"
        \/ k[1] = "caller" /\ source[k].turn \notin {None, t}

\* Once it has submitted, a call may purge its turn.
Covered ==
    \A c \in Curators : curations[c].pc \in {"policy", "accept", "purge"} =>
        Gone(curations[c].turn) \/ Quoted(curations[c].turn)

\* A review in progress is of a stored proposal, and accepts it under a key that
\* names it.
Reviewing ==
    \A r \in Curators \cup Operators :
        /\ reviews[r].pc # "idle" => proposals[reviews[r].proposal].status # "absent"
        /\ reviews[r].pc = "accept" =>
             reviews[r].key \in {<<"accept", reviews[r].proposal>>, <<"auto", reviews[r].proposal>>}

Inv ==
    /\ TypeOK /\ Staged /\ Calls /\ Sources /\ Covered
    /\ ReviewProofs!Inv /\ Reviewing
-----------------------------------------------------------------------------
\* The keys of a turn are curation keys, and only callers' keys are shared by turns.
LEMMA KeyFacts ==
  /\ \A t \in Turns : KeysOf(t) \subseteq CurationKeys
  /\ \A t, u \in Turns : \A k \in KeysOf(t) \cap KeysOf(u) : t = u \/ k[1] = "caller"
BY DEF KeysOf, CurationKeys, RequestKeys, WorkerKey

\* The two instances of module Proposals are the same.
LEMMA SameReview ==
  /\ Review!Keys = ReviewProofs!Keys /\ Review!NoReview = ReviewProofs!NoReview
  /\ \A p : Review!Submit(p) => ReviewProofs!Submit(p)
  /\ \A r, p, k : Review!AcceptLoad(r, p, k) => ReviewProofs!AcceptLoad(r, p, k)
  /\ \A r : Review!AcceptCommit(r) => ReviewProofs!AcceptCommit(r)
  /\ \A r, p : Review!RejectLoad(r, p) => ReviewProofs!RejectLoad(r, p)
  /\ \A r : Review!RejectSave(r) => ReviewProofs!RejectSave(r)
<1>1. Review!Keys = ReviewProofs!Keys /\ Review!NoReview = ReviewProofs!NoReview
  BY DEF Review!Keys, ReviewProofs!Keys, Review!DefaultKeys, ReviewProofs!DefaultKeys,
         Review!NoReview, ReviewProofs!NoReview
<1>2. /\ \A p : Review!Submit(p) => ReviewProofs!Submit(p)
      /\ \A r, p, k : Review!AcceptLoad(r, p, k) => ReviewProofs!AcceptLoad(r, p, k)
      /\ \A r, p : Review!RejectLoad(r, p) => ReviewProofs!RejectLoad(r, p)
  BY DEF Review!Submit, ReviewProofs!Submit, Review!AcceptLoad, ReviewProofs!AcceptLoad,
         Review!RejectLoad, ReviewProofs!RejectLoad
<1>3. \A r : Review!AcceptCommit(r) => ReviewProofs!AcceptCommit(r)
  BY <1>1 DEF Review!AcceptCommit, ReviewProofs!AcceptCommit, Review!Acceptable,
         ReviewProofs!Acceptable, Review!Accepted, ReviewProofs!Accepted
<1>4. \A r : Review!RejectSave(r) => ReviewProofs!RejectSave(r)
  BY <1>1 DEF Review!RejectSave, ReviewProofs!RejectSave, Review!Reviewed, ReviewProofs!Reviewed
<1>5. QED
  BY <1>1, <1>2, <1>3, <1>4

\* What module Proposals assumes of its constants.
LEMMA ReviewConstants ==
  /\ {} \subseteq CurationKeys
  /\ None \notin CurationKeys /\ Elsewhere \notin CurationKeys /\ None # Elsewhere
  /\ None \notin ReviewProofs!Keys
BY KeyAssumptions, SameReview

\* Which proposals exist does not change.
SameStored == \A k \in CurationKeys : proposals'[k].status = "absent" <=> proposals[k].status = "absent"

\* No memory is made, under its automatic key, from a rejected proposal.
RejectedKept ==
    \A k \in CurationKeys :
        proposals[k].status = "rejected" => made'[<<"auto", k>>] = made[<<"auto", k>>]

\* A review loads a stored proposal, or ends without a decision.
LEMMA ReviewLoads ==
  ASSUME Inv, NEW r \in Curators \cup Operators, UNCHANGED <<proposals, made>>,
         \/ \E k \in CurationKeys : \/ Review!AcceptLoad(r, k, <<"accept", k>>)
                                    \/ Review!AcceptLoad(r, k, <<"auto", k>>)
                                    \/ Review!RejectLoad(r, k)
         \/ reviews' = [reviews EXCEPT ![r] = Review!NoReview]
  PROVE  ReviewProofs!Inv' /\ Reviewing' /\ SameStored /\ RejectedKept
<1>1. /\ reviews \in [Curators \cup Operators -> ReviewProofs!Review]
      /\ \A k \in CurationKeys : proposals[k].memory \in ReviewProofs!Keys \cup {None}
  BY DEF Inv, ReviewProofs!Inv, ReviewProofs!TypeOK
<1>2. SameStored /\ RejectedKept
  BY DEF SameStored, RejectedKept
<1>3. ASSUME NEW q \in ReviewProofs!Review, reviews' = [reviews EXCEPT ![r] = q],
             q.pc # "idle" => q.proposal \in CurationKeys /\ proposals[q.proposal].status # "absent",
             q.pc = "accept" => /\ q.key \in ReviewProofs!Keys
                                /\ q.key \in {<<"accept", q.proposal>>, <<"auto", q.proposal>>}
      PROVE  ReviewProofs!Inv' /\ Reviewing'
  <2>1. ReviewProofs!Inv'
    BY <1>3, ReviewConstants, ReviewProofs!InvReviewOnly DEF Inv
  <2>2. Reviewing'
    BY <1>1, <1>3 DEF Inv, Reviewing
  <2>3. QED
    BY <2>1, <2>2
<1>4. ASSUME NEW k \in CurationKeys, NEW key \in {<<"accept", k>>, <<"auto", k>>},
             Review!AcceptLoad(r, k, key)
      PROVE  ReviewProofs!Inv' /\ Reviewing'
  <2> DEFINE q == [pc |-> "accept", proposal |-> k, key |-> key, memory |-> None]
  <2>1. key \in ReviewProofs!Keys
    BY DEF ReviewProofs!Keys, ReviewProofs!DefaultKeys
  <2>2. /\ q \in ReviewProofs!Review /\ q.pc = "accept" /\ q.proposal = k /\ q.key = key
        /\ reviews' = [reviews EXCEPT ![r] = q] /\ proposals[k].status # "absent"
    BY <1>4, <2>1 DEF ReviewProofs!Review, Review!AcceptLoad
  <2> HIDE DEF q
  <2>3. QED
    BY <1>3, <2>1, <2>2
<1>5. ASSUME NEW k \in CurationKeys, Review!RejectLoad(r, k)
      PROVE  ReviewProofs!Inv' /\ Reviewing'
  <2> DEFINE q == [pc |-> "reject", proposal |-> k, key |-> None, memory |-> proposals[k].memory]
  <2>1. /\ q \in ReviewProofs!Review /\ q.pc = "reject" /\ q.proposal = k
        /\ reviews' = [reviews EXCEPT ![r] = q] /\ proposals[k].status # "absent"
    BY <1>1, <1>5 DEF ReviewProofs!Review, Review!RejectLoad
  <2> HIDE DEF q
  <2>2. QED
    BY <1>3, <2>1
<1>6. CASE reviews' = [reviews EXCEPT ![r] = Review!NoReview]
  <2>1. ReviewProofs!NoReview \in ReviewProofs!Review /\ ReviewProofs!NoReview.pc = "idle"
    BY DEF ReviewProofs!NoReview, ReviewProofs!Review
  <2>2. reviews' = [reviews EXCEPT ![r] = ReviewProofs!NoReview]
    BY <1>6, SameReview
  <2> DEFINE q == ReviewProofs!NoReview
  <2>3. q \in ReviewProofs!Review /\ q.pc = "idle" /\ reviews' = [reviews EXCEPT ![r] = q]
    BY <2>1, <2>2
  <2> HIDE DEF q
  <2>4. ReviewProofs!Inv' /\ Reviewing'
    BY <1>3, <2>3
  <2>5. QED
    BY <1>2, <2>4
<1>7. QED
  BY <1>2, <1>4, <1>5, <1>6

\* accept_proposal_with_memory and save_proposal_review, called by an operator or by
\* the curation policy.
LEMMA ReviewWrites ==
  ASSUME Inv, NEW r \in Curators \cup Operators, Review!AcceptCommit(r) \/ Review!RejectSave(r)
  PROVE  ReviewProofs!Inv' /\ Reviewing' /\ SameStored /\ RejectedKept
<1> DEFINE p == reviews[r].proposal
           k == reviews[r].key
<1>1. ReviewProofs!AcceptCommit(r) \/ ReviewProofs!RejectSave(r)
  BY SameReview
<1>2. ReviewProofs!Inv'
  BY <1>1, ReviewConstants, ReviewProofs!InvAcceptCommit, ReviewProofs!InvRejectSave DEF Inv
<1>3. /\ reviews \in [Curators \cup Operators -> ReviewProofs!Review]
      /\ proposals \in [CurationKeys -> [status : {"absent", "open", "accepted", "rejected"},
                                         memory : ReviewProofs!Keys \cup {None}]]
      /\ DOMAIN made = ReviewProofs!Keys
  BY DEF Inv, ReviewProofs!Inv, ReviewProofs!TypeOK
<1>4. reviews[r].pc # "idle" /\ p \in CurationKeys /\ proposals[p].status # "absent"
  BY <1>1 DEF Inv, ReviewProofs!Inv, ReviewProofs!Busy, ReviewProofs!AcceptCommit,
              ReviewProofs!RejectSave, Reviewing
<1>5. reviews' = [reviews EXCEPT ![r] = ReviewProofs!NoReview]
  BY <1>1 DEF ReviewProofs!AcceptCommit, ReviewProofs!RejectSave
<1>6. ASSUME ReviewProofs!AcceptCommit(r) PROVE SameStored /\ RejectedKept
  <2>1. CASE ReviewProofs!Acceptable(p, k)
    <3>1. /\ proposals' = [proposals EXCEPT ![p] = [status |-> "accepted", memory |-> k]]
          /\ made' = [made EXCEPT ![k] = p] /\ proposals[p].status = "open"
      BY <1>6, <2>1 DEF ReviewProofs!AcceptCommit, ReviewProofs!Accepted, ReviewProofs!Acceptable
    <3>2. SameStored
      BY <1>3, <1>4, <3>1 DEF SameStored
    <3>3. k \in {<<"accept", p>>, <<"auto", p>>}
      BY <1>6 DEF Inv, Reviewing, ReviewProofs!AcceptCommit
    <3>4. ASSUME NEW j \in CurationKeys, proposals[j].status = "rejected"
          PROVE  made'[<<"auto", j>>] = made[<<"auto", j>>]
      <4>1. <<"auto", j>> \in ReviewProofs!Keys
        BY DEF ReviewProofs!Keys, ReviewProofs!DefaultKeys
      <4>2. <<"auto", j>> # k
        BY <3>1, <3>3, <3>4
      <4>3. QED
        BY <1>3, <3>1, <4>1, <4>2
    <3>5. QED
      BY <3>2, <3>4 DEF RejectedKept
  <2>2. CASE ~ ReviewProofs!Acceptable(p, k)
    BY <1>6, <2>2 DEF ReviewProofs!AcceptCommit, SameStored, RejectedKept
  <2>3. QED
    BY <2>1, <2>2
<1>7. ASSUME ReviewProofs!RejectSave(r) PROVE SameStored /\ RejectedKept
  <2>1. /\ proposals' = [proposals EXCEPT ![p] = [status |-> "rejected", memory |-> reviews[r].memory]]
        /\ made' = made
    BY <1>7 DEF ReviewProofs!RejectSave, ReviewProofs!Reviewed
  <2>2. QED
    BY <1>3, <1>4, <2>1 DEF SameStored, RejectedKept
<1>8. SameStored /\ RejectedKept
  BY <1>1, <1>6, <1>7
<1>9. Reviewing'
  <2> SUFFICES ASSUME NEW v \in Curators \cup Operators
               PROVE  /\ reviews'[v].pc # "idle" => proposals'[reviews'[v].proposal].status # "absent"
                      /\ reviews'[v].pc = "accept" =>
                           reviews'[v].key \in {<<"accept", reviews'[v].proposal>>,
                                                <<"auto", reviews'[v].proposal>>}
    BY DEF Reviewing
  <2>1. CASE v = r
    BY <1>3, <1>5, <2>1 DEF ReviewProofs!NoReview
  <2>2. CASE v # r
    <3>1. reviews'[v] = reviews[v]
      BY <1>3, <1>5, <2>2
    <3>2. reviews[v].pc # "idle" => reviews[v].proposal \in CurationKeys
      BY DEF Inv, ReviewProofs!Inv, ReviewProofs!Busy
    <3>3. QED
      BY <1>8, <3>1, <3>2 DEF Inv, Reviewing, SameStored
  <2>3. QED
    BY <2>1, <2>2
<1>10. QED
  BY <1>2, <1>8, <1>9

\* append_proposal: one more proposal is stored.
LEMMA ReviewSubmits ==
  ASSUME Inv, NEW k \in CurationKeys, Review!Submit(k)
  PROVE  /\ ReviewProofs!Inv' /\ Reviewing' /\ made' = made
         /\ proposals[k].status = "absent"
         /\ \A j \in CurationKeys : proposals'[j].status = "absent" <=>
                                      proposals[j].status = "absent" /\ j # k
<1>1. ReviewProofs!Submit(k)
  BY SameReview
<1>2. ReviewProofs!Inv'
  BY <1>1, ReviewConstants, ReviewProofs!InvSubmit DEF Inv
<1>3. /\ proposals \in [CurationKeys -> [status : {"absent", "open", "accepted", "rejected"},
                                         memory : ReviewProofs!Keys \cup {None}]]
  BY DEF Inv, ReviewProofs!Inv, ReviewProofs!TypeOK
<1>4. /\ proposals[k].status = "absent" /\ made' = made /\ reviews' = reviews
      /\ \A j \in CurationKeys : proposals'[j].status = IF j = k THEN "open" ELSE proposals[j].status
  BY <1>1, <1>3 DEF ReviewProofs!Submit
<1>5. \A v \in Curators \cup Operators :
        reviews[v].pc # "idle" => reviews[v].proposal \in CurationKeys
  BY DEF Inv, ReviewProofs!Inv, ReviewProofs!Busy
<1>6. Reviewing'
  BY <1>4, <1>5 DEF Inv, Reviewing
<1>7. QED
  BY <1>2, <1>4, <1>6

\* A step of the conversation ledger leaves the reviews alone.
LEMMA ReviewQuiet ==
  ASSUME Inv, UNCHANGED <<proposals, made, reviews>>
  PROVE  ReviewProofs!Inv' /\ Reviewing' /\ SameStored /\ RejectedKept
<1>1. ReviewProofs!Inv'
  BY ReviewConstants, ReviewProofs!InvStep DEF Inv, ReviewProofs!vars
<1>2. QED
  BY <1>1 DEF Inv, Reviewing, SameStored, RejectedKept
-----------------------------------------------------------------------------
TurnRow == [policy : Policies \cup {None},
            state : {"absent", "active", "purged_after_curation", "purged_after_expiry"},
            expires : {"never", "pending", "due"}]
SourceRow == [turn : Turns \cup {None}, text : {"none", "raw", "placeholder"},
              policy : {"accept", "review"}]
CurationRow == [pc : {"idle", "submit", "policy", "accept", "purge"},
                turn : Turns \cup {None}, key : CurationKeys \cup {None},
                text : {"none", "raw", "placeholder"}, auto : {"accept", "review"}]

\* An appended turn stays and keeps its policy, and a purged text stays purged.
TurnsForward ==
    /\ turns' \in [Turns -> TurnRow] /\ Staged'
    /\ \A t \in Turns : /\ turns[t].state # "absent" =>
                             turns'[t].state # "absent" /\ turns'[t].policy = turns[t].policy
                        /\ Gone(t) => Gone(t)'

\* What a stored proposal quotes stays.
SourcesKept ==
    /\ source' \in [CurationKeys -> SourceRow]
    /\ \A k \in CurationKeys : source[k].turn # None => source'[k] = source[k]

\* The body of PurgedTextWasProposed.
PurgesQuoted ==
    \A t \in Turns :
        turns[t].state = "active" /\ turns'[t].state = "purged_after_curation" => Quoted(t)

\* What every step does.
StepOK == Inv' /\ RejectedKept /\ PurgesQuoted

\* The reviews' share of a step of the ledger.
ReviewsOK == ReviewProofs!Inv' /\ Reviewing'

\* Type correctness in terms of the row sets.
LEMMA TurnRows ==
  TypeOK <=> /\ turns \in [Turns -> TurnRow] /\ source \in [CurationKeys -> SourceRow]
             /\ curations \in [Curators -> CurationRow] /\ curated \subseteq Turns
BY DEF TypeOK, TurnRow, SourceRow, CurationRow

\* What may be curated, what is gone and what is quoted stays so.
LEMMA FactsKept ==
  ASSUME Inv, TurnsForward, SourcesKept, NEW t \in Turns
  PROVE  /\ Curatable(t) => Curatable(t)'
         /\ Gone(t) => Gone(t)'
         /\ Quoted(t) => Quoted(t)'
<1>1. Curatable(t) => Curatable(t)'
  BY DEF TurnsForward, Curatable
<1>2. Gone(t) => Gone(t)'
  BY DEF TurnsForward
<1>3. ASSUME Quoted(t) PROVE Quoted(t)'
  <2>1. PICK k \in CurationKeys : \/ source[k].turn = t /\ source[k].text = "raw"
                                  \/ k[1] = "caller" /\ source[k].turn \notin {None, t}
    BY <1>3 DEF Quoted
  <2>2. source'[k] = source[k]
    BY <2>1, ConversationAssumptions DEF SourcesKept
  <2>3. QED
    BY <2>1, <2>2 DEF Quoted
<1>4. QED
  BY <1>1, <1>2, <1>3

\* Sources is kept when no proposal is stored.
LEMMA SourcesStay ==
  ASSUME Inv, TurnsForward, SameStored, source' = source
  PROVE  SourcesKept /\ Sources'
<1>1. SourcesKept
  BY TurnRows DEF Inv, SourcesKept
<1>2. ASSUME NEW k \in CurationKeys
      PROVE  \/ proposals'[k].status = "absent" /\ source'[k].turn = None
             \/ /\ proposals'[k].status # "absent"
                /\ \E t \in Turns : /\ source'[k].turn = t /\ Curatable(t)' /\ k \in KeysOf(t)
                                    /\ source'[k].text = "raw" \/ Gone(t)'
  <2>1. CASE proposals[k].status = "absent"
    BY <2>1 DEF SameStored, Inv, Sources
  <2>2. CASE proposals[k].status # "absent"
    <3>1. PICK t \in Turns : /\ source[k].turn = t /\ Curatable(t) /\ k \in KeysOf(t)
                             /\ source[k].text = "raw" \/ Gone(t)
      BY <2>2 DEF Inv, Sources
    <3>2. Curatable(t)' /\ (Gone(t) => Gone(t)')
      BY <1>1, <3>1, FactsKept
    <3>3. QED
      BY <2>2, <3>1, <3>2 DEF SameStored
  <2>3. QED
    BY <2>1, <2>2
<1>3. Sources'
  BY <1>2 DEF Sources, Curatable, Gone
<1>4. QED
  BY <1>1, <1>3

\* One call moves on to q: the invariant holds if it holds of q and of what the
\* step stored.
LEMMA CallMoves ==
  ASSUME Inv, TurnsForward, SourcesKept, Sources', ReviewsOK, curated' \subseteq Turns,
         NEW c \in Curators, NEW q \in CurationRow,
         curations' = [curations EXCEPT ![c] = q],
         q.pc # "idle" =>
           /\ q.turn \in Turns /\ Curatable(q.turn)
           /\ q.pc # "purge" => q.key \in KeysOf(q.turn)
           /\ q.pc = "submit" => q.text = "raw" \/ Gone(q.turn),
         \A t \in Turns : q.pc \in {"policy", "accept", "purge"} /\ q.turn = t =>
                           Gone(t)' \/ Quoted(t)'
  PROVE  Inv'
<1>1. TypeOK'
  BY TurnRows DEF TypeOK, Inv, TurnsForward, SourcesKept, TurnRow, SourceRow, CurationRow
<1>2. \A d \in Curators : curations'[d] = IF d = c THEN q ELSE curations[d]
  BY TurnRows DEF Inv
<1>3. ASSUME NEW d \in Curators
      PROVE  curations'[d].pc # "idle" =>
               \E t \in Turns :
                 /\ curations'[d].turn = t /\ Curatable(t)'
                 /\ curations'[d].pc # "purge" => curations'[d].key \in KeysOf(t)
                 /\ curations'[d].pc = "submit" => curations'[d].text = "raw" \/ Gone(t)'
                 /\ curations'[d].pc \in {"policy", "accept", "purge"} => Gone(t)' \/ Quoted(t)'
  <2>1. CASE d = c
    BY <1>2, <2>1, FactsKept
  <2>2. CASE d # c /\ curations[d].pc # "idle"
    <3>1. PICK t \in Turns :
            /\ curations[d].turn = t /\ Curatable(t)
            /\ curations[d].pc # "purge" => curations[d].key \in KeysOf(t)
            /\ curations[d].pc = "submit" => curations[d].text = "raw" \/ Gone(t)
            /\ curations[d].pc \in {"policy", "accept", "purge"} => Gone(t) \/ Quoted(t)
      BY <2>2 DEF Inv, Calls, Covered
    <3>2. QED
      BY <1>2, <2>2, <3>1, FactsKept
  <2>3. QED
    BY <1>2, <2>1, <2>2
<1>4. Calls'
  BY <1>3 DEF Calls, Curatable, Gone
<1>5. Covered'
  BY <1>3 DEF Covered, Gone, Quoted
<1>6. QED
  BY <1>1, <1>4, <1>5 DEF Inv, TurnsForward, ReviewsOK

\* No call moves: the case of append_turn, of time and of the retention schedule.
LEMMA CallsStay ==
  ASSUME Inv, TurnsForward, SourcesKept, Sources', ReviewsOK,
         curated' = curated, curations' = curations
  PROVE  Inv'
<1>1. TypeOK'
  BY TurnRows DEF TypeOK, Inv, TurnsForward, SourcesKept, TurnRow, SourceRow, CurationRow
<1>2. ASSUME NEW d \in Curators, curations[d].pc # "idle"
      PROVE  \E t \in Turns :
                 /\ curations[d].turn = t /\ Curatable(t)'
                 /\ curations[d].pc # "purge" => curations[d].key \in KeysOf(t)
                 /\ curations[d].pc = "submit" => curations[d].text = "raw" \/ Gone(t)'
                 /\ curations[d].pc \in {"policy", "accept", "purge"} => Gone(t)' \/ Quoted(t)'
  <2>1. PICK t \in Turns :
          /\ curations[d].turn = t /\ Curatable(t)
          /\ curations[d].pc # "purge" => curations[d].key \in KeysOf(t)
          /\ curations[d].pc = "submit" => curations[d].text = "raw" \/ Gone(t)
          /\ curations[d].pc \in {"policy", "accept", "purge"} => Gone(t) \/ Quoted(t)
    BY <1>2 DEF Inv, Calls, Covered
  <2>2. QED
    BY <2>1, FactsKept
<1>3. Calls'
  BY <1>2 DEF Calls, Curatable, Gone
<1>4. Covered'
  BY <1>2 DEF Covered, Gone, Quoted
<1>5. QED
  BY <1>1, <1>3, <1>4 DEF Inv, TurnsForward, ReviewsOK

\* A step that only moves turns forward.
LEMMA TurnsMove ==
  ASSUME Inv, TurnsForward, PurgesQuoted,
         UNCHANGED <<source, curations, curated, proposals, made, reviews>>
  PROVE  StepOK
<1>1. ReviewsOK /\ SameStored /\ RejectedKept
  BY ReviewQuiet DEF ReviewsOK
<1>2. SourcesKept /\ Sources'
  BY <1>1, SourcesStay
<1>3. QED
  BY <1>1, <1>2, CallsStay DEF StepOK

\* append_turn
LEMMA StepAppend ==
  ASSUME Inv, NEW t \in Turns, NEW policy \in Policies, AppendTurn(t, policy)
  PROVE  StepOK
<1> DEFINE row == [policy |-> policy, state |-> "active", expires |-> Expiry(policy)]
<1>1. turns \in [Turns -> TurnRow] /\ turns[t].state = "absent" /\ turns' = [turns EXCEPT ![t] = row]
  BY TurnRows DEF Inv, AppendTurn
<1>2. /\ row \in TurnRow /\ row.state = "active"
      /\ row.expires # "never" => row.policy = "curated_only"
  BY DEF TurnRow, Expiry
<1> HIDE DEF row
<1>3. TurnsForward
  BY <1>1, <1>2 DEF TurnsForward, Staged, Gone, Inv
<1>4. PurgesQuoted
  BY <1>1, <1>2 DEF PurgesQuoted
<1>5. QED
  BY <1>3, <1>4, TurnsMove DEF AppendTurn

\* expires_at passes.
LEMMA StepExpire ==
  ASSUME Inv, NEW t \in Turns, Expire(t)
  PROVE  StepOK
<1> DEFINE row == [turns[t] EXCEPT !.expires = "due"]
<1>1. /\ turns \in [Turns -> TurnRow] /\ turns[t].expires = "pending"
      /\ turns' = [turns EXCEPT ![t] = row]
  BY TurnRows DEF Inv, Expire
<1>2. row \in TurnRow /\ row.state = turns[t].state /\ row.policy = turns[t].policy
  BY <1>1 DEF TurnRow
<1> HIDE DEF row
<1>3. TurnsForward
  BY <1>1, <1>2 DEF TurnsForward, Staged, Gone, Inv
<1>4. PurgesQuoted
  BY <1>1, <1>2 DEF PurgesQuoted
<1>5. QED
  BY <1>3, <1>4, TurnsMove DEF Expire

\* purge_expired_turns: only staged turns expire.
LEMMA StepPurgeExpired ==
  ASSUME Inv, PurgeExpired
  PROVE  StepOK
<1>1. turns \in [Turns -> TurnRow]
  BY TurnRows DEF Inv
<1>2. PICK expired \in SUBSET Due :
        turns' = [t \in Turns |-> IF t \in expired
                                  THEN [turns[t] EXCEPT !.state = "purged_after_expiry"]
                                  ELSE turns[t]]
  BY DEF PurgeExpired
<1>3. ASSUME NEW t \in Turns
      PROVE  /\ turns'[t] \in TurnRow /\ turns'[t].policy = turns[t].policy
             /\ turns'[t].expires = turns[t].expires
             /\ \/ turns'[t].state = turns[t].state
                \/ /\ turns'[t].state = "purged_after_expiry"
                   /\ turns[t].expires = "due" /\ turns[t].state = "active"
  BY <1>1, <1>2 DEF Due, TurnRow
<1>4. turns' \in [Turns -> TurnRow]
  BY <1>2, <1>3
<1>5. TurnsForward
  BY <1>3, <1>4 DEF TurnsForward, Staged, Gone, Inv
<1>6. PurgesQuoted
  BY <1>3 DEF PurgesQuoted
<1>7. QED
  BY <1>5, <1>6, TurnsMove DEF PurgeExpired

\* A call of curate_turn moves on to q and leaves turns and sources alone.
LEMMA OnlyCallMoves ==
  ASSUME Inv, UNCHANGED <<turns, source>>, curated' \subseteq Turns,
         ReviewsOK, SameStored, RejectedKept,
         NEW c \in Curators, NEW q \in CurationRow,
         curations' = [curations EXCEPT ![c] = q],
         q.pc # "idle" =>
           /\ q.turn \in Turns /\ Curatable(q.turn)
           /\ q.pc # "purge" => q.key \in KeysOf(q.turn)
           /\ q.pc = "submit" => q.text = "raw" \/ Gone(q.turn),
         q.pc \in {"policy", "accept", "purge"} => Gone(q.turn) \/ Quoted(q.turn)
  PROVE  StepOK
<1>1. TurnsForward /\ PurgesQuoted
  BY TurnRows DEF TurnsForward, PurgesQuoted, Inv, Staged, Gone
<1>2. SourcesKept /\ Sources'
  BY <1>1, SourcesStay
<1>3. \A t \in Turns : q.pc \in {"policy", "accept", "purge"} /\ q.turn = t => Gone(t)' \/ Quoted(t)'
  BY <1>1, <1>2, FactsKept
<1>4. Inv'
  BY <1>1, <1>2, <1>3, CallMoves
<1>5. QED
  BY <1>1, <1>4 DEF StepOK

\* curate_turn: get_turn.
LEMMA StepCurateLoad ==
  ASSUME Inv, NEW c \in Curators, NEW t \in Turns, NEW key \in KeysOf(t),
         NEW auto \in {"accept", "review"}, CurateLoad(c, t, key, auto)
  PROVE  StepOK
<1> DEFINE q == [pc |-> "submit", turn |-> t, key |-> key, auto |-> auto,
                 text |-> IF turns[t].state = "active" THEN "raw" ELSE "placeholder"]
<1>1. /\ q \in CurationRow /\ q.pc = "submit" /\ q.turn = t /\ q.key = key
      /\ q.text = IF turns[t].state = "active" THEN "raw" ELSE "placeholder"
      /\ curations' = [curations EXCEPT ![c] = q]
  BY KeyFacts DEF CurationRow, CurateLoad
<1> HIDE DEF q
<1>2. Curatable(t) /\ (q.text = "raw" \/ Gone(t))
  BY <1>1 DEF CurateLoad, Curatable, Gone
<1>3. ReviewsOK /\ SameStored /\ RejectedKept
  BY ReviewQuiet DEF CurateLoad, ReviewsOK
<1>4. UNCHANGED <<turns, source>> /\ curated' \subseteq Turns
  BY TurnRows DEF CurateLoad, Inv
<1>5. QED
  BY <1>1, <1>2, <1>3, <1>4, OnlyCallMoves

\* curate_turn raises, returns or dies.
LEMMA CallEnds ==
  ASSUME Inv, NEW c \in Curators, curations' = [curations EXCEPT ![c] = NoCuration],
         UNCHANGED <<turns, source>>, curated' \subseteq Turns,
         ReviewsOK, SameStored, RejectedKept
  PROVE  StepOK
<1> DEFINE q == NoCuration
<1>1. q \in CurationRow /\ q.pc = "idle" /\ curations' = [curations EXCEPT ![c] = q]
  BY DEF CurationRow, NoCuration
<1> HIDE DEF q
<1>2. QED
  BY <1>1, OnlyCallMoves

LEMMA StepFail ==
  ASSUME Inv, NEW c \in Curators, Fail(c)
  PROVE  StepOK
<1>1. ReviewsOK /\ SameStored /\ RejectedKept
  BY ReviewLoads DEF Fail, ReviewsOK
<1>2. curated' \subseteq Turns
  BY TurnRows DEF Fail, Inv
<1>3. QED
  BY <1>1, <1>2, CallEnds DEF Fail

\* A call that has a proposal for its turn goes on with the same turn and key.
LEMMA GotoRow ==
  ASSUME Inv, NEW c \in Curators, curations[c].pc \notin {"idle", "purge"},
         NEW place \in {"policy", "accept", "purge"}, Goto(c, place)
  PROVE  \E q \in CurationRow :
           /\ curations' = [curations EXCEPT ![c] = q]
           /\ q.pc = place /\ q.turn = curations[c].turn
           /\ q.turn \in Turns /\ Curatable(q.turn)
           /\ q.pc # "purge" => q.key \in KeysOf(q.turn)
<1> DEFINE q == [NoCuration EXCEPT !.pc = place, !.turn = curations[c].turn,
                                   !.key = IF place = "purge" THEN None ELSE curations[c].key]
<1>1. /\ curations[c].turn \in Turns /\ Curatable(curations[c].turn)
      /\ curations[c].key \in KeysOf(curations[c].turn)
  BY DEF Inv, Calls
<1>2. curations[c].key \in CurationKeys
  BY <1>1, KeyFacts
<1>3. /\ q \in CurationRow /\ q.pc = place /\ q.turn = curations[c].turn
      /\ place # "purge" => q.key = curations[c].key
  BY <1>1, <1>2 DEF CurationRow, NoCuration
<1>4. curations' = [curations EXCEPT ![c] = q]
  BY DEF Goto
<1> HIDE DEF q
<1>5. QED
  BY <1>1, <1>3, <1>4

\* curate_turn: the summary is stored under the call's key, or the proposal stored
\* under it before is returned.
LEMMA StepCurateSubmit ==
  ASSUME Inv, NEW c \in Curators, NEW policy \in {"accept", "review"}, CurateSubmit(c, policy)
  PROVE  StepOK
<1>1. PICK t \in Turns, key \in CurationKeys :
        /\ t = curations[c].turn /\ key = curations[c].key
        /\ Curatable(t) /\ key \in KeysOf(t)
        /\ curations[c].text = "raw" \/ Gone(t)
  BY KeyFacts DEF CurateSubmit, Inv, Calls
<1>2. PICK q \in CurationRow :
        /\ curations' = [curations EXCEPT ![c] = q]
        /\ q.pc \in {"policy", "purge"} /\ q.turn = t /\ Curatable(q.turn)
        /\ q.pc # "purge" => q.key \in KeysOf(q.turn)
  BY <1>1, GotoRow DEF CurateSubmit
<1>3. UNCHANGED turns /\ curated' \subseteq Turns
  BY TurnRows DEF CurateSubmit, Inv
<1>4. CASE proposals[key].status # "absent"
  <2>1. UNCHANGED <<source, proposals, made, reviews>>
    BY <1>1, <1>4 DEF CurateSubmit
  <2>2. PICK u \in Turns : /\ u = source[key].turn /\ key \in KeysOf(u)
                           /\ source[key].text = "raw" \/ Gone(u)
    BY <1>4 DEF Inv, Sources
  <2>3. u = t \/ key[1] = "caller"
    BY <1>1, <2>2, KeyFacts
  <2>4. Gone(t) \/ Quoted(t)
    BY <2>2, <2>3, ConversationAssumptions DEF Quoted
  <2>5. ReviewsOK /\ SameStored /\ RejectedKept
    BY <2>1, ReviewQuiet DEF ReviewsOK
  <2>6. QED
    BY <1>2, <1>3, <2>1, <2>4, <2>5, OnlyCallMoves
<1>5. CASE proposals[key].status = "absent"
  <2> DEFINE row == [turn |-> t, text |-> curations[c].text, policy |-> policy]
  <2>1. Review!Submit(key) /\ source' = [source EXCEPT ![key] = row]
    BY <1>1, <1>5 DEF CurateSubmit
  <2>2. row \in SourceRow /\ row.turn = t /\ (row.text = "raw" \/ Gone(t))
    BY <1>1, TurnRows DEF SourceRow, CurationRow, Inv
  <2> HIDE DEF row
  <2>3. /\ ReviewsOK /\ made' = made
        /\ \A j \in CurationKeys : proposals'[j].status = "absent" <=>
                                     proposals[j].status = "absent" /\ j # key
    BY <2>1, ReviewSubmits DEF ReviewsOK
  <2>4. \A k \in CurationKeys : source'[k] = IF k = key THEN row ELSE source[k]
    BY <2>1, TurnRows DEF Inv
  <2>5. TurnsForward /\ PurgesQuoted
    BY <1>3, TurnRows DEF TurnsForward, PurgesQuoted, Inv, Staged, Gone
  <2>6. SourcesKept
    <3>1. source[key].turn = None
      BY <1>5 DEF Inv, Sources
    <3>2. source' \in [CurationKeys -> SourceRow]
      BY <2>1, <2>2, TurnRows DEF Inv
    <3>3. QED
      BY <2>4, <3>1, <3>2 DEF SourcesKept
  <2>7. Sources'
    <3>1. ASSUME NEW k \in CurationKeys
          PROVE  \/ proposals'[k].status = "absent" /\ source'[k].turn = None
                 \/ /\ proposals'[k].status # "absent"
                    /\ \E w \in Turns : /\ source'[k].turn = w /\ Curatable(w) /\ k \in KeysOf(w)
                                        /\ source'[k].text = "raw" \/ Gone(w)
      <4>1. CASE k = key
        BY <1>1, <2>2, <2>3, <2>4, <4>1
      <4>2. CASE k # key
        BY <2>3, <2>4, <4>2 DEF Inv, Sources
      <4>3. QED
        BY <4>1, <4>2
    <3>2. QED
      BY <1>3, <3>1 DEF Sources, Curatable, Gone
  <2>8. Gone(t)' \/ Quoted(t)'
    <3>1. CASE row.text = "raw"
      BY <2>2, <2>4, <3>1 DEF Quoted
    <3>2. CASE Gone(t)
      BY <1>3, <3>2 DEF Gone
    <3>3. QED
      BY <2>2, <3>1, <3>2
  <2>9. Inv'
    BY <1>2, <1>3, <2>3, <2>5, <2>6, <2>7, <2>8, CallMoves
  <2>10. QED
    BY <2>3, <2>5, <2>9 DEF StepOK, RejectedKept
<1>6. QED
  BY <1>4, <1>5

\* auto_accept: the policy leaves the proposal to a review, starts to accept it, or
\* fails because it was rejected.
LEMMA StepPolicyCheck ==
  ASSUME Inv, NEW c \in Curators, PolicyCheck(c)
  PROVE  StepOK
<1>1. /\ curations[c].pc = "policy" /\ curations[c].key \in CurationKeys
      /\ Gone(curations[c].turn) \/ Quoted(curations[c].turn)
  BY KeyFacts DEF PolicyCheck, Inv, Calls, Covered
<1>2. ASSUME NEW place \in {"accept", "purge"}, Goto(c, place), UNCHANGED <<turns, source, curated>>,
             ReviewsOK, SameStored, RejectedKept
      PROVE  StepOK
  <2>1. PICK q \in CurationRow :
          /\ curations' = [curations EXCEPT ![c] = q]
          /\ q.pc \in {"accept", "purge"} /\ q.turn = curations[c].turn
          /\ q.turn \in Turns /\ Curatable(q.turn)
          /\ q.pc # "purge" => q.key \in KeysOf(q.turn)
    BY <1>1, <1>2, GotoRow
  <2>2. curated' \subseteq Turns
    BY <1>2, TurnRows DEF Inv
  <2>3. QED
    BY <1>1, <1>2, <2>1, <2>2, OnlyCallMoves
<1>3. CASE Goto(c, "purge") /\ UNCHANGED <<turns, source, curated, proposals, made, reviews>>
  <2>1. ReviewsOK /\ SameStored /\ RejectedKept
    BY <1>3, ReviewQuiet DEF ReviewsOK
  <2>2. QED
    BY <1>2, <1>3, <2>1
<1>4. CASE /\ Review!AcceptLoad(c, curations[c].key, <<"auto", curations[c].key>>)
           /\ Goto(c, "accept") /\ UNCHANGED <<turns, source, curated>>
  <2>1. UNCHANGED <<proposals, made>>
    BY <1>4 DEF Review!AcceptLoad
  <2>2. ReviewsOK /\ SameStored /\ RejectedKept
    BY <1>1, <1>4, <2>1, ReviewLoads DEF ReviewsOK
  <2>3. QED
    BY <1>2, <1>4, <2>2
<1>5. QED
  BY <1>3, <1>4, StepFail DEF PolicyCheck

\* auto_accept: the accepting transaction ends the call.
LEMMA StepPolicyAccept ==
  ASSUME Inv, NEW c \in Curators, PolicyAccept(c)
  PROVE  StepOK
<1>1. ReviewsOK /\ SameStored /\ RejectedKept
  BY ReviewWrites DEF PolicyAccept, ReviewsOK
<1>2. curations[c].turn \in Turns
  BY DEF PolicyAccept, Inv, Calls
<1>3. curated' \subseteq Turns /\ curations' = [curations EXCEPT ![c] = NoCuration]
  BY <1>2, TurnRows DEF PolicyAccept, Return, Inv
<1>4. QED
  BY <1>1, <1>3, CallEnds DEF PolicyAccept

\* purge_turn_content: a curated_only turn is purged, and a proposal stands for it.
LEMMA StepCuratePurge ==
  ASSUME Inv, NEW c \in Curators, CuratePurge(c)
  PROVE  StepOK
<1>1. PICK t \in Turns : /\ t = curations[c].turn /\ turns[t].state # "absent"
                         /\ Gone(t) \/ Quoted(t)
  BY DEF CuratePurge, Inv, Calls, Covered, Curatable
<1> DEFINE row == Purged(turns[t])
<1>2. turns \in [Turns -> TurnRow] /\ turns' = [turns EXCEPT ![t] = row]
  BY <1>1, TurnRows DEF CuratePurge, Inv
<1>3. /\ row \in TurnRow /\ row.policy = turns[t].policy /\ row.expires = turns[t].expires
      /\ \/ row.state = turns[t].state
         \/ row.state = "purged_after_curation" /\ row.policy = "curated_only"
  BY <1>2 DEF Purged, TurnRow
<1> HIDE DEF row
<1>4. TurnsForward
  BY <1>1, <1>2, <1>3 DEF TurnsForward, Staged, Gone, Inv
<1>5. PurgesQuoted
  BY <1>1, <1>2, <1>3 DEF PurgesQuoted, Gone
<1>6. ReviewsOK /\ SameStored /\ RejectedKept
  BY ReviewQuiet DEF CuratePurge, ReviewsOK
<1>7. SourcesKept /\ Sources'
  BY <1>4, <1>6, SourcesStay DEF CuratePurge
<1>8. curated' \subseteq Turns /\ curations' = [curations EXCEPT ![c] = NoCuration]
  BY <1>1, TurnRows DEF CuratePurge, Return, Inv
<1>9. NoCuration \in CurationRow /\ NoCuration.pc = "idle"
  BY DEF CurationRow, NoCuration
<1> DEFINE q == NoCuration
<1>10. q \in CurationRow /\ q.pc = "idle" /\ curations' = [curations EXCEPT ![c] = q]
  BY <1>8, <1>9
<1> HIDE DEF q
<1>11. Inv'
  BY <1>4, <1>6, <1>7, <1>8, <1>10, CallMoves
<1>12. QED
  BY <1>5, <1>6, <1>11 DEF StepOK

\* accept and reject, called by an operator.
LEMMA StepOperate ==
  ASSUME Inv, NEW r \in Operators, Operate(r)
  PROVE  StepOK
<1>1. ReviewsOK /\ SameStored /\ RejectedKept
  <2>1. CASE Review!AcceptCommit(r) \/ Review!RejectSave(r)
    BY <2>1, ReviewWrites DEF ReviewsOK
  <2>2. CASE \E k \in CurationKeys : \/ Review!AcceptLoad(r, k, <<"accept", k>>)
                                     \/ Review!RejectLoad(r, k)
    <3>1. UNCHANGED <<proposals, made>>
      BY <2>2 DEF Review!AcceptLoad, Review!RejectLoad
    <3>2. QED
      BY <2>2, <3>1, ReviewLoads DEF ReviewsOK
  <2>3. CASE Review!Abandon(r)
    BY <2>3, ReviewLoads DEF ReviewsOK, Review!Abandon
  <2>4. QED
    BY <2>1, <2>2, <2>3 DEF Operate
<1>2. UNCHANGED <<turns, source, curations, curated>>
  BY DEF Operate, ledger
<1>3. TurnsForward /\ PurgesQuoted
  BY <1>2, TurnRows DEF TurnsForward, PurgesQuoted, Inv, Staged, Gone
<1>4. SourcesKept /\ Sources'
  BY <1>1, <1>2, <1>3, SourcesStay
<1>5. QED
  BY <1>1, <1>2, <1>3, <1>4, CallsStay DEF StepOK

LEMMA InvStep == Inv /\ [Next]_vars => StepOK
<1> SUFFICES ASSUME Inv, [Next]_vars PROVE StepOK
  OBVIOUS
<1>1. ASSUME NEW t \in Turns, (\E policy \in Policies : AppendTurn(t, policy)) \/ Expire(t)
      PROVE  StepOK
  BY <1>1, StepAppend, StepExpire
<1>2. ASSUME NEW c \in Curators, NEW t \in Turns,
             \/ CurateLoad(c, t, WorkerKey(t), "accept")
             \/ \E key \in RequestKeys(t), auto \in {"accept", "review"} : CurateLoad(c, t, key, auto)
      PROVE  StepOK
  BY <1>2, StepCurateLoad DEF KeysOf
<1>3. ASSUME NEW c \in Curators,
             \/ \E policy \in {"accept", "review"} : CurateSubmit(c, policy)
             \/ PolicyCheck(c) \/ PolicyAccept(c) \/ CuratePurge(c) \/ CurateFails(c)
      PROVE  StepOK
  BY <1>3, StepCurateSubmit, StepPolicyCheck, StepPolicyAccept, StepCuratePurge, StepFail
     DEF CurateFails
<1>4. CASE UNCHANGED vars
  <2>1. UNCHANGED <<turns, source, curations, curated, proposals, made, reviews>>
    BY <1>4 DEF vars
  <2>2. TurnsForward /\ PurgesQuoted
    BY <2>1, TurnRows DEF TurnsForward, PurgesQuoted, Inv, Staged, Gone
  <2>3. QED
    BY <2>1, <2>2, TurnsMove
<1>5. QED
  BY <1>1, <1>2, <1>3, <1>4, StepPurgeExpired, StepOperate DEF Next

LEMMA InvInit == Init => Inv
<1> SUFFICES ASSUME Init PROVE Inv
  OBVIOUS
<1>1. TypeOK /\ Staged
  BY DEF Init, TypeOK, Staged, NoTurn, NoSource, NoCuration, Policies
<1>2. Calls /\ Covered
  BY DEF Init, Calls, Covered, NoCuration
<1>3. /\ \A k \in CurationKeys : proposals[k] = [status |-> "absent", memory |-> None]
      /\ reviews = [r \in Curators \cup Operators |-> ReviewProofs!NoReview]
      /\ ReviewProofs!Init
  BY SameReview DEF Init, Review!Init, ReviewProofs!Init
<1>4. Sources
  BY <1>3 DEF Init, Sources, NoSource
<1>5. Reviewing
  BY <1>3 DEF Reviewing, ReviewProofs!NoReview
<1>6. ReviewProofs!Inv
  BY <1>3, ReviewConstants, ReviewProofs!InvInit
<1>7. QED
  BY <1>1, <1>2, <1>4, <1>5, <1>6 DEF Inv

LEMMA Invariance == Spec => []Inv
<1>1. Inv /\ [Next]_vars => Inv'
  BY InvStep DEF StepOK
<1>2. QED
  BY <1>1, InvInit, PTL DEF Spec
-----------------------------------------------------------------------------
\* append_turn, curate_turn and purge_expired_turns: turns, calls in progress and
\* what proposals quote stay in their domains.
THEOREM TypeCorrect == Spec => []TypeOK
<1>1. Inv => TypeOK
  BY DEF Inv
<1>2. QED
  BY <1>1, Invariance, PTL

\* curate_turn and purge_expired_turns: only curated_only turns lose their text, and
\* no proposal quotes a raw_only turn.
THEOREM PoliciesKept == Spec => []RetentionPolicyKept
<1>1. Inv => RetentionPolicyKept
  BY DEF Inv, Staged, Sources, Curatable, RetentionPolicyKept
<1>2. QED
  BY <1>1, Invariance, PTL

\* curate_turn: a curation purges only text that a stored proposal quotes, unless a
\* caller spent its key on another turn.
THEOREM PurgesAfterProposal == Spec => PurgedTextWasProposed
<1>1. Inv /\ [Next]_vars => PurgesQuoted
  BY InvStep DEF StepOK
<1>2. QED
  BY <1>1, Invariance, PTL DEF Spec, PurgedTextWasProposed, PurgesQuoted, Quoted

\* auto_accept: no retried curation makes a memory of a proposal that was rejected.
THEOREM RejectionsHold == Spec => RejectionSurvivesRetry
<1>1. Inv /\ [Next]_vars => RejectedKept
  BY InvStep DEF StepOK
<1>2. QED
  BY <1>1, Invariance, PTL DEF Spec, RejectionSurvivesRetry, RejectedKept

\* accept_proposal_with_memory: with curations accepting by policy next to the
\* operators, a proposal still yields one memory and, accepted, names it.
THEOREM CuratedMemories == Spec => [](Review!OneMemoryPerProposal /\ Review!AcceptedHasMemory)
<1>1. Inv => Review!OneMemoryPerProposal /\ Review!AcceptedHasMemory
  BY SameReview DEF Inv, ReviewProofs!Inv, ReviewProofs!OneMemoryPerProposal,
     ReviewProofs!AcceptedHasMemory, Review!OneMemoryPerProposal, Review!AcceptedHasMemory
<1>2. QED
  BY <1>1, Invariance, PTL

-----------------------------------------------------------------------------
(* Reflection.  Calls overlap and save in any order: the invariant says    *)
(* that a call past its reads owes no belief it read that is not on        *)
(* record, and that an observation is what its evidence makes it.          *)

\* A belief about memories that were committed: one slot, one value, summed up
\* by the latest.
Grounded(o) ==
    /\ o.evidence \subseteq facts /\ o.stale \in BOOLEAN
    /\ o.summary \in o.evidence /\ o.summary = Reflect!Max(o.evidence)
    /\ \A i \in o.evidence : SlotOf[i] = SlotOf[o.summary] /\ ValueOf[i] = ValueOf[o.summary]

\* An observation is determined by summary, evidence and staleness.
OfKey(o) ==
    o = [id |-> Reflect!ObservationKey(o), summary |-> o.summary,
         evidence |-> o.evidence, stale |-> o.stale]

OnRecord(b) == \E o \in observations : o.id = Reflect!ObservationKey(b)

\* A call past its reads has recorded every belief it read or has yet to.
CallOwes(r) ==
    /\ reflection[r].pc = "save" =>
         \A b \in Reflect!Beliefs(reflection[r].read) : b \in reflection[r].todo \/ OnRecord(b)
    /\ reflection[r].pc = "done" =>
         \A b \in Reflect!Beliefs(reflection[r].read) : OnRecord(b)
    /\ reflection[r].todo \subseteq Reflect!Beliefs(reflection[r].read)

Reflecting == [pc : {"idle", "read", "save", "done"}, read : SUBSET facts,
               todo : SUBSET [summary : Facts, evidence : SUBSET Facts, stale : BOOLEAN]]
ReflectTypes ==
    /\ facts \subseteq Facts /\ reflection \in [Reflectors -> Reflecting]
    /\ audited = {o.id : o \in observations}

ReflectInv ==
    /\ ReflectTypes
    /\ \A o \in observations : Grounded(o) /\ OfKey(o)
    /\ \A r \in Reflectors : CallOwes(r)

LEMMA SameCount == \A T : Reflect!Cardinality(T) = Cardinality(T)
BY DEF Reflect!Cardinality, Cardinality

\* Some memories have a latest one.
LEMMA LatestFact ==
  ASSUME ReflectConstants, NEW S \in SUBSET Facts, S # {}
  PROVE  Reflect!Max(S) \in S /\ \A y \in S : Reflect!Max(S) >= y
<1> DEFINE later(e) == {f \in S : f > e}
           T == {later(e) : e \in S}
<1>0. IsFiniteSet(S) /\ S \subseteq Nat
  BY FS_Subset DEF ReflectConstants
<1>1. T \subseteq FiniteSubsetsOf(S) /\ T # {}
  <2>1. ASSUME NEW e \in S PROVE later(e) \in FiniteSubsetsOf(S)
    <3>1. later(e) \in SUBSET S
      OBVIOUS
    <3>2. IsFiniteSet(later(e))
      BY <1>0, <3>1, FS_Subset
    <3>3. QED
      BY <3>1, <3>2 DEF FiniteSubsetsOf
  <2>2. QED
    BY <2>1
<1>2. PICK x \in T : \A y \in T : ~ (<<y, x>> \in StrictSubsetOrdering(S))
  BY <1>0, <1>1, WFMin, FS_StrictSubsetOrderingWellFounded
<1>3. PICK e \in S : x = later(e)
  OBVIOUS
<1>4. ASSUME NEW f \in S PROVE e >= f
  <2> SUFFICES ASSUME f > e PROVE FALSE
    BY <1>0
  <2>0. e \in Nat /\ f \in Nat /\ ~(f > f)
    BY <1>0
  <2>1. later(f) \subseteq later(e) /\ f \in later(e) /\ f \notin later(f)
    <3>1. ASSUME NEW g \in S, g > f PROVE g > e
      BY <1>0, <2>0, <3>1
    <3>2. QED
      BY <2>0, <3>1
  <2>2. <<later(f), later(e)>> \in StrictSubsetOrdering(S)
    BY <2>1 DEF StrictSubsetOrdering
  <2>3. later(f) \in T
    OBVIOUS
  <2>4. QED
    BY <1>2, <1>3, <2>2, <2>3
<1>5. QED
  BY <1>4 DEF Reflect!Max

\* _slot_observations: a belief is grounded in the memories that were read.
LEMMA BeliefsGrounded ==
  ASSUME ReflectConstants, facts \subseteq Facts, NEW read \in SUBSET facts,
         NEW b \in Reflect!Beliefs(read)
  PROVE  /\ Grounded(b) /\ b = [summary |-> b.summary, evidence |-> b.evidence, stale |-> b.stale]
         /\ b \in [summary : Facts, evidence : SUBSET Facts, stale : BOOLEAN]
<1>1. PICK i \in read : b = [summary  |-> Reflect!Max(Reflect!WithValue(read, SlotOf[i], ValueOf[i])),
                evidence |-> Reflect!WithValue(read, SlotOf[i], ValueOf[i]),
                stale |-> Reflect!Max(Reflect!WithValue(read, SlotOf[i], ValueOf[i]))
                            # Reflect!Max(Reflect!InSlot(read, SlotOf[i]))]
  BY DEF Reflect!Beliefs
<1>2. PICK E : E = Reflect!WithValue(read, SlotOf[i], ValueOf[i])
  OBVIOUS
<1>3. E \in SUBSET facts /\ i \in E /\ \A j \in E : SlotOf[j] = SlotOf[i] /\ ValueOf[j] = ValueOf[i]
  BY <1>2 DEF Reflect!WithValue, Reflect!InSlot
<1>4. Reflect!Max(E) \in E
  BY <1>3, LatestFact
<1>5. b.summary = Reflect!Max(E) /\ b.evidence = E /\ b.stale \in BOOLEAN
      /\ b = [summary |-> b.summary, evidence |-> b.evidence, stale |-> b.stale]
  BY <1>1, <1>2
<1>6. Grounded(b)
  BY <1>3, <1>4, <1>5 DEF Grounded
<1>7. QED
  BY <1>3, <1>4, <1>5, <1>6

\* A value that is not the latest one of its slot makes a stale belief.
LEMMA OutdatedIsStale ==
  ASSUME ReflectConstants, facts \subseteq Facts, NEW i \in facts,
         ValueOf[i] # ValueOf[Reflect!Max(Reflect!InSlot(facts, SlotOf[i]))]
  PROVE  \E b \in Reflect!Beliefs(facts) :
            b.stale /\ b.evidence = Reflect!WithValue(facts, SlotOf[i], ValueOf[i])
<1> DEFINE S == Reflect!InSlot(facts, SlotOf[i])
           E == Reflect!WithValue(facts, SlotOf[i], ValueOf[i])
           m == Reflect!Max(S)
<1>1. S \in SUBSET Facts /\ i \in S /\ E \in SUBSET Facts /\ i \in E /\ \A j \in E : ValueOf[j] = ValueOf[i]
  BY DEF Reflect!InSlot, Reflect!WithValue
<1>2. m \in S /\ m # i /\ Reflect!Max(E) \in E
  BY <1>1, LatestFact
<1>3. Reflect!Max(E) # m
  BY <1>1, <1>2
<1>4. Reflect!Cardinality(S) > 1
  <2>1. {i, m} \subseteq S /\ IsFiniteSet(S)
    BY <1>1, <1>2, FS_Subset DEF ReflectConstants
  <2>2. Cardinality({i, m}) = 2
    <3>1. IsFiniteSet({i}) /\ Cardinality({i}) = 1
      BY FS_Singleton
    <3>2. {i, m} = {i} \cup {m} /\ m \notin {i}
      BY <1>2
    <3>3. Cardinality({i} \cup {m}) = Cardinality({i}) + 1
      BY <3>1, <3>2, FS_AddElement
    <3>4. QED
      BY <3>1, <3>2, <3>3
  <2>3. Cardinality({i, m}) <= Cardinality(S) /\ Cardinality(S) \in Nat
    BY <2>1, FS_Subset, FS_CardinalityType
  <2>4. QED
    BY <2>2, <2>3, SameCount
<1> DEFINE b == [summary |-> Reflect!Max(E), evidence |-> E, stale |-> Reflect!Max(E) # m]
<1>5. b \in Reflect!Beliefs(facts)
  BY <1>4 DEF Reflect!Beliefs
<1>6. b.stale /\ b.evidence = E
  BY <1>3
<1>7. QED
  BY <1>5, <1>6

\* A call whose reads and debts are as before is as sound as before: no
\* observation is ever taken off the record.
LEMMA OthersOwe ==
  ASSUME NEW r \in Reflectors, CallOwes(r), reflection'[r] = reflection[r],
         observations \subseteq observations'
  PROVE  CallOwes(r)'
BY DEF CallOwes, OnRecord

\* What is grounded stays so while memories are added.
LEMMA GroundedStays ==
  ASSUME NEW o, Grounded(o), facts \subseteq facts'
  PROVE  Grounded(o)'
BY DEF Grounded

\* One call moves, and neither memories nor observations change.
LEMMA ReflectionMoves ==
  ASSUME ReflectInv, NEW r \in Reflectors, NEW q \in Reflecting,
         reflection' = [reflection EXCEPT ![r] = q],
         CallOwes(r)', UNCHANGED <<facts, observations, audited>>
  PROVE  ReflectInv'
<1>0. reflection \in [Reflectors -> Reflecting]
  BY DEF ReflectInv, ReflectTypes
<1>1. ReflectTypes'
  BY <1>0 DEF ReflectInv, ReflectTypes, Reflecting
<1>2. \A o \in observations' : (Grounded(o) /\ OfKey(o))'
  BY DEF ReflectInv, Grounded, OfKey
<1>3. ASSUME NEW t \in Reflectors PROVE CallOwes(t)'
  BY <1>0, OthersOwe DEF ReflectInv
<1>4. QED
  BY <1>1, <1>2, <1>3 DEF ReflectInv

\* A memory commits, whatever calls are under way.
LEMMA ReflectRemember ==
  ASSUME ReflectInv, NEW i \in Facts, Reflect!Remember(i)
  PROVE  ReflectInv'
<1>0. facts' = facts \cup {i} /\ UNCHANGED <<observations, audited, reflection>>
  BY DEF Reflect!Remember
<1>1. ReflectTypes'
  BY <1>0 DEF ReflectInv, ReflectTypes, Reflecting
<1>2. ASSUME NEW o \in observations' PROVE (Grounded(o) /\ OfKey(o))'
  BY <1>0, GroundedStays DEF ReflectInv, OfKey
<1>3. ASSUME NEW t \in Reflectors PROVE CallOwes(t)'
  BY <1>0, OthersOwe DEF ReflectInv
<1>4. QED
  BY <1>1, <1>2, <1>3 DEF ReflectInv

\* list_memories
LEMMA ReflectReadFacts ==
  ASSUME ReflectInv, NEW r \in Reflectors, Reflect!ReadFacts(r)
  PROVE  ReflectInv'
<1>0. reflection \in [Reflectors -> Reflecting]
  BY DEF ReflectInv, ReflectTypes
<1> DEFINE q == [Reflect!Idle EXCEPT !.pc = "read", !.read = facts]
<1>1. q \in Reflecting /\ q.pc = "read" /\ q.todo = {}
  BY DEF Reflect!Idle, Reflecting
<1>2. reflection' = [reflection EXCEPT ![r] = q] /\ UNCHANGED <<facts, observations, audited>>
  BY DEF Reflect!ReadFacts
<1> HIDE DEF q
<1>3. CallOwes(r)'
  BY <1>0, <1>1, <1>2 DEF CallOwes
<1>4. QED
  BY <1>1, <1>2, <1>3, ReflectionMoves

\* Beliefs already on record are left out.
LEMMA ReflectReadObservations ==
  ASSUME ReflectConstants, ReflectInv, NEW r \in Reflectors, Reflect!ReadObservations(r)
  PROVE  ReflectInv'
<1>0. reflection \in [Reflectors -> Reflecting] /\ facts \subseteq Facts
  BY DEF ReflectInv, ReflectTypes
<1>1. PICK read : read = reflection[r].read
  OBVIOUS
<1>2. PICK known : known = {Reflect!ObservationKey(o) : o \in observations}
  OBVIOUS
<1>3. PICK todo : todo = {o \in Reflect!Beliefs(read) : Reflect!ObservationKey(o) \notin known}
  OBVIOUS
<1>4. read \in SUBSET facts
  BY <1>0, <1>1 DEF Reflecting
<1>5. todo \subseteq [summary : Facts, evidence : SUBSET Facts, stale : BOOLEAN]
  BY <1>0, <1>3, <1>4, BeliefsGrounded
<1> DEFINE q == [reflection[r] EXCEPT !.pc = "save", !.todo = todo]
<1>6. q \in Reflecting /\ q.pc = "save" /\ q.read = read /\ q.todo = todo
  BY <1>0, <1>1, <1>5 DEF Reflecting
<1>7. reflection' = [reflection EXCEPT ![r] = q] /\ UNCHANGED <<facts, observations, audited>>
  BY <1>0, <1>1, <1>2, <1>3 DEF Reflect!ReadObservations, Reflecting
<1> HIDE DEF q
<1>8. ASSUME NEW b \in Reflect!Beliefs(read), b \notin todo PROVE OnRecord(b)
  <2>1. PICK o \in observations : Reflect!ObservationKey(o) = Reflect!ObservationKey(b)
    BY <1>2, <1>3, <1>8
  <2>2. o.id = Reflect!ObservationKey(o)
    BY DEF ReflectInv, OfKey
  <2>3. QED
    BY <2>1, <2>2 DEF OnRecord
<1>9. CallOwes(r)'
  BY <1>0, <1>3, <1>6, <1>7, <1>8 DEF CallOwes, OnRecord
<1>10. QED
  BY <1>6, <1>7, <1>9, ReflectionMoves

\* save: the observation, unless its id is there, with its audit event.
LEMMA ReflectSave ==
  ASSUME ReflectConstants, ReflectInv, NEW r \in Reflectors, NEW o \in reflection[r].todo,
         Reflect!SaveObservation(r, o)
  PROVE  ReflectInv'
<1>0. reflection \in [Reflectors -> Reflecting] /\ facts \subseteq Facts
      /\ audited = {x.id : x \in observations} /\ CallOwes(r)
  BY DEF ReflectInv, ReflectTypes
<1>1. PICK key : key = Reflect!ObservationKey(o)
  OBVIOUS
<1> DEFINE row == [id |-> key, summary |-> o.summary, evidence |-> o.evidence, stale |-> o.stale]
<1>2. Grounded(o)
  <2>1. o \in Reflect!Beliefs(reflection[r].read) /\ reflection[r].read \in SUBSET facts
    BY <1>0 DEF CallOwes, Reflecting
  <2>2. QED
    BY <1>0, <2>1, BeliefsGrounded
<1>3. row.id = key /\ Grounded(row) /\ OfKey(row)
  BY <1>1, <1>2 DEF Grounded, OfKey, Reflect!ObservationKey
<1>4. /\ observations' = IF \E x \in observations : x.id = key THEN observations
                         ELSE observations \cup {row}
      /\ audited' = audited \cup {key} /\ facts' = facts
  BY <1>1 DEF Reflect!SaveObservation, Reflect!ObservationId
<1> HIDE DEF row
<1>5. observations \subseteq observations' /\ \E x \in observations' : x.id = key
  BY <1>3, <1>4
<1>6. audited' = {x.id : x \in observations'}
  BY <1>0, <1>3, <1>4
<1>7. ASSUME NEW x \in observations' PROVE (Grounded(x) /\ OfKey(x))'
  <2>1. Grounded(x) /\ OfKey(x)
    BY <1>3, <1>4 DEF ReflectInv
  <2>2. QED
    BY <2>1, <1>4, GroundedStays DEF OfKey
<1> DEFINE q == [reflection[r] EXCEPT !.todo = @ \ {o}]
<1>8. /\ q \in Reflecting /\ q.pc = reflection[r].pc /\ q.read = reflection[r].read
      /\ q.todo = reflection[r].todo \ {o}
  BY <1>0 DEF Reflecting
<1>9. reflection' = [reflection EXCEPT ![r] = q]
  BY <1>0 DEF Reflect!SaveObservation, Reflecting
<1> HIDE DEF q
<1>10. ReflectTypes'
  BY <1>0, <1>4, <1>6, <1>8, <1>9 DEF ReflectTypes, Reflecting
<1>11. CallOwes(r)'
  <2>1. reflection'[r] = q /\ q.pc = "save"
    BY <1>0, <1>8, <1>9 DEF Reflect!SaveObservation
  <2>2. ASSUME NEW b \in Reflect!Beliefs(q.read) PROVE b \in q.todo \/ OnRecord(b)'
    BY <1>0, <1>1, <1>5, <1>8, <2>1, <2>2 DEF CallOwes, OnRecord
  <2>3. QED
    BY <1>0, <1>8, <2>1, <2>2 DEF CallOwes, OnRecord
<1>12. ASSUME NEW t \in Reflectors PROVE CallOwes(t)'
  BY <1>0, <1>5, <1>9, <1>11, OthersOwe DEF ReflectInv
<1>13. QED
  BY <1>7, <1>10, <1>12 DEF ReflectInv

\* A call ends, or fails and forgets what it read.
LEMMA ReflectEnds ==
  ASSUME ReflectInv, NEW r \in Reflectors, Reflect!ReflectDone(r) \/ Reflect!ReflectFails(r)
  PROVE  ReflectInv'
<1>0. reflection \in [Reflectors -> Reflecting] /\ CallOwes(r)
  BY DEF ReflectInv, ReflectTypes
<1>1. CASE Reflect!ReflectDone(r)
  <2> DEFINE q == [reflection[r] EXCEPT !.pc = "done"]
  <2>1. /\ q \in Reflecting /\ q.pc = "done" /\ q.read = reflection[r].read
        /\ q.todo = reflection[r].todo
    BY <1>0 DEF Reflecting
  <2>2. reflection' = [reflection EXCEPT ![r] = q] /\ UNCHANGED <<facts, observations, audited>>
        /\ reflection[r].pc = "save" /\ reflection[r].todo = {}
    BY <1>1 DEF Reflect!ReflectDone
  <2> HIDE DEF q
  <2>3. CallOwes(r)'
    BY <1>0, <2>1, <2>2 DEF CallOwes, OnRecord
  <2>4. QED
    BY <2>1, <2>2, <2>3, ReflectionMoves
<1>2. CASE Reflect!ReflectFails(r)
  <2>1. Reflect!Idle \in Reflecting /\ Reflect!Idle.pc = "idle" /\ Reflect!Idle.todo = {}
    BY DEF Reflect!Idle, Reflecting
  <2>2. reflection' = [reflection EXCEPT ![r] = Reflect!Idle]
        /\ UNCHANGED <<facts, observations, audited>>
    BY <1>2 DEF Reflect!ReflectFails
  <2>3. CallOwes(r)'
    BY <1>0, <2>1, <2>2 DEF CallOwes
  <2>4. QED
    BY <2>1, <2>2, <2>3, ReflectionMoves
<1>3. QED
  BY <1>1, <1>2

\* Reflection (reflect, PostgresMemoryLedger.save): for any memories, slots, values
\* and overlapping calls, no belief is recorded twice; when a call has ended and
\* nothing was remembered since it began, every belief is on record, and an
\* outdated value that is still called active is answered by a stale observation
\* with all its evidence.
THEOREM BeliefsAreRecorded ==
  ReflectConstants => (Reflect!Spec => [](Reflect!TypeOK /\ Reflect!BeliefsOnRecord))
<1> SUFFICES ASSUME ReflectConstants
             PROVE  Reflect!Spec => [](Reflect!TypeOK /\ Reflect!BeliefsOnRecord)
  OBVIOUS
<1>1. Reflect!Init => ReflectInv
  BY DEF Reflect!Init, Reflect!Idle, ReflectInv, ReflectTypes, Reflecting, CallOwes
<1>2. ReflectInv /\ [Reflect!Next]_Reflect!vars => ReflectInv'
  <2> SUFFICES ASSUME ReflectInv, [Reflect!Next]_Reflect!vars PROVE ReflectInv'
    OBVIOUS
  <2>1. CASE UNCHANGED Reflect!vars
    BY <2>1 DEF Reflect!vars, ReflectInv, ReflectTypes, Reflecting, CallOwes, Grounded, OfKey, OnRecord
  <2>2. CASE Reflect!Next
    BY <2>2, ReflectRemember, ReflectReadFacts, ReflectReadObservations, ReflectSave, ReflectEnds
       DEF Reflect!Next
  <2>3. QED
    BY <2>1, <2>2
<1>3. ReflectInv => Reflect!TypeOK
  <2> SUFFICES ASSUME ReflectInv PROVE Reflect!TypeOK
    OBVIOUS
  <2>1. ASSUME NEW o \in observations PROVE o.evidence \subseteq facts /\ o.stale \in BOOLEAN
    BY DEF ReflectInv, Grounded
  <2>2. QED
    BY <2>1 DEF ReflectInv, ReflectTypes, Reflecting, Reflect!TypeOK
<1>4. ReflectInv => Reflect!BeliefsOnRecord
  <2> SUFFICES ASSUME ReflectInv PROVE Reflect!BeliefsOnRecord
    OBVIOUS
  <2>0. facts \subseteq Facts /\ \A o \in observations : Grounded(o) /\ OfKey(o)
    BY DEF ReflectInv, ReflectTypes
  <2>1. ASSUME NEW o \in observations, NEW x \in observations,
               o.evidence = x.evidence, o.stale = x.stale
        PROVE  o = x
    <3>1. o.summary = x.summary
      BY <2>0, <2>1 DEF Grounded
    <3>2. Reflect!ObservationKey(o) = Reflect!ObservationKey(x)
      BY <2>1, <3>1 DEF Reflect!ObservationKey
    <3>3. QED
      BY <2>0, <2>1, <3>1, <3>2 DEF OfKey
  <2>2. ASSUME NEW r \in Reflectors, reflection[r].pc = "done", reflection[r].read = facts,
               NEW b \in Reflect!Beliefs(facts)
        PROVE  \E o \in observations : o.evidence = b.evidence /\ o.stale = b.stale
    <3>1. PICK o \in observations : o.id = Reflect!ObservationKey(b)
      BY <2>2 DEF ReflectInv, CallOwes, OnRecord
    <3>2. Reflect!ObservationKey(o) = Reflect!ObservationKey(b)
      BY <2>0, <3>1 DEF OfKey
    <3>3. QED
      BY <3>2 DEF Reflect!ObservationKey
  <2>3. ASSUME NEW r \in Reflectors, reflection[r].pc = "done", reflection[r].read = facts,
               NEW o \in observations, ~o.stale,
               ValueOf[o.summary] # ValueOf[Reflect!Max(Reflect!InSlot(facts, SlotOf[o.summary]))]
        PROVE  \E x \in observations : x.stale /\ o.evidence \subseteq x.evidence
    <3>1. Grounded(o) /\ o.summary \in facts
      BY <2>0 DEF Grounded
    <3>2. PICK b \in Reflect!Beliefs(facts) :
            b.stale /\ b.evidence = Reflect!WithValue(facts, SlotOf[o.summary], ValueOf[o.summary])
      BY <2>0, <2>3, <3>1, OutdatedIsStale
    <3>3. o.evidence \subseteq b.evidence
      BY <3>1, <3>2 DEF Grounded, Reflect!WithValue, Reflect!InSlot
    <3>4. PICK x \in observations : x.evidence = b.evidence /\ x.stale = b.stale
      BY <2>2, <2>3
    <3>5. QED
      BY <3>2, <3>3, <3>4
  <2>4. QED
    BY <2>1, <2>2, <2>3 DEF Reflect!BeliefsOnRecord
<1>5. QED
  BY <1>1, <1>2, <1>3, <1>4, PTL DEF Reflect!Spec

-----------------------------------------------------------------------------
(* The vault.  Every write is a compare-and-set on the head, answered by   *)
(* its idempotency key when it is repeated: the invariant says what an     *)
(* item named by a key is, since a repeated request is told of it however  *)
(* many revisions have followed.                                           *)

VaultKinds == {"import", "archive", "patch"}
VaultActions == {"none", "skip", "unchanged", "error", "conflict"} \cup VaultKinds
NoteStates == {"none", "active", "archived", "superseded"}

\* The chain is a sequence of items, each replacing the one before it.
ChainSound ==
    /\ Len(chain) \in 1..MaxRev /\ chain = [i \in 1..Len(chain) |-> chain[i]]
    /\ \A i \in 1..Len(chain) : chain[i].status \in {"active", "archived"} /\ chain[i].base = i - 1
    /\ \A i \in 2..Len(chain) : chain[i - 1].status = "archived" => chain[i].status = "archived"

\* What a change made of an item.
MadeBy(kind, item, text, new) ==
    /\ new \in 1..Len(chain) /\ chain[new].base = item
    /\ kind = "patch" => chain[new].text = text
    /\ kind = "archive" => chain[new].status = "archived"

\* A used key names the item its change made.
KeysSound ==
    \A k \in DOMAIN keys :
        /\ k = <<k[1], k[2], k[3]>> /\ k[1] \in VaultKinds
        /\ MadeBy(k[1], k[2], k[3], keys[k])

NoteSound(n) ==
    /\ n = [item |-> n.item, status |-> n.status, body |-> n.body]
    /\ n.item \in 0..Len(chain) /\ n.status \in NoteStates
    /\ n # Vault!NoNote => n.item # 0

RequestSound(r) ==
    \/ r = Vault!NoRequest
    \/ r.kind \in VaultKinds /\ r.item \in 1..Len(chain)

ReplySound(o) ==
    /\ o.action \in VaultActions /\ o.item \in 0..Len(chain) /\ o.new \in 0..Len(chain)
    /\ o.action \in VaultKinds => MadeBy(o.action, o.item, o.text, o.new)
    /\ o.created => o.action \in VaultKinds /\ chain[o.new].text = o.text

EditorSound(e) == NoteSound(note[e]) /\ RequestSound(request[e]) /\ ReplySound(outcome[e])

VaultInv ==
    /\ ChainSound /\ KeysSound
    /\ note = [e \in Editors |-> note[e]] /\ request = [e \in Editors |-> request[e]]
    /\ outcome = [e \in Editors |-> outcome[e]]
    /\ \A e \in Editors : EditorSound(e)

LEMMA NothingIsSound ==
  ASSUME ChainSound
  PROVE  /\ NoteSound(Vault!NoNote) /\ RequestSound(Vault!NoRequest) /\ ReplySound(Vault!NoOutcome)
         /\ \A a \in VaultActions \ VaultKinds : ReplySound([Vault!NoOutcome EXCEPT !.action = a])
<1>1. Len(chain) \in Nat
  BY DEF ChainSound
<1>2. NoteSound(Vault!NoNote) /\ RequestSound(Vault!NoRequest)
  BY <1>1 DEF NoteSound, RequestSound, Vault!NoNote, NoteStates
<1>3. ReplySound(Vault!NoOutcome)
  BY <1>1 DEF ReplySound, Vault!NoOutcome, VaultActions, VaultKinds
<1>4. ASSUME NEW a \in VaultActions \ VaultKinds
      PROVE  ReplySound([Vault!NoOutcome EXCEPT !.action = a])
  BY <1>1, <1>4 DEF ReplySound, Vault!NoOutcome, VaultActions, VaultKinds
<1>5. QED
  BY <1>2, <1>3, <1>4

\* One editor moves and the chain does not.
LEMMA EditorMoves ==
  ASSUME VaultInv, NEW e \in Editors, UNCHANGED <<chain, keys>>,
         NEW n, NoteSound(n), note' = [note EXCEPT ![e] = n],
         NEW r, RequestSound(r), request' = [request EXCEPT ![e] = r],
         NEW o, ReplySound(o), outcome' = [outcome EXCEPT ![e] = o]
  PROVE  VaultInv'
<1>1. ChainSound' /\ KeysSound'
  BY DEF VaultInv, ChainSound, KeysSound, MadeBy
<1>2. /\ note' = [d \in Editors |-> note'[d]] /\ request' = [d \in Editors |-> request'[d]]
      /\ outcome' = [d \in Editors |-> outcome'[d]]
  BY DEF VaultInv
<1>3. ASSUME NEW d \in Editors PROVE EditorSound(d)'
  <2>1. PICK n1, r1, o1 : n1 = note'[d] /\ r1 = request'[d] /\ o1 = outcome'[d]
    OBVIOUS
  <2>2. NoteSound(n1) /\ RequestSound(r1) /\ ReplySound(o1)
    BY <2>1 DEF VaultInv, EditorSound
  <2>3. QED
    BY <2>1, <2>2 DEF EditorSound, NoteSound, RequestSound, ReplySound, MadeBy
<1>4. QED
  BY <1>1, <1>2, <1>3 DEF VaultInv

\* An editor that does not move.
LEMMA EditorWaits ==
  ASSUME VaultInv, NEW e \in Editors
  PROVE  /\ note = [note EXCEPT ![e] = note[e]] /\ request = [request EXCEPT ![e] = request[e]]
         /\ outcome = [outcome EXCEPT ![e] = outcome[e]]
         /\ NoteSound(note[e]) /\ RequestSound(request[e]) /\ ReplySound(outcome[e])
BY DEF VaultInv, EditorSound

\* What was said of the chain stays true while it grows.
LEMMA GrowthKeeps ==
  ASSUME VaultConstants, VaultInv, NEW item,
         Len(chain) < MaxRev, chain' = Append(chain, item),
         item.status \in {"active", "archived"}, item.base = Len(chain),
         chain[Len(chain)].status = "archived" => item.status = "archived"
  PROVE  /\ ChainSound' /\ Len(chain') = Len(chain) + 1 /\ chain'[Len(chain) + 1] = item
         /\ \A i \in 1..Len(chain) : chain'[i] = chain[i]
         /\ \A kind, i, text, new : MadeBy(kind, i, text, new) => MadeBy(kind, i, text, new)'
         /\ \A o : ReplySound(o) => ReplySound(o)'
<1>1. PICK n : n = Len(chain)
  OBVIOUS
<1>2. n \in Nat /\ n \in 1..MaxRev /\ n < MaxRev /\ MaxRev \in Nat
  BY <1>1 DEF VaultInv, ChainSound, VaultConstants
<1>3. PICK S : S = {chain[i] : i \in 1..n} \cup {item}
  OBVIOUS
<1>4. chain \in Seq(S) /\ item \in S
  <2>1. chain \in [1..n -> S]
    BY <1>1, <1>3 DEF VaultInv, ChainSound
  <2>2. chain \in Seq(S)
    BY <1>2, <2>1
  <2>3. QED
    BY <1>3, <2>2
<1>5. /\ Len(chain') = n + 1 /\ chain'[n + 1] = item
      /\ \A i \in 1..n : chain'[i] = chain[i]
      /\ chain' = [i \in 1..(n + 1) |-> chain'[i]]
  <2>1. chain' \in Seq(S) /\ Len(chain') = n + 1 /\ chain'[n + 1] = item
        /\ \A i \in 1..n : chain'[i] = chain[i]
    BY <1>1, <1>2, <1>4, AppendProperties
  <2>2. chain' \in [1..(n + 1) -> S]
    BY <2>1, LenProperties
  <2>3. QED
    BY <2>1, <2>2
<1>6. ChainSound'
  <2>1. ASSUME NEW i \in 1..(n + 1)
        PROVE  chain'[i].status \in {"active", "archived"} /\ chain'[i].base = i - 1
    BY <1>1, <1>2, <1>5 DEF VaultInv, ChainSound
  <2>2. ASSUME NEW i \in 2..(n + 1), chain'[i - 1].status = "archived"
        PROVE  chain'[i].status = "archived"
    <3>1. CASE i = n + 1
      BY <1>1, <1>2, <1>5, <2>2, <3>1
    <3>2. CASE i # n + 1
      <4>1. i \in 2..n /\ i - 1 \in 1..n /\ i \in 1..n
        BY <1>2, <3>2
      <4>2. QED
        BY <1>1, <1>5, <2>2, <4>1 DEF VaultInv, ChainSound
    <3>3. QED
      BY <3>1, <3>2
  <2>3. QED
    BY <1>2, <1>5, <2>1, <2>2 DEF ChainSound
<1>7. ASSUME NEW kind, NEW i, NEW text, NEW new, MadeBy(kind, i, text, new)
      PROVE  MadeBy(kind, i, text, new)'
  BY <1>1, <1>2, <1>5, <1>7 DEF MadeBy
<1>8. ASSUME NEW o, ReplySound(o) PROVE ReplySound(o)'
  <2>1. o.action \in VaultActions /\ o.item \in 0..(n + 1) /\ o.new \in 0..(n + 1)
    BY <1>1, <1>2, <1>8 DEF ReplySound
  <2>2. ASSUME o.action \in VaultKinds PROVE MadeBy(o.action, o.item, o.text, o.new)'
    BY <1>7, <1>8, <2>2 DEF ReplySound
  <2>3. ASSUME o.created PROVE o.action \in VaultKinds /\ chain'[o.new].text = o.text
    BY <1>1, <1>5, <1>8, <2>3 DEF ReplySound, MadeBy
  <2>4. QED
    BY <1>5, <2>1, <2>2, <2>3 DEF ReplySound
<1>9. QED
  BY <1>1, <1>5, <1>6, <1>7, <1>8

\* The export of an item, its edit offline, and requests that are given up.
LEMMA VaultExport ==
  ASSUME VaultInv, NEW e \in Editors, NEW i \in 1..Vault!Latest, Vault!Export(e, i)
  PROVE  VaultInv'
<1>1. PICK n : n = [item |-> i, status |-> Vault!ExportedStatus(i), body |-> chain[i].text]
  OBVIOUS
<1>2. Len(chain) \in Nat /\ i \in 1..Len(chain) /\ chain[i].status \in {"active", "archived"}
  BY DEF VaultInv, ChainSound, Vault!Latest
<1>3. NoteSound(n)
  BY <1>1, <1>2 DEF NoteSound, NoteStates, Vault!ExportedStatus
<1>4. QED
  BY <1>1, <1>3, EditorMoves, EditorWaits, NothingIsSound DEF Vault!Export, VaultInv

LEMMA VaultEdit ==
  ASSUME VaultInv, NEW e \in Editors, NEW t \in Texts, Vault!Edit(e, t)
  PROVE  VaultInv'
<1>1. PICK n : n = [note[e] EXCEPT !.body = t]
  OBVIOUS
<1>2. NoteSound(note[e]) /\ note[e] # Vault!NoNote
  BY EditorWaits DEF Vault!Edit
<1>3. NoteSound(n)
  BY <1>1, <1>2 DEF NoteSound
<1>4. note' = [note EXCEPT ![e] = n] /\ UNCHANGED <<chain, keys, request, outcome>>
  BY <1>1 DEF Vault!Edit
<1>5. QED
  BY <1>3, <1>4, EditorMoves, EditorWaits

LEMMA VaultAbort ==
  ASSUME VaultInv, NEW e \in Editors, Vault!Abort(e)
  PROVE  VaultInv'
BY EditorMoves, EditorWaits, NothingIsSound DEF Vault!Abort, VaultInv

\* _plan_file_import and the archive of a file, whatever they decide.
LEMMA VaultPlan ==
  ASSUME VaultInv, NEW e \in Editors, NEW kind \in VaultKinds,
         NEW action \in (VaultActions \ VaultKinds) \cup {kind}, Vault!Plan(e, action, kind)
  PROVE  VaultInv'
<1>1. NoteSound(note[e]) /\ note[e] # Vault!NoNote /\ ChainSound
  BY EditorWaits DEF Vault!Plan, VaultInv
<1>2. UNCHANGED <<chain, keys>> /\ note' = [note EXCEPT ![e] = Vault!NoNote]
  BY DEF Vault!Plan
<1>3. CASE action = kind
  <2>1. PICK r : r = [kind |-> kind, item |-> note[e].item, text |-> Vault!ParsedBody(note[e].body)]
    OBVIOUS
  <2>2. RequestSound(r)
    BY <1>1, <2>1 DEF RequestSound, NoteSound, ChainSound
  <2>3. request' = [request EXCEPT ![e] = r] /\ outcome' = [outcome EXCEPT ![e] = Vault!NoOutcome]
    BY <1>3, <2>1 DEF Vault!Plan
  <2>4. QED
    BY <1>1, <1>2, <2>2, <2>3, EditorMoves, NothingIsSound
<1>4. CASE action # kind
  <2>1. action \in VaultActions \ VaultKinds
    BY <1>4
  <2>2. PICK o : o = [Vault!NoOutcome EXCEPT !.action = action]
    OBVIOUS
  <2>3. ReplySound(o)
    BY <1>1, <2>1, <2>2, NothingIsSound
  <2>4. UNCHANGED request /\ outcome' = [outcome EXCEPT ![e] = o]
    BY <1>4, <2>2 DEF Vault!Plan, Vault!Told
  <2>5. QED
    BY <1>1, <1>2, <2>3, <2>4, EditorMoves, EditorWaits, NothingIsSound
<1>5. QED
  BY <1>3, <1>4

LEMMA VaultPlanPatch ==
  ASSUME VaultInv, NEW e \in Editors, NEW i \in 1..Vault!Latest, NEW t \in Texts,
         Vault!PlanPatch(e, i, t)
  PROVE  VaultInv'
<1>1. PICK r : r = [kind |-> "patch", item |-> i, text |-> Vault!Sanitized(t)]
  OBVIOUS
<1>2. RequestSound(r)
  BY <1>1 DEF RequestSound, VaultKinds, Vault!Latest
<1>3. QED
  BY <1>1, <1>2, EditorMoves, NothingIsSound DEF Vault!PlanPatch, VaultInv

\* The reply arrives, or the request is sent again.
LEMMA VaultReplied ==
  ASSUME VaultInv, NEW e \in Editors, NEW o, ReplySound(o), Vault!Replied(e, o),
         UNCHANGED <<chain, keys, note>>
  PROVE  VaultInv'
BY EditorMoves, EditorWaits, NothingIsSound DEF Vault!Replied, VaultInv

\* An agent supersedes the head.
LEMMA VaultAgent ==
  ASSUME VaultConstants, VaultInv, NEW t \in Texts, Vault!AgentSupersede(t)
  PROVE  VaultInv'
<1>1. PICK item : item = [text |-> t, status |-> chain[Len(chain)].status, base |-> Len(chain)]
  OBVIOUS
<1>2. item.status \in {"active", "archived"} /\ item.base = Len(chain)
      /\ item.status = chain[Len(chain)].status
  BY <1>1 DEF VaultInv, ChainSound
<1>3. chain' = Append(chain, item) /\ Len(chain) < MaxRev /\ UNCHANGED <<keys, note, request, outcome>>
  BY <1>1 DEF Vault!AgentSupersede, Vault!Latest
<1>4. /\ ChainSound' /\ Len(chain') = Len(chain) + 1 /\ Len(chain) \in Nat
      /\ \A kind, i, text, new : MadeBy(kind, i, text, new) => MadeBy(kind, i, text, new)'
      /\ \A o : ReplySound(o) => ReplySound(o)'
  BY <1>2, <1>3, GrowthKeeps DEF VaultInv, ChainSound
<1>5. KeysSound'
  BY <1>3, <1>4 DEF VaultInv, KeysSound
<1>6. ASSUME NEW d \in Editors PROVE EditorSound(d)'
  BY <1>3, <1>4, EditorWaits DEF EditorSound, NoteSound, RequestSound
<1>7. QED
  BY <1>3, <1>4, <1>5, <1>6 DEF VaultInv

\* The key of a request names its kind, its item and, for a patch, its text.
LEMMA KeyOfRequest ==
  ASSUME NEW r
  PROVE  LET k == Vault!KeyOf(r)
         IN  /\ k = <<k[1], k[2], k[3]>> /\ k[1] = r.kind /\ k[2] = r.item
             /\ r.kind = "patch" => k[3] = r.text
BY DEF Vault!KeyOf, Vault!PatchKey, Vault!ImportKey, Vault!Key

\* supersede_if_current with a new key, on the head.
LEMMA VaultReplaces ==
  ASSUME VaultConstants, VaultInv, NEW e \in Editors, NEW r, r = request[e],
         r # Vault!NoRequest, NEW k, k = Vault!KeyOf(r), k \notin DOMAIN keys,
         r.item = Len(chain), Len(chain) < MaxRev,
         chain' = Append(chain, [text |-> r.text, status |-> Vault!StatusAfter(r.item, r.kind),
                                 base |-> r.item]),
         keys' = [x \in DOMAIN keys \cup {k} |-> IF x = k THEN Len(chain) + 1 ELSE keys[x]],
         Vault!Replied(e, Vault!Made(r, Len(chain) + 1, TRUE)), UNCHANGED note
  PROVE  VaultInv'
<1>1. PICK n : n = Len(chain)
  OBVIOUS
<1>2. n \in Nat /\ n \in 1..n /\ r.kind \in VaultKinds
  <2>1. RequestSound(r) /\ ChainSound
    BY EditorWaits DEF VaultInv
  <2>2. QED
    BY <1>1, <2>1 DEF ChainSound, RequestSound
<1>3. PICK item : item = [text |-> r.text, status |-> Vault!StatusAfter(r.item, r.kind), base |-> r.item]
  OBVIOUS
<1>4. /\ item.text = r.text /\ item.base = n /\ item.status \in {"active", "archived"}
      /\ chain[n].status = "archived" => item.status = "archived"
      /\ r.kind = "archive" => item.status = "archived"
  BY <1>1, <1>2, <1>3 DEF Vault!StatusAfter, VaultInv, ChainSound
<1>5. /\ ChainSound' /\ Len(chain') = n + 1 /\ chain'[n + 1] = item
      /\ \A kind, i, text, new : MadeBy(kind, i, text, new) => MadeBy(kind, i, text, new)'
      /\ \A o : ReplySound(o) => ReplySound(o)'
  BY <1>1, <1>3, <1>4, GrowthKeeps
<1>6. \A text : (r.kind = "patch" => text = r.text) => MadeBy(r.kind, r.item, text, n + 1)'
  BY <1>1, <1>2, <1>4, <1>5 DEF MadeBy
<1>7. KeysSound'
  <2>1. ASSUME NEW x, NEW new, x \in DOMAIN keys', new = keys'[x]
        PROVE  /\ x = <<x[1], x[2], x[3]>> /\ x[1] \in VaultKinds
               /\ MadeBy(x[1], x[2], x[3], new)'
    <3>1. CASE x = k
      <4>1. /\ x = <<x[1], x[2], x[3]>> /\ x[1] = r.kind /\ x[2] = r.item
            /\ r.kind = "patch" => x[3] = r.text
        BY <3>1, KeyOfRequest
      <4>2. new = n + 1
        BY <1>1, <2>1, <3>1
      <4>3. MadeBy(r.kind, r.item, x[3], n + 1)'
        BY <1>6, <4>1
      <4>4. QED
        BY <1>2, <4>1, <4>2, <4>3
    <3>2. CASE x # k
      <4>1. x \in DOMAIN keys /\ new = keys[x]
        BY <2>1, <3>2
      <4>2. /\ x = <<x[1], x[2], x[3]>> /\ x[1] \in VaultKinds
            /\ MadeBy(x[1], x[2], x[3], new)
        BY <4>1 DEF VaultInv, KeysSound
      <4>3. QED
        BY <1>5, <4>2
    <3>3. QED
      BY <3>1, <3>2
  <2>2. ASSUME NEW x \in DOMAIN keys'
        PROVE  x = <<x[1], x[2], x[3]>> /\ x[1] \in VaultKinds /\ MadeBy(x[1], x[2], x[3], keys[x])'
    <3>1. PICK new : new = keys'[x]
      OBVIOUS
    <3>2. x = <<x[1], x[2], x[3]>> /\ x[1] \in VaultKinds /\ MadeBy(x[1], x[2], x[3], new)'
      BY <2>1, <2>2, <3>1
    <3>3. QED
      BY <3>1, <3>2 DEF MadeBy
  <2>3. QED
    BY <2>2 DEF KeysSound
<1>8. PICK o : o = Vault!Made(r, n + 1, TRUE)
  OBVIOUS
<1>9. ReplySound(o)'
  <2>1. /\ o.action = r.kind /\ o.item = n /\ o.new = n + 1 /\ o.text = r.text
    BY <1>1, <1>8 DEF Vault!Made
  <2>2. MadeBy(o.action, o.item, o.text, o.new)'
    BY <1>1, <1>6, <2>1
  <2>3. o.action \in VaultActions /\ o.item \in 0..(n + 1) /\ o.new \in 0..(n + 1)
    BY <1>2, <2>1 DEF VaultActions
  <2>4. QED
    BY <1>2, <1>4, <1>5, <2>1, <2>2, <2>3 DEF ReplySound
<1>10. \/ outcome' = [outcome EXCEPT ![e] = o] /\ request' = [request EXCEPT ![e] = Vault!NoRequest]
       \/ UNCHANGED <<outcome, request>>
  BY <1>1, <1>8 DEF Vault!Replied
<1>11. ASSUME NEW d \in Editors PROVE EditorSound(d)'
  <2>1. NoteSound(note[d]) /\ RequestSound(request[d]) /\ ReplySound(outcome[d])
    BY EditorWaits
  <2>2. NoteSound(note[d])'
    BY <1>1, <1>2, <1>5, <2>1 DEF NoteSound
  <2>3. PICK q, p : q = request'[d] /\ p = outcome'[d]
    OBVIOUS
  <2>4. RequestSound(q)'
    BY <1>1, <1>2, <1>5, <1>10, <2>1, <2>3 DEF RequestSound, VaultInv
  <2>5. ReplySound(p)'
    BY <1>5, <1>9, <1>10, <2>1, <2>3 DEF VaultInv
  <2>6. QED
    BY <2>2, <2>3, <2>4, <2>5 DEF EditorSound, RequestSound, ReplySound, MadeBy
<1>12. /\ note' = [d \in Editors |-> note'[d]] /\ request' = [d \in Editors |-> request'[d]]
       /\ outcome' = [d \in Editors |-> outcome'[d]]
  BY <1>10 DEF VaultInv
<1>13. QED
  BY <1>5, <1>7, <1>11, <1>12 DEF VaultInv

\* The request in flight is refused, answered by its key, in conflict, or applied.
LEMMA VaultApply ==
  ASSUME VaultConstants, VaultInv, NEW e \in Editors, Vault!Apply(e)
  PROVE  VaultInv'
<1>1. PICK r, k : r = request[e] /\ k = Vault!KeyOf(r)
  OBVIOUS
<1>2. r # Vault!NoRequest /\ RequestSound(r) /\ UNCHANGED note /\ ChainSound /\ Len(chain) \in Nat
  <2>1. r # Vault!NoRequest /\ UNCHANGED note
    BY <1>1 DEF Vault!Apply
  <2>2. RequestSound(r) /\ ChainSound
    BY <1>1, EditorWaits DEF VaultInv
  <2>3. QED
    BY <2>1, <2>2 DEF ChainSound
<1>3. CASE /\ UNCHANGED <<chain, keys>>
           /\ \/ Vault!Replied(e, [Vault!NoOutcome EXCEPT !.action = "error"])
              \/ Vault!Replied(e, [Vault!NoOutcome EXCEPT !.action = "conflict"])
  BY <1>2, <1>3, VaultReplied, NothingIsSound DEF VaultActions, VaultKinds
<1>4. CASE /\ UNCHANGED <<chain, keys>> /\ k \in DOMAIN keys
           /\ Vault!Replied(e, Vault!Made(r, keys[k], FALSE))
  <2>1. PICK o : o = Vault!Made(r, keys[k], FALSE)
    OBVIOUS
  <2>2. /\ o.action = r.kind /\ o.item = r.item /\ o.new = keys[k] /\ o.text = r.text
        /\ o.created = FALSE
    BY <2>1 DEF Vault!Made
  <2>3. MadeBy(k[1], k[2], k[3], keys[k])
    BY <1>4 DEF VaultInv, KeysSound
  <2>4. MadeBy(r.kind, r.item, r.text, keys[k])
    BY <1>1, <2>3, KeyOfRequest DEF MadeBy
  <2>5. ReplySound(o)
    BY <1>2, <2>2, <2>4 DEF ReplySound, RequestSound, VaultActions, MadeBy
  <2>6. QED
    BY <1>2, <1>4, <2>1, <2>5, VaultReplied
<1>5. CASE /\ k \notin DOMAIN keys /\ r.item = Len(chain) /\ Len(chain) < MaxRev
           /\ chain' = Append(chain, [text |-> r.text, status |-> Vault!StatusAfter(r.item, r.kind),
                                      base |-> r.item])
           /\ keys' = [x \in DOMAIN keys \cup {k} |-> IF x = k THEN Len(chain) + 1 ELSE keys[x]]
           /\ Vault!Replied(e, Vault!Made(r, Len(chain) + 1, TRUE))
  BY <1>1, <1>2, <1>5, VaultReplaces
<1>6. QED
  BY <1>1, <1>3, <1>4, <1>5 DEF Vault!Apply, Vault!IsHead, Vault!Latest

\* The vault (apply_import, archive_file, patch_memory, supersede_if_current): for
\* any editors, texts and number of revisions, every revision replaces the head of
\* its moment, an archived memory stays archived, and an editor told of a change
\* finds it in the item named, imports answered by an earlier one apart.
THEOREM VaultKeepsEdits ==
  VaultConstants => (Vault!Spec => [](Vault!TypeOK /\ Vault!VaultEditsKept))
<1> SUFFICES ASSUME VaultConstants PROVE Vault!Spec => [](Vault!TypeOK /\ Vault!VaultEditsKept)
  OBVIOUS
<1>1. Vault!Init => VaultInv
  <2> SUFFICES ASSUME Vault!Init PROVE VaultInv
    OBVIOUS
  <2>1. PICK item : item = [text |-> FirstText, status |-> "active", base |-> 0]
    OBVIOUS
  <2>2. chain = <<item>> /\ item.status = "active" /\ item.base = 0
    BY <2>1 DEF Vault!Init
  <2>3. Len(chain) = 1 /\ chain[1] = item /\ chain = [i \in 1..1 |-> chain[i]]
    BY <2>2
  <2>4. ChainSound
    BY <2>2, <2>3 DEF ChainSound, VaultConstants
  <2>5. KeysSound
    BY DEF Vault!Init, KeysSound
  <2>6. QED
    BY <2>4, <2>5, NothingIsSound DEF Vault!Init, VaultInv, EditorSound
<1>2. VaultInv /\ [Vault!Next]_Vault!vars => VaultInv'
  <2> SUFFICES ASSUME VaultInv, [Vault!Next]_Vault!vars PROVE VaultInv'
    OBVIOUS
  <2>1. CASE UNCHANGED Vault!vars
    BY <2>1 DEF Vault!vars, VaultInv, ChainSound, KeysSound, MadeBy, EditorSound, NoteSound,
       RequestSound, ReplySound
  <2>2. ASSUME NEW e \in Editors, Vault!PlanImport(e) PROVE VaultInv'
    <3>1. Vault!ImportAction(note[e]) \in (VaultActions \ VaultKinds) \cup {"import"}
      BY DEF Vault!ImportAction, VaultActions, VaultKinds
    <3>2. QED
      BY <2>2, <3>1, VaultPlan DEF Vault!PlanImport, VaultKinds
  <2>3. ASSUME NEW e \in Editors, Vault!PlanArchive(e) PROVE VaultInv'
    <3>1. Vault!ArchiveAction(note[e]) \in (VaultActions \ VaultKinds) \cup {"archive"}
      BY DEF Vault!ArchiveAction, VaultActions, VaultKinds
    <3>2. QED
      BY <2>3, <3>1, VaultPlan DEF Vault!PlanArchive, VaultKinds
  <2>4. CASE Vault!Next
    BY <2>2, <2>3, <2>4, VaultExport, VaultEdit, VaultApply, VaultAbort, VaultPlanPatch, VaultAgent
       DEF Vault!Next
  <2>5. QED
    BY <2>1, <2>4
<1>3. VaultInv => Vault!TypeOK
  <2> SUFFICES ASSUME VaultInv PROVE Vault!TypeOK
    OBVIOUS
  <2>1. PICK n : n = Len(chain)
    OBVIOUS
  <2>2. n \in Nat /\ n \in 1..MaxRev
        /\ \A i \in 1..n : chain[i].status \in {"active", "archived"} /\ chain[i].base \in 0..n
    BY <2>1 DEF VaultInv, ChainSound
  <2>3. \A k \in DOMAIN keys : k[1] \in VaultKinds /\ keys[k] \in 1..n
    BY <2>1 DEF VaultInv, KeysSound, MadeBy
  <2>4. ASSUME NEW e \in Editors
        PROVE  /\ note[e].item \in 0..n /\ note[e].status \in NoteStates
               /\ request[e].kind \in {"none"} \cup VaultKinds
               /\ {request[e].item, outcome[e].item, outcome[e].new} \subseteq 0..n
               /\ outcome[e].action \in VaultActions
    <3>1. NoteSound(note[e]) /\ RequestSound(request[e]) /\ ReplySound(outcome[e])
      BY EditorWaits
    <3>2. request[e].kind \in {"none"} \cup VaultKinds /\ request[e].item \in 0..n
      BY <2>1, <2>2, <3>1 DEF RequestSound, Vault!NoRequest
    <3>3. QED
      BY <2>1, <3>1, <3>2 DEF NoteSound, ReplySound
  <2>5. QED
    BY <2>1, <2>2, <2>3, <2>4 DEF Vault!TypeOK, Vault!Latest, Vault!Revs, VaultKinds, VaultActions,
       NoteStates
<1>4. VaultInv => Vault!VaultEditsKept
  <2> SUFFICES ASSUME VaultInv PROVE Vault!VaultEditsKept
    OBVIOUS
  <2>1. /\ Vault!Healthy
        /\ \A i \in 2..Vault!Latest : chain[i - 1].status = "archived" => chain[i].status = "archived"
    BY DEF VaultInv, ChainSound, Vault!Healthy, Vault!Latest
  <2>2. ASSUME NEW e \in Editors
        PROVE  LET o == outcome[e] IN
               /\ o.action \in {"import", "archive", "patch"} => chain[o.new].base = o.item
               /\ (o.action = "patch" \/ o.created) => chain[o.new].text = o.text
               /\ o.action = "archive" => chain[o.new].status = "archived"
    BY EditorWaits DEF ReplySound, MadeBy, VaultKinds
  <2>3. QED
    BY <2>1, <2>2 DEF Vault!VaultEditsKept
<1>5. QED
  BY <1>1, <1>2, <1>3, <1>4, PTL DEF Vault!Spec

-----------------------------------------------------------------------------
(* Ingestion.  A call is a walk through the places of a document, one      *)
(* chunk at each; where it goes next depends only on the document, the     *)
(* parser's version and the shape of the chunks.  A call that finished     *)
(* leaves behind a set of places that is closed under that walk and has    *)
(* all its chunks stored, and its repetition never leaves this set.        *)

\* Of the sets of a nonempty family of subsets of a finite set one is minimal.
LEMMA MinimalSet ==
  ASSUME NEW V, IsFiniteSet(V), NEW T, \A y \in T : y \subseteq V, T # {}
  PROVE  \E x \in T : \A y \in T : y \subseteq x => y = x
<1>1. T \subseteq FiniteSubsetsOf(V)
  BY FS_Subset DEF FiniteSubsetsOf
<1>2. PICK x \in T : \A y \in T : <<y, x>> \notin StrictSubsetOrdering(V)
  BY <1>1, WFMin, FS_StrictSubsetOrderingWellFounded
<1>3. ASSUME NEW y \in T, y \subseteq x, y # x PROVE FALSE
  <2>1. <<y, x>> \in StrictSubsetOrdering(V)
    BY <1>3 DEF StrictSubsetOrdering
  <2>2. QED
    BY <1>2, <2>1
<1>4. QED
  BY <1>3

\* A finite set of numbers has a greatest and a least one.
LEMMA GreatestAndLeast ==
  ASSUME NEW S \in SUBSET Int, IsFiniteSet(S), S # {}
  PROVE  (\E e \in S : \A f \in S : e >= f) /\ (\E e \in S : \A f \in S : e <= f)
<1>1. PICK V : V = S
  OBVIOUS
<1>2. IsFiniteSet(V) /\ V # {} /\ \A i \in V : i \in Int
  BY <1>1
<1>3. \E e \in V : \A f \in V : e >= f
  <2>1. PICK Up : Up = [i \in V |-> {j \in V : j >= i}]
    OBVIOUS
  <2>2. PICK T : T = {Up[i] : i \in V}
    OBVIOUS
  <2>3. PICK x \in T : \A y \in T : y \subseteq x => y = x
    <3>1. T # {} /\ \A y \in T : y \subseteq V
      BY <1>2, <2>1, <2>2
    <3>2. QED
      BY <1>2, <3>1, MinimalSet
  <2>4. PICK e \in V : x = Up[e]
    BY <2>2
  <2>5. ASSUME NEW f \in V, ~(e >= f) PROVE FALSE
    <3>1. Up[f] \subseteq Up[e] /\ e \in Up[e] /\ e \notin Up[f]
      BY <1>2, <2>1, <2>5
    <3>2. QED
      BY <2>2, <2>3, <2>4, <3>1
  <2>6. QED
    BY <2>5
<1>4. \E e \in V : \A f \in V : e <= f
  <2>1. PICK Down : Down = [i \in V |-> {j \in V : j <= i}]
    OBVIOUS
  <2>2. PICK T : T = {Down[i] : i \in V}
    OBVIOUS
  <2>3. PICK x \in T : \A y \in T : y \subseteq x => y = x
    <3>1. T # {} /\ \A y \in T : y \subseteq V
      BY <1>2, <2>1, <2>2
    <3>2. QED
      BY <1>2, <3>1, MinimalSet
  <2>4. PICK e \in V : x = Down[e]
    BY <2>2
  <2>5. ASSUME NEW f \in V, ~(e <= f) PROVE FALSE
    <3>1. Down[f] \subseteq Down[e] /\ e \in Down[e] /\ e \notin Down[f]
      BY <1>2, <2>1, <2>5
    <3>2. QED
      BY <2>2, <2>3, <2>4, <3>1
  <2>6. QED
    BY <2>5
<1>5. QED
  BY <1>1, <1>3, <1>4

\* Of an interval there are finitely many.
LEMMA FinitelyMany ==
  ASSUME NEW m \in Int, NEW n \in Int, NEW S \in SUBSET (m .. n)
  PROVE  IsFiniteSet(S) /\ S \in SUBSET Int
<1>1. PICK T : T = m .. n
  OBVIOUS
<1>2. IsFiniteSet(T)
  BY <1>1, FS_Interval
<1>3. ASSUME NEW U, NEW V, V \subseteq U, IsFiniteSet(U) PROVE IsFiniteSet(V)
  BY <1>3, FS_Subset
<1>4. IsFiniteSet(S)
  BY <1>1, <1>2, <1>3
<1>5. \A i \in S : i \in Int
  OBVIOUS
<1>6. QED
  BY <1>4, <1>5

\* The maximum of two numbers, and of the offsets a search found.
LEMMA IngestMax ==
  /\ \A m, n \in Int : /\ Ingesting!Max({m, n}) \in {m, n}
                       /\ Ingesting!Max({m, n}) >= m /\ Ingesting!Max({m, n}) >= n
  /\ \A S \in SUBSET Int : IsFiniteSet(S) /\ S # {} =>
        /\ Ingesting!Max(S) \in S /\ \A i \in S : Ingesting!Max(S) >= i
        /\ Ingesting!Min(S) \in S /\ \A i \in S : Ingesting!Min(S) <= i
<1>1. ASSUME NEW S \in SUBSET Int, IsFiniteSet(S), S # {}
      PROVE  /\ Ingesting!Max(S) \in S /\ \A i \in S : Ingesting!Max(S) >= i
             /\ Ingesting!Min(S) \in S /\ \A i \in S : Ingesting!Min(S) <= i
  <2>1. (\E e \in S : \A f \in S : e >= f) /\ (\E e \in S : \A f \in S : e <= f)
    BY <1>1, GreatestAndLeast
  <2>2. Ingesting!Max(S) \in S /\ \A i \in S : Ingesting!Max(S) >= i
    BY <2>1 DEF Ingesting!Max
  <2>3. Ingesting!Min(S) \in S /\ \A i \in S : Ingesting!Min(S) <= i
    BY <2>1 DEF Ingesting!Min
  <2>4. QED
    BY <2>2, <2>3
<1>2. ASSUME NEW m \in Int, NEW n \in Int
      PROVE  /\ Ingesting!Max({m, n}) \in {m, n}
             /\ Ingesting!Max({m, n}) >= m /\ Ingesting!Max({m, n}) >= n
  <2>1. \E x \in {m, n} : \A y \in {m, n} : x >= y
    <3>1. CASE m >= n
      BY <3>1
    <3>2. CASE ~(m >= n)
      BY <3>2
    <3>3. QED
      BY <3>1, <3>2
  <2>2. QED
    BY <2>1 DEF Ingesting!Max
<1>3. QED
  BY <1>1, <1>2

LEMMA RFindInside ==
  ASSUME NEW t, NEW a, NEW b, NEW lo \in Nat, NEW hi \in Nat
  PROVE  /\ Ingesting!RFind(t, a, b, lo, hi) \in Int
         /\ Ingesting!RFind(t, a, b, lo, hi) = -1 \/ Ingesting!RFind(t, a, b, lo, hi) + 2 <= hi
<1>1. PICK S : S = {-1} \cup {i \in lo .. hi - 2 : t[i + 1] = a /\ t[i + 2] = b}
  OBVIOUS
<1>2. S \subseteq -1 .. hi /\ S # {} /\ \A i \in S : i \in Int /\ (i = -1 \/ i + 2 <= hi)
  BY <1>1
<1>3. IsFiniteSet(S) /\ S \in SUBSET Int
  <2>1. PICK lowest \in Int : lowest = -1
    OBVIOUS
  <2>2. S \in SUBSET (lowest .. hi) /\ hi \in Int
    BY <1>2, <2>1
  <2>3. QED
    BY <2>2, FinitelyMany
<1>4. Ingesting!Max(S) \in S
  BY <1>2, <1>3, IngestMax
<1>5. QED
  BY <1>1, <1>2, <1>4 DEF Ingesting!RFind

\* A chunk goes forward, is no longer than its size and ends within the text.
LEMMA ChunkEnds ==
  ASSUME NEW t \in Seq(Marks), NEW start \in Nat, NEW size \in Nat, size > 0,
         start < Len(t) \/ start = 0
  PROVE  /\ Ingesting!End(t, start, size) \in Nat /\ Ingesting!End(t, start, size) <= Len(t)
         /\ Ingesting!End(t, start, size) - start <= size
         /\ start < Len(t) => start < Ingesting!End(t, start, size)
<1>1. PICK hard : hard = start + size
  OBVIOUS
<1>2. PICK half : half = start + size \div 2
  OBVIOUS
<1>3. hard \in Nat /\ half \in Nat /\ hard > start /\ Len(t) \in Nat
  BY <1>1, <1>2
<1>4. PICK paragraph : paragraph = Ingesting!RFind(t, "n", "n", half, hard)
  OBVIOUS
<1>5. PICK sentence : sentence = Ingesting!RFind(t, ".", " ", half, hard)
  OBVIOUS
<1>6. /\ paragraph \in Int /\ (paragraph = -1 \/ paragraph + 2 <= hard)
      /\ sentence \in Int /\ (sentence = -1 \/ sentence + 2 <= hard)
  BY <1>3, <1>4, <1>5, RFindInside
<1>7. PICK m : m = IF paragraph >= 0 THEN paragraph + 2 ELSE -1
  OBVIOUS
<1>8. PICK n : n = sentence + 2
  OBVIOUS
<1>9. m \in Int /\ n \in Int /\ m <= hard /\ n <= hard
  BY <1>3, <1>6, <1>7, <1>8
<1>10. PICK boundary : boundary = Ingesting!Max({m, n})
  OBVIOUS
<1>11. boundary = Ingesting!Boundary(t, start, size)
  BY <1>1, <1>2, <1>4, <1>5, <1>7, <1>8, <1>10 DEF Ingesting!Boundary
<1>12. boundary \in {m, n}
  BY <1>9, <1>10, IngestMax
<1>13. boundary \in Int /\ boundary <= hard
  BY <1>9, <1>12
<1>14. PICK end : end = Ingesting!End(t, start, size)
  OBVIOUS
<1>15. end = IF hard < Len(t) THEN (IF boundary > start THEN boundary ELSE hard) ELSE Len(t)
  BY <1>1, <1>11, <1>14 DEF Ingesting!End
<1>16. QED
  BY <1>1, <1>3, <1>13, <1>14, <1>15

LEMMA ChunkGoesOn ==
  ASSUME NEW start \in Nat, NEW end \in Nat, NEW overlap \in Nat, start < end
  PROVE  /\ Ingesting!NextStart(start, end, overlap) \in Nat
         /\ Ingesting!NextStart(start, end, overlap) <= end
<1>1. start + 1 \in Int /\ end - overlap \in Int
  OBVIOUS
<1>2. PICK m : m = Ingesting!Max({start + 1, end - overlap})
  OBVIOUS
<1>3. m \in {start + 1, end - overlap} /\ m >= start + 1
  BY <1>1, <1>2, IngestMax
<1>4. m \in Nat /\ m <= end
  BY <1>3
<1>5. QED
  BY <1>2, <1>4 DEF Ingesting!NextStart

\* A text that strips to nothing is blank.
LEMMA StripsToNothing ==
  ASSUME NEW t \in Seq(Marks), Ingesting!Strip(t) = <<>>
  PROVE  \A i \in DOMAIN t : t[i] \in Ingesting!Blank
<1> SUFFICES ASSUME NEW i \in DOMAIN t, t[i] \notin Ingesting!Blank PROVE FALSE
  OBVIOUS
<1>1. PICK solid : solid = {j \in DOMAIN t : t[j] \notin Ingesting!Blank}
  OBVIOUS
<1>2. /\ DOMAIN t = 1 .. Len(t) /\ Len(t) \in Nat /\ solid \subseteq 1 .. Len(t) /\ i \in solid
  BY <1>1
<1>3. IsFiniteSet(solid) /\ solid \in SUBSET Int
  <2>1. PICK n : n \in Int /\ n = Len(t)
    OBVIOUS
  <2>2. solid \in SUBSET (1 .. n) /\ 1 \in Int
    BY <1>2, <2>1
  <2>3. QED
    BY <2>1, <2>2, FinitelyMany
<1>4. PICK lo : lo = Ingesting!Min(solid)
  OBVIOUS
<1>5. PICK hi : hi = Ingesting!Max(solid)
  OBVIOUS
<1>6. lo \in solid /\ hi \in solid /\ lo <= i /\ i <= hi
  BY <1>2, <1>3, <1>4, <1>5, IngestMax
<1>7. lo \in 1 .. Len(t) /\ hi \in 1 .. Len(t) /\ lo <= hi
  BY <1>2, <1>6
<1>8. Ingesting!Strip(t) = SubSeq(t, lo, hi)
  BY <1>1, <1>2, <1>4, <1>5 DEF Ingesting!Strip
<1>9. Len(SubSeq(t, lo, hi)) = hi - lo + 1
  BY <1>7, SubSeqProperties
<1>10. QED
  BY <1>7, <1>8, <1>9

\* A chunk without a text has no letter in it.
LEMMA BlankChunk ==
  ASSUME NEW t \in Seq(Marks), NEW start \in Nat, NEW end \in Nat, end <= Len(t),
         Ingesting!ChunkText(t, start, end) = <<>>
  PROVE  \A i \in DOMAIN t : start < i /\ i <= end => t[i] \in Ingesting!Blank
<1> SUFFICES ASSUME NEW i \in DOMAIN t, start < i, i <= end PROVE t[i] \in Ingesting!Blank
  OBVIOUS
<1>1. PICK s : s = SubSeq(t, start + 1, end)
  OBVIOUS
<1>2. i \in 1 .. Len(t) /\ i \in Nat /\ start + 1 \in 1 .. Len(t) + 1 /\ end \in 0 .. Len(t)
  OBVIOUS
<1>3. s \in Seq(Marks) /\ Len(s) = end - start /\ s[i - start] = t[i]
  <2>1. \A j \in start + 1 .. end : t[j] \in Marks
    BY <1>2
  <2>2. /\ s \in Seq(Marks) /\ Len(s) = IF start + 1 <= end THEN end - (start + 1) + 1 ELSE 0
        /\ \A j \in 1 .. end - (start + 1) + 1 : s[j] = t[(start + 1) + j - 1]
    BY <1>1, <1>2, <2>1, SubSeqProperties
  <2>3. i - start \in 1 .. end - (start + 1) + 1 /\ (start + 1) + (i - start) - 1 = i
    BY <1>2
  <2>4. s[i - start] = t[i]
    BY <2>2, <2>3
  <2>5. Len(s) = end - start
    BY <1>2, <2>2
  <2>6. QED
    BY <2>2, <2>4, <2>5
<1>4. Ingesting!Strip(s) = <<>>
  BY <1>1 DEF Ingesting!ChunkText
<1>5. i - start \in DOMAIN s
  BY <1>2, <1>3
<1>6. s[i - start] \in Ingesting!Blank
  BY <1>3, <1>4, <1>5, StripsToNothing
<1>7. QED
  BY <1>3, <1>6

\* A call as the code sees it: what is ingested, and the place it has reached.
Job(a) == [doc |-> a.doc, shape |-> a.shape, version |-> a.version]
IngestJob == [doc : Documents, shape : ChunkSizes, version : {1, 2}]
PlaceOf(a) == [page |-> a.page, start |-> a.start, index |-> a.index]
FirstPlace == [page |-> 1, start |-> 0, index |-> 0]

TextAt(j, w) == PageTexts(j.doc, j.version)[w.page]
EndAt(j, w) == Ingesting!End(TextAt(j, w), w.start, j.shape.size)
ChunkAt(j, w) == Ingesting!ChunkText(TextAt(j, w), w.start, EndAt(j, w))
KeyAt(j, w) == Ingesting!KeyOf(j.doc, w.page, w.index, w.start, EndAt(j, w))
PageEnds(j, w) == EndAt(j, w) >= Len(TextAt(j, w))
WalkEnds(j, w) == PageEnds(j, w) /\ ~(w.page < Len(PageTexts(j.doc, j.version)))
PlaceAfter(j, w) ==
    IF PageEnds(j, w)
    THEN [page |-> w.page + 1, start |-> 0, index |-> 0]
    ELSE [page |-> w.page, start |-> Ingesting!NextStart(w.start, EndAt(j, w), j.shape.overlap),
          index |-> IF ChunkAt(j, w) = <<>> THEN w.index ELSE w.index + 1]

\* The places of W are done, and the walk leads from the first through W to V.
StoredAt(j, w) == ChunkAt(j, w) # <<>> => KeyAt(j, w) \in DOMAIN chunks
Walked(j, W, V) ==
    /\ FirstPlace \in W \cup V
    /\ \A w \in W : StoredAt(j, w) /\ (WalkEnds(j, w) \/ PlaceAfter(j, w) \in W \cup V)

KeyRow == [doc : Documents, page : Nat, index : Nat, start : Nat, end : Nat]
IdRow == [key : KeyRow, start : Nat, end : Nat]
IngestRow ==
    [pc : {"idle", "chunking", "answered"}, doc : Documents \cup {"none"},
     shape : ChunkSizes \cup {[size |-> 1, overlap |-> 0]}, pages : Seq(Seq(Marks)), version : {0, 1, 2},
     page : Nat, start : Nat, ids : Seq(IdRow), index : Nat, created : Nat, repeat : BOOLEAN,
     made : 0 .. MaxCalls]

IngestPlaced(a) ==
    /\ a.pc # "idle" => Job(a) \in IngestJob /\ a.pages = PageTexts(a.doc, a.version)
    /\ a.pc = "chunking" => /\ a.page \in DOMAIN a.pages
                            /\ a.start < Len(a.pages[a.page]) \/ a.start = 0
                            /\ \E W : Walked(Job(a), W, {PlaceOf(a)})

\* The letters behind the call are in its chunks.
LetterKept(a, p, i) ==
    a.pages[p][i] \notin Ingesting!Blank =>
        \E n \in DOMAIN a.ids : a.ids[n].key.page = p /\ a.ids[n].start < i /\ i <= a.ids[n].end
LettersKept(a) ==
    \A p \in DOMAIN a.pages : \A i \in DOMAIN a.pages[p] :
        a.pc = "answered" \/ (a.pc = "chunking" /\ (p < a.page \/ (p = a.page /\ i <= a.start))) =>
            LetterKept(a, p, i)

IdsHold(a) ==
    \A n \in DOMAIN a.ids :
        /\ a.ids[n].key \in DOMAIN chunks /\ a.ids[n].key.doc = a.doc
        /\ a.ids[n].key.start = a.ids[n].start /\ a.ids[n].key.end = a.ids[n].end
        /\ a.ids[n].end - a.ids[n].start <= a.shape.size

RepeatsNothing(a) ==
    a.repeat => /\ a.created = 0
                /\ a.pc = "chunking" => \E W : Walked(Job(a), W, {}) /\ PlaceOf(a) \in W

IngestSound(a) == IngestPlaced(a) /\ LettersKept(a) /\ IdsHold(a) /\ RepeatsNothing(a)

ChunksHold ==
    \A k \in DOMAIN chunks :
        /\ k \in KeyRow /\ chunks[k].version \in {1, 2}
        /\ chunks[k].text =
             Ingesting!ChunkText(PageTexts(k.doc, chunks[k].version)[k.page], k.start, k.end)

IngestInv ==
    /\ parser \in {1, 2} /\ ingestCall \in [Callers -> IngestRow] /\ ingested \subseteq IngestJob
    /\ ChunksHold /\ (\A j \in ingested : \E W : Walked(j, W, {}))
    /\ \A c \in Callers : IngestSound(ingestCall[c])

\* What other calls store takes nothing from this one.
LEMMA ChunksGrow ==
  ASSUME DOMAIN chunks \subseteq DOMAIN chunks'
  PROVE  /\ \A j, W, V : Walked(j, W, V) => Walked(j, W, V)'
         /\ \A a : IngestSound(a) => IngestSound(a)'
<1>1. \A j, W, V : Walked(j, W, V) => Walked(j, W, V)'
  BY DEF Walked, StoredAt
<1>2. ASSUME NEW a, IngestSound(a) PROVE IngestSound(a)'
  <2>1. IngestPlaced(a)'
    BY <1>1, <1>2 DEF IngestSound, IngestPlaced
  <2>2. IdsHold(a)'
    BY <1>2 DEF IngestSound, IdsHold
  <2>3. RepeatsNothing(a)'
    BY <1>1, <1>2 DEF IngestSound, RepeatsNothing
  <2>4. LettersKept(a)'
    BY <1>2 DEF IngestSound, LettersKept, LetterKept
  <2>5. QED
    BY <2>1, <2>2, <2>3, <2>4 DEF IngestSound
<1>3. QED
  BY <1>1, <1>2

\* One call moves on.
LEMMA IngestMoves ==
  ASSUME IngestInv, NEW c \in Callers, NEW a \in IngestRow, IngestSound(a)',
         ingestCall' = [ingestCall EXCEPT ![c] = a], DOMAIN chunks \subseteq DOMAIN chunks',
         parser' = parser
  PROVE  /\ parser' \in {1, 2} /\ ingestCall' \in [Callers -> IngestRow]
         /\ (\A d \in Callers : IngestSound(ingestCall[d])')
         /\ \A j \in ingested : \E W : Walked(j, W, {})'
<1>1. ingestCall \in [Callers -> IngestRow] /\ (\A d \in Callers : IngestSound(ingestCall[d]))
  BY DEF IngestInv
<1>2. (\A x : IngestSound(x) => IngestSound(x)') /\ (\A j, W, V : Walked(j, W, V) => Walked(j, W, V)')
  BY ChunksGrow
<1>3. ASSUME NEW d \in Callers PROVE IngestSound(ingestCall[d])'
  <2>1. PICK x : x = ingestCall'[d]
    OBVIOUS
  <2>2. IngestSound(x)'
    <3>1. CASE d = c
      BY <1>1, <2>1, <3>1
    <3>2. CASE d # c
      <4>1. x = ingestCall[d]
        BY <1>1, <2>1, <3>2
      <4>2. QED
        BY <1>1, <1>2, <4>1
    <3>3. QED
      BY <3>1, <3>2
  <2>3. QED
    BY <2>1, <2>2 DEF IngestSound, IngestPlaced, LettersKept, LetterKept, IdsHold, RepeatsNothing, Walked, StoredAt
<1>4. QED
  BY <1>1, <1>2, <1>3 DEF IngestInv

LEMMA NoIngest ==
  ASSUME IngestConstants, NEW number \in 0 .. MaxCalls
  PROVE  /\ [Ingesting!NoCall EXCEPT !.made = number] \in IngestRow
         /\ IngestSound([Ingesting!NoCall EXCEPT !.made = number])
<1>1. PICK a : a = [Ingesting!NoCall EXCEPT !.made = number]
  OBVIOUS
<1>2. a \in IngestRow /\ a.pc = "idle" /\ ~a.repeat /\ a.ids = <<>>
  <2>1. a = [pc |-> "idle", doc |-> "none", shape |-> [size |-> 1, overlap |-> 0], pages |-> <<>>,
             version |-> 0, page |-> 1, start |-> 0, ids |-> <<>>, index |-> 0,
             created |-> 0, repeat |-> FALSE, made |-> number]
    BY <1>1 DEF Ingesting!NoCall
  <2>2. <<>> \in Seq(Seq(Marks)) /\ <<>> \in Seq(IdRow)
    OBVIOUS
  <2>3. QED
    BY <2>1, <2>2 DEF IngestRow
<1>3. IngestSound(a)
  BY <1>2 DEF IngestSound, IngestPlaced, LettersKept, IdsHold, RepeatsNothing
<1>4. QED
  BY <1>1, <1>2, <1>3

LEMMA IngestFailing ==
  ASSUME IngestConstants, IngestInv, NEW c \in Callers, Ingesting!IngestFails(c)
  PROVE  IngestInv'
<1>1. PICK a : a = [Ingesting!NoCall EXCEPT !.made = ingestCall[c].made]
  OBVIOUS
<1>2. ingestCall' = [ingestCall EXCEPT ![c] = a] /\ UNCHANGED <<parser, chunks, ingested>>
  BY <1>1 DEF Ingesting!IngestFails
<1>3. ingestCall[c].made \in 0 .. MaxCalls
  BY DEF IngestInv, IngestRow
<1>4. a \in IngestRow /\ IngestSound(a)
  BY <1>1, <1>3, NoIngest
<1>5. DOMAIN chunks \subseteq DOMAIN chunks'
  BY <1>2
<1>6. IngestSound(a)'
  BY <1>4, <1>5, ChunksGrow
<1>7. /\ parser' \in {1, 2} /\ ingestCall' \in [Callers -> IngestRow]
      /\ (\A d \in Callers : IngestSound(ingestCall[d])')
      /\ \A j \in ingested : \E W : Walked(j, W, {})'
  BY <1>2, <1>4, <1>5, <1>6, IngestMoves
<1>8. ChunksHold' /\ ingested' \subseteq IngestJob
  BY <1>2 DEF IngestInv, ChunksHold
<1>9. QED
  BY <1>2, <1>7, <1>8 DEF IngestInv

LEMMA IngestNewParser ==
  ASSUME IngestConstants, IngestInv, Ingesting!NewParser \/ UNCHANGED Ingesting!vars
  PROVE  IngestInv'
<1>1. parser' \in {1, 2} /\ UNCHANGED <<chunks, ingestCall, ingested>>
  BY DEF Ingesting!NewParser, Ingesting!vars, IngestInv
<1>2. (\A x : IngestSound(x) => IngestSound(x)') /\ (\A j, W, V : Walked(j, W, V) => Walked(j, W, V)')
  BY <1>1, ChunksGrow
<1>3. ASSUME NEW d \in Callers PROVE IngestSound(ingestCall[d])'
  <2>1. IngestSound(ingestCall[d])
    BY DEF IngestInv
  <2>2. PICK x : x = ingestCall[d]
    OBVIOUS
  <2>3. IngestSound(x)'
    BY <1>2, <2>1, <2>2
  <2>4. QED
    BY <1>1, <2>2, <2>3 DEF IngestSound, IngestPlaced, LettersKept, LetterKept, IdsHold, RepeatsNothing,
                            Walked, StoredAt
<1>4. ChunksHold' /\ \A j \in ingested' : \E W : Walked(j, W, {})'
  BY <1>1, <1>2 DEF IngestInv, ChunksHold
<1>5. QED
  BY <1>1, <1>3, <1>4 DEF IngestInv

LEMMA IngestBegins ==
  ASSUME IngestConstants, IngestInv, NEW c \in Callers, NEW d \in Documents, NEW shape \in ChunkSizes,
         Ingesting!Ingest(c, d, shape)
  PROVE  IngestInv'
<1>1. PICK pages : pages = PageTexts(d, parser)
  OBVIOUS
<1>2. PICK task : task = [doc |-> d, shape |-> shape, version |-> parser]
  OBVIOUS
<1>3. PICK repeat : repeat = (task \in ingested)
  OBVIOUS
<1>4. PICK number : number = ingestCall[c].made + 1
  OBVIOUS
<1>5. PICK a : a = [Ingesting!NoCall EXCEPT !.pc = "chunking", !.doc = d, !.shape = shape,
                       !.pages = pages, !.version = parser, !.made = number, !.repeat = repeat]
  OBVIOUS
<1>6. ingestCall' = [ingestCall EXCEPT ![c] = a] /\ UNCHANGED <<parser, chunks, ingested>>
  BY <1>1, <1>2, <1>3, <1>4, <1>5 DEF Ingesting!Ingest, PageTexts
<1>7. /\ parser \in {1, 2} /\ task \in IngestJob /\ pages \in Seq(Seq(Marks))
  BY <1>1, <1>2 DEF IngestInv, IngestJob, IngestConstants
<1>8. pages # <<>>
  BY <1>1, <1>7 DEF Ingesting!Ingest, PageTexts
<1>9. number \in 0 .. MaxCalls
  <2>1. ingestCall[c].made \in 0 .. MaxCalls /\ ingestCall[c].made < MaxCalls /\ MaxCalls \in Nat
    BY DEF IngestInv, IngestRow, Ingesting!Ingest, IngestConstants
  <2>2. QED
    BY <1>4, <2>1
<1>10. /\ a \in IngestRow /\ a.pc = "chunking" /\ a.doc = d /\ a.shape = shape /\ a.pages = pages
       /\ a.version = parser /\ a.page = 1 /\ a.start = 0 /\ a.index = 0 /\ a.ids = <<>>
       /\ a.created = 0 /\ a.repeat = repeat
  <2>1. a = [pc |-> "chunking", doc |-> d, shape |-> shape, pages |-> pages,
             version |-> parser, page |-> 1, start |-> 0, ids |-> <<>>, index |-> 0,
             created |-> 0, repeat |-> repeat, made |-> number]
    BY <1>5 DEF Ingesting!NoCall
  <2>2. <<>> \in Seq(IdRow) /\ 0 \in Nat /\ 1 \in Nat
    OBVIOUS
  <2>3. repeat \in BOOLEAN
    BY <1>3
  <2>4. parser \in {0, 1, 2}
    BY <1>7
  <2>5. a \in IngestRow
    BY <1>7, <1>9, <2>1, <2>2, <2>3, <2>4, Zenon DEF IngestRow
  <2>6. QED
    BY <2>1, <2>5
<1>11. Job(a) = task /\ PlaceOf(a) = FirstPlace
  BY <1>2, <1>10 DEF Job, PlaceOf, FirstPlace
<1>12. IngestPlaced(a)
  <2>1. Walked(task, {}, {FirstPlace})
    BY DEF Walked
  <2>2. 1 \in DOMAIN pages
    BY <1>7, <1>8
  <2>3. QED
    BY <1>1, <1>7, <1>10, <1>11, <2>1, <2>2 DEF IngestPlaced
<1>13. LettersKept(a)
  <2>1. ASSUME NEW p \in DOMAIN pages, NEW i \in DOMAIN pages[p] PROVE ~(p < 1) /\ ~(i <= 0)
    <3>1. pages[p] \in Seq(Marks)
      BY <1>7
    <3>2. QED
      BY <1>7, <3>1
  <2>2. QED
    BY <1>10, <2>1 DEF LettersKept
<1>14. IdsHold(a)
  BY <1>10 DEF IdsHold
<1>15. RepeatsNothing(a)
  <2>1. ASSUME repeat PROVE \E W : Walked(task, W, {}) /\ FirstPlace \in W
    <3>1. PICK W : Walked(task, W, {})
      BY <1>3, <2>1 DEF IngestInv
    <3>2. FirstPlace \in W
      BY <3>1 DEF Walked
    <3>3. QED
      BY <3>1, <3>2
  <2>2. QED
    BY <1>10, <1>11, <2>1 DEF RepeatsNothing
<1>16. DOMAIN chunks \subseteq DOMAIN chunks' /\ IngestSound(a)'
  <2>1. DOMAIN chunks \subseteq DOMAIN chunks' /\ IngestSound(a)
    BY <1>6, <1>12, <1>13, <1>14, <1>15 DEF IngestSound
  <2>2. QED
    BY <2>1, ChunksGrow
<1>17. /\ parser' \in {1, 2} /\ ingestCall' \in [Callers -> IngestRow]
       /\ (\A x \in Callers : IngestSound(ingestCall[x])')
       /\ \A j \in ingested : \E W : Walked(j, W, {})'
  BY <1>6, <1>10, <1>16, IngestMoves
<1>18. ChunksHold' /\ ingested' \subseteq IngestJob
  BY <1>6 DEF IngestInv, ChunksHold
<1>19. QED
  BY <1>6, <1>17, <1>18 DEF IngestInv

\* One chunk: the call goes to the next place of its walk, with the chunk stored.
LEMMA IngestRetainChunk ==
  ASSUME IngestConstants, IngestInv, NEW c \in Callers, Ingesting!RetainChunk(c)
  PROVE  IngestInv'
<1>1. PICK a : a = ingestCall[c]
  OBVIOUS
<1>2. a \in IngestRow /\ IngestSound(a) /\ a.pc = "chunking"
  BY <1>1, SMTT(30) DEF IngestInv, Ingesting!RetainChunk
<1>3. PICK j : j = Job(a)
  OBVIOUS
<1>4. PICK w : w = PlaceOf(a)
  OBVIOUS
<1>5. /\ j \in IngestJob /\ j.doc = a.doc /\ j.shape = a.shape /\ j.version = a.version
      /\ w.page = a.page /\ w.start = a.start /\ w.index = a.index
      /\ a.pages = PageTexts(a.doc, a.version) /\ a.page \in DOMAIN a.pages
      /\ a.start < Len(a.pages[a.page]) \/ a.start = 0
  BY <1>2, <1>3, <1>4 DEF IngestSound, IngestPlaced, Job, PlaceOf
<1>6. PICK t : t = a.pages[a.page]
  OBVIOUS
<1>7. PICK end : end = Ingesting!End(t, a.start, a.shape.size)
  OBVIOUS
<1>8. PICK text : text = Ingesting!ChunkText(t, a.start, end)
  OBVIOUS
<1>9. PICK key : key = Ingesting!KeyOf(a.doc, a.page, a.index, a.start, end)
  OBVIOUS
<1>10. t = TextAt(j, w) /\ end = EndAt(j, w) /\ text = ChunkAt(j, w) /\ key = KeyAt(j, w)
  BY <1>5, <1>6, <1>7, <1>8, <1>9 DEF TextAt, EndAt, ChunkAt, KeyAt
<1>11. /\ a.pages \in Seq(Seq(Marks)) /\ a.page \in Nat /\ a.start \in Nat /\ a.index \in Nat
       /\ a.ids \in Seq(IdRow) /\ a.created \in Nat /\ a.repeat \in BOOLEAN
       /\ a.doc \in Documents /\ a.shape \in ChunkSizes /\ a.version \in {1, 2}
  BY <1>2, <1>5 DEF IngestRow, IngestJob
<1>12. t \in Seq(Marks) /\ a.shape.size \in Nat /\ a.shape.size > 0 /\ a.shape.overlap \in Nat
  BY <1>5, <1>6, <1>11 DEF IngestConstants
<1>13. /\ end \in Nat /\ end <= Len(t) /\ end - a.start <= a.shape.size
       /\ a.start < Len(t) => a.start < end
  BY <1>5, <1>6, <1>7, <1>11, <1>12, ChunkEnds
<1>14. /\ key \in KeyRow /\ key.doc = a.doc /\ key.page = a.page /\ key.start = a.start /\ key.end = end
  BY <1>9, <1>11, <1>13 DEF Ingesting!KeyOf, KeyRow
<1>15. PICK id : id = [key |-> key, start |-> a.start, end |-> end]
  OBVIOUS
<1>16. id \in IdRow /\ id.key = key /\ id.start = a.start /\ id.end = end
  BY <1>11, <1>13, <1>14, <1>15 DEF IdRow
<1>17. PICK kept : kept = IF text = <<>> THEN a
              ELSE [a EXCEPT !.index = @ + 1, !.ids = Append(@, [key |-> key, start |-> a.start, end |-> end]),
                             !.created = IF key \in DOMAIN chunks THEN @ ELSE @ + 1]
  OBVIOUS
<1>18. /\ kept \in IngestRow /\ kept.pc = a.pc /\ kept.doc = a.doc /\ kept.shape = a.shape
       /\ kept.pages = a.pages /\ kept.version = a.version /\ kept.page = a.page
       /\ kept.start = a.start /\ kept.repeat = a.repeat
       /\ kept.index = (IF text = <<>> THEN a.index ELSE a.index + 1)
       /\ kept.ids = (IF text = <<>> THEN a.ids ELSE Append(a.ids, id))
       /\ text = <<>> \/ key \in DOMAIN chunks => kept.created = a.created
  <2>1. CASE text = <<>>
    BY <1>2, <1>17, <2>1
  <2>2. CASE text # <<>>
    <3>1. PICK n : n = IF key \in DOMAIN chunks THEN a.created ELSE a.created + 1
      OBVIOUS
    <3>2. PICK m : m = a.index + 1
      OBVIOUS
    <3>3. PICK ids : ids = Append(a.ids, id)
      OBVIOUS
    <3>4. n \in Nat /\ m \in Nat /\ ids \in Seq(IdRow)
      BY <1>11, <1>16, <3>1, <3>2, <3>3, AppendProperties
    <3>5. kept = [a EXCEPT !.index = m, !.ids = ids, !.created = n]
      BY <1>15, <1>17, <2>2, <3>1, <3>2, <3>3
    <3>6. /\ kept \in IngestRow /\ kept.pc = a.pc /\ kept.doc = a.doc /\ kept.shape = a.shape
          /\ kept.pages = a.pages /\ kept.version = a.version /\ kept.page = a.page
          /\ kept.start = a.start /\ kept.repeat = a.repeat
          /\ kept.index = m /\ kept.ids = ids /\ kept.created = n
      BY <1>2, <3>4, <3>5 DEF IngestRow
    <3>7. QED
      BY <2>2, <3>1, <3>2, <3>3, <3>6
  <2>3. QED
    BY <2>1, <2>2
<1>19. PICK b : b = IF end >= Len(t) THEN Ingesting!PageDone(kept)
                    ELSE [kept EXCEPT !.start = Ingesting!NextStart(a.start, end, a.shape.overlap)]
  BY Zenon
<1>20. /\ ingestCall' = [ingestCall EXCEPT ![c] = b] /\ parser' = parser
       /\ chunks' = IF text = <<>> \/ key \in DOMAIN chunks THEN chunks
                    ELSE [k \in DOMAIN chunks \cup {key} |->
                            IF k = key THEN [text |-> text, version |-> a.version] ELSE chunks[k]]
       /\ ingested' = IF b.pc = "answered" THEN ingested \cup {j} ELSE ingested
  BY <1>1, <1>3, <1>6, <1>7, <1>8, <1>9, <1>17, <1>19, ZenonT(60) DEF Ingesting!RetainChunk, Job
<1>21. ~(end >= Len(t)) => /\ Ingesting!NextStart(a.start, end, a.shape.overlap) \in Nat
                           /\ Ingesting!NextStart(a.start, end, a.shape.overlap) <= end
                           /\ a.start < end /\ end < Len(t)
  <2> SUFFICES ASSUME ~(end >= Len(t))
               PROVE  /\ Ingesting!NextStart(a.start, end, a.shape.overlap) \in Nat
                      /\ Ingesting!NextStart(a.start, end, a.shape.overlap) <= end
                      /\ a.start < end /\ end < Len(t)
    OBVIOUS
  <2>1. Len(t) \in Nat /\ end < Len(t)
    BY <1>12, <1>13
  <2>2. a.start < Len(t)
    BY <1>5, <1>6, <1>11, <1>13, <2>1
  <2>3. a.start < end
    BY <1>13, <2>2
  <2>4. QED
    BY <1>11, <1>12, <1>13, <2>1, <2>3, ChunkGoesOn
<1>22. /\ b \in IngestRow /\ b.doc = a.doc /\ b.shape = a.shape /\ b.pages = a.pages
       /\ b.version = a.version /\ b.repeat = a.repeat /\ b.ids = kept.ids /\ b.created = kept.created
       /\ b.pc = (IF WalkEnds(j, w) THEN "answered" ELSE "chunking")
       /\ ~WalkEnds(j, w) => PlaceOf(b) = PlaceAfter(j, w)
       /\ b.pc = "chunking" =>
            \/ end >= Len(t) /\ a.page < Len(a.pages) /\ b.page = a.page + 1 /\ b.start = 0
            \/ ~(end >= Len(t)) /\ b.page = a.page /\ b.start <= end
  <2>1. /\ PageEnds(j, w) <=> end >= Len(t)
        /\ WalkEnds(j, w) <=> end >= Len(t) /\ ~(a.page < Len(a.pages))
    BY <1>5, <1>10 DEF PageEnds, WalkEnds
  <2>2. CASE ~(end >= Len(t))
    <3>1. PICK start : start = Ingesting!NextStart(a.start, end, a.shape.overlap)
      OBVIOUS
    <3>2. start \in Nat /\ start <= end
      BY <1>21, <2>2, <3>1
    <3>3. b = [kept EXCEPT !.start = start]
      BY <1>19, <2>2, <3>1
    <3>4. /\ b \in IngestRow /\ b.doc = a.doc /\ b.shape = a.shape /\ b.pages = a.pages
          /\ b.version = a.version /\ b.repeat = a.repeat /\ b.ids = kept.ids
          /\ b.created = kept.created /\ b.pc = "chunking" /\ b.page = a.page /\ b.start = start
          /\ b.index = kept.index
      BY <1>2, <1>18, <3>2, <3>3 DEF IngestRow
    <3>5. PlaceOf(b) = PlaceAfter(j, w)
      BY <1>5, <1>10, <1>18, <2>1, <2>2, <3>1, <3>4 DEF PlaceOf, PlaceAfter
    <3>6. QED
      BY <2>1, <2>2, <3>2, <3>4, <3>5
  <2>3. CASE end >= Len(t) /\ a.page < Len(a.pages)
    <3>1. PICK page : page = a.page + 1
      OBVIOUS
    <3>2. page \in Nat
      BY <1>11, <3>1
    <3>3. b = [kept EXCEPT !.page = page, !.start = 0, !.index = 0]
      BY <1>18, <1>19, <2>3, <3>1 DEF Ingesting!PageDone
    <3>4. /\ b \in IngestRow /\ b.doc = a.doc /\ b.shape = a.shape /\ b.pages = a.pages
          /\ b.version = a.version /\ b.repeat = a.repeat /\ b.ids = kept.ids
          /\ b.created = kept.created /\ b.pc = "chunking" /\ b.page = page /\ b.start = 0
          /\ b.index = 0
      BY <1>2, <1>18, <3>2, <3>3 DEF IngestRow
    <3>5. PlaceOf(b) = PlaceAfter(j, w)
      BY <1>5, <2>1, <2>3, <3>1, <3>4 DEF PlaceOf, PlaceAfter
    <3>6. QED
      BY <2>1, <2>3, <3>1, <3>4, <3>5
  <2>4. CASE end >= Len(t) /\ ~(a.page < Len(a.pages))
    <3>1. b = [kept EXCEPT !.pc = "answered"]
      BY <1>18, <1>19, <2>4 DEF Ingesting!PageDone
    <3>2. /\ b \in IngestRow /\ b.doc = a.doc /\ b.shape = a.shape /\ b.pages = a.pages
          /\ b.version = a.version /\ b.repeat = a.repeat /\ b.ids = kept.ids
          /\ b.created = kept.created /\ b.pc = "answered"
      BY <1>18, <3>1 DEF IngestRow
    <3>3. QED
      BY <2>1, <2>4, <3>2
  <2>5. QED
    BY <2>2, <2>3, <2>4
<1>23. /\ DOMAIN chunks' = DOMAIN chunks \cup (IF text = <<>> THEN {} ELSE {key})
       /\ \A k \in DOMAIN chunks : chunks'[k] = chunks[k]
       /\ \A k \in DOMAIN chunks' : k \notin DOMAIN chunks =>
             k = key /\ chunks'[k] = [text |-> text, version |-> a.version]
  BY <1>20
<1>24. Job(b) = j
  BY <1>3, <1>22 DEF Job
<1>25. \A W, V : Walked(j, W, V) => Walked(j, W, V)'
  BY <1>23, ChunksGrow
<1>26. StoredAt(j, w)'
  BY <1>10, <1>23 DEF StoredAt
<1>27. ASSUME NEW W, Walked(j, W, {w})
       PROVE  Walked(j, W \cup {w}, IF WalkEnds(j, w) THEN {} ELSE {PlaceAfter(j, w)})'
  BY <1>25, <1>26, <1>27 DEF Walked
<1>28. PICK W0 : Walked(j, W0, {w})
  BY <1>2, <1>3, <1>4 DEF IngestSound, IngestPlaced
<1>29. IngestPlaced(b)'
  <2>1. b.pc # "idle" => Job(b) \in IngestJob /\ b.pages = PageTexts(b.doc, b.version)
    BY <1>5, <1>22, <1>24
  <2>2. ASSUME b.pc = "chunking"
        PROVE  /\ b.page \in DOMAIN b.pages /\ (b.start < Len(b.pages[b.page]) \/ b.start = 0)
               /\ \E W : Walked(Job(b), W, {PlaceOf(b)})'
    <3>1. ~WalkEnds(j, w) /\ PlaceOf(b) = PlaceAfter(j, w)
      BY <1>22, <2>2
    <3>2. Walked(j, W0 \cup {w}, {PlaceOf(b)})'
      BY <1>27, <1>28, <3>1
    <3>3. DOMAIN a.pages = 1 .. Len(a.pages) /\ Len(a.pages) \in Nat /\ Len(t) \in Nat
      BY <1>11, <1>12
    <3>4. CASE end >= Len(t) /\ a.page < Len(a.pages) /\ b.page = a.page + 1 /\ b.start = 0
      <4>1. b.page \in DOMAIN b.pages
        BY <1>5, <1>22, <3>3, <3>4
      <4>2. QED
        BY <1>24, <3>2, <3>4, <4>1
    <3>5. CASE ~(end >= Len(t)) /\ b.page = a.page /\ b.start <= end
      <4>1. b.start \in Nat
        BY <1>22 DEF IngestRow
      <4>2. b.page \in DOMAIN b.pages /\ b.start < Len(b.pages[b.page])
        BY <1>5, <1>6, <1>13, <1>21, <1>22, <3>3, <3>5, <4>1
      <4>3. QED
        BY <1>24, <3>2, <4>2
    <3>6. QED
      BY <1>22, <2>2, <3>4, <3>5
  <2>3. QED
    BY <2>1, <2>2 DEF IngestPlaced
<1>30. /\ \A n \in DOMAIN a.ids : n \in DOMAIN b.ids /\ b.ids[n] = a.ids[n]
       /\ \A n \in DOMAIN b.ids : (n \in DOMAIN a.ids /\ b.ids[n] = a.ids[n]) \/ (text # <<>> /\ b.ids[n] = id)
       /\ text # <<>> => \E n \in DOMAIN b.ids : b.ids[n] = id
  <2>1. CASE text = <<>>
    BY <1>18, <1>22, <2>1
  <2>2. CASE text # <<>>
    <3>1. b.ids = Append(a.ids, id)
      BY <1>18, <1>22, <2>2
    <3>2. /\ Len(b.ids) = Len(a.ids) + 1 /\ b.ids[Len(a.ids) + 1] = id
          /\ \A n \in 1 .. Len(a.ids) : b.ids[n] = a.ids[n]
      BY <1>11, <1>16, <3>1, AppendProperties
    <3>3. /\ DOMAIN a.ids = 1 .. Len(a.ids) /\ Len(a.ids) \in Nat
          /\ DOMAIN b.ids = 1 .. Len(a.ids) + 1
      <4>1. b.ids \in Seq(IdRow)
        BY <1>22 DEF IngestRow
      <4>2. QED
        BY <1>11, <3>2, <4>1
    <3>4. QED
      BY <2>2, <3>2, <3>3, SMTT(30)
  <2>3. QED
    BY <2>1, <2>2
<1>31. IdsHold(b)'
  <2>1. IdsHold(a)
    BY <1>2 DEF IngestSound
  <2>2. QED
    BY <1>13, <1>14, <1>16, <1>22, <1>23, <1>30, <2>1 DEF IdsHold
<1>32. LettersKept(b)'
  <2> SUFFICES ASSUME NEW p \in DOMAIN b.pages, NEW i \in DOMAIN b.pages[p],
                      b.pc = "answered" \/ (b.pc = "chunking" /\ (p < b.page \/ (p = b.page /\ i <= b.start))),
                      b.pages[p][i] \notin Ingesting!Blank
               PROVE  \E n \in DOMAIN b.ids : b.ids[n].key.page = p /\ b.ids[n].start < i /\ i <= b.ids[n].end
    BY DEF LettersKept, LetterKept
  <2>1. /\ p \in DOMAIN a.pages /\ i \in DOMAIN a.pages[p] /\ a.pages[p][i] \notin Ingesting!Blank
        /\ DOMAIN a.pages = 1 .. Len(a.pages) /\ Len(a.pages) \in Nat /\ p \in Nat
    BY <1>11, <1>22
  <2>2. i \in Nat /\ i <= Len(a.pages[p])
    BY <1>11, <2>1
  <2>3. CASE p < a.page \/ (p = a.page /\ i <= a.start)
    <3>1. LetterKept(a, p, i)
      BY <1>2, <2>1, <2>3 DEF IngestSound, LettersKept
    <3>2. PICK n \in DOMAIN a.ids : a.ids[n].key.page = p /\ a.ids[n].start < i /\ i <= a.ids[n].end
      BY <2>1, <3>1 DEF LetterKept
    <3>3. QED
      BY <1>30, <3>2
  <2>4. CASE ~(p < a.page \/ (p = a.page /\ i <= a.start))
    <3>1. p = a.page /\ i <= end
      <4>1. CASE b.pc = "answered"
        <5>1. end >= Len(t) /\ ~(a.page < Len(a.pages))
          <6>1. WalkEnds(j, w)
            BY <1>22, <4>1
          <6>2. QED
            BY <1>5, <1>10, <6>1 DEF WalkEnds, PageEnds
        <5>2. p = a.page
          BY <1>11, <2>1, <2>4, <5>1
        <5>3. QED
          BY <1>6, <1>12, <1>13, <2>2, <5>1, <5>2
      <4>2. CASE b.pc = "chunking"
        <5>1. p < b.page \/ (p = b.page /\ i <= b.start)
          BY <4>2
        <5>2. CASE end >= Len(t) /\ b.page = a.page + 1 /\ b.start = 0
          <6>1. ~(i <= 0)
            BY <1>11, <2>1
          <6>2. p = a.page
            BY <1>11, <2>1, <2>4, <5>1, <5>2, <6>1
          <6>3. QED
            BY <1>6, <1>12, <1>13, <2>2, <5>2, <6>2
        <5>3. CASE b.page = a.page /\ b.start <= end
          <6>1. b.start \in Nat
            BY <1>22 DEF IngestRow
          <6>2. QED
            BY <1>11, <1>13, <2>1, <2>2, <2>4, <5>1, <5>3, <6>1
        <5>4. QED
          BY <1>22, <4>2, <5>2, <5>3
      <4>3. QED
        BY <1>22, <4>1, <4>2
    <3>2. a.start < i
      BY <1>11, <2>2, <2>4, <3>1
    <3>3. text # <<>>
      <4> SUFFICES ASSUME text = <<>> PROVE FALSE
        OBVIOUS
      <4>1. Ingesting!ChunkText(t, a.start, end) = <<>> /\ i \in DOMAIN t /\ t[i] \notin Ingesting!Blank
        BY <1>6, <1>8, <2>1, <3>1
      <4>2. \A k \in DOMAIN t : a.start < k /\ k <= end => t[k] \in Ingesting!Blank
        BY <1>11, <1>12, <1>13, <4>1, BlankChunk
      <4>3. QED
        BY <3>1, <3>2, <4>1, <4>2
    <3>4. PICK n \in DOMAIN b.ids : b.ids[n] = id
      BY <1>30, <3>3
    <3>5. QED
      BY <1>14, <1>16, <3>1, <3>2, <3>4
  <2>5. QED
    BY <2>3, <2>4
<1>33. RepeatsNothing(b)'
  <2> SUFFICES ASSUME a.repeat
               PROVE  /\ b.created = 0
                      /\ b.pc = "chunking" => \E W : Walked(Job(b), W, {})' /\ PlaceOf(b) \in W
    BY <1>22 DEF RepeatsNothing
  <2>1. PICK W : Walked(j, W, {}) /\ w \in W
    BY <1>2, <1>3, <1>4 DEF IngestSound, RepeatsNothing
  <2>2. text = <<>> \/ key \in DOMAIN chunks
    BY <1>10, <2>1 DEF Walked, StoredAt
  <2>3. b.created = 0
    BY <1>2, <1>18, <1>22, <2>2 DEF IngestSound, RepeatsNothing
  <2>4. ASSUME b.pc = "chunking" PROVE Walked(Job(b), W, {})' /\ PlaceOf(b) \in W
    <3>1. Walked(Job(b), W, {})'
      BY <1>24, <1>25, <2>1
    <3>2. ~WalkEnds(j, w) /\ PlaceOf(b) = PlaceAfter(j, w)
      BY <1>22, <2>4
    <3>3. QED
      BY <2>1, <3>1, <3>2 DEF Walked
  <2>5. QED
    BY <2>3, <2>4
<1>34. ChunksHold'
  <2> SUFFICES ASSUME NEW k \in DOMAIN chunks'
               PROVE  /\ k \in KeyRow /\ chunks'[k].version \in {1, 2}
                      /\ chunks'[k].text =
                           Ingesting!ChunkText(PageTexts(k.doc, chunks'[k].version)[k.page], k.start, k.end)
    BY DEF ChunksHold
  <2>1. CASE k \in DOMAIN chunks
    BY <1>23, <2>1 DEF IngestInv, ChunksHold
  <2>2. CASE k \notin DOMAIN chunks
    <3>1. k = key /\ chunks'[k].text = text /\ chunks'[k].version = a.version
      BY <1>23, <2>2
    <3>2. QED
      BY <1>5, <1>6, <1>8, <1>11, <1>14, <3>1
  <2>3. QED
    BY <2>1, <2>2
<1>35. /\ ingestCall' \in [Callers -> IngestRow] /\ parser' \in {1, 2}
       /\ (\A x \in Callers : IngestSound(ingestCall[x])')
       /\ \A x \in ingested : \E W : Walked(x, W, {})'
  <2>1. IngestSound(b)' /\ DOMAIN chunks \subseteq DOMAIN chunks'
    BY <1>23, <1>29, <1>31, <1>32, <1>33 DEF IngestSound
  <2>2. QED
    BY <1>20, <1>22, <2>1, IngestMoves
<1>36. ingested' \subseteq IngestJob /\ \A x \in ingested' : \E W : Walked(x, W, {})'
  <2>1. CASE b.pc = "answered"
    <3>1. Walked(j, W0 \cup {w}, {})'
      BY <1>22, <1>27, <1>28, <2>1
    <3>2. ingested' = ingested \cup {j}
      BY <1>20, <2>1
    <3>3. QED
      BY <1>5, <1>35, <3>1, <3>2 DEF IngestInv
  <2>2. CASE b.pc # "answered"
    BY <1>20, <1>35, <2>2 DEF IngestInv
  <2>3. QED
    BY <2>1, <2>2
<1>37. QED
  BY <1>34, <1>35, <1>36 DEF IngestInv

LEMMA IngestStep ==
  ASSUME IngestConstants, IngestInv, [Ingesting!Next]_(Ingesting!vars)
  PROVE  IngestInv'
BY IngestBegins, IngestRetainChunk, IngestFailing, IngestNewParser DEF Ingesting!Next

LEMMA IngestInit ==
  ASSUME IngestConstants, Ingesting!Init
  PROVE  IngestInv
<1>1. PICK a : a = Ingesting!NoCall
  OBVIOUS
<1>2. a = [Ingesting!NoCall EXCEPT !.made = 0] /\ 0 \in 0 .. MaxCalls
  BY <1>1 DEF Ingesting!NoCall, IngestConstants
<1>3. a \in IngestRow /\ IngestSound(a)
  BY <1>2, NoIngest
<1>4. ingestCall \in [Callers -> IngestRow] /\ \A c \in Callers : ingestCall[c] = a
  BY <1>1, <1>3 DEF Ingesting!Init
<1>5. ChunksHold /\ ingested = {} /\ parser \in {1, 2}
  BY DEF Ingesting!Init, ChunksHold
<1>6. QED
  BY <1>3, <1>4, <1>5 DEF IngestInv

\* A document is kept whole, whatever its text, its shapes and the calls beside it:
\* an answered call names chunks that hold every letter, none longer than its size,
\* each with the text of its place unless another parser stored it; and the
\* repetition of a finished call stores nothing.
THEOREM DocumentsAreKept ==
  IngestConstants => (Ingesting!Spec => [](Ingesting!TypeOK /\ Ingesting!DocumentKept))
<1> SUFFICES ASSUME IngestConstants PROVE Ingesting!Spec => [](Ingesting!TypeOK /\ Ingesting!DocumentKept)
  OBVIOUS
<1>1. Ingesting!Init => IngestInv
  BY IngestInit
<1>2. IngestInv /\ [Ingesting!Next]_(Ingesting!vars) => IngestInv'
  BY IngestStep
<1>3. IngestInv => Ingesting!TypeOK /\ Ingesting!DocumentKept
  <2> SUFFICES ASSUME IngestInv PROVE Ingesting!TypeOK /\ Ingesting!DocumentKept
    OBVIOUS
  <2>1. Ingesting!TypeOK
    BY DEF IngestInv, IngestRow, ChunksHold, KeyRow, IngestJob, Ingesting!TypeOK
  <2>2. Ingesting!DocumentKept
    <3> SUFFICES ASSUME NEW c \in Callers, NEW a, a = ingestCall[c], a.pc = "answered"
                 PROVE  /\ \A p \in DOMAIN a.pages : \A i \in DOMAIN a.pages[p] : LetterKept(a, p, i)
                        /\ \A n \in DOMAIN a.ids :
                             /\ a.ids[n].key \in DOMAIN chunks
                             /\ a.ids[n].end - a.ids[n].start <= a.shape.size
                             /\ \/ chunks[a.ids[n].key].text =
                                     Ingesting!ChunkText(a.pages[a.ids[n].key.page], a.ids[n].start, a.ids[n].end)
                                \/ chunks[a.ids[n].key].version # a.version
                        /\ a.repeat => a.created = 0
      BY ZenonT(60) DEF Ingesting!DocumentKept, LetterKept
    <3>1. IngestSound(a)
      BY DEF IngestInv
    <3>2. \A p \in DOMAIN a.pages : \A i \in DOMAIN a.pages[p] : LetterKept(a, p, i)
      BY <3>1 DEF IngestSound, LettersKept
    <3>3. a.repeat => a.created = 0
      BY <3>1 DEF IngestSound, RepeatsNothing
    <3>4. ASSUME NEW n \in DOMAIN a.ids
          PROVE  /\ a.ids[n].key \in DOMAIN chunks /\ a.ids[n].end - a.ids[n].start <= a.shape.size
                 /\ \/ chunks[a.ids[n].key].text =
                         Ingesting!ChunkText(a.pages[a.ids[n].key.page], a.ids[n].start, a.ids[n].end)
                    \/ chunks[a.ids[n].key].version # a.version
      <4>1. PICK k : k = a.ids[n].key
        OBVIOUS
      <4>2. /\ k \in DOMAIN chunks /\ k.doc = a.doc /\ k.start = a.ids[n].start /\ k.end = a.ids[n].end
            /\ a.ids[n].end - a.ids[n].start <= a.shape.size
        BY <3>1, <4>1 DEF IngestSound, IdsHold
      <4>3. a.pages = PageTexts(a.doc, a.version)
        BY <3>1 DEF IngestSound, IngestPlaced
      <4>4. chunks[k].text = Ingesting!ChunkText(PageTexts(k.doc, chunks[k].version)[k.page], k.start, k.end)
        BY <4>2 DEF IngestInv, ChunksHold
      <4>5. QED
        BY <4>1, <4>2, <4>3, <4>4
    <3>5. QED
      BY <3>2, <3>3, <3>4
  <2>3. QED
    BY <2>1, <2>2
<1>4. QED
  BY <1>1, <1>2, <1>3, PTL DEF Ingesting!Spec

-----------------------------------------------------------------------------
(* The components side by side.  Whatever the others do, each makes its    *)
(* own steps or none: it keeps what was proved of it alone.                *)

LEMMA ReflectPart == OperationsSpec => Reflect!Spec
<1>1. OperationsInit => Reflect!Init
  BY DEF OperationsInit
<1>2. [OperationsNext]_operationsVars => [Reflect!Next]_(Reflect!vars)
  BY DEF OperationsNext, StepOf, OthersThan, operationsVars, reflectVars, Reflect!vars
<1>3. QED
  BY <1>1, <1>2, PTL DEF OperationsSpec, Reflect!Spec

LEMMA VaultPart == OperationsSpec => Vault!Spec
<1>1. OperationsInit => Vault!Init
  BY DEF OperationsInit
<1>2. [OperationsNext]_operationsVars => [Vault!Next]_(Vault!vars)
  BY DEF OperationsNext, StepOf, OthersThan, operationsVars, vaultVars, Vault!vars
<1>3. QED
  BY <1>1, <1>2, PTL DEF OperationsSpec, Vault!Spec

LEMMA IngestPart == OperationsSpec => Ingesting!Spec
<1>1. OperationsInit => Ingesting!Init
  BY DEF OperationsInit
<1>2. [OperationsNext]_operationsVars => [Ingesting!Next]_(Ingesting!vars)
  BY DEF OperationsNext, StepOf, OthersThan, operationsVars, ingestVars, Ingesting!vars
<1>3. QED
  BY <1>1, <1>2, PTL DEF OperationsSpec, Ingesting!Spec

\* VaultExporter, IngestionService, ReflectionService: with any notes, documents,
\* facts, editors and callers, and beside any steps of the other components, what is
\* written from elsewhere or derived is kept.
THEOREM ContentIsKept == OperationsSpec => []ContentKept
<1>1. Reflect!Spec => [](Reflect!TypeOK /\ Reflect!BeliefsOnRecord)
  BY OperationsAssumptions, BeliefsAreRecorded
<1>2. Vault!Spec => [](Vault!TypeOK /\ Vault!VaultEditsKept)
  BY OperationsAssumptions, VaultKeepsEdits
<1>3. Ingesting!Spec => [](Ingesting!TypeOK /\ Ingesting!DocumentKept)
  BY OperationsAssumptions, DocumentsAreKept
<1>4. Vault!VaultEditsKept /\ Ingesting!DocumentKept /\ Reflect!BeliefsOnRecord => ContentKept
  BY DEF ContentKept
<1>5. QED
  BY <1>1, <1>2, <1>3, <1>4, ReflectPart, VaultPart, IngestPart, PTL
=============================================================================
