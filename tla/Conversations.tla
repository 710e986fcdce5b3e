----------------------------- MODULE Conversations -----------------------------
(***************************************************************************)
(* The raw conversation ledger and its curation (services/conversations.py *)
(* and the turn methods of adapters/postgres.py).  A curation reads the    *)
(* turn, asks a model for a summary, submits a proposal under its          *)
(* idempotency key, may have the proposal accepted by policy, and purges   *)
(* the text of a curated_only turn; each of these is a transaction of its  *)
(* own.  API calls, redelivered worker messages, operators' reviews and    *)
(* the scheduled purge of expired turns interleave with it.  Reviews and   *)
(* proposals are those of Proposals.                                       *)
(***************************************************************************)
EXTENDS Naturals, FiniteSets

CONSTANTS
    Turns,        \* turns that may be appended, one per append idempotency key
    Curators,     \* curate_turn calls in progress: API requests and workers
    Operators,    \* review requests of operators
    CallerKeys,   \* curation keys chosen by API callers, reusable for any turn
    PurgeLimit,   \* turns one purge-expired call may take
    None, Elsewhere

ASSUME ConversationAssumptions ==
    /\ PurgeLimit \in Nat \ {0}
    /\ Curators \cap Operators = {}
    /\ None \notin Turns

VARIABLES
    turns,       \* turns[t]: retention_policy, raw_content_state and expires_at
    source,      \* source[k]: what the proposal stored under curation key k quotes
    curations,   \* curations[c]: the curate_turn call in progress
    curated,     \* turns some curate_turn call returned successfully for
    proposals, made, reviews   \* the proposals and their reviews

ledger == <<turns, source, curations, curated>>
vars == <<turns, source, curations, curated, proposals, made, reviews>>

\* "curate-conversation-turn:<id>", "auto-curate-conversation-turn:<id>" and
\* the keys of callers; a proposal is named by the key it was submitted under.
RequestKeys(t) == {<<"curate", t>>} \cup {<<"caller", k>> : k \in CallerKeys}
WorkerKey(t) == <<"auto", t>>
CurationKeys == UNION {RequestKeys(t) \cup {WorkerKey(t)} : t \in Turns}

Review == INSTANCE Proposals
    WITH ProposalIds <- CurationKeys, GraphIds <- {}, ClientKeys <- {},
         Reviewers <- Curators \cup Operators

\* What the proposals assume of their ids and keys.
ASSUME KeyAssumptions ==
    /\ None \notin CurationKeys /\ Elsewhere \notin CurationKeys
    /\ None # Elsewhere
    /\ None \notin Review!Keys

Policies == {"raw_only", "raw_and_curated", "curated_only"}
NoTurn == [policy |-> None, state |-> "absent", expires |-> "never"]
NoSource == [turn |-> None, text |-> "none", policy |-> "review"]
NoCuration == [pc |-> "idle", turn |-> None, key |-> None, text |-> "none", auto |-> "review"]

Init ==
    /\ turns = [t \in Turns |-> NoTurn]
    /\ source = [k \in CurationKeys |-> NoSource]
    /\ curations = [c \in Curators |-> NoCuration]
    /\ curated = {}
    /\ Review!Init

-----------------------------------------------------------------------------
\* Mutant: a staged turn gets no expiry.
ExpiryNever(policy) == "never"

\* append_turn: only curated_only turns get an expires_at.
Expiry(policy) == IF policy = "curated_only" THEN "pending" ELSE "never"

\* append_turn; a retry under the same key finds the turn and changes nothing.
AppendTurn(t, policy) ==
    /\ turns[t].state = "absent"
    /\ turns' = [turns EXCEPT ![t] = [policy |-> policy, state |-> "active",
                                      expires |-> Expiry(policy)]]
    /\ UNCHANGED <<source, curations, curated, proposals, made, reviews>>

\* expires_at passes.
Expire(t) ==
    /\ turns[t].expires = "pending"
    /\ turns' = [turns EXCEPT ![t].expires = "due"]
    /\ UNCHANGED <<source, curations, curated, proposals, made, reviews>>

\* Mutant: only turns that were curated are purged when they expire.
DueCurated == {t \in curated : turns[t].expires = "due" /\ turns[t].state = "active"}

\* The turns purge_expired_turns selects from.
Due == {t \in Turns : turns[t].expires = "due" /\ turns[t].state = "active"}

\* purge_expired_turns: one bounded batch, turn states and texts in one commit.
PurgeExpired ==
    /\ Due # {}
    /\ \E batch \in SUBSET Due :
         /\ Cardinality(batch) = IF Cardinality(Due) < PurgeLimit
                                 THEN Cardinality(Due) ELSE PurgeLimit
         /\ turns' = [t \in Turns |-> IF t \in batch
                                      THEN [turns[t] EXCEPT !.state = "purged_after_expiry"]
                                      ELSE turns[t]]
    /\ UNCHANGED <<source, curations, curated, proposals, made, reviews>>

-----------------------------------------------------------------------------
\* Mutant: raw_only turns are curated as well.
CuratableAny(t) == turns[t].state # "absent"

\* curate_turn refuses a missing and a raw_only turn.
Curatable(t) == turns[t].state # "absent" /\ turns[t].policy # "raw_only"

\* curate_turn: get_turn.  The worker's handler always allows automatic
\* acceptance, an API caller chooses.
CurateLoad(c, t, key, auto) ==
    /\ curations[c].pc = "idle"
    /\ Curatable(t)
    /\ curations' = [curations EXCEPT ![c] =
         [pc |-> "submit", turn |-> t, key |-> key, auto |-> auto,
          text |-> IF turns[t].state = "active" THEN "raw" ELSE "placeholder"]]
    /\ UNCHANGED <<turns, source, curated, proposals, made, reviews>>

\* The call goes on; what it has no more use for is forgotten.
Goto(c, pc) ==
    curations' = [curations EXCEPT ![c] =
        [NoCuration EXCEPT !.pc = pc, !.turn = curations[c].turn,
                           !.key = IF pc = "purge" THEN None ELSE curations[c].key]]

\* Mutant: a failed submission is only logged.
CurateSubmitSoft(c, policy) ==
    /\ curations[c].pc = "submit"
    /\ Goto(c, "purge")
    /\ UNCHANGED <<turns, source, curated, proposals, made, reviews>>

\* The summary is made and submitted.  Whether the policy would accept the
\* proposal depends on the model's answer and is stored with it; under a key
\* that has a proposal, that one is returned.
CurateSubmit(c, policy) ==
    LET call == curations[c]
    IN  /\ call.pc = "submit"
        /\ IF proposals[call.key].status = "absent"
           THEN /\ Review!Submit(call.key)
                /\ source' = [source EXCEPT ![call.key] =
                     [turn |-> call.turn, text |-> call.text, policy |-> policy]]
           ELSE UNCHANGED <<source, proposals, made, reviews>>
        /\ Goto(c, IF call.auto = "accept" THEN "policy" ELSE "purge")
        /\ UNCHANGED <<turns, curated>>

\* curate_turn raises or its process dies; what it committed stays.
Fail(c) ==
    /\ curations' = [curations EXCEPT ![c] = NoCuration]
    /\ reviews' = [reviews EXCEPT ![c] = Review!NoReview]
    /\ UNCHANGED <<turns, source, curated, proposals, made>>

CurateFails(c) == curations[c].pc # "idle" /\ Fail(c)

\* auto_accept: _auto_accept_reason does not look at the status, accept does.
PolicyCheck(c) ==
    LET key == curations[c].key
    IN  /\ curations[c].pc = "policy"
        /\ \/ /\ source[key].policy = "review"
              /\ Goto(c, "purge")
              /\ UNCHANGED <<turns, source, curated, proposals, made, reviews>>
           \/ /\ source[key].policy = "accept"
              /\ Review!AcceptLoad(c, key, <<"auto", key>>)
              /\ Goto(c, "accept")
              /\ UNCHANGED <<turns, source, curated>>
           \/ /\ source[key].policy = "accept" /\ proposals[key].status = "rejected"
              /\ Fail(c)

Return(c) == /\ curations' = [curations EXCEPT ![c] = NoCuration]
             /\ curated' = curated \cup {curations[c].turn}

\* The accepting transaction returns the memory it made or finds under its key;
\* it raises if the proposal was rejected or accepted under another key.
PolicyAccept(c) ==
    LET key == curations[c].key
    IN  /\ curations[c].pc = "accept"
        /\ Review!AcceptCommit(c)
        /\ IF \/ proposals[key].status = "open"
              \/ proposals[key].status = "accepted" /\ made[<<"auto", key>>] # None
           THEN Return(c)
           ELSE curations' = [curations EXCEPT ![c] = NoCuration] /\ UNCHANGED curated
        /\ UNCHANGED <<turns, source>>

\* Mutant: the state is not one the table allows.
PurgedUnchecked(row) == [row EXCEPT !.state = "purged"]

\* Mutant: every curated turn is purged.
PurgedAlways(row) == [row EXCEPT !.state = "purged_after_curation"]

\* purge_turn_content, called for curated_only turns, whatever their state.
Purged(row) == IF row.policy = "curated_only"
               THEN [row EXCEPT !.state = "purged_after_curation"] ELSE row

CuratePurge(c) ==
    /\ curations[c].pc = "purge"
    /\ turns' = [turns EXCEPT ![curations[c].turn] = Purged(@)]
    /\ Return(c)
    /\ UNCHANGED <<source, proposals, made, reviews>>

\* An operator's accept or reject of a curated proposal, or a request that dies.
Operate(r) ==
    /\ \/ \E k \in CurationKeys : \/ Review!AcceptLoad(r, k, <<"accept", k>>)
                                  \/ Review!RejectLoad(r, k)
       \/ Review!AcceptCommit(r)
       \/ Review!RejectSave(r)
       \/ Review!Abandon(r)
    /\ UNCHANGED ledger

Next ==
    \/ \E t \in Turns : \/ \E policy \in Policies : AppendTurn(t, policy)
                        \/ Expire(t)
    \/ PurgeExpired
    \/ \E c \in Curators :
         \/ \E t \in Turns :
              \/ CurateLoad(c, t, WorkerKey(t), "accept")
              \/ \E key \in RequestKeys(t), auto \in {"accept", "review"} :
                   CurateLoad(c, t, key, auto)
         \/ \E policy \in {"accept", "review"} : CurateSubmit(c, policy)
         \/ PolicyCheck(c) \/ PolicyAccept(c) \/ CuratePurge(c) \/ CurateFails(c)
    \/ \E r \in Operators : Operate(r)

Spec == Init /\ [][Next]_vars

\* Time passes, and the retention schedule calls purge-expired again and again.
FairSpec ==
    /\ Spec
    /\ \A t \in Turns : WF_vars(Expire(t))
    /\ WF_vars(PurgeExpired)

-----------------------------------------------------------------------------
\* Type invariant: turns, curation calls and the sources of proposals stay in
\* their domains.
TypeOK ==
    /\ turns \in [Turns -> [policy : Policies \cup {None},
                            state : {"absent", "active", "purged_after_curation",
                                     "purged_after_expiry"},
                            expires : {"never", "pending", "due"}]]
    /\ source \in [CurationKeys -> [turn : Turns \cup {None},
                                    text : {"none", "raw", "placeholder"},
                                    policy : {"accept", "review"}]]
    /\ curations \in [Curators -> [pc : {"idle", "submit", "policy", "accept", "purge"},
                                   turn : Turns \cup {None}, key : CurationKeys \cup {None},
                                   text : {"none", "raw", "placeholder"},
                                   auto : {"accept", "review"}]]
    /\ curated \subseteq Turns

\* curate_turn: raw text is given up to curation only when a proposal that
\* quotes it is stored, whatever calls, retries and crashes came before, unless
\* a caller reused its key for another turn.
PurgedTextWasProposed ==
    [][\A t \in Turns :
         turns[t].state = "active" /\ turns'[t].state = "purged_after_curation" =>
            \E k \in CurationKeys :
               \/ source[k].turn = t /\ source[k].text = "raw"
               \/ k[1] = "caller" /\ source[k].turn \notin {None, t}]_vars

\* curate_turn and purge_expired_turns keep the policies: a turn that is not
\* curated_only keeps its text for ever, and no proposal quotes a raw_only one.
RetentionPolicyKept ==
    /\ \A t \in Turns :
         turns[t].policy # "curated_only" => turns[t].state \in {"absent", "active"}
    /\ \A k \in CurationKeys :
         source[k].turn # None => turns[source[k].turn].policy # "raw_only"

\* auto_accept: a curation retried after an operator rejected its proposal does
\* not turn it into memory.
RejectionSurvivesRetry ==
    [][\A k \in CurationKeys :
         proposals[k].status = "rejected" => made'[<<"auto", k>>] = made[<<"auto", k>>]]_vars

\* purge_expired_turns (abandoned curated_only turns are purged after their
\* TTL): however curations fail, the text of a curated_only turn goes.
StagedTextIsPurged ==
    \A t \in Turns : turns[t].policy = "curated_only" ~> turns[t].state # "active"

\* curate_turn as docs/CONTRACTS.md and docs/AGENT_INTEGRATION.md describe it:
\* once a curate_turn call succeeded, a curated_only turn's text is purged.
CurationPurges ==
    \A t \in curated : turns[t].policy = "curated_only" => turns[t].state # "active"
=============================================================================
