------------------------------ MODULE MemoryLedger ------------------------------
(***************************************************************************)
(* The append-only memory ledger and the three ways to write it:           *)
(* retain, supersede and conflict resolution (services/retention.py,       *)
(* services/conflicts.py and the ledger methods of adapters/postgres.py).  *)
(*                                                                         *)
(* Transactions run at READ COMMITTED.  Each is two steps, the step that   *)
(* takes the advisory locks and makes the checks, and the commit; other    *)
(* sessions run in between.  A lock is held by the session that is between *)
(* its check and its commit.  A call that raises, or that returns an       *)
(* existing item, changes nothing and is no step.  All items fall in one   *)
(* belief slot, hence one conflict case, when they differ in value.        *)
(***************************************************************************)
EXTENDS Naturals, FiniteSets

CONSTANTS
    ItemIds,    \* memory ids (bound: how many)
    Sessions,   \* concurrent callers
    Keys,       \* idempotency keys
    Values,     \* values of the belief slot
    None        \* SQL null

ASSUME NoneAssumption ==
    None \notin ItemIds /\ None \notin Keys /\ None \notin Values

VARIABLES
    items,      \* items[i]: row of memory_items; rev = 0 is "no such row"
    keyOf,      \* keyOf[k]: memory_item_id of idempotency key k
    review,     \* the row of conflict_reviews, status None if there is none
    tx          \* tx[s]: what session s is doing

vars == <<items, keyOf, review, tx>>

Statuses == {"active", "archived"}
Writers  == {"retain", "supersede", "resolve"}

Absent == [parent |-> None, rev |-> 0, value |-> None, status |-> "active",
           key |-> None, by |-> "retain"]

\* pc: idle; insert, replace, apply: checks done, locks held, commit to come;
\* heads, resolve, dismiss: a decision under way, no transaction open.
Idle == [pc |-> "idle", key |-> None, target |-> None, winner |-> None,
         seen |-> {}, writes |-> {}, applied |-> None]

Init ==
    /\ items = [i \in ItemIds |-> Absent]
    /\ keyOf = [k \in Keys |-> None]
    /\ review = [status |-> None, winner |-> None, applied |-> None]
    /\ tx = [s \in Sessions |-> Idle]

-----------------------------------------------------------------------------
Present(i) == items[i].rev > 0

HasChild(i) == \E j \in ItemIds : Present(j) /\ items[j].parent = i

\* filter_recallable_heads
Recallable(i) == Present(i) /\ items[i].status = "active" /\ ~ HasChild(i)

\* Mutant: the idempotency key is not locked.
KeyFreeAlways(k) == TRUE

\* _lock_idempotency_key: a session between its check and its commit holds it.
KeyFree(k) ==
    k # None => ~ \E s \in Sessions : tx[s].pc \in {"insert", "replace"} /\ tx[s].key = k

\* _get_by_idempotency_key finds nothing.
Unused(k) == k # None => keyOf[k] = None

\* Mutant: the superseded item is not locked.
ItemFreeAlways(i) == TRUE

\* pg_advisory_xact_lock on the superseded id, taken by supersede_if_current.
ItemFree(i) == ~ \E s \in Sessions : tx[s].pc = "replace" /\ tx[s].target = i

\* retain: take the key's lock and look the key up.
RetainCheck(s, k) ==
    /\ tx[s].pc = "idle"
    /\ KeyFree(k) /\ Unused(k)
    /\ tx' = [tx EXCEPT ![s] = [Idle EXCEPT !.pc = "insert", !.key = k]]
    /\ UNCHANGED <<items, keyOf, review>>

RecordKey(k, i) == keyOf' = IF k = None THEN keyOf ELSE [keyOf EXCEPT ![k] = i]

\* retain: insert item, key and outbox event; commit.  The request's content,
\* here its value, matters only now.
RetainCommit(s, i, v) ==
    /\ tx[s].pc = "insert"
    /\ ~ Present(i)
    /\ items' = [items EXCEPT ![i] = [Absent EXCEPT !.rev = 1, !.value = v, !.key = tx[s].key]]
    /\ RecordKey(tx[s].key, i)
    /\ tx' = [tx EXCEPT ![s] = Idle]
    /\ UNCHANGED review

\* supersede_if_current: take the locks of key and parent; the parent must be
\* the head of its chain (its revision, being immutable, is the expected one).
SupersedeCheck(s, k, p) ==
    /\ tx[s].pc = "idle"
    /\ KeyFree(k) /\ Unused(k)
    /\ ItemFree(p)
    /\ Present(p) /\ ~ HasChild(p)
    /\ tx' = [tx EXCEPT ![s] = [Idle EXCEPT !.pc = "replace", !.key = k, !.target = p]]
    /\ UNCHANGED <<items, keyOf, review>>

\* MemoryItem.supersede
Successor(p, v, st, k, who) ==
    [parent |-> p, rev |-> items[p].rev + 1, value |-> v, status |-> st,
     key |-> k, by |-> who]

\* supersede_if_current: insert item, key and outbox event; commit.
SupersedeCommit(s, i, v, st) ==
    /\ tx[s].pc = "replace"
    /\ ~ Present(i)
    /\ items' = [items EXCEPT ![i] = Successor(tx[s].target, v, st, tx[s].key, "supersede")]
    /\ RecordKey(tx[s].key, i)
    /\ tx' = [tx EXCEPT ![s] = Idle]
    /\ UNCHANGED review

-----------------------------------------------------------------------------
\* list_cases: the slot holds more than one value.
InConflict == \E i, j \in ItemIds : Present(i) /\ Present(j) /\ items[i].value # items[j].value

\* decide: read the case and its review; an applied review is final.
DecideLoad(s, winner) ==
    /\ tx[s].pc = "idle"
    /\ InConflict
    /\ review.applied = None
    /\ \E i \in ItemIds : Present(i) /\ items[i].value = winner
    /\ tx' = [tx EXCEPT ![s] = [Idle EXCEPT !.pc = "heads", !.winner = winner,
                                            !.seen = {i \in ItemIds : Present(i)}]]
    /\ UNCHANGED <<items, keyOf, review>>

\* Mutant: losers are written with a status the ledger does not know.
ArchiveAsLost(i) == [parent |-> i, value |-> items[i].value, status |-> "lost"]

\* A losing head is superseded by an archived copy of itself.
Archive(i) == [parent |-> i, value |-> items[i].value, status |-> "archived"]

\* Mutant: the promoted head keeps the value of the head it replaces.
PromoteUnchanged(i, winner) ==
    [parent |-> i, value |-> items[i].value, status |-> "active"]

Promote(i, winner) == [parent |-> i, value |-> winner, status |-> "active"]

\* _apply_winner: a recallable head of the winner stays; if there is none, one
\* losing head is superseded by the winner's text.  Other losers are archived.
DecideHeads(s) ==
    LET heads   == {i \in tx[s].seen : Recallable(i)}
        winners == {i \in heads : items[i].value = tx[s].winner}
        losers  == heads \ winners
        plan(w, a) == tx' = [tx EXCEPT ![s].pc = "resolve", ![s].writes = w, ![s].applied = a]
    IN  /\ tx[s].pc = "heads"
        /\ \/ \E a \in winners : plan({Archive(i) : i \in losers}, a)
           \/ /\ winners = {}
              /\ \E p \in losers :
                   plan({Promote(p, tx[s].winner)} \cup {Archive(i) : i \in losers \ {p}}, None)
           \/ heads = {} /\ tx' = [tx EXCEPT ![s] = Idle]
        /\ UNCHANGED <<items, keyOf, review>>

\* pg_advisory_xact_lock on the case.
CaseFree == ~ \E s \in Sessions : tx[s].pc = "apply"

\* Mutant: the review is not read again under the lock.
ResolvableUnread(s) == \A w \in tx[s].writes : ~ HasChild(w.parent)

\* apply_conflict_resolution: not applied yet, and every parent is a head.  No
\* lock is taken on the parents.
Resolvable(s) == review.applied = None /\ \A w \in tx[s].writes : ~ HasChild(w.parent)

ResolveCheck(s) ==
    /\ tx[s].pc = "resolve"
    /\ CaseFree
    /\ tx' = [tx EXCEPT ![s] = IF Resolvable(s) THEN [@ EXCEPT !.pc = "apply"] ELSE Idle]
    /\ UNCHANGED <<items, keyOf, review>>

\* apply_conflict_resolution: all revisions, their events and the review in
\* one commit.
ResolveCommit(s) ==
    /\ tx[s].pc = "apply"
    /\ \E id \in [tx[s].writes -> {i \in ItemIds : ~ Present(i)}] :
         /\ \A v, w \in tx[s].writes : id[v] = id[w] => v = w
         /\ items' = [i \in ItemIds |->
              IF \E w \in tx[s].writes : id[w] = i
              THEN LET w == CHOOSE u \in tx[s].writes : id[u] = i
                   IN  Successor(w.parent, w.value, w.status, None, "resolve")
              ELSE items[i]]
         /\ \E a \in IF tx[s].applied # None THEN {tx[s].applied}
                     ELSE {id[w] : w \in {u \in tx[s].writes : u.status = "active"}} :
              review' = [status |-> "accepted", winner |-> tx[s].winner, applied |-> a]
    /\ tx' = [tx EXCEPT ![s] = Idle]
    /\ UNCHANGED keyOf

\* decide with a status that applies nothing: read the case ...
DismissLoad(s) ==
    /\ tx[s].pc = "idle"
    /\ InConflict
    /\ review.applied = None
    /\ tx' = [tx EXCEPT ![s] = [Idle EXCEPT !.pc = "dismiss"]]
    /\ UNCHANGED <<items, keyOf, review>>

\* ... and save_conflict_review, which looks at nothing; it waits for the row lock
\* of a resolution under way, if there is a row to lock.
DismissSave(s) ==
    /\ tx[s].pc = "dismiss"
    /\ review.status # None => CaseFree
    /\ review' = [status |-> "dismissed", winner |-> None, applied |-> None]
    /\ tx' = [tx EXCEPT ![s] = Idle]
    /\ UNCHANGED <<items, keyOf>>

\* The connection or the process dies: the transaction is rolled back.
Abort(s) ==
    /\ tx[s].pc # "idle"
    /\ tx' = [tx EXCEPT ![s] = Idle]
    /\ UNCHANGED <<items, keyOf, review>>

-----------------------------------------------------------------------------
Step(s) ==
    \/ \E k \in Keys \cup {None} :
         RetainCheck(s, k) \/ \E p \in ItemIds : SupersedeCheck(s, k, p)
    \/ \E i \in ItemIds, v \in Values :
         RetainCommit(s, i, v) \/ \E st \in Statuses : SupersedeCommit(s, i, v, st)
    \/ \E v \in Values : DecideLoad(s, v)
    \/ DecideHeads(s) \/ ResolveCheck(s) \/ ResolveCommit(s)
    \/ DismissLoad(s) \/ DismissSave(s)
    \/ Abort(s)

Next == \E s \in Sessions : Step(s)

Spec == Init /\ [][Next]_vars

-----------------------------------------------------------------------------
Item == [parent : ItemIds \cup {None}, rev : Nat, value : Values \cup {None},
         status : Statuses, key : Keys \cup {None}, by : Writers]

Write == [parent : ItemIds, value : Values \cup {None}, status : Statuses]

Tx == [pc : {"idle", "insert", "replace", "heads", "resolve", "apply", "dismiss"},
       key : Keys \cup {None}, target : ItemIds \cup {None}, winner : Values \cup {None},
       seen : SUBSET ItemIds, writes : SUBSET Write, applied : ItemIds \cup {None}]

\* Type invariant: rows, keys, the review and the sessions' plans stay in their
\* domains.
TypeOK ==
    /\ items \in [ItemIds -> Item]
    /\ keyOf \in [Keys -> ItemIds \cup {None}]
    /\ review \in [status : {None, "accepted", "dismissed"}, winner : Values \cup {None},
                   applied : ItemIds \cup {None}]
    /\ tx \in [Sessions -> Tx]

\* retain / supersede_if_current: callers that repeat or race on one idempotency
\* key create one item between them, the one the key table names.
OneItemPerKey ==
    \A i \in ItemIds : Present(i) /\ items[i].key # None => keyOf[items[i].key] = i

\* supersede_if_current: racing replacements of one item never both succeed.  Two
\* items supersede the same parent only if a conflict resolution wrote one of
\* them while a supersede wrote the other.
ForkOnlyByResolution ==
    \A i, j \in ItemIds :
        /\ i # j /\ Present(i) /\ Present(j)
        /\ items[i].parent = items[j].parent /\ items[i].parent # None
        => {items[i].by, items[j].by} = {"supersede", "resolve"}

\* "Serialise replacements": an item is superseded at most once.
NoFork ==
    \A i, j \in ItemIds :
        /\ Present(i) /\ Present(j)
        /\ items[i].parent = items[j].parent /\ items[i].parent # None
        => i = j

\* apply_conflict_resolution: the memory an applied review names carries the
\* winning value.
AppliedCarriesWinner ==
    review.applied # None =>
        Present(review.applied) /\ items[review.applied].value = review.winner

\* decide: an applied resolution is replaced only by a dismissal that was decided
\* before it was applied, never by another resolution.
AppliedOnlyDismissed ==
    [][review.applied # None =>
         \/ review' = review
         \/ \E s \in Sessions : tx[s].pc = "dismiss" /\ review'.status = "dismissed"]_vars
=============================================================================
