------------------------------ MODULE MemoryProofs ------------------------------
(***************************************************************************)
(* Proofs about the ledger and what is found in it: module MemoryLedger,   *)
(* the collection and index of its vectors with the worker that fills it,  *)
(* the protected search keys and the recall, each for any value of its     *)
(* constants.  Indexing joins the index to the consumer of its events; at  *)
(* the end what was proved of each component is carried over to all of     *)
(* them running side by side (Operations).                                 *)
(***************************************************************************)
EXTENDS MemoryLedger, Operations, FiniteSetTheorems, SequenceTheorems, WellFoundedInduction,
        TLAPS

-----------------------------------------------------------------------------
(* The ledger.  None of its properties is inductive: each speaks of        *)
(* committed rows, and what a session checked before its commit may be     *)
(* stale by then.  The invariant says, for each kind of open transaction,  *)
(* how much of its check still holds because of the locks it took, and no  *)
(* more: KeyHeld for the idempotency key, TargetHeld for the superseded    *)
(* item, CaseHeld for the conflict case.  PlanSound is about a resolution  *)
(* whose plan was made without any lock.                                   *)

\* The session is between the check and the commit of a write with key k.
HoldsKey(s, k) == tx[s].pc \in {"insert", "replace"} /\ tx[s].key = k

\* _lock_idempotency_key: a locked key is unused and has one holder.
KeyHeld ==
    \A k \in Keys : \A s \in Sessions : HoldsKey(s, k) =>
        /\ keyOf[k] = None
        /\ \A t \in Sessions : HoldsKey(t, k) => t = s

Replaces(s, p) == tx[s].pc = "replace" /\ tx[s].target = p

\* All present successors of p were written by who.
ChildrenBy(p, who) ==
    \A j \in ItemIds : Present(j) /\ items[j].parent = p => items[j].by = who

\* pg_advisory_xact_lock on the superseded id: it has one holder; successors that
\* appear after the check are written by a resolution, which does not take it.
TargetHeld ==
    \A s \in Sessions : tx[s].pc = "replace" =>
        /\ tx[s].target \in ItemIds
        /\ ChildrenBy(tx[s].target, "resolve")
        /\ \A t \in Sessions : Replaces(t, tx[s].target) => t = s

\* _apply_winner: the plan supersedes every head once, what it leaves active has
\* the winning value, and so has the head it keeps, whatever was written since.
SoundPlan(r) ==
    /\ \A v, w \in r.writes : v.parent = w.parent => v = w
    /\ \A w \in r.writes : w.status = "active" => w.value = r.winner
    /\ r.applied # None => Present(r.applied) /\ items[r.applied].value = r.winner

PlanSound == \A s \in Sessions : tx[s].pc \in {"resolve", "apply"} => SoundPlan(tx[s])

\* pg_advisory_xact_lock on the case: one holder, and nothing is applied while it
\* is held; successors that appear after the check are written by a supersede.
CaseHeld ==
    \A s \in Sessions : tx[s].pc = "apply" =>
        /\ review.applied = None
        /\ \A w \in tx[s].writes : ChildrenBy(w.parent, "supersede")
        /\ \A t \in Sessions : tx[t].pc = "apply" => t = s

\* The inductive invariant.
Inv ==
    /\ TypeOK
    /\ KeyHeld /\ OneItemPerKey
    /\ TargetHeld /\ PlanSound /\ CaseHeld
    /\ ForkOnlyByResolution
    /\ AppliedCarriesWinner
-----------------------------------------------------------------------------
\* An empty ledger satisfies it.
LEMMA InvInit == Init => Inv
<1> SUFFICES ASSUME Init PROVE Inv
  OBVIOUS
<1>1. TypeOK
  BY DEF Init, TypeOK, Absent, Idle, Item, Tx, Statuses, Writers
<1>2. \A i \in ItemIds : ~ Present(i)
  BY DEF Init, Present, Absent
<1>3. \A s \in Sessions : tx[s].pc = "idle"
  BY DEF Init, Idle
<1>4. QED
  BY <1>1, <1>2, <1>3
  DEF Init, Inv, KeyHeld, HoldsKey, OneItemPerKey, TargetHeld, PlanSound, CaseHeld,
      ForkOnlyByResolution, AppliedCarriesWinner

\* A session may be put in the state r: what Inv asks of it holds.
Admissible(s, r) ==
    /\ r \in Tx
    /\ \A k \in Keys : r.pc \in {"insert", "replace"} /\ r.key = k =>
         /\ keyOf[k] = None
         /\ \A t \in Sessions \ {s} : ~ HoldsKey(t, k)
    /\ r.pc = "replace" =>
         /\ r.target \in ItemIds
         /\ ChildrenBy(r.target, "resolve")
         /\ \A t \in Sessions \ {s} : ~ Replaces(t, r.target)
    /\ r.pc \in {"resolve", "apply"} => SoundPlan(r)
    /\ r.pc = "apply" =>
         /\ review.applied = None
         /\ \A w \in r.writes : ChildrenBy(w.parent, "supersede")
         /\ \A t \in Sessions \ {s} : tx[t].pc # "apply"

\* A session that moves on, into an admissible state, keeps the invariant; it may
\* dismiss the review on the way.
LEMMA InvMoves ==
  ASSUME Inv, NEW s \in Sessions, NEW r, Admissible(s, r),
         tx' = [tx EXCEPT ![s] = r], UNCHANGED <<items, keyOf>>,
         \/ review' = review
         \/ review' = [status |-> "dismissed", winner |-> None, applied |-> None]
  PROVE  Inv'
<1>1. \A t \in Sessions : tx'[t] = IF t = s THEN r ELSE tx[t]
  BY DEF Inv, TypeOK
<1>2. TypeOK'
  BY DEF Inv, TypeOK, Admissible
<1>3. \A i \in ItemIds : Present(i)' = Present(i)
  BY DEF Present
<1>4. KeyHeld'
  <2> SUFFICES ASSUME NEW k \in Keys, NEW t \in Sessions, HoldsKey(t, k)'
               PROVE  /\ keyOf[k] = None
                      /\ \A u \in Sessions : HoldsKey(u, k)' => u = t
    BY DEF KeyHeld
  <2>1. \A u \in Sessions \ {s} : HoldsKey(u, k)' <=> HoldsKey(u, k)
    BY <1>1 DEF HoldsKey
  <2>2. HoldsKey(s, k)' => /\ keyOf[k] = None
                           /\ \A u \in Sessions \ {s} : ~ HoldsKey(u, k)
    BY <1>1 DEF HoldsKey, Admissible
  <2>3. QED
    BY <2>1, <2>2 DEF Inv, KeyHeld
<1>5. TargetHeld'
  <2>1. \A p : ChildrenBy(p, "resolve")' <=> ChildrenBy(p, "resolve")
    BY <1>3 DEF ChildrenBy
  <2> SUFFICES ASSUME NEW t \in Sessions, tx'[t].pc = "replace"
               PROVE  /\ tx'[t].target \in ItemIds
                      /\ ChildrenBy(tx'[t].target, "resolve")
                      /\ \A u \in Sessions : tx'[u].pc = "replace" /\ tx'[u].target = tx'[t].target
                                               => u = t
    BY <2>1 DEF TargetHeld, Replaces, ChildrenBy, Present
  <2>2. CASE t = s
    BY <1>1, <2>2 DEF Admissible, Replaces
  <2>3. CASE t # s
    BY <1>1, <2>3 DEF Inv, TargetHeld, Admissible, Replaces
  <2>4. QED
    BY <2>2, <2>3
<1>6. PlanSound'
  BY <1>1 DEF Inv, PlanSound, SoundPlan, Admissible, Present
<1>7. CaseHeld'
  BY <1>1 DEF Inv, CaseHeld, Admissible, ChildrenBy, Present
<1>8. OneItemPerKey' /\ ForkOnlyByResolution' /\ AppliedCarriesWinner'
  BY DEF Inv, OneItemPerKey, ForkOnlyByResolution, AppliedCarriesWinner, Present
<1>9. QED
  BY <1>2, <1>4, <1>5, <1>6, <1>7, <1>8 DEF Inv

\* Idle is always admissible: a transaction may abort anywhere.
LEMMA IdleAdmissible == \A s \in Sessions : Admissible(s, Idle)
BY DEF Admissible, Idle, Tx

\* retain and supersede_if_current, the checks: the locks were free.
LEMMA InvChecks ==
  ASSUME Inv, NEW s \in Sessions, NEW k \in Keys \cup {None},
         RetainCheck(s, k) \/ \E p \in ItemIds : SupersedeCheck(s, k, p)
  PROVE  Inv'
<1> USE NoneAssumption
<1>1. \A t \in Sessions, l \in Keys : l = k => ~ HoldsKey(t, l)
  BY DEF RetainCheck, SupersedeCheck, KeyFree, HoldsKey
<1>2. \A l \in Keys : l = k => keyOf[l] = None
  BY DEF RetainCheck, SupersedeCheck, Unused
<1>3. CASE RetainCheck(s, k)
  <2> DEFINE r == [Idle EXCEPT !.pc = "insert", !.key = k]
  <2>1. r \in Tx /\ r.pc = "insert" /\ r.key = k
    BY DEF Idle, Tx
  <2>2. Admissible(s, r)
    BY <1>1, <1>2, <2>1 DEF Admissible
  <2>3. QED
    BY <1>3, <2>2, InvMoves DEF RetainCheck
<1>4. ASSUME NEW p \in ItemIds, SupersedeCheck(s, k, p) PROVE Inv'
  <2> DEFINE r == [Idle EXCEPT !.pc = "replace", !.key = k, !.target = p]
  <2>1. r \in Tx /\ r.pc = "replace" /\ r.key = k /\ r.target = p
    BY DEF Idle, Tx
  <2>2. ChildrenBy(p, "resolve") /\ \A t \in Sessions : ~ Replaces(t, p)
    BY <1>4 DEF SupersedeCheck, HasChild, ChildrenBy, ItemFree, Replaces
  <2>3. Admissible(s, r)
    BY <1>1, <1>2, <2>1, <2>2 DEF Admissible
  <2>4. QED
    BY <1>4, <2>3, InvMoves DEF SupersedeCheck
<1>5. QED
  BY <1>3, <1>4

\* decide and dismiss read the case; nothing is locked.
LEMMA InvLoads ==
  ASSUME Inv, NEW s \in Sessions, DismissLoad(s) \/ \E v \in Values : DecideLoad(s, v)
  PROVE  Inv'
<1>1. CASE DismissLoad(s)
  <2> DEFINE r == [Idle EXCEPT !.pc = "dismiss"]
  <2>1. r \in Tx /\ r.pc = "dismiss"
    BY DEF Idle, Tx
  <2>2. Admissible(s, r)
    BY <2>1 DEF Admissible
  <2>3. QED
    BY <1>1, <2>2, InvMoves, ZenonT(60) DEF DismissLoad
<1>2. ASSUME NEW v \in Values, DecideLoad(s, v) PROVE Inv'
  <2> DEFINE r == [Idle EXCEPT !.pc = "heads", !.winner = v, !.seen = {i \in ItemIds : Present(i)}]
  <2>1. r \in Tx /\ r.pc = "heads"
    BY ZenonT(60) DEF Idle, Tx
  <2>2. Admissible(s, r)
    BY <2>1, SMTT(30) DEF Admissible
  <2>3. QED
    BY <1>2, <2>2, InvMoves, ZenonT(60) DEF DecideLoad
<1>3. QED
  BY <1>1, <1>2

\* _apply_winner makes a sound plan.
LEMMA InvHeads ==
  ASSUME Inv, NEW s \in Sessions, DecideHeads(s)
  PROVE  Inv'
<1> USE NoneAssumption
<1> DEFINE heads   == {i \in tx[s].seen : Recallable(i)}
           winners == {i \in heads : items[i].value = tx[s].winner}
           losers  == heads \ winners
           plan(w, a) == [tx[s] EXCEPT !.pc = "resolve", !.writes = w, !.applied = a]
<1>1. tx[s] \in Tx /\ heads \subseteq ItemIds /\ items \in [ItemIds -> Item]
  BY DEF Inv, TypeOK, Tx
<1>3. \A i \in heads : /\ Archive(i) \in Write /\ Archive(i).parent = i
                       /\ Archive(i).status = "archived"
                       /\ Promote(i, tx[s].winner) \in Write
                       /\ Promote(i, tx[s].winner).parent = i
                       /\ Promote(i, tx[s].winner).value = tx[s].winner
  BY <1>1 DEF Archive, Promote, Write, Item, Tx, Statuses
<1>4. ASSUME NEW w \in SUBSET Write, NEW a \in ItemIds \cup {None},
             \A u, v \in w : u.parent = v.parent => u = v,
             \A u \in w : u.status = "active" => u.value = tx[s].winner,
             a # None => Present(a) /\ items[a].value = tx[s].winner,
             tx' = [tx EXCEPT ![s] = plan(w, a)]
      PROVE  Inv'
  <2> DEFINE r == plan(w, a)
  <2>1. /\ r \in Tx /\ r.pc = "resolve" /\ r.writes = w /\ r.applied = a
        /\ r.winner = tx[s].winner
    BY <1>1 DEF Tx
  <2>2. tx' = [tx EXCEPT ![s] = r]
    BY <1>4
  <2> HIDE DEF r
  <2>3. SoundPlan(r)
    BY <1>4, <2>1 DEF SoundPlan
  <2>4. Admissible(s, r)
    BY <2>1, <2>3 DEF Admissible
  <2>5. QED
    BY <2>2, <2>4, InvMoves DEF DecideHeads
<1>5. ASSUME NEW w, NEW a, tx' = [tx EXCEPT ![s].pc = "resolve", ![s].writes = w, ![s].applied = a]
      PROVE  tx' = [tx EXCEPT ![s] = plan(w, a)]
  BY <1>5 DEF Inv, TypeOK
<1>6. CASE \E a \in winners : tx' = [tx EXCEPT ![s].pc = "resolve",
                                   ![s].writes = {Archive(i) : i \in losers}, ![s].applied = a]
  <2> DEFINE w == {Archive(i) : i \in losers}
  <2>1. PICK a \in winners : tx' = [tx EXCEPT ![s].pc = "resolve", ![s].writes = w, ![s].applied = a]
    BY <1>6
  <2>2. /\ w \in SUBSET Write
        /\ \A u, v \in w : u.parent = v.parent => u = v
        /\ \A u \in w : u.status # "active"
    BY <1>3
  <2>3. a \in ItemIds /\ Present(a) /\ items[a].value = tx[s].winner
    BY <1>1 DEF Recallable
  <2>4. tx' = [tx EXCEPT ![s] = plan(w, a)]
    BY <1>5, <2>1
  <2> HIDE DEF w
  <2>5. QED
    BY <1>4, <2>2, <2>3, <2>4
<1>7. CASE \E p \in losers :
             tx' = [tx EXCEPT ![s].pc = "resolve",
                    ![s].writes = {Promote(p, tx[s].winner)} \cup {Archive(i) : i \in losers \ {p}},
                    ![s].applied = None]
  <2>1. PICK p \in losers :
          tx' = [tx EXCEPT ![s].pc = "resolve",
                 ![s].writes = {Promote(p, tx[s].winner)} \cup {Archive(i) : i \in losers \ {p}},
                 ![s].applied = None]
    BY <1>7
  <2> DEFINE w == {Promote(p, tx[s].winner)} \cup {Archive(i) : i \in losers \ {p}}
  <2>2. /\ w \in SUBSET Write
        /\ \A u, v \in w : u.parent = v.parent => u = v
        /\ \A u \in w : u.status = "active" => u.value = tx[s].winner
    BY <1>3
  <2>3. tx' = [tx EXCEPT ![s] = plan(w, None)]
    BY <1>5, <2>1
  <2> HIDE DEF w
  <2>4. QED
    BY <1>4, <2>2, <2>3
<1>8. CASE tx' = [tx EXCEPT ![s] = Idle]
  BY <1>8, IdleAdmissible, InvMoves DEF DecideHeads
<1>9. QED
  BY <1>6, <1>7, <1>8 DEF DecideHeads

\* apply_conflict_resolution, the check under the case's lock.
LEMMA InvResolveCheck ==
  ASSUME Inv, NEW s \in Sessions, ResolveCheck(s)
  PROVE  Inv'
<1> DEFINE r == [tx[s] EXCEPT !.pc = "apply"]
<1>1. tx[s] \in Tx /\ tx[s].pc = "resolve" /\ SoundPlan(tx[s])
  BY DEF Inv, TypeOK, PlanSound, ResolveCheck
<1>2. r \in Tx /\ r.pc = "apply" /\ r.writes = tx[s].writes /\ r.winner = tx[s].winner
      /\ r.applied = tx[s].applied
  BY <1>1 DEF Tx
<1>3. CASE Resolvable(s)
  <2>1. SoundPlan(r)
    BY <1>1, <1>2 DEF SoundPlan
  <2>2. /\ review.applied = None
        /\ \A w \in r.writes : ChildrenBy(w.parent, "supersede")
        /\ \A t \in Sessions : tx[t].pc # "apply"
    BY <1>2, <1>3 DEF Resolvable, HasChild, ChildrenBy, ResolveCheck, CaseFree
  <2>3. Admissible(s, r)
    BY <1>2, <2>1, <2>2 DEF Admissible
  <2>4. tx' = [tx EXCEPT ![s] = r]
    BY <1>3 DEF ResolveCheck
  <2>5. QED
    BY <2>3, <2>4, InvMoves DEF ResolveCheck
<1>4. CASE ~ Resolvable(s)
  BY <1>4, IdleAdmissible, InvMoves DEF ResolveCheck
<1>5. QED
  BY <1>3, <1>4
-----------------------------------------------------------------------------
\* What retain and supersede_if_current commit: one new row, under the key and, for
\* a supersede, the parent whose locks the session holds.
LEMMA WriteFacts ==
  ASSUME Inv, NEW s \in Sessions, NEW i \in ItemIds, NEW v \in Values,
         RetainCommit(s, i, v) \/ \E st \in Statuses : SupersedeCommit(s, i, v, st)
  PROVE  /\ tx[s].pc \in {"insert", "replace"} /\ ~ Present(i)
         /\ items' \in [ItemIds -> Item]
         /\ \A j \in ItemIds \ {i} : items'[j] = items[j]
         /\ items'[i].key = tx[s].key
         /\ \/ items'[i].parent = None
            \/ /\ Replaces(s, items'[i].parent) /\ items'[i].by = "supersede"
               /\ items'[i].parent \in ItemIds
         /\ RecordKey(tx[s].key, i)
         /\ tx' = [tx EXCEPT ![s] = Idle] /\ UNCHANGED review
<1>1. items \in [ItemIds -> Item] /\ tx[s] \in Tx
  BY DEF Inv, TypeOK
<1>2. CASE RetainCommit(s, i, v)
  <2> DEFINE row == [Absent EXCEPT !.rev = 1, !.value = v, !.key = tx[s].key]
  <2>1. row \in Item /\ row.key = tx[s].key /\ row.parent = None
    BY <1>1 DEF Absent, Item, Tx, Statuses, Writers
  <2>2. items' = [items EXCEPT ![i] = row]
    BY <1>2 DEF RetainCommit
  <2> HIDE DEF row
  <2>3. QED
    BY <1>1, <1>2, <2>1, <2>2 DEF RetainCommit
<1>3. ASSUME NEW st \in Statuses, SupersedeCommit(s, i, v, st)
      PROVE  /\ ~ Present(i) /\ tx[s].pc = "replace"
             /\ items' \in [ItemIds -> Item]
             /\ \A j \in ItemIds \ {i} : items'[j] = items[j]
             /\ items'[i].key = tx[s].key
             /\ Replaces(s, items'[i].parent) /\ items'[i].by = "supersede"
             /\ items'[i].parent \in ItemIds
  <2> DEFINE p == tx[s].target
             row == Successor(p, v, st, tx[s].key, "supersede")
  <2>1. tx[s].pc = "replace" /\ ~ Present(i) /\ items' = [items EXCEPT ![i] = row]
    BY <1>3 DEF SupersedeCommit
  <2>2. p \in ItemIds
    BY <2>1 DEF Inv, TargetHeld
  <2>3. row \in Item /\ row.key = tx[s].key /\ row.parent = p /\ row.by = "supersede"
    BY <1>1, <2>2 DEF Successor, Item, Tx, Writers
  <2> HIDE DEF row
  <2>4. QED
    BY <1>1, <2>1, <2>2, <2>3 DEF Replaces
<1>4. QED
  BY <1>2, <1>3 DEF SupersedeCommit

\* Rows are never changed, so what was read of a present row stays true.
LEMMA SoundPlanKept ==
  ASSUME NEW r \in Tx, SoundPlan(r),
         \A j \in ItemIds : Present(j) => Present(j)' /\ items'[j] = items[j]
  PROVE  /\ \A v, w \in r.writes : v.parent = w.parent => v = w
         /\ \A w \in r.writes : w.status = "active" => w.value = r.winner
         /\ r.applied # None => items'[r.applied].rev > 0 /\ items'[r.applied].value = r.winner
<1>1. r.applied # None => r.applied \in ItemIds
  BY DEF Tx
<1>2. QED
  BY <1>1 DEF SoundPlan, Present

\* retain and supersede_if_current, the commits.
LEMMA InvWrites ==
  ASSUME Inv, NEW s \in Sessions, NEW i \in ItemIds, NEW v \in Values,
         RetainCommit(s, i, v) \/ \E st \in Statuses : SupersedeCommit(s, i, v, st)
  PROVE  Inv'
<1> USE NoneAssumption
<1>1. /\ tx[s].pc \in {"insert", "replace"} /\ ~ Present(i)
      /\ items' \in [ItemIds -> Item]
      /\ \A j \in ItemIds \ {i} : items'[j] = items[j]
      /\ items'[i].key = tx[s].key
      /\ \/ items'[i].parent = None
         \/ /\ Replaces(s, items'[i].parent) /\ items'[i].by = "supersede"
            /\ items'[i].parent \in ItemIds
      /\ RecordKey(tx[s].key, i)
      /\ tx' = [tx EXCEPT ![s] = Idle] /\ UNCHANGED review
  BY WriteFacts
<1>2. \A t \in Sessions : /\ tx'[t] = IF t = s THEN Idle ELSE tx[t]
                          /\ tx[t] \in Tx
  BY <1>1 DEF Inv, TypeOK
<1>3. Idle.pc = "idle" /\ Idle \in Tx
  BY DEF Idle, Tx
<1>4. \A j \in ItemIds : j # i => Present(j)' = Present(j)
  BY <1>1 DEF Present
<1>5. \A j \in ItemIds : Present(j) => Present(j)' /\ items'[j] = items[j]
  BY <1>1, <1>4
<1>6. tx[s].key \in Keys \cup {None}
  BY <1>2 DEF Tx
<1>7. \A k \in Keys : keyOf'[k] = IF k = tx[s].key THEN i ELSE keyOf[k]
  BY <1>1, <1>6 DEF RecordKey, Inv, TypeOK
<1>8. TypeOK'
  <2>1. keyOf' \in [Keys -> ItemIds \cup {None}]
    BY <1>1, <1>6 DEF RecordKey, Inv, TypeOK
  <2>2. QED
    BY <1>1, <1>3, <2>1 DEF Inv, TypeOK
<1>9. KeyHeld'
  <2> SUFFICES ASSUME NEW k \in Keys, NEW t \in Sessions, HoldsKey(t, k)'
               PROVE  /\ keyOf'[k] = None
                      /\ \A u \in Sessions : HoldsKey(u, k)' => u = t
    BY DEF KeyHeld
  <2>1. \A u \in Sessions : HoldsKey(u, k)' => u # s /\ HoldsKey(u, k)
    BY <1>2, <1>3 DEF HoldsKey
  <2>2. k # tx[s].key
    BY <1>1, <2>1 DEF Inv, KeyHeld, HoldsKey
  <2>3. QED
    BY <1>7, <2>1, <2>2 DEF Inv, KeyHeld
<1>10. OneItemPerKey'
  <2> SUFFICES ASSUME NEW j \in ItemIds, Present(j)', items'[j].key # None
               PROVE  keyOf'[items'[j].key] = j
    BY DEF OneItemPerKey
  <2>1. items'[j].key \in Keys
    BY <1>1 DEF Item
  <2>2. CASE j = i
    BY <1>1, <1>7, <2>1, <2>2
  <2>3. CASE j # i
    <3>1. Present(j) /\ items'[j] = items[j] /\ keyOf[items[j].key] = j
      BY <1>1, <1>4, <2>3 DEF Inv, OneItemPerKey
    <3>2. items[j].key # tx[s].key
      BY <1>1, <2>1, <3>1 DEF Inv, KeyHeld, HoldsKey
    <3>3. QED
      BY <1>7, <2>1, <3>1, <3>2
  <2>4. QED
    BY <2>2, <2>3
<1>11. TargetHeld'
  <2> SUFFICES ASSUME NEW t \in Sessions, tx'[t].pc = "replace"
               PROVE  /\ tx'[t].target \in ItemIds
                      /\ \A j \in ItemIds : Present(j)' /\ items'[j].parent = tx'[t].target
                                              => items'[j].by = "resolve"
                      /\ \A u \in Sessions : tx'[u].pc = "replace" /\ tx'[u].target = tx'[t].target
                                               => u = t
    BY DEF TargetHeld, Replaces, ChildrenBy
  <2>1. t # s /\ tx'[t] = tx[t] /\ tx[t].pc = "replace"
    BY <1>2, <1>3
  <2>2. /\ tx[t].target \in ItemIds
        /\ ChildrenBy(tx[t].target, "resolve")
        /\ \A u \in Sessions : Replaces(u, tx[t].target) => u = t
    BY <2>1 DEF Inv, TargetHeld
  <2>3. items'[i].parent # tx[t].target
    BY <1>1, <2>1, <2>2
  <2>4. \A j \in ItemIds : Present(j)' /\ items'[j].parent = tx[t].target => items'[j].by = "resolve"
    BY <1>1, <1>4, <2>2, <2>3 DEF ChildrenBy
  <2>5. \A u \in Sessions : tx'[u].pc = "replace" => tx'[u] = tx[u]
    BY <1>2, <1>3
  <2>6. QED
    BY <2>1, <2>2, <2>4, <2>5 DEF Replaces
<1>12. PlanSound'
  <2>1. ASSUME NEW t \in Sessions, tx'[t].pc \in {"resolve", "apply"} PROVE SoundPlan(tx[t])
    BY <1>2, <1>3, <2>1 DEF Inv, PlanSound
  <2>2. \A t \in Sessions : tx'[t].pc \in {"resolve", "apply"} => tx'[t] = tx[t] /\ tx[t] \in Tx
    BY <1>2, <1>3
  <2>3. QED
    BY <1>5, <2>1, <2>2, SoundPlanKept DEF PlanSound, SoundPlan, Present
<1>13. CaseHeld'
  <2> SUFFICES ASSUME NEW t \in Sessions, tx'[t].pc = "apply"
               PROVE  /\ review.applied = None
                      /\ \A w \in tx'[t].writes : \A j \in ItemIds :
                           Present(j)' /\ items'[j].parent = w.parent => items'[j].by = "supersede"
                      /\ \A u \in Sessions : tx'[u].pc = "apply" => u = t
    BY <1>1 DEF CaseHeld, ChildrenBy
  <2>1. tx'[t] = tx[t] /\ tx[t].pc = "apply" /\ tx[t] \in Tx
    BY <1>2, <1>3
  <2>2. /\ review.applied = None
        /\ \A w \in tx[t].writes : ChildrenBy(w.parent, "supersede")
        /\ \A u \in Sessions : tx[u].pc = "apply" => u = t
    BY <2>1 DEF Inv, CaseHeld
  <2>3. \A w \in tx[t].writes : w.parent \in ItemIds
    BY <2>1 DEF Tx, Write
  <2>4. \A w \in tx[t].writes : \A j \in ItemIds :
          Present(j)' /\ items'[j].parent = w.parent => items'[j].by = "supersede"
    BY <1>1, <1>4, <2>2, <2>3 DEF ChildrenBy
  <2>5. QED
    BY <1>2, <1>3, <2>1, <2>2, <2>4
<1>14. ForkOnlyByResolution'
  <2>1. ASSUME NEW j \in ItemIds, j # i, Present(j)', items'[j].parent = items'[i].parent,
               items'[i].parent # None
        PROVE  items'[i].by = "supersede" /\ items'[j].by = "resolve"
    <3>1. Replaces(s, items'[i].parent) /\ items'[i].by = "supersede"
      BY <1>1, <2>1
    <3>2. Present(j) /\ items'[j] = items[j]
      BY <1>1, <1>4, <2>1
    <3>3. ChildrenBy(items'[i].parent, "resolve")
      BY <3>1 DEF Inv, TargetHeld, Replaces
    <3>4. QED
      BY <2>1, <3>1, <3>2, <3>3 DEF ChildrenBy
  <2> SUFFICES ASSUME NEW j \in ItemIds, NEW l \in ItemIds, j # l, Present(j)', Present(l)',
                      items'[j].parent = items'[l].parent, items'[j].parent # None
               PROVE  {items'[j].by, items'[l].by} = {"supersede", "resolve"}
    BY DEF ForkOnlyByResolution
  <2>2. CASE j # i /\ l # i
    BY <1>1, <1>4, <2>2 DEF Inv, ForkOnlyByResolution
  <2>3. CASE j = i
    BY <2>1, <2>3
  <2>4. CASE l = i
    BY <2>1, <2>4
  <2>5. QED
    BY <2>2, <2>3, <2>4
<1>15. AppliedCarriesWinner'
  <2>1. review.applied # None => review.applied \in ItemIds
    BY DEF Inv, TypeOK
  <2>2. QED
    BY <1>1, <1>5, <2>1 DEF Inv, AppliedCarriesWinner
<1>16. QED
  BY <1>8, <1>9, <1>10, <1>11, <1>12, <1>13, <1>14, <1>15 DEF Inv
\* What apply_conflict_resolution commits: for each planned revision one new row, and
\* the review, which names a row that carries the winning value.
LEMMA ResolveFacts ==
  ASSUME Inv, NEW s \in Sessions, ResolveCommit(s)
  PROVE  /\ tx[s].pc = "apply" /\ UNCHANGED keyOf /\ tx' = [tx EXCEPT ![s] = Idle]
         /\ items' \in [ItemIds -> Item]
         /\ \E id \in [tx[s].writes -> ItemIds] :
              /\ \A i \in ItemIds :
                   \/ items'[i] = items[i]
                   \/ /\ ~ Present(i) /\ items'[i].key = None /\ items'[i].by = "resolve"
                      /\ \E w \in tx[s].writes : id[w] = i /\ items'[i].parent = w.parent
              /\ \A w \in tx[s].writes : /\ Present(id[w])' /\ ~ Present(id[w])
                                         /\ items'[id[w]].value = w.value
              /\ \E a \in ItemIds :
                   /\ a = tx[s].applied \/ \E w \in tx[s].writes : a = id[w] /\ w.status = "active"
                   /\ review' = [status |-> "accepted", winner |-> tx[s].winner, applied |-> a]
<1> DEFINE W == tx[s].writes
           row(w) == Successor(w.parent, w.value, w.status, None, "resolve")
<1>1. items \in [ItemIds -> Item] /\ tx[s] \in Tx
  BY DEF Inv, TypeOK
<1>2. PICK id \in [W -> {i \in ItemIds : ~ Present(i)}] :
         /\ \A v, w \in W : id[v] = id[w] => v = w
         /\ items' = [i \in ItemIds |->
              IF \E w \in W : id[w] = i
              THEN LET w == CHOOSE u \in W : id[u] = i IN row(w)
              ELSE items[i]]
         /\ \E a \in IF tx[s].applied # None THEN {tx[s].applied}
                     ELSE {id[w] : w \in {u \in W : u.status = "active"}} :
              review' = [status |-> "accepted", winner |-> tx[s].winner, applied |-> a]
  BY DEF ResolveCommit
<1>3. id \in [W -> ItemIds] /\ \A w \in W : id[w] \in ItemIds /\ ~ Present(id[w])
  BY <1>2
<1>4. \A w \in W : /\ row(w) \in Item /\ row(w).rev > 0 /\ row(w).parent = w.parent
                   /\ row(w).value = w.value /\ row(w).key = None /\ row(w).by = "resolve"
  BY <1>1 DEF Successor, Item, Tx, Write, Writers
<1>5. ASSUME NEW w \in W PROVE items'[id[w]] = row(w)
  <2>1. (CHOOSE u \in W : id[u] = id[w]) = w
    BY <1>2
  <2>2. QED
    BY <1>2, <1>3, <2>1
<1>6. \A i \in ItemIds : (\A w \in W : id[w] # i) => items'[i] = items[i]
  BY <1>2
<1> HIDE DEF row
<1>7. \A i \in ItemIds : items'[i] \in Item
  BY <1>1, <1>4, <1>5, <1>6
<1>8. items' \in [ItemIds -> Item]
  BY <1>2, <1>7
<1>9. \A i \in ItemIds :
        \/ items'[i] = items[i]
        \/ /\ ~ Present(i) /\ items'[i].key = None /\ items'[i].by = "resolve"
           /\ \E w \in W : id[w] = i /\ items'[i].parent = w.parent
  BY <1>3, <1>4, <1>5, <1>6
<1>10. \A w \in W : Present(id[w])' /\ ~ Present(id[w]) /\ items'[id[w]].value = w.value
  <2> SUFFICES ASSUME NEW w \in W
               PROVE  items'[id[w]].rev > 0 /\ ~ Present(id[w]) /\ items'[id[w]].value = w.value
    BY DEF Present
  <2>1. QED
    BY <1>3, <1>4, <1>5
<1>11. \E a \in ItemIds :
         /\ a = tx[s].applied \/ \E w \in W : a = id[w] /\ w.status = "active"
         /\ review' = [status |-> "accepted", winner |-> tx[s].winner, applied |-> a]
  <2>1. PICK a \in IF tx[s].applied # None THEN {tx[s].applied}
                   ELSE {id[w] : w \in {u \in W : u.status = "active"}} :
              review' = [status |-> "accepted", winner |-> tx[s].winner, applied |-> a]
    BY <1>2
  <2>2. tx[s].applied # None => tx[s].applied \in ItemIds
    BY <1>1 DEF Tx
  <2>3. /\ a \in ItemIds
        /\ a = tx[s].applied \/ \E w \in W : a = id[w] /\ w.status = "active"
    BY <1>3, <2>1, <2>2
  <2>4. QED
    BY <2>1, <2>3
<1>12. QED
  BY <1>3, <1>8, <1>9, <1>10, <1>11, ZenonT(60) DEF ResolveCommit

\* apply_conflict_resolution, the commit.
LEMMA InvResolves ==
  ASSUME Inv, NEW s \in Sessions, ResolveCommit(s)
  PROVE  Inv'
<1> USE NoneAssumption
<1> DEFINE W == tx[s].writes
<1>1. /\ tx[s].pc = "apply" /\ UNCHANGED keyOf /\ tx' = [tx EXCEPT ![s] = Idle]
      /\ items' \in [ItemIds -> Item]
  BY ResolveFacts
<1>2. PICK id \in [W -> ItemIds] :
        /\ \A i \in ItemIds :
             \/ items'[i] = items[i]
             \/ /\ ~ Present(i) /\ items'[i].key = None /\ items'[i].by = "resolve"
                /\ \E w \in W : id[w] = i /\ items'[i].parent = w.parent
        /\ \A w \in W : Present(id[w])' /\ ~ Present(id[w]) /\ items'[id[w]].value = w.value
        /\ \E a \in ItemIds :
             /\ a = tx[s].applied \/ \E w \in W : a = id[w] /\ w.status = "active"
             /\ review' = [status |-> "accepted", winner |-> tx[s].winner, applied |-> a]
  BY ResolveFacts
<1>3. \A t \in Sessions : /\ tx'[t] = IF t = s THEN Idle ELSE tx[t]
                          /\ tx[t] \in Tx
  BY <1>1 DEF Inv, TypeOK
<1>4. Idle.pc = "idle" /\ Idle \in Tx
  BY DEF Idle, Tx
<1>5. \A j \in ItemIds : Present(j) => Present(j)' /\ items'[j] = items[j]
  <2>1. \A j \in ItemIds : Present(j) => items'[j] = items[j]
    BY <1>2
  <2>2. QED
    BY <2>1 DEF Present
<1>6. PICK a \in ItemIds :
        /\ a = tx[s].applied \/ \E w \in W : a = id[w] /\ w.status = "active"
        /\ review' = [status |-> "accepted", winner |-> tx[s].winner, applied |-> a]
  BY <1>2
<1>7. SoundPlan(tx[s]) /\ tx[s] \in Tx
  BY <1>1, <1>3 DEF Inv, PlanSound
<1>8. /\ \A w \in W : ChildrenBy(w.parent, "supersede")
      /\ \A t \in Sessions : tx[t].pc = "apply" => t = s
  BY <1>1 DEF Inv, CaseHeld
<1>9. \A j \in ItemIds : Present(j)' =>
        \/ Present(j) /\ items'[j] = items[j]
        \/ /\ items'[j].key = None /\ items'[j].by = "resolve"
           /\ \E w \in W : id[w] = j /\ items'[j].parent = w.parent
  BY <1>2 DEF Present
<1>10. TypeOK'
  <2>1. review' \in [status : {None, "accepted", "dismissed"}, winner : Values \cup {None},
                     applied : ItemIds \cup {None}]
    BY <1>6, <1>7 DEF Tx
  <2>2. QED
    BY <1>1, <1>4, <2>1 DEF Inv, TypeOK
<1>11. KeyHeld'
  <2>1. \A k \in Keys : \A u \in Sessions : HoldsKey(u, k)' => HoldsKey(u, k)
    BY <1>3, <1>4 DEF HoldsKey
  <2>2. QED
    BY <1>1, <2>1 DEF Inv, KeyHeld
<1>12. OneItemPerKey'
  BY <1>1, <1>9 DEF Inv, OneItemPerKey
<1>13. TargetHeld'
  <2> SUFFICES ASSUME NEW t \in Sessions, tx'[t].pc = "replace"
               PROVE  /\ tx'[t].target \in ItemIds
                      /\ \A j \in ItemIds : Present(j)' /\ items'[j].parent = tx'[t].target
                                              => items'[j].by = "resolve"
                      /\ \A u \in Sessions : tx'[u].pc = "replace" /\ tx'[u].target = tx'[t].target
                                               => u = t
    BY DEF TargetHeld, Replaces, ChildrenBy
  <2>1. tx'[t] = tx[t] /\ tx[t].pc = "replace"
    BY <1>3, <1>4
  <2>2. /\ tx[t].target \in ItemIds
        /\ ChildrenBy(tx[t].target, "resolve")
        /\ \A u \in Sessions : Replaces(u, tx[t].target) => u = t
    BY <2>1 DEF Inv, TargetHeld
  <2>3. \A j \in ItemIds : Present(j)' /\ items'[j].parent = tx[t].target => items'[j].by = "resolve"
    BY <1>9, <2>2 DEF ChildrenBy
  <2>4. \A u \in Sessions : tx'[u].pc = "replace" => tx'[u] = tx[u]
    BY <1>3, <1>4
  <2>5. QED
    BY <2>1, <2>2, <2>3, <2>4 DEF Replaces
<1>14. PlanSound'
  <2>1. ASSUME NEW t \in Sessions, tx'[t].pc \in {"resolve", "apply"} PROVE SoundPlan(tx[t])
    BY <1>3, <1>4, <2>1 DEF Inv, PlanSound
  <2>2. \A t \in Sessions : tx'[t].pc \in {"resolve", "apply"} => tx'[t] = tx[t] /\ tx[t] \in Tx
    BY <1>3, <1>4
  <2>3. QED
    BY <1>5, <2>1, <2>2, SoundPlanKept DEF PlanSound, SoundPlan, Present
<1>15. CaseHeld'
  <2>1. \A t \in Sessions : tx'[t].pc # "apply"
    BY <1>3, <1>4, <1>8
  <2>2. QED
    BY <2>1 DEF CaseHeld
<1>16. ForkOnlyByResolution'
  <2> SUFFICES ASSUME NEW j \in ItemIds, NEW l \in ItemIds, j # l, Present(j)', Present(l)',
                      items'[j].parent = items'[l].parent, items'[j].parent # None
               PROVE  {items'[j].by, items'[l].by} = {"supersede", "resolve"}
    BY DEF ForkOnlyByResolution
  <2> DEFINE Old(x) == Present(x) /\ items'[x] = items[x]
             New(x) == /\ items'[x].by = "resolve"
                       /\ \E w \in W : id[w] = x /\ items'[x].parent = w.parent
  <2>1. (Old(j) \/ New(j)) /\ (Old(l) \/ New(l))
    BY <1>9
  <2>2. CASE Old(j) /\ Old(l)
    BY <2>2 DEF Inv, ForkOnlyByResolution
  <2>3. ASSUME NEW x \in ItemIds, NEW y \in ItemIds, New(x), Old(y),
               items'[x].parent = items'[y].parent
        PROVE  items'[x].by = "resolve" /\ items'[y].by = "supersede"
    BY <1>8, <2>3 DEF ChildrenBy
  <2>4. ~ (New(j) /\ New(l))
    <3> SUFFICES ASSUME New(j), New(l) PROVE FALSE
      OBVIOUS
    <3>1. PICK u \in W : id[u] = j /\ items'[j].parent = u.parent
      OBVIOUS
    <3>2. PICK w \in W : id[w] = l /\ items'[l].parent = w.parent
      OBVIOUS
    <3>3. u = w
      BY <1>7, <3>1, <3>2, ZenonT(60) DEF SoundPlan
    <3>4. QED
      BY <3>1, <3>2, <3>3
  <2> HIDE DEF Old, New
  <2>5. QED
    BY <2>1, <2>2, <2>3, <2>4
<1>17. AppliedCarriesWinner'
  <2>1. review'.applied = a /\ review'.winner = tx[s].winner
    BY <1>6
  <2>2. Present(a)' /\ items'[a].value = tx[s].winner
    <3>1. CASE a = tx[s].applied
      BY <1>5, <1>7, <3>1 DEF SoundPlan
    <3>2. ASSUME NEW w \in W, a = id[w], w.status = "active"
          PROVE  Present(a)' /\ items'[a].value = tx[s].winner
      <4>1. items'[id[w]].rev > 0 /\ items'[id[w]].value = w.value /\ w.value = tx[s].winner
        BY <1>2, <1>7, <3>2 DEF SoundPlan, Present
      <4>2. QED
        BY <3>2, <4>1 DEF Present
    <3>3. QED
      BY <1>6, <3>1, <3>2
  <2>3. items'[a].rev > 0
    BY <2>2 DEF Present
  <2>4. QED
    BY <2>1, <2>2, <2>3 DEF AppliedCarriesWinner, Present
<1>18. QED
  BY <1>10, <1>11, <1>12, <1>13, <1>14, <1>15, <1>16, <1>17 DEF Inv

-----------------------------------------------------------------------------
\* Every step keeps the invariant.
LEMMA InvStep == ASSUME Inv, [Next]_vars PROVE Inv'
<1>1. ASSUME NEW s \in Sessions, Step(s) PROVE Inv'
  <2>1. CASE \E k \in Keys \cup {None} :
               RetainCheck(s, k) \/ \E p \in ItemIds : SupersedeCheck(s, k, p)
    BY <2>1, InvChecks
  <2>2. CASE \E i \in ItemIds, v \in Values :
               RetainCommit(s, i, v) \/ \E st \in Statuses : SupersedeCommit(s, i, v, st)
    BY <2>2, InvWrites
  <2>3. CASE DismissSave(s) \/ Abort(s)
    BY <2>3, IdleAdmissible, InvMoves DEF DismissSave, Abort
  <2>4. QED
    BY <1>1, <2>1, <2>2, <2>3, InvLoads, InvHeads, InvResolveCheck, InvResolves DEF Step
<1>2. CASE UNCHANGED vars
  <2>1. TypeOK' /\ KeyHeld' /\ OneItemPerKey'
    BY <1>2 DEF vars, Inv, TypeOK, KeyHeld, HoldsKey, OneItemPerKey, Present
  <2>2. TargetHeld'
    BY <1>2 DEF vars, Inv, TargetHeld, Replaces, ChildrenBy, Present
  <2>3. PlanSound' /\ CaseHeld'
    BY <1>2 DEF vars, Inv, PlanSound, SoundPlan, CaseHeld, ChildrenBy, Present
  <2>4. ForkOnlyByResolution' /\ AppliedCarriesWinner'
    BY <1>2 DEF vars, Inv, ForkOnlyByResolution, AppliedCarriesWinner, Present
  <2>5. QED
    BY <2>1, <2>2, <2>3, <2>4 DEF Inv
<1>3. QED
  BY <1>1, <1>2 DEF Next

LEMMA Invariance == Spec => []Inv
<1>1. Inv /\ [Next]_vars => Inv'
  BY InvStep
<1>2. QED
  BY <1>1, InvInit, PTL DEF Spec

\* Type correctness of the ledger, the key table, the review and the sessions.
THEOREM TypeCorrect == Spec => []TypeOK
<1>1. Inv => TypeOK
  BY DEF Inv
<1>2. QED
  BY <1>1, Invariance, PTL

\* retain / supersede_if_current: however many callers race on an idempotency key,
\* they create one item.
THEOREM KeyNamesOneItem == Spec => []OneItemPerKey
<1>1. Inv => OneItemPerKey
  BY DEF Inv
<1>2. QED
  BY <1>1, Invariance, PTL

\* supersede_if_current / apply_conflict_resolution: two successors of one item are
\* one of each; two supersedes, or two resolutions, never fork a chain.
THEOREM ForksAreByResolution == Spec => []ForkOnlyByResolution
<1>1. Inv => ForkOnlyByResolution
  BY DEF Inv
<1>2. QED
  BY <1>1, Invariance, PTL

\* apply_conflict_resolution: an applied review names a memory with the winning
\* value.
THEOREM WinnerIsApplied == Spec => []AppliedCarriesWinner
<1>1. Inv => AppliedCarriesWinner
  BY DEF Inv
<1>2. QED
  BY <1>1, Invariance, PTL

\* decide: no resolution replaces an applied one; a dismissal that was decided
\* before it was applied may.
THEOREM AppliedIsKept == Spec => AppliedOnlyDismissed
<1> DEFINE Kept == review.applied # None =>
                     \/ review' = review
                     \/ \E s \in Sessions : tx[s].pc = "dismiss" /\ review'.status = "dismissed"
<1>1. ASSUME Inv, [Next]_vars PROVE [Kept]_vars
  <2>1. ASSUME NEW s \in Sessions, Step(s) PROVE Kept
    <3>1. CASE ResolveCommit(s)
      BY <1>1, <3>1 DEF ResolveCommit, Inv, CaseHeld
    <3>2. CASE DismissSave(s)
      BY <3>2 DEF DismissSave
    <3>3. CASE review' = review
      BY <3>3
    <3>4. QED
      BY <2>1, <3>1, <3>2, <3>3 DEF Step, RetainCheck, SupersedeCheck, RetainCommit,
         SupersedeCommit, DecideLoad, DecideHeads, ResolveCheck, DismissLoad, Abort
  <2>2. QED
    BY <1>1, <2>1, SMTT(30) DEF Next
<1>2. QED
  BY <1>1, Invariance, PTL DEF Spec, AppliedOnlyDismissed

-----------------------------------------------------------------------------
(* The embedding collection.  Looking, creating, scanning and adopting are *)
(* separate calls: the invariant says what each process may still assume   *)
(* of the collection while others adopt it and write to it.                *)

\* Two models adopted the collection, neither seeing the other's metadata point.
AdoptedTwice == \E q, r \in adopted : ModelOf[q] # ModelOf[r]

\* A process past the comparison has the collection's dimension.
SameDimension ==
    \A p \in Processes : client[p] \in {"unmarked", "scanned", "on"} => dimension = DimOf[p]

\* Without a metadata point nothing is written, so a scan stays true.
ScanHolds ==
    adopted = {} => /\ metadata = Unset
                    /\ \A p \in Processes : client[p] # "on"
                    /\ \A p \in Processes : client[p] = "scanned" => vectors \subseteq {ModelOf[p]}

\* With one, all adopters, vectors and connected processes agree with it.
MetadataHolds ==
    /\ adopted # {} => metadata # Unset
    /\ adopted # {} /\ ~AdoptedTwice =>
         /\ vectors \subseteq {metadata} /\ \A q \in adopted : ModelOf[q] = metadata
         /\ \A p \in Processes : client[p] = "on" => ModelOf[p] = metadata

CollectionInv == Collection!TypeOK /\ SameDimension /\ ScanHolds /\ MetadataHolds

\* A process moves on without touching the collection.
LEMMA OnlyEnters ==
  ASSUME CollectionInv, NEW p \in Processes,
         NEW phase \in {"missing", "exists", "unmarked", "scanned", "on", "refused"},
         Collection!Enter(p, phase), UNCHANGED <<dimension, metadata, vectors, adopted>>,
         phase \in {"unmarked", "scanned", "on"} => dimension = DimOf[p],
         phase = "scanned" => vectors \subseteq {ModelOf[p]},
         phase = "on" => metadata = ModelOf[p] /\ metadata # Unset
  PROVE  CollectionInv'
<1>1. Collection!TypeOK'
  BY DEF CollectionInv, Collection!TypeOK, Collection!Enter
<1>2. \A q \in Processes : client'[q] = IF q = p THEN phase ELSE client[q]
  BY DEF CollectionInv, Collection!TypeOK, Collection!Enter
<1>3. SameDimension' /\ ScanHolds'
  BY <1>2 DEF CollectionInv, SameDimension, ScanHolds
<1>4. MetadataHolds'
  BY <1>2 DEF CollectionInv, MetadataHolds, AdoptedTwice
<1>5. QED
  BY <1>1, <1>3, <1>4 DEF CollectionInv

LEMMA CollectionStep ==
  ASSUME CollectionConstants, CollectionInv, NEW p \in Processes,
         \/ Collection!Look(p) \/ Collection!Create(p) \/ Collection!Identify(p)
         \/ Collection!Scan(p) \/ Collection!Adopt(p) \/ Collection!Write(p)
  PROVE  CollectionInv'
<1>0. /\ client \in [Processes -> {"off", "missing", "exists", "unmarked", "scanned", "on", "refused"}]
      /\ DimOf[p] # Unset /\ ModelOf[p] # Unset /\ adopted \subseteq Processes
  BY DEF CollectionInv, Collection!TypeOK, CollectionConstants
<1>1. CASE Collection!Look(p)
  BY <1>1, OnlyEnters DEF Collection!Look
<1>2. CASE Collection!Create(p)
  <2>1. CASE dimension = Unset
    <3>1. dimension' = DimOf[p] /\ Collection!Enter(p, "exists") /\ UNCHANGED <<metadata, vectors, adopted>>
      BY <1>2, <2>1 DEF Collection!Create
    <3>2. \A q \in Processes : client'[q] = IF q = p THEN "exists" ELSE client[q]
      BY <1>0, <3>1 DEF Collection!Enter
    <3>3. Collection!TypeOK'
      BY <3>1 DEF CollectionInv, Collection!TypeOK, Collection!Enter, Collection!Dims
    <3>4. \A q \in Processes : DimOf[q] # Unset
      BY DEF CollectionConstants
    <3>5. SameDimension'
      BY <2>1, <3>2, <3>4 DEF CollectionInv, SameDimension
    <3>6. ScanHolds' /\ MetadataHolds'
      BY <3>1, <3>2 DEF CollectionInv, ScanHolds, MetadataHolds, AdoptedTwice
    <3>7. QED
      BY <3>3, <3>5, <3>6 DEF CollectionInv
  <2>2. CASE dimension # Unset
    BY <1>2, <2>2, OnlyEnters DEF Collection!Create
  <2>3. QED
    BY <2>1, <2>2
<1>3. CASE Collection!Identify(p)
  BY <1>0, <1>3, OnlyEnters DEF Collection!Identify
<1>4. CASE Collection!Scan(p)
  BY <1>4, OnlyEnters DEF Collection!Scan, Collection!Adoptable, CollectionInv, SameDimension
<1>5. CASE Collection!Adopt(p)
  <2>1. /\ metadata' = ModelOf[p] /\ adopted' = adopted \cup {p} /\ client[p] = "scanned"
        /\ UNCHANGED <<dimension, vectors>>
    BY <1>5 DEF Collection!Adopt
  <2>2. \A q \in Processes : client'[q] = IF q = p THEN "on" ELSE client[q]
    BY <1>0, <1>5 DEF Collection!Adopt, Collection!Enter
  <2>3. Collection!TypeOK'
    BY <1>5 DEF CollectionInv, Collection!TypeOK, Collection!Enter, Collection!Models, Collection!Adopt
  <2>4. SameDimension' /\ ScanHolds'
    BY <2>1, <2>2 DEF CollectionInv, SameDimension, ScanHolds
  <2>5. CASE adopted = {}
    BY <1>0, <2>1, <2>2, <2>3, <2>4, <2>5
       DEF CollectionInv, ScanHolds, MetadataHolds, AdoptedTwice
  <2>6. CASE adopted # {}
    <3>1. ASSUME ~AdoptedTwice' PROVE ~AdoptedTwice /\ metadata = ModelOf[p]
      BY <2>1, <2>6, <3>1 DEF CollectionInv, MetadataHolds, AdoptedTwice
    <3>2. MetadataHolds'
      BY <1>0, <2>1, <2>2, <2>6, <3>1 DEF CollectionInv, MetadataHolds
    <3>3. QED
      BY <2>3, <2>4, <3>2 DEF CollectionInv
  <2>7. QED
    BY <2>5, <2>6
<1>6. CASE Collection!Write(p)
  <2>1. /\ vectors' = vectors \cup {ModelOf[p]} /\ client[p] = "on"
        /\ UNCHANGED <<dimension, metadata, client, adopted>>
    BY <1>6 DEF Collection!Write
  <2>2. Collection!TypeOK'
    BY <2>1 DEF CollectionInv, Collection!TypeOK, Collection!Models
  <2>3. SameDimension' /\ ScanHolds' /\ MetadataHolds'
    BY <2>1 DEF CollectionInv, SameDimension, ScanHolds, MetadataHolds, AdoptedTwice
  <2>4. QED
    BY <2>2, <2>3 DEF CollectionInv
<1>7. QED
  BY <1>1, <1>2, <1>3, <1>4, <1>5, <1>6

\* Embedding identity (_validate_collection_identity, _scan_existing_model_names):
\* for any processes, models and dimensions, a connected process sees only vectors
\* of its own model and dimension, unless two models adopted the collection at once.
THEOREM IdentityIsOne ==
  CollectionConstants => (Collection!Spec => [](Collection!TypeOK /\ Collection!OneIdentity))
<1> SUFFICES ASSUME CollectionConstants
             PROVE  Collection!Spec => [](Collection!TypeOK /\ Collection!OneIdentity)
  OBVIOUS
<1>1. Collection!Init => CollectionInv
  BY DEF Collection!Init, CollectionInv, Collection!TypeOK, SameDimension, ScanHolds, MetadataHolds
<1>2. CollectionInv /\ [Collection!Next]_Collection!vars => CollectionInv'
  <2> SUFFICES ASSUME CollectionInv, [Collection!Next]_Collection!vars PROVE CollectionInv'
    OBVIOUS
  <2>1. CASE UNCHANGED Collection!vars
    BY <2>1 DEF Collection!vars, CollectionInv, Collection!TypeOK, SameDimension, ScanHolds,
       MetadataHolds, AdoptedTwice
  <2>2. CASE Collection!Next
    BY <2>2, CollectionStep DEF Collection!Next
  <2>3. QED
    BY <2>1, <2>2
<1>3. CollectionInv => Collection!TypeOK /\ Collection!OneIdentity
  BY DEF CollectionInv, SameDimension, ScanHolds, MetadataHolds, AdoptedTwice, Collection!OneIdentity
<1>4. QED
  BY <1>1, <1>2, <1>3, PTL DEF Collection!Spec

-----------------------------------------------------------------------------
(* The vector index.  Workers, a reindex and a migration write points      *)
(* beside the ledger: the invariant says which heads are already in the    *)
(* collection each of them writes, or were swept from it.                  *)

\* The deployment starts with one of its collections.
IndexConstants == First \in Collections /\ NoItem \notin Items /\ MaxReindex \in Nat

\* A collection has the point of an item, or lost it to a reindex or migration.
Kept(i, c) == i \in points[c] \/ i \in swept[c]

\* Events exist for retained items, and workers hold retained items.
EventsSound ==
    /\ \A i \in Items : delivery[i] # "none" => i \in retained
    /\ \A w \in Embedders : IF embedder[w].pc = "idle" THEN embedder[w] = Index!Idle
                            ELSE embedder[w].item \in retained

\* A head whose event is completed, or whose point a worker has written, is kept.
HeadsKept ==
    /\ \A i \in Index!Heads : delivery[i] = "done" => Kept(i, active)
    /\ \A w \in Embedders : embedder[w].pc \in {"upserted", "dropped"} /\ embedder[w].item \in Index!Heads
                            => Kept(embedder[w].item, active)

\* The heads a reindex listed are in its target once it has written them.
JobSound ==
    job.pc # "idle" =>
        /\ job.snapshot \subseteq retained /\ job.todo \subseteq job.snapshot
        /\ job.pc = "listed" => job.todo = job.snapshot
        /\ job.pc \in {"upserted", "verified"} => job.todo = {} /\ job.target # active
        /\ \A i \in (job.snapshot \ job.todo) \cap Index!Heads : i \in points[job.target]

IndexInv == Index!TypeOK /\ EventsSound /\ HeadsKept /\ JobSound

JobRow == [pc : {"idle", "listed", "scrolled", "upserted", "verified"},
           runs : 0..MaxReindex, target : Collections, snapshot : SUBSET Items,
           existing : SUBSET Items, todo : SUBSET Items]
EmbedderRow == [pc : {"idle", "read", "upserted", "dropped"}, item : Items \cup {NoItem}]
EventStates == {"none", "waiting", "done"}

LEMMA IndexTypes ==
  Index!TypeOK <=>
    /\ retained \subseteq Items /\ delivery \in [Items -> EventStates]
    /\ embedder \in [Embedders -> EmbedderRow] /\ points \in [Collections -> SUBSET Items]
    /\ active \in Collections /\ job \in JobRow /\ swept \in [Collections -> SUBSET Items]
BY DEF Index!TypeOK, JobRow, EmbedderRow, EventStates

\* A revision is not a head once another replaced it.
LEMMA HeadsAre ==
  /\ Index!Heads \subseteq retained \ Hidden
  /\ \A i \in Index!Heads : \A c \in retained : Parent[c] # i
BY DEF Index!Heads, Index!IsHead

LEMMA IndexRetain ==
  ASSUME IndexConstants, IndexInv, NEW i \in Items, Index!Retain(i)
  PROVE  IndexInv'
<1>0. /\ retained' = retained \cup {i} /\ delivery' = [delivery EXCEPT ![i] = "waiting"]
      /\ i \notin retained /\ UNCHANGED <<embedder, points, active, job, swept>>
  BY DEF Index!Retain
<1>1. /\ retained \subseteq Items /\ delivery \in [Items -> EventStates]
      /\ embedder \in [Embedders -> EmbedderRow] /\ job \in JobRow
  BY IndexTypes DEF IndexInv
<1>2. Index!Heads' \subseteq Index!Heads \cup {i}
  BY <1>0 DEF Index!Heads, Index!IsHead
<1>3. Index!TypeOK'
  BY <1>0, <1>1 DEF IndexInv, Index!TypeOK, EventStates
<1>4. EventsSound'
  BY <1>0, <1>1 DEF IndexInv, EventsSound
<1>5. HeadsKept'
  BY <1>0, <1>1, <1>2 DEF IndexInv, EventsSound, HeadsKept, Kept
<1>6. JobSound'
  BY <1>0, <1>1, <1>2 DEF IndexInv, JobSound
<1>7. QED
  BY <1>3, <1>4, <1>5, <1>6 DEF IndexInv

\* A worker moves from one of its steps to the next.
LEMMA IndexWorker ==
  ASSUME IndexConstants, IndexInv, NEW w \in Embedders, NEW q \in EmbedderRow,
         embedder' = [embedder EXCEPT ![w] = q],
         NEW d \in [Items -> EventStates], delivery' = d,
         \A i \in Items : d[i] = delivery[i]
                            \/ (d[i] = "done" /\ (i \in Index!Heads => Kept(i, active)) /\ i \in retained),
         NEW p \in [Collections -> SUBSET Items], points' = p,
         \A c \in Collections : c # active => p[c] = points[c],
         \A i \in Index!Heads : i \in points[active] => i \in p[active],
         IF q.pc = "idle" THEN q = Index!Idle ELSE q.item \in retained,
         q.pc \in {"upserted", "dropped"} /\ q.item \in Index!Heads
            => q.item \in p[active] \/ q.item \in swept[active],
         UNCHANGED <<retained, active, job, swept>>
  PROVE  IndexInv'
<1>1. /\ embedder \in [Embedders -> EmbedderRow] /\ active \in Collections /\ job \in JobRow
      /\ delivery \in [Items -> EventStates] /\ retained \subseteq Items
  BY IndexTypes DEF IndexInv
<1>2. Index!Heads' = Index!Heads /\ Index!Heads \subseteq Items
  BY <1>1 DEF Index!Heads, Index!IsHead
<1>3. Index!TypeOK'
  BY <1>1, IndexTypes DEF IndexInv, Index!TypeOK, EmbedderRow, EventStates
<1>4. EventsSound'
  BY <1>1 DEF IndexInv, EventsSound
<1>5. HeadsKept'
  <2>1. ASSUME NEW i \in Index!Heads, d[i] = "done" PROVE i \in p[active] \/ i \in swept[active]
    BY <1>1, <1>2, <2>1 DEF IndexInv, HeadsKept, Kept
  <2>2. ASSUME NEW v \in Embedders, embedder'[v].pc \in {"upserted", "dropped"},
               embedder'[v].item \in Index!Heads
        PROVE  embedder'[v].item \in p[active] \/ embedder'[v].item \in swept[active]
    BY <1>1, <2>2 DEF IndexInv, HeadsKept, Kept
  <2>3. QED
    BY <1>2, <2>1, <2>2 DEF HeadsKept, Kept
<1>6. JobSound'
  BY <1>1, <1>2 DEF IndexInv, JobSound, JobRow
<1>7. QED
  BY <1>3, <1>4, <1>5, <1>6 DEF IndexInv

LEMMA IndexRead ==
  ASSUME IndexConstants, IndexInv, NEW w \in Embedders, NEW i \in Items, Index!Read(w, i)
  PROVE  IndexInv'
<1>1. /\ delivery \in [Items -> EventStates] /\ points \in [Collections -> SUBSET Items]
      /\ i \in retained
  BY IndexTypes DEF IndexInv, EventsSound, Index!Read
<1>2. PICK q : q = [pc |-> "read", item |-> i]
  OBVIOUS
<1>3. q \in EmbedderRow /\ q.pc = "read" /\ q.item = i
  BY <1>2 DEF EmbedderRow
<1>4. embedder' = [embedder EXCEPT ![w] = q]
      /\ UNCHANGED <<retained, delivery, points, active, job, swept>>
  BY <1>2 DEF Index!Read
<1>5. QED
  BY <1>1, <1>3, <1>4, IndexWorker

\* EmbeddingService: the item's point is written or, if it is hidden, deleted.
LEMMA IndexApply ==
  ASSUME IndexConstants, IndexInv, NEW w \in Embedders, Index!Apply(w)
  PROVE  IndexInv'
<1>1. /\ delivery \in [Items -> EventStates] /\ points \in [Collections -> SUBSET Items]
      /\ embedder[w] \in EmbedderRow /\ embedder \in [Embedders -> EmbedderRow] /\ active \in Collections
      /\ retained \subseteq Items
  BY IndexTypes DEF IndexInv
<1>2. PICK i : i = embedder[w].item
  OBVIOUS
<1>3. embedder[w].pc = "read" /\ i \in retained /\ i \in Items
  BY <1>1, <1>2 DEF Index!Apply, IndexInv, EventsSound
<1>4. PICK q : q = [embedder[w] EXCEPT !.pc = "upserted"]
  OBVIOUS
<1>5. q \in EmbedderRow /\ q.pc = "upserted" /\ q.item = i
  BY <1>1, <1>2, <1>4 DEF EmbedderRow
<1>6. PICK P : P = IF i \in Hidden THEN points[active] \ {i} ELSE points[active] \cup {i}
  OBVIOUS
<1>7. PICK p : p = [points EXCEPT ![active] = P]
  OBVIOUS
<1>8. embedder' = [embedder EXCEPT ![w] = q] /\ points' = p
      /\ UNCHANGED <<retained, delivery, active, job, swept>>
  BY <1>1, <1>2, <1>4, <1>6, <1>7 DEF Index!Apply
<1>9. /\ p \in [Collections -> SUBSET Items] /\ p[active] = P
      /\ \A c \in Collections : c # active => p[c] = points[c]
  BY <1>1, <1>3, <1>6, <1>7
<1>10. /\ \A h \in Index!Heads : h \in points[active] => h \in P
       /\ i \in Index!Heads => i \in P
  BY <1>6, HeadsAre
<1>11. QED
  BY <1>1, <1>3, <1>5, <1>8, <1>9, <1>10, IndexWorker

\* The point of the item it replaced goes: that item is no head.
LEMMA IndexDropParent ==
  ASSUME IndexConstants, IndexInv, NEW w \in Embedders, Index!DropParent(w)
  PROVE  IndexInv'
<1>1. /\ delivery \in [Items -> EventStates] /\ points \in [Collections -> SUBSET Items]
      /\ embedder[w] \in EmbedderRow /\ embedder \in [Embedders -> EmbedderRow] /\ active \in Collections
  BY IndexTypes DEF IndexInv
<1>2. PICK i : i = embedder[w].item
  OBVIOUS
<1>3. embedder[w].pc = "upserted" /\ i \in retained
      /\ (i \in Index!Heads => i \in points[active] \/ i \in swept[active])
  BY <1>1, <1>2 DEF Index!DropParent, IndexInv, EventsSound, HeadsKept, Kept
<1>4. PICK q : q = [embedder[w] EXCEPT !.pc = "dropped"]
  OBVIOUS
<1>5. q \in EmbedderRow /\ q.pc = "dropped" /\ q.item = i
  BY <1>1, <1>2, <1>4 DEF EmbedderRow
<1>6. PICK p : p = [points EXCEPT ![active] = points[active] \ {Parent[i]}]
  OBVIOUS
<1>7. embedder' = [embedder EXCEPT ![w] = q] /\ points' = p
      /\ UNCHANGED <<retained, delivery, active, job, swept>>
  BY <1>1, <1>2, <1>4, <1>6 DEF Index!DropParent
<1>8. /\ p \in [Collections -> SUBSET Items] /\ p[active] = points[active] \ {Parent[i]}
      /\ \A c \in Collections : c # active => p[c] = points[c]
  BY <1>1, <1>6
<1>9. \A h \in Index!Heads : h \in points[active] => h \in p[active]
  BY <1>3, <1>8, HeadsAre
<1>10. QED
  BY <1>1, <1>3, <1>5, <1>7, <1>8, <1>9, IndexWorker

\* The consumer completes the event, or the worker fails and lets go of it.
LEMMA IndexEventEnds ==
  ASSUME IndexConstants, IndexInv, NEW w \in Embedders, Index!Complete(w) \/ Index!EmbedFails(w)
  PROVE  IndexInv'
<1>1. /\ delivery \in [Items -> EventStates] /\ points \in [Collections -> SUBSET Items]
      /\ embedder[w] \in EmbedderRow /\ embedder \in [Embedders -> EmbedderRow]
      /\ retained \subseteq Items
  BY IndexTypes DEF IndexInv
<1>2. PICK q : q = Index!Idle
  OBVIOUS
<1>3. q \in EmbedderRow /\ q.pc = "idle" /\ q = Index!Idle
  BY <1>2 DEF EmbedderRow, Index!Idle
<1>4. PICK i : i = embedder[w].item
  OBVIOUS
<1>5. UNCHANGED <<retained, points, active, job, swept>> /\ embedder' = [embedder EXCEPT ![w] = q]
  BY <1>2 DEF Index!Complete, Index!EmbedFails
<1>6. CASE Index!Complete(w)
  <2>1. i \in retained /\ (i \in Index!Heads => Kept(i, active))
    BY <1>4, <1>6 DEF Index!Complete, IndexInv, EventsSound, HeadsKept
  <2>2. PICK d : d = [delivery EXCEPT ![i] = "done"]
    OBVIOUS
  <2>3. delivery' = d
    BY <1>4, <1>6, <2>2 DEF Index!Complete
  <2>4. d \in [Items -> EventStates] /\ \A h \in Items : d[h] = IF h = i THEN "done" ELSE delivery[h]
    BY <1>1, <2>2 DEF EventStates
  <2>5. QED
    BY <1>1, <1>3, <1>5, <2>1, <2>3, <2>4, IndexWorker
<1>7. CASE Index!EmbedFails(w)
  <2>1. delivery' = delivery
    BY <1>7 DEF Index!EmbedFails
  <2>2. QED
    BY <1>1, <1>3, <1>5, <2>1, IndexWorker
<1>8. QED
  BY <1>6, <1>7

\* A reindex or migration moves; what it deletes is swept.
LEMMA IndexJob ==
  ASSUME IndexConstants, IndexInv, job' \in JobRow, JobSound',
         points' \in [Collections -> SUBSET Items], swept' \in [Collections -> SUBSET Items],
         \A i \in Index!Heads : Kept(i, active) => i \in points'[active] \/ i \in swept'[active],
         UNCHANGED <<retained, delivery, embedder, active>>
  PROVE  IndexInv'
<1>1. Index!Heads' = Index!Heads
  BY DEF Index!Heads, Index!IsHead
<1>2. Index!TypeOK'
  BY IndexTypes DEF IndexInv, Index!TypeOK, JobRow
<1>3. EventsSound' /\ HeadsKept'
  BY <1>1 DEF IndexInv, EventsSound, HeadsKept, Kept
<1>4. QED
  BY <1>2, <1>3 DEF IndexInv

LEMMA NoJobSound ==
  ASSUME IndexConstants, NEW n \in 0..MaxReindex
  PROVE  Index!NoJob(n) \in JobRow /\ Index!NoJob(n).pc = "idle"
BY DEF IndexConstants, JobRow, Index!NoJob

\* reindex_all lists the heads.
LEMMA IndexListHeads ==
  ASSUME IndexConstants, IndexInv, NEW c \in Collections, Index!ListHeads(c)
  PROVE  IndexInv'
<1>1. /\ job \in JobRow /\ retained \subseteq Items /\ swept \in [Collections -> SUBSET Items]
      /\ points \in [Collections -> SUBSET Items] /\ active \in Collections
  BY IndexTypes DEF IndexInv
<1>2. Index!Heads \subseteq retained
  BY HeadsAre
<1>3. PICK q : q = [pc |-> "listed", runs |-> job.runs + 1, target |-> c,
                    snapshot |-> Index!Heads, existing |-> {}, todo |-> Index!Heads]
  OBVIOUS
<1>4. job.runs + 1 \in 0..MaxReindex
  BY <1>1 DEF Index!ListHeads, JobRow, IndexConstants
<1>5. q \in JobRow /\ q.pc = "listed" /\ q.snapshot = Index!Heads /\ q.todo = Index!Heads
  BY <1>1, <1>2, <1>3, <1>4 DEF JobRow
<1>6. job' = q /\ UNCHANGED <<retained, delivery, embedder, points, active, swept>>
  BY <1>3 DEF Index!ListHeads
<1>7. JobSound'
  BY <1>2, <1>5, <1>6 DEF JobSound
<1>8. QED
  BY <1>1, <1>5, <1>6, <1>7, IndexJob DEF Kept

\* sync_workspace scrolls, upserts and deletes.
LEMMA IndexScroll ==
  ASSUME IndexConstants, IndexInv, Index!Scroll
  PROVE  IndexInv'
<1>1. /\ job \in JobRow /\ swept \in [Collections -> SUBSET Items]
      /\ points \in [Collections -> SUBSET Items] /\ active \in Collections /\ job.pc = "listed"
  BY IndexTypes DEF IndexInv, Index!Scroll
<1>2. PICK q : q = [job EXCEPT !.pc = "scrolled", !.existing = points[job.target]]
  OBVIOUS
<1>3. /\ q \in JobRow /\ q.pc = "scrolled" /\ q.snapshot = job.snapshot /\ q.todo = job.todo
      /\ q.target = job.target
  BY <1>1, <1>2 DEF JobRow
<1>4. job' = q /\ UNCHANGED <<retained, delivery, embedder, points, active, swept>>
  BY <1>2 DEF Index!Scroll
<1>5. JobSound'
  BY <1>1, <1>3, <1>4 DEF IndexInv, JobSound, Index!Heads, Index!IsHead
<1>6. QED
  BY <1>1, <1>3, <1>4, <1>5, IndexJob DEF Kept

LEMMA IndexUpsert ==
  ASSUME IndexConstants, IndexInv, Index!UpsertBatch
  PROVE  IndexInv'
<1>1. /\ job \in JobRow /\ swept \in [Collections -> SUBSET Items]
      /\ points \in [Collections -> SUBSET Items] /\ active \in Collections /\ job.pc = "scrolled"
      /\ job.target \in Collections /\ job.todo \subseteq Items
  BY IndexTypes DEF IndexInv, Index!UpsertBatch, JobRow
<1>2. PICK i \in job.todo : /\ job' = [job EXCEPT !.todo = @ \ {i}]
                            /\ points' = [points EXCEPT ![job.target] = @ \cup {i}]
  BY DEF Index!UpsertBatch
<1>3. PICK q : q = [job EXCEPT !.todo = job.todo \ {i}]
  OBVIOUS
<1>4. /\ q \in JobRow /\ q.pc = "scrolled" /\ q.snapshot = job.snapshot /\ q.todo = job.todo \ {i}
      /\ q.target = job.target
  BY <1>1, <1>3 DEF JobRow
<1>5. job' = q /\ UNCHANGED <<retained, delivery, embedder, active, swept>>
  BY <1>2, <1>3 DEF Index!UpsertBatch
<1>6. /\ points' \in [Collections -> SUBSET Items]
      /\ \A c \in Collections : points[c] \subseteq points'[c]
      /\ i \in points'[job.target]
  BY <1>1, <1>2
<1>7. JobSound'
  BY <1>1, <1>4, <1>5, <1>6 DEF IndexInv, JobSound, Index!Heads, Index!IsHead
<1>8. QED
  BY <1>1, <1>4, <1>5, <1>6, <1>7, IndexJob DEF Kept

LEMMA IndexDeleteStale ==
  ASSUME IndexConstants, IndexInv, Index!DeleteStale
  PROVE  IndexInv'
<1>1. /\ job \in JobRow /\ swept \in [Collections -> SUBSET Items]
      /\ points \in [Collections -> SUBSET Items] /\ active \in Collections /\ job.pc = "scrolled"
      /\ job.target \in Collections /\ job.todo = {} /\ job.existing \subseteq Items
      /\ job.runs \in 0..MaxReindex
  BY IndexTypes DEF IndexInv, Index!DeleteStale, JobRow
<1>2. PICK gone : gone = job.existing \ job.snapshot
  OBVIOUS
<1>3. /\ points' = [points EXCEPT ![job.target] = @ \ gone]
      /\ swept' = [swept EXCEPT ![job.target] = @ \cup gone]
      /\ UNCHANGED <<retained, delivery, embedder, active>>
  BY <1>2 DEF Index!DeleteStale, Index!StaleIds
<1>4. /\ points' \in [Collections -> SUBSET Items] /\ swept' \in [Collections -> SUBSET Items]
      /\ \A c \in Collections, i \in Items :
           i \in points[c] \/ i \in swept[c] => i \in points'[c] \/ i \in swept'[c]
      /\ points'[job.target] = points[job.target] \ gone
  BY <1>1, <1>2, <1>3
<1>5. PICK q : q = [job EXCEPT !.pc = "upserted"]
  OBVIOUS
<1>6. /\ q \in JobRow /\ q.pc = "upserted" /\ q.snapshot = job.snapshot /\ q.todo = {}
      /\ q.target = job.target
  BY <1>1, <1>5 DEF JobRow
<1>7. \/ job' = Index!NoJob(job.runs)
      \/ job' = q /\ job.target # active
  BY <1>5 DEF Index!DeleteStale
<1>8. JobSound' /\ job' \in JobRow
  <2>1. CASE job' = Index!NoJob(job.runs)
    BY <1>1, <2>1, NoJobSound DEF JobSound
  <2>2. CASE job' = q /\ job.target # active
    BY <1>1, <1>2, <1>3, <1>4, <1>6, <2>2 DEF IndexInv, JobSound, Index!Heads, Index!IsHead
  <2>3. QED
    BY <1>7, <2>1, <2>2
<1>9. Index!Heads \subseteq Items
  BY HeadsAre, IndexTypes DEF IndexInv
<1>10. QED
  BY <1>1, <1>3, <1>4, <1>8, <1>9, IndexJob DEF Kept

\* A migration verifies its count; a reindex or migration gives up.
LEMMA IndexVerify ==
  ASSUME IndexConstants, IndexInv, Index!VerifyCount \/ Index!ReindexFails
  PROVE  IndexInv'
<1>1. /\ job \in JobRow /\ swept \in [Collections -> SUBSET Items]
      /\ points \in [Collections -> SUBSET Items] /\ active \in Collections
      /\ job.runs \in 0..MaxReindex
  BY IndexTypes DEF IndexInv, JobRow
<1>2. PICK q : q = [job EXCEPT !.pc = "verified"]
  OBVIOUS
<1>3. /\ q \in JobRow /\ q.pc = "verified" /\ q.snapshot = job.snapshot /\ q.todo = job.todo
      /\ q.target = job.target
  BY <1>1, <1>2 DEF JobRow
<1>4. /\ \/ job' = Index!NoJob(job.runs)
         \/ job' = q /\ job.pc = "upserted"
      /\ UNCHANGED <<retained, delivery, embedder, points, active, swept>>
  BY <1>2 DEF Index!VerifyCount, Index!ReindexFails
<1>5. JobSound' /\ job' \in JobRow
  <2>1. CASE job' = Index!NoJob(job.runs)
    BY <1>1, <2>1, NoJobSound DEF JobSound
  <2>2. CASE job' = q /\ job.pc = "upserted"
    BY <1>3, <1>4, <2>2 DEF IndexInv, JobSound, Index!Heads, Index!IsHead
  <2>3. QED
    BY <1>4, <2>1, <2>2
<1>6. QED
  BY <1>1, <1>4, <1>5, IndexJob DEF Kept

\* The operator switches to the verified collection.
LEMMA IndexActivate ==
  ASSUME IndexConstants, IndexInv, Index!Activate
  PROVE  IndexInv'
<1>1. /\ job \in JobRow /\ swept \in [Collections -> SUBSET Items] /\ retained \subseteq Items
      /\ points \in [Collections -> SUBSET Items] /\ active \in Collections
      /\ job.target \in Collections /\ job.runs \in 0..MaxReindex /\ job.pc = "verified"
  BY IndexTypes DEF IndexInv, JobRow, Index!Activate
<1>2. /\ active' = job.target /\ job' = Index!NoJob(job.runs)
      /\ swept' = [swept EXCEPT ![job.target] = @ \cup (retained \ job.snapshot)]
      /\ embedder' = [w \in Embedders |-> Index!Idle]
      /\ UNCHANGED <<retained, delivery, points>>
  BY DEF Index!Activate
<1>3. Index!Idle \in EmbedderRow /\ Index!Idle.pc = "idle"
  BY DEF EmbedderRow, Index!Idle
<1>4. swept' \in [Collections -> SUBSET Items]
      /\ retained \ job.snapshot \subseteq swept'[job.target]
  BY <1>1, <1>2
<1>5. Index!TypeOK'
  <2>1. embedder' \in [Embedders -> EmbedderRow] /\ job' \in JobRow
    BY <1>1, <1>2, <1>3, NoJobSound
  <2>2. QED
    BY <1>1, <1>2, <1>4, <2>1 DEF IndexInv, Index!TypeOK, EmbedderRow, JobRow
<1>6. EventsSound' /\ JobSound'
  BY <1>1, <1>2, <1>3, NoJobSound DEF IndexInv, EventsSound, JobSound
<1>7. Index!Heads' = Index!Heads /\ Index!Heads \subseteq retained
  BY <1>2, HeadsAre DEF Index!Heads, Index!IsHead
<1>8. \A i \in Index!Heads : i \in points[job.target] \/ i \in swept'[job.target]
  BY <1>1, <1>4, <1>7 DEF IndexInv, JobSound
<1>9. HeadsKept'
  BY <1>2, <1>3, <1>7, <1>8 DEF HeadsKept, Kept
<1>10. QED
  BY <1>5, <1>6, <1>9 DEF IndexInv

\* The empty index satisfies it.
LEMMA IndexInvInit == ASSUME IndexConstants, Index!Init PROVE IndexInv
<1>1. Index!NoJob(0) \in JobRow /\ Index!NoJob(0).pc = "idle"
  BY NoJobSound DEF IndexConstants
<1>2. Index!Idle \in EmbedderRow /\ Index!Idle.pc = "idle"
  BY DEF EmbedderRow, Index!Idle
<1>3. Index!TypeOK
  BY <1>1, <1>2, IndexTypes DEF Index!Init, IndexConstants, EventStates
<1>4. EventsSound /\ HeadsKept /\ JobSound
  BY <1>1, <1>2, HeadsAre DEF Index!Init, EventsSound, HeadsKept, JobSound
<1>5. QED
  BY <1>3, <1>4 DEF IndexInv

LEMMA IndexInvStep ==
  ASSUME IndexConstants, IndexInv, Index!Next \/ UNCHANGED Index!vars
  PROVE  IndexInv'
<1>1. CASE UNCHANGED Index!vars
  BY <1>1 DEF Index!vars, IndexInv, Index!TypeOK, EventsSound, HeadsKept, JobSound, Kept,
     Index!Heads, Index!IsHead
<1>2. CASE Index!Next
  BY <1>2, IndexRetain, IndexRead, IndexApply, IndexDropParent, IndexEventEnds, IndexListHeads,
     IndexScroll, IndexUpsert, IndexDeleteStale, IndexVerify, IndexActivate DEF Index!Next
<1>3. QED
  BY <1>1, <1>2

LEMMA IndexInvShows == IndexInv => Index!TypeOK /\ Index!IndexTruthful
<1> SUFFICES ASSUME IndexInv PROVE Index!IndexTruthful
  BY DEF IndexInv
<1>1. ASSUME NEW a \in Agents, NEW i \in Index!Answer(a)
      PROVE  i \in Index!Heads /\ Owner[i] \in {NoItem, a}
  BY <1>1 DEF Index!Answer, Index!RecallableHeads, Index!Matches
<1>2. ASSUME ~Index!Stale, NEW a \in Agents, NEW i \in Index!Heads, Owner[i] \in {NoItem, a},
             i \notin Index!Answer(a)
      PROVE  i \in swept[active]
  <2>1. Kept(i, active) /\ i \notin Hidden
    BY <1>2, HeadsAre DEF Index!Stale, IndexInv, HeadsKept
  <2>2. QED
    BY <1>2, <2>1 DEF Kept, Index!Answer, Index!RecallableHeads, Index!Matches
<1>3. QED
  BY <1>1, <1>2 DEF Index!IndexTruthful

\* The vector index (_recallable_head_ids, workspace_embedding_freshness,
\* reindex_all): for any items, agents, workers and collections, recall answers
\* only heads the agent may see and, where the index is reported as fresh, all of
\* them but those a reindex swept or a migration left behind.
THEOREM IndexIsTruthful ==
  IndexConstants => (Index!Spec => [](Index!TypeOK /\ Index!IndexTruthful))
<1> SUFFICES ASSUME IndexConstants PROVE Index!Spec => [](Index!TypeOK /\ Index!IndexTruthful)
  OBVIOUS
<1>1. Index!Init => IndexInv
  BY IndexInvInit
<1>2. IndexInv /\ [Index!Next]_Index!vars => IndexInv'
  BY IndexInvStep
<1>3. QED
  BY <1>1, <1>2, IndexInvShows, PTL DEF Index!Spec

-----------------------------------------------------------------------------
(* The embedding worker: the consumer embed-v1 around the index's handler. *)
(* The consumer keeps its own invariant (EventConsumerProofs); the one     *)
(* below says that a worker's handler is where the consumer has the        *)
(* worker.  With it every step of the two is a step of the index alone, or *)
(* invisible to it.                                                        *)

ConsumerProofs == INSTANCE EventConsumerProofs WITH Events <- Items, Replicas <- EmbedReplicas

\* The two instances of the consumer are the same: action by action.
LEMMA ConsumerSame == Consumer!ConsumerNext => ConsumerProofs!ConsumerNext
<1> USE DEF Consumer!Workers, ConsumerProofs!Workers, Consumer!Messages,
  ConsumerProofs!Messages, Consumer!ConsumerOf, ConsumerProofs!ConsumerOf, Consumer!Stored,
  ConsumerProofs!Stored, Consumer!tableVars, ConsumerProofs!tableVars, Consumer!brokerVars,
  ConsumerProofs!brokerVars, Consumer!workerVars, ConsumerProofs!workerVars, Consumer!Fault,
  ConsumerProofs!Fault, Consumer!EventOf, ConsumerProofs!EventOf, Consumer!Goto,
  ConsumerProofs!Goto, Consumer!SetRow, ConsumerProofs!SetRow, Consumer!Take,
  ConsumerProofs!Take, Consumer!Free, ConsumerProofs!Free, Consumer!Lease, ConsumerProofs!Lease,
  Consumer!Holds, ConsumerProofs!Holds, Consumer!RowOf, ConsumerProofs!RowOf, Consumer!NoRow,
  ConsumerProofs!NoRow, Consumer!DoneRow, ConsumerProofs!DoneRow, Consumer!Answer,
  ConsumerProofs!Answer, Consumer!NextMessage, ConsumerProofs!NextMessage, Consumer!NoDelivery,
  ConsumerProofs!NoDelivery, Consumer!DlqRecord, ConsumerProofs!DlqRecord, Consumer!DlqId,
  ConsumerProofs!DlqId, Consumer!StoreDeadLetter, ConsumerProofs!StoreDeadLetter,
  Consumer!Holding, ConsumerProofs!Holding, Consumer!Handling, ConsumerProofs!Handling
<1>1. \A w : Consumer!Fetch(w) => ConsumerProofs!Fetch(w)
  <2> SUFFICES ASSUME NEW w, Consumer!Fetch(w) PROVE ConsumerProofs!Fetch(w)
    OBVIOUS
  <2> DEFINE c == w[1]
             ready == {m \in Items \X (1 .. MaxCopies) : m[2] <= stream[m[1]] /\ jet[c][m].state = "ready"}
  <2>1. PICK S \in SUBSET ready :
             /\ Consumer!Cardinality(S) \in 1 .. FetchSize
             /\ jet' = [jet EXCEPT ![c] = [m \in Items \X (1 .. MaxCopies) |->
                  IF m \in S THEN [state |-> "inflight", delivered |-> jet[c][m].delivered + 1]
                             ELSE jet[c][m]]]
             /\ batch' = [batch EXCEPT ![w] =
                  {[msg |-> m, attempts |-> jet[c][m].delivered + 1] : m \in S}]
    BY DEF Consumer!Fetch
  <2>2. QED
    <3>1. Consumer!Cardinality(S) = ConsumerProofs!Cardinality(S)
      BY DEF Consumer!Cardinality, ConsumerProofs!Cardinality
    <3>2. pc[w] = "loop" /\ batch[w] = {}
          /\ UNCHANGED <<stream, dlq, dlqIds, processed, applied, pc, cur, lapses, faults>>
      BY DEF Consumer!Fetch
    <3>3. QED
      BY <2>1, <3>1, <3>2 DEF ConsumerProofs!Fetch
<1>2. \A w : Consumer!HandlerReturns(w) => ConsumerProofs!HandlerReturns(w)
  BY DEF Consumer!HandlerReturns, ConsumerProofs!HandlerReturns
<1>3. \A w : Consumer!HandlerRaises(w) => ConsumerProofs!HandlerRaises(w)
  BY DEF Consumer!HandlerRaises, ConsumerProofs!HandlerRaises
<1>4. \A w : Consumer!Complete(w) => ConsumerProofs!Complete(w)
  BY SMTT(30) DEF Consumer!Complete, ConsumerProofs!Complete
<1>5. \A w : Consumer!ReleaseLease(w) => ConsumerProofs!ReleaseLease(w)
  BY SMTT(30) DEF Consumer!ReleaseLease, ConsumerProofs!ReleaseLease
<1>6. \A w : Consumer!DatabaseRaises(w) => ConsumerProofs!DatabaseRaises(w)
  BY DEF Consumer!DatabaseRaises, ConsumerProofs!DatabaseRaises
<1>7. \A w : Consumer!Ack(w) => ConsumerProofs!Ack(w)
  BY DEF Consumer!Ack, ConsumerProofs!Ack
<1>8. \A w : Consumer!AckRaises(w) => ConsumerProofs!AckRaises(w)
  BY DEF Consumer!AckRaises, ConsumerProofs!AckRaises
<1>9. \A w : Consumer!Nak(w) => ConsumerProofs!Nak(w)
  BY DEF Consumer!Nak, ConsumerProofs!Nak
<1>10. \A w : Consumer!PublishDeadLetter(w) => ConsumerProofs!PublishDeadLetter(w)
  BY DEF Consumer!PublishDeadLetter, ConsumerProofs!PublishDeadLetter
<1>11. \A w : Consumer!DeadLetterRaises(w) => ConsumerProofs!DeadLetterRaises(w)
  BY DEF Consumer!DeadLetterRaises, ConsumerProofs!DeadLetterRaises
<1>12. \A w : Consumer!Terminate(w) => ConsumerProofs!Terminate(w)
  BY DEF Consumer!Terminate, ConsumerProofs!Terminate
<1>13. \A w : Consumer!Crash(w) => ConsumerProofs!Crash(w)
  BY SMTT(30) DEF Consumer!Crash, ConsumerProofs!Crash
<1>14. \A w, d : Consumer!Claim(w, d) => ConsumerProofs!Claim(w, d)
  BY DEF Consumer!Claim, ConsumerProofs!Claim
<1>15. \A w, d : Consumer!ClaimRaises(w, d) => ConsumerProofs!ClaimRaises(w, d)
  BY DEF Consumer!ClaimRaises, ConsumerProofs!ClaimRaises
<1>16. \A c, m : Consumer!AckWaitPasses(c, m) => ConsumerProofs!AckWaitPasses(c, m)
  BY DEF Consumer!AckWaitPasses, ConsumerProofs!AckWaitPasses
<1>17. \A c, e : Consumer!LeasePasses(c, e) => ConsumerProofs!LeasePasses(c, e)
  BY DEF Consumer!LeasePasses, ConsumerProofs!LeasePasses
<1>18. \A r : Consumer!Replay(r) => ConsumerProofs!Replay(r)
  BY DEF Consumer!Replay, ConsumerProofs!Replay
<1>19. QED
  BY <1>1, <1>2, <1>3, <1>4, <1>5, <1>6, <1>7, <1>8, <1>9, <1>10, <1>11, <1>12, <1>13,
     <1>14, <1>15, <1>16, <1>17, <1>18
  DEF Consumer!ConsumerNext, ConsumerProofs!ConsumerNext, Consumer!WorkerStep,
      ConsumerProofs!WorkerStep, Consumer!WorkerFault, ConsumerProofs!WorkerFault

\* Outside the handler the embedder is idle; inside it works on the event in hand,
\* and it has returned only after its last call.
Follows(w) ==
    IF ConsumerProofs!Inside(w)
    THEN /\ embedder[w].pc \in {"read", "upserted", "dropped"}
         /\ embedder[w].item = cur[w].msg[1]
         /\ pc[w] = "complete" => embedder[w].pc = "dropped"
    ELSE embedder[w] = Index!Idle

\* Events in the stream, and those completed, are of retained items.
EventsRetained ==
    \A i \in Items : stream[i] > 0 \/ processed[Embedding][i].done => i \in retained

WorkersFollow ==
    /\ retained \subseteq Items
    /\ EventsRetained
    /\ embedder \in [Embedders -> EmbedderRow]
    /\ \A w \in Embedders : Follows(w)

IndexingInv == ConsumerProofs!Inv /\ WorkersFollow /\ IndexInv

\* What consumer and index assume follows from what Indexing assumes.
LEMMA IndexingParameters ==
  /\ NoWorker \notin ConsumerProofs!Workers
  /\ FetchSize \in Nat \ {0} /\ MaxDeliveries \in Nat \ {0}
  /\ MaxCopies \in Nat \ {0} /\ MaxFaults \in Nat
  /\ IndexConstants /\ Embedding \in Consumers
BY IndexingAssumptions DEF ConsumerProofs!Workers, IndexConstants

\* The replicas of embed-v1 are workers of it, and there are no others.
LEMMA EmbeddersAre ==
  /\ \A w \in Embedders : w \in ConsumerProofs!Workers /\ ConsumerProofs!ConsumerOf(w) = Embedding
  /\ \A w \in ConsumerProofs!Workers :
       ConsumerProofs!ConsumerOf(w) = Embedding => w \in Embedders
BY IndexingParameters DEF Embedders, ConsumerProofs!Workers, ConsumerProofs!ConsumerOf

\* An item's event is seen as completed exactly when its row is: before a step, and
\* after it.
SeenAs(i) == IF i \notin retained THEN "none"
             ELSE IF processed[Embedding][i].done THEN "done" ELSE "waiting"

LEMMA DeliveryIs == delivery = [i \in Items |-> SeenAs(i)] /\ delivery' = [i \in Items |-> SeenAs(i)']
BY DEF delivery, SeenAs

\* The empty system.
LEMMA IndexingStarts == ASSUME IndexingInit PROVE IndexingInv /\ Index!Init
<1>1. ConsumerProofs!Init
  BY DEF IndexingInit, Consumer!Init, Consumer!InitConsumer, ConsumerProofs!Init,
         ConsumerProofs!InitConsumer, Consumer!Messages, ConsumerProofs!Messages, Consumer!NoRow,
         ConsumerProofs!NoRow, Consumer!NoDelivery, ConsumerProofs!NoDelivery, Consumer!Workers,
         ConsumerProofs!Workers
<1>2. ConsumerProofs!Inv
  BY <1>1, IndexingParameters, ConsumerProofs!InvInit
<1>3. /\ \A i \in Items : stream[i] = 0 /\ ~ processed[Embedding][i].done
      /\ \A w \in Embedders : pc[w] = "loop"
  BY <1>1, IndexingParameters, EmbeddersAre
  DEF ConsumerProofs!Init, ConsumerProofs!InitConsumer, ConsumerProofs!NoRow
<1>4. retained = {} /\ embedder = [w \in Embedders |-> Index!Idle] /\ Index!Idle \in EmbedderRow
  BY DEF IndexingInit, EmbedderRow, Index!Idle
<1>5. WorkersFollow
  BY <1>3, <1>4 DEF WorkersFollow, EventsRetained, Follows, ConsumerProofs!Inside
<1>6. Index!Init
  BY <1>4, DeliveryIs DEF IndexingInit, Index!Init, SeenAs
<1>7. QED
  BY <1>2, <1>5, <1>6, IndexingParameters, IndexInvInit DEF IndexingInv

\* What the index's own steps need of the rest.
LEMMA DeliveryStays ==
  ASSUME retained' = retained, processed' = processed
  PROVE  delivery' = delivery
BY DeliveryIs DEF SeenAs

\* The ledger retains an item: no event of it was completed before.
LEMMA RetainIsSeen ==
  ASSUME IndexingInv, NEW i \in Items, Retain(i)
  PROVE  Index!Retain(i) /\ ConsumerProofs!Inv' /\ WorkersFollow'
<1>1. /\ i \notin retained /\ retained' = retained \cup {i} /\ retained \subseteq Items
      /\ UNCHANGED <<embedder, indexVars, consumerVars>>
  BY DEF Retain, IndexingInv, WorkersFollow
<1>2. delivery' = [delivery EXCEPT ![i] = "waiting"]
  BY <1>1, DeliveryIs DEF SeenAs, IndexingInv, WorkersFollow, EventsRetained, consumerVars
<1>3. Index!Retain(i)
  BY <1>1, <1>2 DEF Retain, Index!Retain, indexVars
<1>4. ConsumerProofs!Inv'
  BY <1>1, IndexingParameters, ConsumerProofs!InvStep
  DEF IndexingInv, consumerVars, ConsumerProofs!vars, ConsumerProofs!brokerVars,
      ConsumerProofs!tableVars, ConsumerProofs!workerVars
<1>5. WorkersFollow'
  BY <1>1 DEF IndexingInv, WorkersFollow, EventsRetained, Follows, ConsumerProofs!Inside, consumerVars
<1>6. QED
  BY <1>3, <1>4, <1>5

\* A call of the handler, and a step of a reindex or migration: the consumer waits.
LEMMA HandlerIsSeen ==
  ASSUME IndexingInv, UNCHANGED consumerVars, Index!Next, retained' = retained,
         \/ embedder' = embedder
         \/ \E w \in Embedders :
              /\ embedder[w].pc = "read" /\ embedder' = [embedder EXCEPT ![w].pc = "upserted"]
         \/ \E w \in Embedders :
              /\ embedder[w].pc = "upserted" /\ embedder' = [embedder EXCEPT ![w].pc = "dropped"]
  PROVE  ConsumerProofs!Inv' /\ WorkersFollow'
<1>1. ConsumerProofs!Inv'
  BY IndexingParameters, ConsumerProofs!InvStep
  DEF IndexingInv, consumerVars, ConsumerProofs!vars, ConsumerProofs!brokerVars,
      ConsumerProofs!tableVars, ConsumerProofs!workerVars
<1>2. embedder \in [Embedders -> EmbedderRow] /\ \A w \in Embedders : Follows(w)
  BY DEF IndexingInv, WorkersFollow
<1>3. embedder' \in [Embedders -> EmbedderRow] /\ \A w \in Embedders : Follows(w)'
  <2>1. CASE embedder' = embedder
    BY <1>2, <2>1 DEF Follows, ConsumerProofs!Inside, consumerVars
  <2>2. ASSUME NEW w \in Embedders, NEW x \in {"upserted", "dropped"},
               embedder[w].pc \in {"read", "upserted"},
               embedder' = [embedder EXCEPT ![w].pc = x]
        PROVE  embedder' \in [Embedders -> EmbedderRow] /\ \A v \in Embedders : Follows(v)'
    <3>1. embedder[w] \in EmbedderRow /\ Index!Idle.pc = "idle"
      BY <1>2 DEF Index!Idle
    <3>2. PICK q : q = [embedder[w] EXCEPT !.pc = x]
      OBVIOUS
    <3>3. q \in EmbedderRow /\ q.pc = x /\ q.item = embedder[w].item
      BY <3>1, <3>2 DEF EmbedderRow
    <3>4. embedder' = [embedder EXCEPT ![w] = q]
      BY <2>2, <3>2
    <3>5. embedder' \in [Embedders -> EmbedderRow]
      BY <1>2, <3>3, <3>4
    <3>6. ConsumerProofs!Inside(w) /\ pc[w] # "complete" /\ embedder[w].item = cur[w].msg[1]
      BY <1>2, <2>2, <3>1 DEF Follows
    <3>7. pc' = pc /\ cur' = cur
      BY DEF consumerVars
    <3>8. Follows(w)'
      BY <1>2, <2>2, <3>3, <3>4, <3>6, <3>7 DEF Follows, ConsumerProofs!Inside
    <3>9. ASSUME NEW v \in Embedders, v # w PROVE Follows(v)'
      <4>1. embedder'[v] = embedder[v]
        BY <1>2, <3>4, <3>9
      <4>2. QED
        BY <1>2, <3>7, <4>1 DEF Follows, ConsumerProofs!Inside
    <3>10. QED
      BY <3>5, <3>8, <3>9
  <2>3. QED
    BY <2>1, <2>2
<1>4. WorkersFollow'
  BY <1>3 DEF IndexingInv, WorkersFollow, EventsRetained, consumerVars
<1>5. QED
  BY <1>1, <1>4

LEMMA EmbedIsSeen ==
  ASSUME IndexingInv, (\E w \in Embedders : Embed(w)) \/ Maintain
  PROVE  Index!Next /\ ConsumerProofs!Inv' /\ WorkersFollow'
<1>1. UNCHANGED consumerVars /\ Index!Next /\ retained' = retained
  <2>1. ASSUME NEW w \in Embedders, Embed(w)
        PROVE  UNCHANGED consumerVars /\ Index!Next /\ retained' = retained
    BY <2>1 DEF Embed, Index!Next, Index!Apply, Index!DropParent
  <2>2. ASSUME Maintain PROVE UNCHANGED consumerVars /\ Index!Next /\ retained' = retained
    BY <2>2 DEF Maintain, Index!Next, Index!ListHeads, Index!Scroll, Index!UpsertBatch,
       Index!DeleteStale, Index!VerifyCount, Index!Activate, Index!ReindexFails
  <2>3. QED
    BY <2>1, <2>2
<1>2. \/ embedder' = embedder
      \/ \E w \in Embedders :
           /\ embedder[w].pc = "read" /\ embedder' = [embedder EXCEPT ![w].pc = "upserted"]
      \/ \E w \in Embedders :
           /\ embedder[w].pc = "upserted" /\ embedder' = [embedder EXCEPT ![w].pc = "dropped"]
  BY DEF Embed, Index!Apply, Index!DropParent, Maintain, Index!ListHeads, Index!Scroll,
     Index!UpsertBatch, Index!DeleteStale, Index!VerifyCount, Index!ReindexFails
<1>3. QED
  BY <1>1, <1>2, HandlerIsSeen

\* What a delivery step does outside the consumer.
LEMMA DeliverFacts ==
  ASSUME IndexingInv, Deliver
  PROVE  /\ ConsumerProofs!Inv'
         /\ \A i \in Items : stream'[i] > 0 => i \in retained
         /\ \/ \E w \in ConsumerProofs!Workers : ConsumerProofs!Moves(w)
            \/ ConsumerProofs!SameDone /\ \A w \in ConsumerProofs!Workers : ConsumerProofs!GoesOn(w)
<1>1. CASE Consumer!ConsumerNext
  <2>1. ConsumerProofs!ConsumerNext
    BY <1>1, ConsumerSame
  <2>2. ConsumerProofs!Inv'
    BY <2>1, IndexingParameters, ConsumerProofs!InvConsumer DEF IndexingInv
  <2>3. \A i \in Items : stream'[i] > 0 => stream[i] > 0
    BY <2>1, IndexingParameters, ConsumerProofs!ConsumerShares DEF IndexingInv
  <2>4. \/ \E w \in ConsumerProofs!Workers : ConsumerProofs!Moves(w)
        \/ ConsumerProofs!SameDone /\ \A w \in ConsumerProofs!Workers : ConsumerProofs!GoesOn(w)
    BY <2>1, IndexingParameters, ConsumerProofs!ConsumerView DEF IndexingInv
  <2>5. QED
    BY <2>2, <2>3, <2>4 DEF IndexingInv, WorkersFollow, EventsRetained
<1>2. ASSUME NEW i \in retained, Consumer!Publish(i)
      PROVE  /\ ConsumerProofs!Inv'
             /\ \A h \in Items : stream'[h] > 0 => h \in retained
             /\ ConsumerProofs!SameDone
             /\ \A w \in ConsumerProofs!Workers : ConsumerProofs!GoesOn(w)
  <2>1. i \in Items
    BY DEF IndexingInv, WorkersFollow
  <2>2. ConsumerProofs!Publish(i)
    BY <1>2 DEF Consumer!Publish, ConsumerProofs!Publish, Consumer!brokerVars,
       ConsumerProofs!brokerVars, Consumer!tableVars, ConsumerProofs!tableVars,
       Consumer!workerVars, ConsumerProofs!workerVars
  <2>3. ConsumerProofs!Inv'
    BY <2>1, <2>2, IndexingParameters, ConsumerProofs!InvStep
    DEF IndexingInv, ConsumerProofs!Next
  <2>4. /\ \A h \in Items : h # i => stream'[h] = stream[h]
        /\ UNCHANGED <<processed, pc, cur>>
    BY <2>2 DEF ConsumerProofs!Publish, IndexingInv, ConsumerProofs!Inv, ConsumerProofs!Placed,
       ConsumerProofs!TypeOK, ConsumerProofs!tableVars, ConsumerProofs!workerVars
  <2>5. \A h \in Items : stream'[h] > 0 => h \in retained
    BY <2>4 DEF IndexingInv, WorkersFollow, EventsRetained
  <2>6. QED
    BY <2>3, <2>4, <2>5 DEF ConsumerProofs!SameDone, ConsumerProofs!GoesOn, ConsumerProofs!Inside
<1>3. QED
  BY <1>1, <1>2 DEF Deliver

\* An embedder whose worker goes on is left alone.
LEMMA EmbedderStays ==
  ASSUME IndexingInv, Deliver, NEW w \in Embedders, ConsumerProofs!GoesOn(w)
  PROVE  embedder'[w] = embedder[w] /\ Follows(w)'
<1>1. embedder'[w] = After(w) /\ Follows(w)
  BY DEF Deliver, IndexingInv, WorkersFollow
<1>2. After(w) = embedder[w]
  BY <1>1 DEF After, Follows, ConsumerProofs!GoesOn, ConsumerProofs!Inside
<1>3. QED
  BY <1>1, <1>2 DEF Follows, ConsumerProofs!GoesOn, ConsumerProofs!Inside

\* The worker of an embedder moves: it reads an event, returns from it, completes it
\* or gives up.
LEMMA EmbedderMoves ==
  ASSUME IndexingInv, Deliver, NEW w \in Embedders, ConsumerProofs!Moves(w),
         ~ ConsumerProofs!GoesOn(w)
  PROVE  /\ embedder' \in [Embedders -> EmbedderRow]
         /\ Follows(w)' /\ EventsRetained'
         /\ Index!Next \/ UNCHANGED Index!vars
<1> DEFINE i == cur[w].msg[1]
<1>1. /\ embedder \in [Embedders -> EmbedderRow] /\ Follows(w)
      /\ embedder' = [v \in Embedders |-> After(v)]
      /\ UNCHANGED <<retained, points, active, job, swept>>
      /\ retained \subseteq Items
  BY DEF IndexingInv, WorkersFollow, Deliver, indexVars
<1>2. \A v \in Embedders \ {w} : embedder'[v] = embedder[v]
  BY EmbeddersAre, EmbedderStays DEF ConsumerProofs!Moves
<1>3. embedder' = [embedder EXCEPT ![w] = After(w)]
  BY <1>1, <1>2
<1>4. Index!Idle \in EmbedderRow /\ Index!Idle.pc = "idle"
  BY DEF EmbedderRow, Index!Idle
<1>5. ASSUME ConsumerProofs!Inside(w)
      PROVE  /\ i \in retained /\ i \in Items /\ i = ConsumerProofs!EventOf(cur[w])
             /\ embedder[w].item = i /\ embedder[w] # Index!Idle
  <2>1. cur[w].msg[1] \in Items /\ stream[cur[w].msg[1]] > 0
    <3>1. /\ cur[w] \in ConsumerProofs!Deliveries /\ ConsumerProofs!Stored(cur[w].msg)
          /\ stream \in [Items -> 0 .. MaxCopies]
      BY <1>5, EmbeddersAre DEF IndexingInv, ConsumerProofs!Inv, ConsumerProofs!Placed,
         ConsumerProofs!CurStored, ConsumerProofs!TypeOK, ConsumerProofs!Inside
    <3>2. cur[w].msg[1] \in Items /\ cur[w].msg[2] \in 1 .. MaxCopies
      BY <3>1 DEF ConsumerProofs!Deliveries, ConsumerProofs!Messages
    <3>3. QED
      BY <3>1, <3>2, IndexingParameters DEF ConsumerProofs!Stored
  <2>2. QED
    BY <1>1, <1>4, <1>5, <2>1
    DEF Follows, IndexingInv, WorkersFollow, EventsRetained, ConsumerProofs!EventOf
<1>6. ASSUME ConsumerProofs!SameDone
      PROVE  delivery' = delivery /\ EventsRetained'
  BY <1>1, <1>6, IndexingParameters, DeliveryIs, DeliverFacts
  DEF ConsumerProofs!SameDone, SeenAs, EventsRetained, IndexingInv, WorkersFollow
<1>7. CASE ConsumerProofs!Entering(w)
  <2> DEFINE h == cur'[w].msg[1]
  <2>1. After(w) = [pc |-> "read", item |-> h] /\ embedder[w] = Index!Idle
    BY <1>1, <1>7 DEF After, Follows, ConsumerProofs!Entering, ConsumerProofs!Inside
  <2>2. h \in Items /\ stream[h] > 0
    <3>1. stream \in [Items -> 0 .. MaxCopies]
      BY DEF IndexingInv, ConsumerProofs!Inv, ConsumerProofs!Placed, ConsumerProofs!TypeOK
    <3>2. h \in Items /\ cur'[w].msg[2] \in 1 .. MaxCopies
      BY <1>7 DEF ConsumerProofs!Entering, ConsumerProofs!Deliveries, ConsumerProofs!Messages
    <3>3. QED
      BY <1>7, <3>1, <3>2, IndexingParameters DEF ConsumerProofs!Entering, ConsumerProofs!Stored
  <2>3. delivery[h] = "waiting"
    BY <1>7, <2>2, EmbeddersAre, DeliveryIs
    DEF ConsumerProofs!Entering, ConsumerProofs!EventOf, SeenAs, IndexingInv, WorkersFollow,
        EventsRetained
  <2>4. Index!Read(w, h)
    BY <1>1, <1>3, <1>6, <1>7, <2>1, <2>3 DEF Index!Read, ConsumerProofs!Entering
  <2>5. After(w) \in EmbedderRow /\ Follows(w)'
    BY <1>1, <1>7, <2>1, <2>2
    DEF EmbedderRow, Follows, ConsumerProofs!Entering, ConsumerProofs!Inside
  <2>6. QED
    BY <1>1, <1>3, <1>6, <1>7, <2>2, <2>4, <2>5 DEF Index!Next, ConsumerProofs!Entering
<1>8. CASE ConsumerProofs!Returning(w)
  <2>1. embedder[w].pc = "dropped" /\ After(w) = embedder[w]
    BY <1>8 DEF Deliver, After, ConsumerProofs!Returning
  <2>2. embedder' = embedder
    BY <1>1, <1>3, <2>1
  <2>3. Follows(w)'
    BY <1>1, <1>8, <2>1, <2>2 DEF Follows, ConsumerProofs!Returning, ConsumerProofs!Inside
  <2>4. QED
    BY <1>1, <1>6, <1>8, <2>2, <2>3 DEF ConsumerProofs!Returning, Index!vars
<1>9. ASSUME ConsumerProofs!Inside(w), ~ ConsumerProofs!Inside(w)'
      PROVE  /\ embedder' = [embedder EXCEPT ![w] = Index!Idle]
             /\ embedder' \in [Embedders -> EmbedderRow] /\ Follows(w)'
  BY <1>1, <1>3, <1>4, <1>9 DEF After, Follows, ConsumerProofs!Inside
<1>10. CASE ConsumerProofs!Finishing(w)
  <2>1. ConsumerProofs!Inside(w) /\ ~ ConsumerProofs!Inside(w)'
    BY <1>10 DEF ConsumerProofs!Finishing, ConsumerProofs!Inside
  <2>2. /\ i \in retained /\ embedder[w].item = i /\ embedder[w].pc = "dropped"
        /\ \A f \in Items :
             processed'[Embedding][f].done <=> processed[Embedding][f].done \/ f = i
    BY <1>1, <1>5, <1>10, <2>1, EmbeddersAre, IndexingParameters
    DEF ConsumerProofs!Finishing, Follows
  <2>3. delivery' = [delivery EXCEPT ![i] = "done"]
    BY <1>1, <2>2, DeliveryIs DEF SeenAs
  <2>4. Index!Complete(w)
    BY <1>1, <1>9, <2>1, <2>2, <2>3 DEF Index!Complete
  <2>5. EventsRetained'
    BY <1>1, <2>2, DeliverFacts DEF EventsRetained, IndexingInv, WorkersFollow
  <2>6. QED
    BY <1>9, <2>1, <2>4, <2>5 DEF Index!Next
<1>11. CASE ConsumerProofs!Leaving(w)
  <2>1. Index!EmbedFails(w)
    BY <1>1, <1>5, <1>6, <1>9, <1>11 DEF Index!EmbedFails, ConsumerProofs!Leaving
  <2>2. QED
    BY <1>6, <1>9, <1>11, <2>1 DEF Index!Next, ConsumerProofs!Leaving
<1>12. QED
  BY <1>7, <1>8, <1>10, <1>11 DEF ConsumerProofs!Moves

LEMMA DeliverIsSeen ==
  ASSUME IndexingInv, Deliver
  PROVE  /\ ConsumerProofs!Inv' /\ WorkersFollow'
         /\ Index!Next \/ UNCHANGED Index!vars
<1>1. ConsumerProofs!Inv' /\ retained' = retained /\ retained \subseteq Items
  BY DeliverFacts DEF Deliver, IndexingInv, WorkersFollow
<1>2. ASSUME \A w \in Embedders : ConsumerProofs!GoesOn(w),
             \A i \in Items : processed'[Embedding][i].done <=> processed[Embedding][i].done
      PROVE  WorkersFollow' /\ UNCHANGED Index!vars
  <2>1. embedder' = embedder /\ \A w \in Embedders : Follows(w)'
    BY <1>2, EmbedderStays DEF Deliver, IndexingInv, WorkersFollow
  <2>2. delivery' = delivery
    BY <1>1, <1>2, DeliveryIs DEF SeenAs
  <2>3. EventsRetained'
    BY <1>1, <1>2, DeliverFacts DEF IndexingInv, WorkersFollow, EventsRetained
  <2>4. QED
    BY <1>1, <2>1, <2>2, <2>3
    DEF IndexingInv, WorkersFollow, Deliver, indexVars, Index!vars
<1>3. CASE ConsumerProofs!SameDone /\ \A w \in ConsumerProofs!Workers : ConsumerProofs!GoesOn(w)
  BY <1>1, <1>2, <1>3, EmbeddersAre, IndexingParameters DEF ConsumerProofs!SameDone
<1>4. ASSUME NEW w \in ConsumerProofs!Workers, ConsumerProofs!Moves(w)
      PROVE  WorkersFollow' /\ (Index!Next \/ UNCHANGED Index!vars)
  <2>1. \A v \in Embedders \ {w} : ConsumerProofs!GoesOn(v)
    BY <1>4, EmbeddersAre DEF ConsumerProofs!Moves
  <2>2. CASE w \in Embedders /\ ~ ConsumerProofs!GoesOn(w)
    <3>1. /\ embedder' \in [Embedders -> EmbedderRow]
          /\ Follows(w)' /\ EventsRetained'
          /\ Index!Next \/ UNCHANGED Index!vars
      BY <1>4, <2>2, EmbedderMoves
    <3>2. \A v \in Embedders \ {w} : Follows(v)'
      BY <2>1, EmbedderStays
    <3>3. QED
      BY <1>1, <3>1, <3>2 DEF WorkersFollow
  <2>3. CASE w \in Embedders /\ ConsumerProofs!GoesOn(w)
    <3>1. ConsumerProofs!SameDone
      BY <1>4, <2>3 DEF ConsumerProofs!Moves, ConsumerProofs!Entering, ConsumerProofs!Returning,
         ConsumerProofs!Leaving, ConsumerProofs!Finishing, ConsumerProofs!GoesOn,
         ConsumerProofs!Inside
    <3>2. QED
      BY <1>2, <2>1, <2>3, <3>1, IndexingParameters DEF ConsumerProofs!SameDone
  <2>4. CASE w \notin Embedders
    <3>1. ConsumerProofs!ConsumerOf(w) # Embedding
      BY <2>4, EmbeddersAre
    <3>2. \A i \in Items : processed'[Embedding][i].done <=> processed[Embedding][i].done
      BY <1>4, <3>1, IndexingParameters
      DEF ConsumerProofs!Moves, ConsumerProofs!Entering, ConsumerProofs!Returning,
          ConsumerProofs!Leaving, ConsumerProofs!Finishing, ConsumerProofs!SameDone
    <3>3. QED
      BY <1>2, <2>1, <2>4, <3>2
  <2>5. QED
    BY <2>2, <2>3, <2>4
<1>5. QED
  BY <1>1, <1>3, <1>4, DeliverFacts

LEMMA IndexingStep ==
  ASSUME IndexingInv, IndexingNext \/ UNCHANGED indexingVars
  PROVE  IndexingInv' /\ (Index!Next \/ UNCHANGED Index!vars)
<1>1. CASE UNCHANGED indexingVars
  <2>1. /\ UNCHANGED <<retained, embedder, points, active, job, swept>> /\ UNCHANGED consumerVars
        /\ UNCHANGED <<stream, processed, pc, cur>>
    BY <1>1 DEF indexingVars, indexVars, consumerVars
  <2>2. ConsumerProofs!Inv'
    BY <2>1, IndexingParameters, ConsumerProofs!InvStep
    DEF IndexingInv, consumerVars, ConsumerProofs!vars, ConsumerProofs!brokerVars,
        ConsumerProofs!tableVars, ConsumerProofs!workerVars
  <2>3. WorkersFollow' /\ UNCHANGED Index!vars
    BY <2>1, DeliveryStays
    DEF IndexingInv, WorkersFollow, EventsRetained, Follows, ConsumerProofs!Inside, Index!vars
  <2>4. QED
    BY <2>2, <2>3, IndexingParameters, IndexInvStep DEF IndexingInv
<1>2. CASE IndexingNext
  <2>1. /\ ConsumerProofs!Inv' /\ WorkersFollow'
        /\ Index!Next \/ UNCHANGED Index!vars
    <3>1. ASSUME NEW i \in Items, Retain(i)
          PROVE  ConsumerProofs!Inv' /\ WorkersFollow' /\ Index!Next
      BY <3>1, RetainIsSeen DEF Index!Next
    <3>2. QED
      BY <1>2, <3>1, EmbedIsSeen, DeliverIsSeen DEF IndexingNext
  <2>2. QED
    BY <2>1, IndexingParameters, IndexInvStep DEF IndexingInv
<1>3. QED
  BY <1>1, <1>2

LEMMA IndexingInvariance == IndexingSpec => []IndexingInv
<1>1. IndexingInit => IndexingInv
  BY IndexingStarts
<1>2. IndexingInv /\ [IndexingNext]_indexingVars => IndexingInv'
  BY IndexingStep
<1>3. QED
  BY <1>1, <1>2, PTL DEF IndexingSpec

\* embedding_main: the embedding worker implements the index: for any items,
\* collections and replicas and any number of leases that lapse, messages that are
\* redelivered, dead-lettered or replayed, calls that fail and workers that crash,
\* each of its steps is one of the index's, or the index does not see it.
THEOREM IndexingImplements == IndexingSpec => ImplementsIndex
<1>1. IndexingInit => Index!Init
  BY IndexingStarts
<1>2. IndexingInv /\ [IndexingNext]_indexingVars => [IndexStep]_indexingVars
  BY IndexingStep DEF IndexStep
<1>3. QED
  BY <1>1, <1>2, IndexingInvariance, PTL DEF IndexingSpec, ImplementsIndex

\* embedding_main, workspace_embedding_freshness: a head that is not indexed and was
\* not swept is reported as pending, and its event, once in the stream, still waits
\* there or in the dead letters, whatever failed on the way.
THEOREM HeadsReach == IndexingSpec => []HeadsReachIndex
<1>1. IndexingInv => HeadsReachIndex
  <2> SUFFICES ASSUME IndexingInv, NEW i \in Index!Heads,
                      i \notin points[active] \cup swept[active] \cup Hidden
               PROVE  delivery[i] = "waiting" /\ (stream[i] > 0 => Consumer!Recoverable(Embedding, i))
    BY DEF HeadsReachIndex
  <2>1. i \in retained /\ i \in Items
    BY HeadsAre DEF IndexingInv, WorkersFollow
  <2>2. delivery[i] # "done"
    BY DEF IndexingInv, IndexInv, HeadsKept, Kept
  <2>3. delivery[i] = "waiting"
    BY <2>1, <2>2, DeliveryIs DEF SeenAs
  <2>4. ConsumerProofs!NothingLost
    BY IndexingParameters, ConsumerProofs!InvKeepsAll DEF IndexingInv
  <2>5. ASSUME stream[i] > 0 PROVE Consumer!Recoverable(Embedding, i)
    BY <2>1, <2>4, <2>5, IndexingParameters
    DEF ConsumerProofs!NothingLost, ConsumerProofs!Recoverable, Consumer!Recoverable,
        ConsumerProofs!Messages, Consumer!Messages, ConsumerProofs!Stored, Consumer!Stored
  <2>6. QED
    BY <2>3, <2>5
<1>2. QED
  BY <1>1, IndexingInvariance, PTL

-----------------------------------------------------------------------------
(* Finite orders.  Pages, top lists and latest revisions are all the first *)
(* elements of a finite set in a strict total order, given as the set R of *)
(* pairs <<e, f>> with e before f.                                         *)

Orders(R, S) ==
    /\ \A e \in S : <<e, e>> \notin R
    /\ \A e, f \in S : e # f => <<e, f>> \in R \/ <<f, e>> \in R
    /\ \A e, f, g \in S : <<e, f>> \in R /\ <<f, g>> \in R => <<e, g>> \in R

Before(R, S, e) == {f \in S : <<f, e>> \in R}
FirstIn(R, S, n) == {e \in S : Cardinality(Before(R, S, e)) < n}

\* Some element is the first.
LEMMA FirstExists ==
  ASSUME NEW S, NEW R, IsFiniteSet(S), S # {}, Orders(R, S)
  PROVE  \E e \in S : \A f \in S \ {e} : <<e, f>> \in R
<1> DEFINE T == {Before(R, S, e) : e \in S}
<1>1. T \subseteq FiniteSubsetsOf(S) /\ T # {}
  <2>1. ASSUME NEW e \in S PROVE Before(R, S, e) \in FiniteSubsetsOf(S)
    <3>1. Before(R, S, e) \in SUBSET S
      BY DEF Before
    <3>2. IsFiniteSet(Before(R, S, e))
      BY <3>1, FS_Subset
    <3>3. QED
      BY <3>1, <3>2 DEF FiniteSubsetsOf
  <2>2. QED
    BY <2>1
<1>2. PICK x \in T : \A y \in T : ~ (<<y, x>> \in StrictSubsetOrdering(S))
  BY <1>1, WFMin, FS_StrictSubsetOrderingWellFounded
<1>3. PICK e \in S : x = Before(R, S, e)
  OBVIOUS
<1>4. ASSUME NEW f \in S \ {e} PROVE <<e, f>> \in R
  <2> SUFFICES ASSUME <<f, e>> \in R PROVE FALSE
    BY <1>4 DEF Orders
  <2>1. /\ Before(R, S, f) \subseteq Before(R, S, e) /\ Before(R, S, e) \subseteq S
        /\ f \in Before(R, S, e) /\ f \notin Before(R, S, f)
    BY DEF Before, Orders
  <2>2. <<Before(R, S, f), Before(R, S, e)>> \in StrictSubsetOrdering(S)
    BY <2>1 DEF StrictSubsetOrdering
  <2>3. QED
    BY <1>2, <1>3, <2>2
<1>5. QED
  BY <1>4

\* Some element is the last.
LEMMA LastExists ==
  ASSUME NEW S, NEW R, IsFiniteSet(S), S # {}, Orders(R, S)
  PROVE  \E e \in S : \A f \in S \ {e} : <<f, e>> \in R
<1> DEFINE Q == {<<p[2], p[1]>> : p \in R \cap (S \X S)}
<1>1. \A e, f \in S : <<e, f>> \in Q <=> <<f, e>> \in R
  OBVIOUS
<1> HIDE DEF Q
<1>2. Orders(Q, S)
  BY <1>1 DEF Orders
<1>3. PICK e \in S : \A f \in S \ {e} : <<e, f>> \in Q
  BY <1>2, FirstExists
<1>4. QED
  BY <1>1, <1>3

\* The first n: all of them if they are fewer, never more, before all the others.
LEMMA FirstFew ==
  ASSUME NEW S, NEW R, IsFiniteSet(S), Orders(R, S), NEW n \in Nat
  PROVE  /\ FirstIn(R, S, n) \subseteq S
         /\ Cardinality(FirstIn(R, S, n)) \in Nat /\ Cardinality(FirstIn(R, S, n)) <= n
         /\ Cardinality(FirstIn(R, S, n)) < n => FirstIn(R, S, n) = S
         /\ \A e \in S \ FirstIn(R, S, n), f \in FirstIn(R, S, n) : <<f, e>> \in R
<1> DEFINE B == FirstIn(R, S, n)
<1>1. B \subseteq S /\ \A e \in S : Before(R, S, e) \subseteq S
  BY DEF FirstIn, Before
<1>2. \A T \in SUBSET S : IsFiniteSet(T) /\ Cardinality(T) \in Nat
  BY FS_Subset, FS_CardinalityType
<1>3. ASSUME NEW T \in SUBSET S, NEW U \in SUBSET T PROVE Cardinality(U) <= Cardinality(T)
  BY <1>2, FS_Subset
<1>4. \A e \in S : e \in B <=> Cardinality(Before(R, S, e)) < n
  BY DEF FirstIn
<1> HIDE DEF B
<1>5. ASSUME Cardinality(B) < n, B # S PROVE FALSE
  <2>1. IsFiniteSet(S \ B) /\ S \ B # {} /\ Orders(R, S \ B)
    BY <1>1, <1>2, <1>5 DEF Orders
  <2>2. PICK e \in S \ B : \A f \in (S \ B) \ {e} : <<e, f>> \in R
    BY <2>1, FirstExists
  <2>3. Before(R, S, e) \subseteq B
    BY <2>2 DEF Before, Orders
  <2>4. Cardinality(Before(R, S, e)) <= Cardinality(B)
    BY <1>1, <1>3, <2>3
  <2>5. QED
    BY <1>1, <1>2, <1>4, <1>5, <2>2, <2>4
<1>6. ASSUME ~(Cardinality(B) <= n) PROVE FALSE
  <2>1. IsFiniteSet(B) /\ B # {} /\ Orders(R, B)
    BY <1>1, <1>2, <1>6, FS_EmptySet DEF Orders
  <2>2. PICK e \in B : \A f \in B \ {e} : <<f, e>> \in R
    BY <2>1, LastExists
  <2>3. B \ {e} \subseteq Before(R, S, e)
    BY <1>1, <2>2 DEF Before
  <2>4. Cardinality(B \ {e}) = Cardinality(B) - 1
    BY <2>1, FS_RemoveElement
  <2>5. Cardinality(B \ {e}) <= Cardinality(Before(R, S, e))
    BY <1>1, <1>3, <2>3
  <2>6. /\ Cardinality(B) \in Nat /\ Cardinality(Before(R, S, e)) \in Nat
        /\ Cardinality(Before(R, S, e)) < n
    BY <1>1, <1>2, <1>4, <2>2
  <2>7. QED
    BY <1>6, <2>4, <2>5, <2>6
<1>7. ASSUME NEW e \in S \ B, NEW f \in B PROVE <<f, e>> \in R
  <2> SUFFICES ASSUME <<e, f>> \in R PROVE FALSE
    BY <1>1, <1>7 DEF Orders
  <2>1. Before(R, S, e) \subseteq Before(R, S, f)
    BY <1>1 DEF Before, Orders
  <2>2. Cardinality(Before(R, S, e)) <= Cardinality(Before(R, S, f))
    BY <1>1, <1>3, <2>1
  <2>3. QED
    BY <1>1, <1>2, <1>4, <1>7, <2>2
<1>8. QED
  BY <1>1, <1>2, <1>5, <1>6, <1>7 DEF B

\* A loop that goes through S in order and takes what there is room for beside the
\* things already taken: G is what it has taken.
Takes(G, S, R, Room) == \A i \in S : i \in G <=> <<Before(R, G, i), i>> \in Room

LEMMA SelectionExists ==
  ASSUME NEW S, NEW R, NEW Room, IsFiniteSet(S), Orders(R, S)
  PROVE  \E G \in SUBSET S : Takes(G, S, R, Room)
<1> DEFINE Stuck == {T \in SUBSET S : \A G \in SUBSET T : ~Takes(G, T, R, Room)}
<1> SUFFICES ASSUME Stuck # {} PROVE FALSE
  OBVIOUS
<1>1. Stuck \subseteq FiniteSubsetsOf(S)
  BY FS_Subset DEF FiniteSubsetsOf
<1>2. PICK T \in Stuck : \A U \in Stuck : ~ (<<U, T>> \in StrictSubsetOrdering(S))
  BY <1>1, WFMin, FS_StrictSubsetOrderingWellFounded
<1>3. T \subseteq S /\ IsFiniteSet(T) /\ Orders(R, T)
  BY FS_Subset DEF Orders
<1>4. T # {}
  <2>1. Takes({}, {}, R, Room)
    BY DEF Takes
  <2>2. QED
    BY <2>1
<1>5. PICK l \in T : \A i \in T \ {l} : <<i, l>> \in R
  BY <1>3, <1>4, LastExists
<1>6. \A i \in T : <<l, i>> \notin R
  BY <1>3, <1>5 DEF Orders
<1>7. PICK G \in SUBSET (T \ {l}) : Takes(G, T \ {l}, R, Room)
  <2>1. <<T \ {l}, T>> \in StrictSubsetOrdering(S)
    BY <1>3 DEF StrictSubsetOrdering
  <2>2. T \ {l} \notin Stuck
    BY <1>2, <2>1
  <2>3. QED
    BY <1>3, <2>2
<1>8. \A H \in {G, G \cup {l}} : Before(R, H, l) = G /\ \A i \in T \ {l} : Before(R, H, i) = Before(R, G, i)
  BY <1>5, <1>6 DEF Before
<1>9. PICK H \in {G, G \cup {l}} : l \in H <=> <<G, l>> \in Room
  OBVIOUS
<1>10. H \in SUBSET T /\ Takes(H, T, R, Room)
  BY <1>7, <1>8, <1>9 DEF Takes
<1>11. QED
  BY <1>10

\* The order of numbers, and of numbers under a rank: the highest rank first, the
\* greatest number among equals.
Greater(S) == {p \in S \X S : p[1] > p[2]}
Ranked(S, rank) == {p \in S \X S : rank[p[1]] > rank[p[2]] \/ (rank[p[1]] = rank[p[2]] /\ p[1] > p[2])}

LEMMA NumbersOrdered ==
  ASSUME NEW S \in SUBSET Int
  PROVE  /\ Orders(Greater(S), S)
         /\ \A rank : (\A i \in S : rank[i] \in Nat) => Orders(Ranked(S, rank), S)
<1>1. Orders(Greater(S), S)
  BY DEF Orders, Greater
<1>2. ASSUME NEW rank, \A i \in S : rank[i] \in Nat
      PROVE  Orders(Ranked(S, rank), S)
  BY <1>2 DEF Orders, Ranked
<1>3. QED
  BY <1>1, <1>2

\* Finitely many numbers have a greatest and a least.
LEMMA GreatestAndLeast ==
  ASSUME NEW S \in SUBSET Int, IsFiniteSet(S), S # {}
  PROVE  (\E e \in S : \A f \in S : e >= f) /\ (\E e \in S : \A f \in S : e <= f)
<1>1. PICK R : R = Greater(S)
  OBVIOUS
<1>2. Orders(R, S)
  BY <1>1, NumbersOrdered
<1>3. ASSUME NEW T, T = S
      PROVE  (\E e \in T : \A f \in T \ {e} : <<e, f>> \in R) /\ (\E e \in T : \A f \in T \ {e} : <<f, e>> \in R)
  <2>1. IsFiniteSet(T) /\ T # {} /\ Orders(R, T)
    BY <1>2, <1>3
  <2>2. \E e \in T : \A f \in T \ {e} : <<e, f>> \in R
    BY <2>1, FirstExists
  <2>3. \E e \in T : \A f \in T \ {e} : <<f, e>> \in R
    BY <2>1, LastExists
  <2>4. QED
    BY <2>2, <2>3
<1>4. \A e, f \in S : <<e, f>> \in R <=> e > f
  BY <1>1 DEF Greater
<1>5. PICK e \in S : \A f \in S \ {e} : <<e, f>> \in R
  BY <1>3
<1>6. PICK d \in S : \A f \in S \ {d} : <<f, d>> \in R
  BY <1>3
<1>7. \A f \in S \ {e} : e > f
  BY <1>4, <1>5
<1>8. \A f \in S \ {d} : f > d
  BY <1>4, <1>6
<1>9. \A f \in S : e >= f
  BY <1>7
<1>10. \A f \in S : d <= f
  BY <1>8
<1>11. QED
  BY <1>9, <1>10

\* Of an interval there are finitely many.
LEMMA FinitelyMany ==
  ASSUME NEW m \in Int, NEW n \in Int, NEW S \in SUBSET (m .. n)
  PROVE  IsFiniteSet(S) /\ S \in SUBSET Int
<1>1. PICK T : T = m .. n
  OBVIOUS
<1>2. IsFiniteSet(T)
  BY <1>1, FS_Interval
<1>3. ASSUME NEW U, NEW V, V \subseteq U, IsFiniteSet(U) PROVE IsFiniteSet(V)
  BY <1>3, FS_Subset
<1>4. IsFiniteSet(S)
  BY <1>1, <1>2, <1>3
<1>5. \A i \in S : i \in Int
  OBVIOUS
<1>6. QED
  BY <1>4, <1>5

\* The n best by rank.
LEMMA BestFew ==
  ASSUME NEW S \in SUBSET Int, IsFiniteSet(S), NEW rank, \A i \in S : rank[i] \in Nat, NEW n \in Nat,
         NEW B, B = {i \in S : Cardinality({j \in S : rank[j] > rank[i] \/ (rank[j] = rank[i] /\ j > i)}) < n}
  PROVE  B \subseteq S /\ Cardinality(B) \in Nat /\ Cardinality(B) <= n /\ (Cardinality(B) < n => B = S)
<1>1. PICK R : R = Ranked(S, rank)
  OBVIOUS
<1>2. Orders(R, S)
  BY <1>1, NumbersOrdered
<1>3. \A i \in S : {j \in S : rank[j] > rank[i] \/ (rank[j] = rank[i] /\ j > i)} = Before(R, S, i)
  BY <1>1 DEF Before, Ranked
<1>4. B = FirstIn(R, S, n)
  BY <1>3 DEF FirstIn
<1>5. ASSUME NEW T, T = S
      PROVE  /\ FirstIn(R, T, n) \subseteq T /\ Cardinality(FirstIn(R, T, n)) \in Nat
             /\ Cardinality(FirstIn(R, T, n)) <= n
             /\ Cardinality(FirstIn(R, T, n)) < n => FirstIn(R, T, n) = T
  <2>1. IsFiniteSet(T) /\ Orders(R, T)
    BY <1>2, <1>5
  <2>2. QED
    BY <2>1, FirstFew
<1>6. QED
  BY <1>4, <1>5

-----------------------------------------------------------------------------
(* Protected search.  Writers, a backfill and a retirement change the      *)
(* digests between the two transactions of a recall: the invariant says    *)
(* which digests each of them may still rely on.                           *)

RecallRow == [phase : {"idle", "checked", "answered"}, query : Searches \cup {{}}, seen : SUBSET Created,
              indexed : BOOLEAN, missed : SUBSET Created, torn : BOOLEAN]
ReplicaRow == [version : KeyVersions \cup {0}, recall : RecallRow]
BackfillRow == [version : KeyVersions \cup {0}, cursor : Created \cup {0}, batches : Nat,
                seen : SUBSET Created]
RetirementRow == [active : KeyVersions \cup {0}, old : KeyVersions \cup {0}, seen : SUBSET Created,
                  covered : BOOLEAN]

SearchTypes ==
    /\ committed \subseteq Created /\ tokens \subseteq Created \X KeyVersions
    /\ replica \in [Replicas -> ReplicaRow] /\ stateFile \in Created \cup {0}
    /\ backfill \in BackfillRow /\ retirement \in RetirementRow
    /\ overclaimed = {} /\ stranded = {}

\* The items of S have the digests of version v.
Digested(S, v) == \A i \in S : <<i, v>> \in tokens

\* A recall on its way by the index has the digests of what it saw, unless its
\* version was retired since the check; one that was answered missed nothing.
ReplicaSound(r) ==
    /\ r.recall.seen \subseteq committed
    /\ r.recall.phase = "checked" /\ r.recall.indexed /\ ~r.recall.torn =>
         Digested(r.recall.seen, r.version)
    /\ r.recall.phase = "answered" /\ ~r.recall.torn => r.recall.missed = {}

\* A backfill has written what lies behind its cursor.
BackfillSound ==
    /\ backfill.seen \subseteq committed
    /\ Digested({i \in backfill.seen : i <= backfill.cursor}, backfill.version)

\* A retirement that may delete leaves the digests it checked.
RetirementSound ==
    retirement.covered =>
        /\ Digested(retirement.seen, retirement.active)
        /\ retirement.active \in KeyVersions /\ retirement.active # retirement.old

SearchInv ==
    /\ SearchTypes /\ (\A s \in Replicas : ReplicaSound(replica[s]))
    /\ BackfillSound /\ RetirementSound

LEMMA SameTally == \A T : Search!Cardinality(T) = Cardinality(T)
BY DEF Search!Cardinality, Cardinality

LEMMA NoRows ==
  /\ Search!NoRecall \in RecallRow /\ Search!NoRecall.phase = "idle" /\ Search!NoRecall.seen = {}
  /\ Search!NoBackfill \in BackfillRow /\ Search!NoBackfill.seen = {}
  /\ Search!NoRetirement \in RetirementRow /\ ~Search!NoRetirement.covered
BY DEF Search!NoRecall, Search!NoBackfill, Search!NoRetirement, RecallRow, BackfillRow, RetirementRow

\* What grows breaks nothing.
LEMMA DigestsGrow ==
  ASSUME SearchInv, committed \subseteq committed', tokens \subseteq tokens'
  PROVE  /\ \A S, v : Digested(S, v) => Digested(S, v)'
         /\ \A r : ReplicaSound(r) => ReplicaSound(r)'
         /\ replica' = replica => \A s \in Replicas : ReplicaSound(replica[s])'
         /\ backfill' = backfill => BackfillSound'
         /\ retirement' = retirement => RetirementSound'
<1>1. \A S, v : Digested(S, v) => Digested(S, v)'
  BY DEF Digested
<1>2. \A r : ReplicaSound(r) => ReplicaSound(r)'
  BY <1>1 DEF ReplicaSound, Digested
<1>3. replica' = replica => \A s \in Replicas : ReplicaSound(replica[s])'
  BY DEF SearchInv, ReplicaSound, Digested
<1>4. backfill' = backfill => BackfillSound'
  BY DEF SearchInv, BackfillSound, Digested
<1>5. retirement' = retirement => RetirementSound'
  BY DEF SearchInv, RetirementSound, Digested
<1>6. QED
  BY <1>1, <1>2, <1>3, <1>4, <1>5

\* One process moves on.
LEMMA ReplicaMoves ==
  ASSUME SearchInv, NEW s \in Replicas, NEW r \in ReplicaRow, ReplicaSound(r),
         replica' = [replica EXCEPT ![s] = r],
         UNCHANGED <<committed, tokens, stateFile, backfill, retirement, overclaimed, stranded>>
  PROVE  SearchInv'
<1>1. replica \in [Replicas -> ReplicaRow]
  BY DEF SearchInv, SearchTypes
<1>2. BackfillSound' /\ RetirementSound' /\ \A x : ReplicaSound(x) => ReplicaSound(x)'
  BY DigestsGrow
<1>3. ASSUME NEW t \in Replicas PROVE ReplicaSound(replica[t])'
  <2>1. CASE t = s
    BY <1>1, <2>1 DEF ReplicaSound, Digested
  <2>2. CASE t # s
    BY <1>1, <2>2 DEF SearchInv, ReplicaSound, Digested
  <2>3. QED
    BY <2>1, <2>2
<1>4. SearchTypes'
  BY <1>1 DEF SearchInv, SearchTypes
<1>5. QED
  BY <1>2, <1>3, <1>4 DEF SearchInv

LEMMA SearchConfigure ==
  ASSUME SearchConstants, SearchInv, NEW s \in Replicas, NEW v \in KeyVersions \cup {0},
         Search!Configure(s, v)
  PROVE  SearchInv'
<1>1. PICK r : r = [version |-> v, recall |-> Search!NoRecall]
  OBVIOUS
<1>2. r \in ReplicaRow /\ r.recall = Search!NoRecall
  BY <1>1, NoRows DEF ReplicaRow
<1>3. ReplicaSound(r)
  BY <1>2, NoRows DEF ReplicaSound
<1>4. QED
  BY <1>1, <1>2, <1>3, ReplicaMoves DEF Search!Configure

LEMMA SearchRetain ==
  ASSUME SearchConstants, SearchInv, NEW s \in Replicas, NEW i \in Created, Search!Retain(s, i)
  PROVE  SearchInv'
<1>1. replica[s].version \in KeyVersions \cup {0}
  BY DEF SearchInv, SearchTypes, ReplicaRow
<1>2. Search!Digests({i}, replica[s].version) \subseteq Created \X KeyVersions
  BY <1>1 DEF Search!Digests
<1>3. /\ committed' = committed \cup {i} /\ tokens' = tokens \cup Search!Digests({i}, replica[s].version)
      /\ UNCHANGED <<replica, stateFile, backfill, retirement, overclaimed, stranded>>
  BY DEF Search!Retain
<1>4. BackfillSound' /\ RetirementSound' /\ \A t \in Replicas : ReplicaSound(replica[t])'
  BY <1>3, DigestsGrow
<1>5. SearchTypes'
  BY <1>2, <1>3 DEF SearchInv, SearchTypes
<1>6. QED
  BY <1>4, <1>5 DEF SearchInv

\* _protected_search_index_is_complete
LEMMA SearchCheckCoverage ==
  ASSUME SearchConstants, SearchInv, NEW s \in Replicas, NEW q \in Searches, Search!CheckCoverage(s, q)
  PROVE  SearchInv'
<1>1. replica[s] \in ReplicaRow /\ committed \in SUBSET Created
  BY DEF SearchInv, SearchTypes
<1>2. PICK full \in BOOLEAN : full = Search!Complete(replica[s].version, q)
  BY DEF Search!Complete
<1>3. PICK c : c = [phase |-> "checked", query |-> q, seen |-> committed, indexed |-> full,
                    missed |-> {}, torn |-> FALSE]
  OBVIOUS
<1>4. c \in RecallRow /\ c.phase = "checked" /\ c.seen = committed /\ c.indexed = full
  BY <1>1, <1>3 DEF RecallRow
<1>5. PICK r : r = [replica[s] EXCEPT !.recall = c]
  OBVIOUS
<1>6. r \in ReplicaRow /\ r.recall = c /\ r.version = replica[s].version
  BY <1>1, <1>4, <1>5 DEF ReplicaRow
<1>7. ReplicaSound(r)
  BY <1>2, <1>4, <1>6 DEF ReplicaSound, Digested, Search!Complete, Search!Covered
<1>8. replica' = [replica EXCEPT ![s] = r]
  BY <1>2, <1>3, <1>5 DEF Search!CheckCoverage
<1>9. QED
  BY <1>6, <1>7, <1>8, ReplicaMoves DEF Search!CheckCoverage

\* search: an answer that is not full holds every candidate.
LEMMA LastFew ==
  ASSUME SearchConstants, NEW S \in SUBSET Created, NEW rank, \A i \in S : rank[i] \in Nat
  PROVE  /\ Search!Last(S, rank) \subseteq S
         /\ Search!Cardinality(Search!Last(S, rank)) # Limit => Search!Last(S, rank) = S
<1>1. PICK B : B = Search!Last(S, rank)
  OBVIOUS
<1>2. B = {i \in S : Cardinality({j \in S : rank[j] > rank[i] \/ (rank[j] = rank[i] /\ j > i)}) < Limit}
  BY <1>1, SameTally DEF Search!Last
<1>3. S \in SUBSET Int /\ Limit \in Nat
  <2>1. \A i \in S : i \in Nat
    BY DEF SearchConstants
  <2>2. QED
    BY <2>1 DEF SearchConstants
<1>4. IsFiniteSet(S)
  BY FS_Subset DEF SearchConstants
<1>5. B \subseteq S /\ Cardinality(B) \in Nat /\ Cardinality(B) <= Limit /\ (Cardinality(B) < Limit => B = S)
  BY <1>2, <1>3, <1>4, BestFew
<1>6. QED
  BY <1>1, <1>3, <1>5, SameTally

LEMMA SearchAnswer ==
  ASSUME SearchConstants, SearchInv, NEW s \in Replicas, Search!Answer(s)
  PROVE  SearchInv'
<1> DEFINE c == replica[s].recall
           v == replica[s].version
<1>1. replica[s] \in ReplicaRow /\ committed \in SUBSET Created /\ ReplicaSound(replica[s])
  BY DEF SearchInv, SearchTypes
<1>2. c \in RecallRow /\ c.seen \in SUBSET committed /\ c.phase = "checked"
  BY <1>1 DEF ReplicaRow, ReplicaSound, Search!Answer
<1>3. PICK found : found = IF c.indexed THEN Search!Indexed(v, c.query) ELSE Search!Scanned(c.query)
  OBVIOUS
<1>4. PICK matching : matching = {i \in c.seen : Search!Overlap(i, c.query) > 0}
  OBVIOUS
<1>5. PICK lost : lost = IF Search!Cardinality(found) = Limit THEN {} ELSE matching \ found
  OBVIOUS
<1>6. matching \in SUBSET Created /\ lost \in SUBSET Created
  BY <1>1, <1>2, <1>4, <1>5
<1>7. \A i \in committed : Search!Overlap(i, c.query) \in Nat
  <2> SUFFICES ASSUME NEW i \in committed PROVE Search!Overlap(i, c.query) \in Nat
    OBVIOUS
  <2>1. IsFiniteSet(Words[i]) /\ Words[i] \cap c.query \subseteq Words[i]
    BY <1>1 DEF SearchConstants
  <2>2. IsFiniteSet(Words[i] \cap c.query)
    BY <2>1, FS_Subset
  <2>3. QED
    BY <2>2, SameTally, FS_CardinalityType DEF Search!Overlap
<1>8. ASSUME ~c.torn, Search!Cardinality(found) # Limit
      PROVE  matching \subseteq found
  <2>1. CASE c.indexed
    <3>1. Digested(c.seen, v)
      BY <1>1, <1>2, <1>8, <2>1 DEF ReplicaSound
    <3>2. PICK S : S = {i \in committed : (<<i, v>> \in tokens /\ Search!Overlap(i, c.query) > 0) \/ i \in PinnedItems}
      OBVIOUS
    <3>3. PICK rank : rank = [i \in committed |-> i]
      OBVIOUS
    <3>4. S \in SUBSET Created /\ \A i \in S : rank[i] \in Nat
      BY <1>1, <3>2, <3>3 DEF SearchConstants
    <3>5. found = Search!Last(S, rank)
      BY <1>3, <2>1, <3>2, <3>3 DEF Search!Indexed
    <3>6. found = S
      BY <1>8, <3>4, <3>5, LastFew
    <3>7. QED
      BY <1>2, <1>4, <3>1, <3>2, <3>6 DEF Digested
  <2>2. CASE ~c.indexed
    <3>1. PICK S : S = {i \in committed : Search!Overlap(i, c.query) > 0 \/ i \in PinnedItems}
      OBVIOUS
    <3>2. PICK rank : rank = [i \in committed |-> Search!Overlap(i, c.query)]
      OBVIOUS
    <3>3. S \in SUBSET Created /\ \A i \in S : rank[i] \in Nat
      BY <1>1, <1>7, <3>1, <3>2
    <3>4. found = Search!Last(S, rank)
      BY <1>3, <2>2, <3>1, <3>2 DEF Search!Scanned
    <3>5. found = S
      BY <1>8, <3>3, <3>4, LastFew
    <3>6. QED
      BY <1>2, <1>4, <3>1, <3>5
  <2>3. QED
    BY <2>1, <2>2
<1>9. ~c.torn => lost = {}
  BY <1>5, <1>8
<1>10. PICK d : d = [Search!NoRecall EXCEPT !.phase = "answered", !.torn = c.torn, !.missed = lost]
  OBVIOUS
<1>11. /\ d \in RecallRow /\ d.phase = "answered" /\ d.torn = c.torn /\ d.missed = lost /\ d.seen = {}
  BY <1>2, <1>6, <1>10 DEF Search!NoRecall, RecallRow
<1>12. PICK r : r = [replica[s] EXCEPT !.recall = d]
  OBVIOUS
<1>13. r \in ReplicaRow /\ r.recall = d
  BY <1>1, <1>11, <1>12 DEF ReplicaRow
<1>14. ReplicaSound(r)
  BY <1>9, <1>11, <1>13 DEF ReplicaSound
<1>15. /\ replica' = [replica EXCEPT ![s] = r]
       /\ UNCHANGED <<committed, tokens, stateFile, backfill, retirement, overclaimed, stranded>>
  BY <1>3, <1>4, <1>5, <1>10, <1>12 DEF Search!Answer
<1>16. QED
  BY <1>13, <1>14, <1>15, ReplicaMoves

LEMMA SearchStartBackfill ==
  ASSUME SearchConstants, SearchInv, NEW v \in KeyVersions, Search!StartBackfill(v)
  PROVE  SearchInv'
<1>1. /\ committed \subseteq Created /\ stateFile \in Created \cup {0} /\ Created \subseteq Nat \ {0}
      /\ UNCHANGED <<committed, tokens, replica, stateFile, retirement, overclaimed, stranded>>
  BY DEF SearchInv, SearchTypes, SearchConstants, Search!StartBackfill
<1>2. PICK b : b = [version |-> v, cursor |-> stateFile, batches |-> 0,
                    seen |-> IF stateFile = 0 THEN committed ELSE {}]
  OBVIOUS
<1>3. backfill' = b /\ b \in BackfillRow
  BY <1>1, <1>2 DEF Search!StartBackfill, BackfillRow
<1>4. b.seen \subseteq committed /\ {i \in b.seen : i <= b.cursor} = {}
  <2>1. CASE stateFile = 0
    <3>1. b.seen = committed /\ b.cursor = 0
      BY <1>2, <2>1
    <3>2. \A i \in committed : i \in Nat /\ i # 0
      BY <1>1
    <3>3. QED
      BY <3>1, <3>2
  <2>2. CASE stateFile # 0
    BY <1>2, <2>2
  <2>3. QED
    BY <2>1, <2>2
<1>5. BackfillSound'
  BY <1>1, <1>3, <1>4 DEF BackfillSound, Digested
<1>6. RetirementSound' /\ \A s \in Replicas : ReplicaSound(replica[s])'
  BY <1>1, DigestsGrow
<1>7. SearchTypes'
  BY <1>1, <1>3 DEF SearchInv, SearchTypes
<1>8. QED
  BY <1>5, <1>6, <1>7 DEF SearchInv

\* A page ends at its greatest item and leaves none out before it; after an empty
\* page nothing follows the cursor.
LEMMA PageInOrder ==
  ASSUME SearchConstants, SearchInv, NEW cursor \in Created \cup {0}
  PROVE  /\ Search!Page(cursor) \subseteq committed
         /\ Search!Page(cursor) = {} => \A i \in committed : i <= cursor
         /\ Search!Page(cursor) # {} =>
              /\ Search!Max(Search!Page(cursor)) \in Search!Page(cursor)
              /\ \A i \in committed : cursor < i /\ i <= Search!Max(Search!Page(cursor)) =>
                    i \in Search!Page(cursor)
<1>1. /\ committed \in SUBSET Nat /\ cursor \in Nat /\ BatchSize \in Nat /\ BatchSize > 0
      /\ committed \subseteq Created /\ IsFiniteSet(Created)
  BY DEF SearchInv, SearchTypes, SearchConstants
<1>2. \A S \in SUBSET committed : IsFiniteSet(S) /\ Cardinality(S) \in Nat
  BY <1>1, FS_Subset, FS_CardinalityType
<1> DEFINE Between(i) == {j \in committed : cursor < j /\ j < i}
<1>3. PICK page : page = Search!Page(cursor)
  OBVIOUS
<1>4. \A i : i \in page <=> i \in committed /\ i > cursor /\ Cardinality(Between(i)) < BatchSize
  BY <1>3, SameTally DEF Search!Page
<1>5. page \in SUBSET committed
  BY <1>4
<1>6. ASSUME page = {}, NEW i \in committed, ~(i <= cursor) PROVE FALSE
  <2>1. PICK S : S = {j \in committed : cursor < j}
    OBVIOUS
  <2>2. S \in SUBSET Int /\ IsFiniteSet(S) /\ S # {}
    <3>1. S \in SUBSET committed
      BY <2>1
    <3>2. i \in Nat /\ cursor < i
      BY <1>1, <1>6
    <3>3. i \in S
      BY <2>1, <3>2
    <3>4. QED
      BY <1>1, <1>2, <3>1, <3>3
  <2>3. PICK e \in S : \A f \in S : e <= f
    BY <2>2, GreatestAndLeast
  <2>4. Between(e) = {}
    BY <1>1, <2>1, <2>2, <2>3
  <2>5. Cardinality(Between(e)) = 0
    BY <2>4, FS_EmptySet
  <2>6. QED
    BY <1>1, <1>4, <1>6, <2>1, <2>3, <2>5
<1>7. ASSUME page # {}
      PROVE  /\ Search!Max(page) \in page
             /\ \A i \in committed : cursor < i /\ i <= Search!Max(page) => i \in page
  <2>1. page \in SUBSET Int /\ IsFiniteSet(page)
    BY <1>1, <1>2, <1>5
  <2>2. \E e \in page : \A f \in page : e >= f
    BY <1>7, <2>1, GreatestAndLeast
  <2>3. PICK m : m = Search!Max(page)
    OBVIOUS
  <2>4. m \in page /\ \A f \in page : m >= f
    BY <2>2, <2>3 DEF Search!Max
  <2>5. ASSUME NEW i \in committed, cursor < i, i <= m PROVE i \in page
    <3>1. i \in Nat /\ m \in Nat /\ cursor \in Nat /\ \A j \in committed : j \in Nat
      BY <1>1, <1>5, <2>4
    <3>2. Between(i) \subseteq Between(m) /\ Between(m) \subseteq committed
      <4>1. ASSUME NEW j \in committed, j < i PROVE j < m
        BY <2>5, <3>1, <4>1
      <4>2. QED
        BY <4>1
    <3>3. Cardinality(Between(i)) <= Cardinality(Between(m))
      BY <1>2, <3>2, FS_Subset
    <3>4. Cardinality(Between(i)) \in Nat /\ Cardinality(Between(m)) \in Nat
      BY <1>2, <3>2
    <3>5. Cardinality(Between(m)) < BatchSize
      BY <1>4, <2>4
    <3>6. Cardinality(Between(i)) < BatchSize
      BY <1>1, <3>3, <3>4, <3>5
    <3>7. i > cursor
      BY <1>1, <2>5
    <3>8. QED
      BY <1>4, <3>6, <3>7
  <2>6. QED
    BY <2>3, <2>4, <2>5
<1>8. QED
  BY <1>3, <1>5, <1>6, <1>7

LEMMA SearchBackfillBatch ==
  ASSUME SearchConstants, SearchInv, Search!BackfillBatch
  PROVE  SearchInv'
<1>1. /\ committed \in SUBSET Created /\ Created \subseteq Nat /\ tokens \subseteq Created \X KeyVersions
      /\ backfill \in BackfillRow /\ backfill.seen \subseteq committed
      /\ Digested({i \in backfill.seen : i <= backfill.cursor}, backfill.version)
      /\ UNCHANGED <<committed, replica, stateFile, retirement, overclaimed, stranded>>
  BY DEF SearchInv, SearchTypes, SearchConstants, BackfillSound, Search!BackfillBatch
<1>2. /\ backfill.cursor \in Created \cup {0} /\ backfill.version \in KeyVersions
      /\ backfill.batches \in Nat /\ backfill.cursor \in Nat
  BY <1>1 DEF BackfillRow, Search!BackfillBatch
<1>3. PICK page : page = Search!Page(backfill.cursor)
  OBVIOUS
<1>4. PICK last : last = Search!Max(page)
  OBVIOUS
<1>5. /\ page # {} /\ tokens' = tokens \cup (page \X {backfill.version})
      /\ backfill' = [backfill EXCEPT !.cursor = last, !.batches = @ + 1]
  BY <1>2, <1>3, <1>4 DEF Search!BackfillBatch, Search!Digests
<1>6. /\ page \subseteq committed /\ last \in page
      /\ \A i \in committed : backfill.cursor < i /\ i <= last => i \in page
  BY <1>2, <1>3, <1>4, <1>5, PageInOrder
<1>7. tokens' \subseteq Created \X KeyVersions /\ tokens \subseteq tokens'
  BY <1>1, <1>2, <1>5, <1>6
<1>8. last \in Created /\ backfill.batches + 1 \in Nat /\ backfill \in BackfillRow
  BY <1>1, <1>2, <1>6
<1>9. /\ backfill' \in BackfillRow /\ backfill'.cursor = last
      /\ backfill'.seen = backfill.seen /\ backfill'.version = backfill.version
  BY <1>5, <1>8 DEF BackfillRow
<1>10. ASSUME NEW i \in backfill.seen, i <= last PROVE <<i, backfill.version>> \in tokens'
  <2>1. CASE i <= backfill.cursor
    BY <1>1, <1>7, <1>10, <2>1 DEF Digested
  <2>2. CASE ~(i <= backfill.cursor)
    <3>1. i \in committed /\ i \in Nat
      BY <1>1
    <3>2. backfill.cursor < i
      BY <1>2, <2>2, <3>1
    <3>3. i \in page
      BY <1>6, <1>10, <3>1, <3>2
    <3>4. QED
      BY <1>5, <3>3
  <2>3. QED
    BY <2>1, <2>2
<1>11. BackfillSound'
  BY <1>1, <1>9, <1>10 DEF BackfillSound, Digested
<1>12. RetirementSound' /\ \A s \in Replicas : ReplicaSound(replica[s])'
  BY <1>1, <1>7, DigestsGrow
<1>13. SearchTypes'
  BY <1>1, <1>7, <1>9 DEF SearchInv, SearchTypes
<1>14. QED
  BY <1>11, <1>12, <1>13 DEF SearchInv

LEMMA SearchBackfillEnds ==
  ASSUME SearchConstants, SearchInv, NEW complete \in BOOLEAN, Search!BackfillEnds(complete)
  PROVE  SearchInv'
<1>1. /\ committed \in SUBSET Created /\ backfill \in BackfillRow /\ backfill.seen \subseteq committed
      /\ Digested({i \in backfill.seen : i <= backfill.cursor}, backfill.version)
      /\ UNCHANGED <<committed, tokens, replica, retirement, stranded>>
      /\ backfill' = Search!NoBackfill /\ stateFile' = backfill.cursor
  BY DEF SearchInv, SearchTypes, BackfillSound, Search!BackfillEnds
<1>2. backfill.cursor \in Created \cup {0}
  BY <1>1 DEF BackfillRow
<1>3. overclaimed' = {}
  <2>1. CASE complete
    <3>1. \A i \in committed : i <= backfill.cursor
      BY <1>2, <2>1, PageInOrder DEF Search!BackfillEnds
    <3>2. \A i \in backfill.seen : <<i, backfill.version>> \in tokens
      BY <1>1, <3>1 DEF Digested
    <3>3. QED
      BY <2>1, <3>2 DEF Search!BackfillEnds
  <2>2. CASE ~complete
    BY <2>2 DEF Search!BackfillEnds
  <2>3. QED
    BY <2>1, <2>2
<1>4. BackfillSound'
  BY <1>1, NoRows DEF BackfillSound, Digested
<1>5. RetirementSound' /\ \A s \in Replicas : ReplicaSound(replica[s])'
  BY <1>1, DigestsGrow
<1>6. SearchTypes'
  BY <1>1, <1>2, <1>3, NoRows DEF SearchInv, SearchTypes
<1>7. QED
  BY <1>4, <1>5, <1>6 DEF SearchInv

LEMMA SearchBackfillStops ==
  ASSUME SearchConstants, SearchInv, Search!BackfillCrashes \/ Search!NewStateFile
  PROVE  SearchInv'
<1>1. /\ UNCHANGED <<committed, tokens, replica, retirement, overclaimed, stranded>>
      /\ stateFile' \in {stateFile, 0} /\ (backfill' = Search!NoBackfill \/ backfill' = backfill)
  BY DEF Search!BackfillCrashes, Search!NewStateFile
<1>2. BackfillSound'
  <2>1. CASE backfill' = backfill
    BY <1>1, <2>1, DigestsGrow
  <2>2. CASE backfill' = Search!NoBackfill
    BY <1>1, <2>2, NoRows DEF BackfillSound, Digested
  <2>3. QED
    BY <1>1, <2>1, <2>2
<1>3. RetirementSound' /\ \A s \in Replicas : ReplicaSound(replica[s])'
  BY <1>1, DigestsGrow
<1>4. SearchTypes'
  BY <1>1, NoRows DEF SearchInv, SearchTypes
<1>5. QED
  BY <1>2, <1>3, <1>4 DEF SearchInv

LEMMA SearchStartRetirement ==
  ASSUME SearchConstants, SearchInv, NEW new \in KeyVersions, NEW old \in KeyVersions,
         Search!StartRetirement(new, old)
  PROVE  SearchInv'
<1>1. /\ committed \in SUBSET Created /\ new # old
      /\ UNCHANGED <<committed, tokens, replica, stateFile, backfill, overclaimed, stranded>>
  BY DEF SearchInv, SearchTypes, Search!StartRetirement
<1>2. PICK covered : covered = Search!Covered(new)
  OBVIOUS
<1>3. covered \in BOOLEAN /\ (covered => Digested(committed, new))
  BY <1>2 DEF Search!Covered, Digested
<1>4. PICK r : r = [active |-> new, old |-> old, seen |-> committed, covered |-> covered]
  OBVIOUS
<1>5. retirement' = r
  BY <1>2, <1>4 DEF Search!StartRetirement
<1>6. r \in RetirementRow
  BY <1>1, <1>3, <1>4, Zenon DEF RetirementRow
<1>7. r.active = new /\ r.old = old /\ r.seen = committed /\ r.covered = covered
  BY <1>4
<1>8. RetirementSound'
  BY <1>1, <1>3, <1>5, <1>7 DEF RetirementSound, Digested
<1>9. BackfillSound' /\ \A s \in Replicas : ReplicaSound(replica[s])'
  BY <1>1, DigestsGrow
<1>10. SearchTypes'
  BY <1>1, <1>5, <1>6 DEF SearchInv, SearchTypes
<1>11. QED
  BY <1>8, <1>9, <1>10 DEF SearchInv

LEMMA SearchAbandonRetirement ==
  ASSUME SearchConstants, SearchInv, Search!AbandonRetirement
  PROVE  SearchInv'
<1>1. /\ UNCHANGED <<committed, tokens, replica, stateFile, backfill, overclaimed, stranded>>
      /\ retirement' = Search!NoRetirement
  BY DEF Search!AbandonRetirement
<1>2. RetirementSound'
  BY <1>1, NoRows DEF RetirementSound
<1>3. BackfillSound' /\ \A s \in Replicas : ReplicaSound(replica[s])'
  BY <1>1, DigestsGrow
<1>4. SearchTypes'
  BY <1>1, NoRows DEF SearchInv, SearchTypes
<1>5. QED
  BY <1>2, <1>3, <1>4 DEF SearchInv

\* The delete tears the recalls of the old version and spares every other digest.
LEMMA SearchApplyRetirement ==
  ASSUME SearchConstants, SearchInv, Search!ApplyRetirement
  PROVE  SearchInv'
<1>1. PICK old : old = retirement.old
  OBVIOUS
<1>2. /\ committed \in SUBSET Created /\ tokens \subseteq Created \X KeyVersions
      /\ replica \in [Replicas -> ReplicaRow] /\ backfill \in BackfillRow
      /\ retirement \in RetirementRow /\ retirement.covered
      /\ (\A s \in Replicas : ReplicaSound(replica[s])) /\ BackfillSound
      /\ UNCHANGED <<committed, stateFile, overclaimed>>
      /\ retirement' = Search!NoRetirement /\ tokens' = {t \in tokens : t[2] # old}
  BY <1>1 DEF SearchInv, SearchTypes, Search!ApplyRetirement, Search!MayDelete
<1>3. \A i, v : <<i, v>> \in tokens' <=> <<i, v>> \in tokens /\ v # old
  BY <1>2
<1>4. ASSUME NEW s \in Replicas
      PROVE  replica'[s] \in ReplicaRow /\ ReplicaSound(replica[s])'
  <2>1. PICK r : r = replica[s]
    OBVIOUS
  <2>2. PICK c : c = r.recall
    OBVIOUS
  <2>3. r \in ReplicaRow /\ c \in RecallRow /\ ReplicaSound(r) /\ c.torn \in BOOLEAN
    BY <1>2, <2>1, <2>2 DEF ReplicaRow, RecallRow
  <2>4. PICK torn \in BOOLEAN : torn = (c.torn \/ (c.phase = "checked" /\ r.version = old))
    BY <2>3
  <2>5. PICK d : d = [c EXCEPT !.torn = torn]
    OBVIOUS
  <2>6. /\ d \in RecallRow /\ d.torn = torn /\ d.phase = c.phase /\ d.seen = c.seen
        /\ d.indexed = c.indexed /\ d.missed = c.missed
    BY <2>3, <2>4, <2>5 DEF RecallRow
  <2>7. PICK q : q = [r EXCEPT !.recall = d]
    OBVIOUS
  <2>8. q \in ReplicaRow /\ q.recall = d /\ q.version = r.version
    BY <2>3, <2>6, <2>7 DEF ReplicaRow
  <2>9. replica'[s] = q
    BY <1>1, <2>1, <2>2, <2>3, <2>4, <2>5, <2>7 DEF Search!ApplyRetirement
  <2>10. d.seen \subseteq committed'
    BY <1>2, <2>2, <2>3, <2>6 DEF ReplicaSound
  <2>11. ASSUME d.phase = "checked", d.indexed, ~d.torn PROVE \A i \in d.seen : <<i, q.version>> \in tokens'
    <3>1. r.version # old /\ ~c.torn
      BY <2>4, <2>6, <2>11
    <3>2. \A i \in c.seen : <<i, r.version>> \in tokens
      BY <2>2, <2>3, <2>6, <2>11, <3>1 DEF ReplicaSound, Digested
    <3>3. QED
      BY <1>3, <2>6, <2>8, <3>1, <3>2
  <2>12. d.phase = "answered" /\ ~d.torn => d.missed = {}
    BY <2>2, <2>3, <2>4, <2>6 DEF ReplicaSound
  <2>13. QED
    BY <2>8, <2>9, <2>10, <2>11, <2>12 DEF ReplicaSound, Digested
<1>5. replica' \in [Replicas -> ReplicaRow]
  BY <1>4 DEF Search!ApplyRetirement
<1>6. backfill' \in BackfillRow /\ BackfillSound'
  <2>1. CASE backfill.version = old
    <3>1. backfill' = [backfill EXCEPT !.seen = {}]
      BY <1>1, <2>1 DEF Search!ApplyRetirement
    <3>2. backfill' \in BackfillRow /\ backfill'.seen = {}
      BY <1>2, <3>1 DEF BackfillRow
    <3>3. QED
      BY <3>2 DEF BackfillSound, Digested
  <2>2. CASE backfill.version # old
    <3>1. backfill' = backfill
      BY <1>1, <2>2 DEF Search!ApplyRetirement
    <3>2. QED
      BY <1>2, <1>3, <2>2, <3>1 DEF BackfillSound, Digested
  <2>3. QED
    BY <2>1, <2>2
<1>7. stranded' = {}
  <2>1. /\ \A i \in retirement.seen : <<i, retirement.active>> \in tokens
        /\ retirement.active \in KeyVersions /\ retirement.active # old
    BY <1>1, <1>2 DEF SearchInv, RetirementSound, Digested
  <2>2. \A i \in retirement.seen : \E v \in KeyVersions : <<i, v>> \in tokens'
    BY <1>3, <2>1
  <2>3. QED
    BY <2>2 DEF Search!ApplyRetirement
<1>8. RetirementSound'
  BY <1>2, NoRows DEF RetirementSound
<1>9. SearchTypes'
  BY <1>2, <1>5, <1>6, <1>7, NoRows DEF SearchInv, SearchTypes
<1>10. QED
  BY <1>4, <1>6, <1>8, <1>9 DEF SearchInv

LEMMA SearchStep ==
  ASSUME SearchConstants, SearchInv, [Search!Next]_(Search!vars)
  PROVE  SearchInv'
<1>1. CASE UNCHANGED Search!vars
  <2>1. /\ UNCHANGED <<committed, tokens, replica, stateFile, backfill, retirement, overclaimed, stranded>>
    BY <1>1 DEF Search!vars
  <2>2. BackfillSound' /\ RetirementSound' /\ \A s \in Replicas : ReplicaSound(replica[s])'
    BY <2>1, DigestsGrow
  <2>3. SearchTypes'
    BY <2>1 DEF SearchInv, SearchTypes
  <2>4. QED
    BY <2>2, <2>3 DEF SearchInv
<1>2. CASE Search!Next
  BY <1>2, SearchConfigure, SearchRetain, SearchCheckCoverage, SearchAnswer, SearchStartBackfill,
     SearchBackfillBatch, SearchBackfillEnds, SearchBackfillStops, SearchStartRetirement,
     SearchApplyRetirement, SearchAbandonRetirement
     DEF Search!Next
<1>3. QED
  BY <1>1, <1>2

LEMMA SearchInit ==
  ASSUME SearchConstants, Search!Init
  PROVE  SearchInv
<1>1. PICK r : r = [version |-> 0, recall |-> Search!NoRecall]
  OBVIOUS
<1>2. r \in ReplicaRow /\ r.recall = Search!NoRecall
  BY <1>1, NoRows DEF ReplicaRow
<1>3. ReplicaSound(r)
  BY <1>2, NoRows DEF ReplicaSound
<1>4. SearchTypes /\ \A s \in Replicas : replica[s] = r
  BY <1>1, <1>2, NoRows DEF SearchTypes, Search!Init
<1>5. BackfillSound /\ RetirementSound
  BY NoRows DEF BackfillSound, RetirementSound, Digested, Search!Init
<1>6. QED
  BY <1>3, <1>4, <1>5 DEF SearchInv

\* The index speeds recall up and loses nothing: a recall that was not torn by a
\* retirement of its own version misses no item it saw, a backfill that reports
\* completion has indexed what was there when it began, and a retirement leaves
\* every item it saw under another key.
THEOREM SearchLosesNothing ==
  SearchConstants => (Search!Spec => [](Search!TypeOK /\ Search!IndexLosesNothing))
<1> SUFFICES ASSUME SearchConstants PROVE Search!Spec => [](Search!TypeOK /\ Search!IndexLosesNothing)
  OBVIOUS
<1>1. Search!Init => SearchInv
  BY SearchInit
<1>2. SearchInv /\ [Search!Next]_(Search!vars) => SearchInv'
  BY SearchStep
<1>3. SearchInv => Search!TypeOK /\ Search!IndexLosesNothing
  <2> SUFFICES ASSUME SearchInv PROVE Search!TypeOK /\ Search!IndexLosesNothing
    OBVIOUS
  <2>1. Search!TypeOK
    BY DEF SearchInv, SearchTypes, Search!TypeOK, ReplicaRow, BackfillRow
  <2>2. Search!IndexLosesNothing
    BY DEF SearchInv, SearchTypes, ReplicaSound, Search!IndexLosesNothing, Search!NothingMissed,
           Search!CompleteMeansCovered, Search!RetiredStaysIndexed
  <2>3. QED
    BY <2>1, <2>2
<1>4. QED
  BY <1>1, <1>2, <1>3, PTL DEF Search!Spec

-----------------------------------------------------------------------------
(* Recall.  Writers and indexing workers move between the five reads of a  *)
(* recall: the invariant says at each of them where a current item the     *)
(* index knows must be, so that a fresh answer that is not full can have   *)
(* dropped it only for its score.                                          *)

\* A recall's row; its context is whatever the compiler made of the selection.
RecallRecord(c) ==
    c \in [pc : {"idle", "lexical", "queried", "gathered", "fused", "answered"},
           began : SUBSET Memories, gone : SUBSET Memories, lexical : SUBSET Memories,
           rows : SUBSET Memories, vector : SUBSET Memories, used : BOOLEAN,
           behind : SUBSET Memories, selected : SUBSET Memories, stale : BOOLEAN,
           context : {c.context}]

RecallTypes ==
    /\ memories \subseteq Memories /\ embedded \subseteq memories /\ vectorRows \subseteq embedded
    /\ RecallRecord(recallCall)
    /\ "pc" \in DOMAIN seed /\ seed.pc \in {"idle", "checking", "answered"}

\* The index drops an item only for one that replaces it.
IndexHolds == \A i \in embedded : Recalling!Current(i) => i \in vectorRows

\* A current item that the index knows is never out of the recall's sight.
InSight(c) ==
    /\ c.pc = "queried" => \A i \in embedded : Recalling!Current(i) => i \in c.rows \cup c.behind
    /\ c.pc = "gathered" /\ c.used =>
         \A i \in embedded : Recalling!Current(i) => i \in c.vector \cup c.behind

CompleteAnswer(c) ==
    c.pc \in {"fused", "answered"} /\ c.used /\ ~c.stale /\ Recalling!Cardinality(c.selected) < TopK =>
        \A i \in c.began : Recalling!Current(i) =>
            i \in c.selected \cup c.behind \/ Lexical[i] + Semantic[i] < MinScore

\* What was gone stays gone, and no source brings it back.
GoneStaysGone(c) ==
    /\ c.began \subseteq memories /\ c.gone \subseteq memories
    /\ \A i \in c.gone : ~Recalling!Current(i)
    /\ (c.lexical \cup c.vector \cup c.selected) \cap c.gone = {}

RecallSound(c) ==
    /\ InSight(c) /\ CompleteAnswer(c) /\ GoneStaysGone(c)
    /\ c.pc \in {"lexical", "queried"} => ~c.used

RecallInv == RecallTypes /\ IndexHolds /\ RecallSound(recallCall)

LEMMA RecallTally == \A T : Recalling!Cardinality(T) = Cardinality(T)
BY DEF Recalling!Cardinality, Cardinality

LEMMA NoRecallRunning == RecallRecord(Recalling!NoCall) /\ RecallSound(Recalling!NoCall)
BY DEF Recalling!NoCall, RecallRecord, RecallSound, InSight, CompleteAnswer, GoneStaysGone

\* The best n are members, and all of them if they are fewer.
LEMMA BestOfFew ==
  ASSUME RecallConstants, NEW S \in SUBSET Memories, NEW n \in Nat, NEW rank, \A i \in S : rank[i] \in Nat
  PROVE  /\ Recalling!Best(S, n, rank) \subseteq S
         /\ Recalling!Cardinality(Recalling!Best(S, n, rank)) < n => Recalling!Best(S, n, rank) = S
<1>1. S \in SUBSET Int /\ IsFiniteSet(S)
  <2>1. \A i \in S : i \in Nat
    BY DEF RecallConstants
  <2>2. IsFiniteSet(S)
    BY FS_Subset DEF RecallConstants
  <2>3. QED
    BY <2>1, <2>2
<1>2. PICK B : B = Recalling!Best(S, n, rank)
  OBVIOUS
<1>3. B = {i \in S : Cardinality({j \in S : rank[j] > rank[i] \/ (rank[j] = rank[i] /\ j > i)}) < n}
  BY <1>2, RecallTally DEF Recalling!Best
<1>4. B \subseteq S /\ (Cardinality(B) < n => B = S)
  BY <1>1, <1>3, BestFew
<1>5. QED
  BY <1>2, <1>4, RecallTally

-----------------------------------------------------------------------------
(* What is handed out.  The compiler and the seed go through a list and    *)
(* take what there is room for: the last item taken fitted beside all the  *)
(* others, and what did not fit beside some of them does not fit beside    *)
(* all.                                                                    *)

\* The tokens of the items of S.
TokensIn(S) == UNION {{i} \X (1..Tokens[i]) : i \in S}

\* Fewer items have fewer tokens, and one more adds no more than its own.
LEMMA SpentLaws ==
  ASSUME RecallConstants, NEW S \in SUBSET Memories
  PROVE  /\ Recalling!Spent(S) \in Nat /\ Recalling!Spent({}) = 0
         /\ \A T \in SUBSET S : Recalling!Spent(T) \in Nat /\ Recalling!Spent(T) <= Recalling!Spent(S)
         /\ \A i \in Memories : Recalling!Spent(S \cup {i}) <= Recalling!Spent(S) + Tokens[i]
<1>1. \A T : Recalling!Spent(T) = Cardinality(TokensIn(T))
  BY RecallTally DEF Recalling!Spent, TokensIn
<1>2. ASSUME NEW T \in SUBSET Memories PROVE IsFiniteSet(TokensIn(T)) /\ Cardinality(TokensIn(T)) \in Nat
  <2> DEFINE texts == {{i} \X (1..Tokens[i]) : i \in T}
             textOf == [i \in T |-> {i} \X (1..Tokens[i])]
  <2>1. textOf \in Surjection(T, texts)
    BY DEF Surjection
  <2>2. IsFiniteSet(T)
    BY FS_Subset DEF RecallConstants
  <2>3. IsFiniteSet(texts)
    <3> HIDE DEF texts, textOf
    <3> QED
      BY <2>1, <2>2, FS_Surjection
  <2>4. ASSUME NEW i \in T PROVE IsFiniteSet({i} \X (1..Tokens[i]))
    <3>1. Tokens[i] \in Int /\ 1 \in Int
      BY DEF RecallConstants
    <3>2. IsFiniteSet(1..Tokens[i]) /\ IsFiniteSet({i})
      BY <3>1, FS_Interval, FS_Singleton
    <3>3. QED
      BY <3>2, FS_Product
  <2>5. IsFiniteSet(UNION texts)
    BY <2>3, <2>4, FS_UNION
  <2>6. IsFiniteSet(TokensIn(T))
    BY <2>5 DEF TokensIn
  <2>7. QED
    BY <2>6, FS_CardinalityType
<1>3. Recalling!Spent({}) = 0
  <2>1. TokensIn({}) = {}
    BY DEF TokensIn
  <2>2. QED
    BY <1>1, <2>1, FS_EmptySet
<1>4. ASSUME NEW T \in SUBSET S PROVE Recalling!Spent(T) \in Nat /\ Recalling!Spent(T) <= Recalling!Spent(S)
  <2>1. TokensIn(T) \in SUBSET TokensIn(S)
    BY DEF TokensIn
  <2>2. IsFiniteSet(TokensIn(S)) /\ Cardinality(TokensIn(T)) \in Nat
    BY <1>2
  <2>3. Cardinality(TokensIn(T)) <= Cardinality(TokensIn(S))
    BY <2>1, <2>2, FS_Subset
  <2>4. QED
    BY <1>1, <2>2, <2>3
<1>5. ASSUME NEW i \in Memories PROVE Recalling!Spent(S \cup {i}) <= Recalling!Spent(S) + Tokens[i]
  <2>1. TokensIn(S \cup {i}) = TokensIn(S) \cup ({i} \X (1..Tokens[i]))
    BY DEF TokensIn
  <2>2. Tokens[i] \in Nat /\ 1 \in Int /\ Tokens[i] \in Int
    BY DEF RecallConstants
  <2>3. IsFiniteSet(1..Tokens[i]) /\ Cardinality(1..Tokens[i]) = Tokens[i]
    BY <2>2, FS_Interval
  <2>4. IsFiniteSet({i}) /\ Cardinality({i}) = 1
    BY FS_Singleton
  <2>5. IsFiniteSet({i} \X (1..Tokens[i])) /\ Cardinality({i} \X (1..Tokens[i])) = Tokens[i]
    <3>1. PICK P, Q : P = {i} /\ Q = 1..Tokens[i]
      OBVIOUS
    <3>2. IsFiniteSet(P \X Q) /\ Cardinality(P \X Q) = Cardinality(P) * Cardinality(Q)
      BY <2>3, <2>4, <3>1, FS_Product
    <3>3. QED
      BY <2>2, <2>3, <2>4, <3>1, <3>2
  <2>6. PICK A, B : A = TokensIn(S) /\ B = {i} \X (1..Tokens[i])
    OBVIOUS
  <2>7. IsFiniteSet(A) /\ Cardinality(A) \in Nat /\ IsFiniteSet(B) /\ Cardinality(B) = Tokens[i]
    BY <1>2, <2>5, <2>6
  <2>8. Cardinality(A \cup B) = Cardinality(A) + Cardinality(B) - Cardinality(A \cap B)
    BY <2>7, FS_Union
  <2>9. Cardinality(A \cap B) \in Nat
    BY <2>7, FS_Intersection, FS_CardinalityType
  <2>10. Recalling!Spent(S) = Cardinality(A) /\ Recalling!Spent(S \cup {i}) = Cardinality(A \cup B)
    BY <1>1, <2>1, <2>6
  <2>11. Cardinality(A \cup B) <= Cardinality(A) + Tokens[i]
    BY <2>2, <2>7, <2>8, <2>9
  <2>12. QED
    BY <2>10, <2>11
<1>6. Recalling!Spent(S) \in Nat
  BY <1>1, <1>2
<1>7. QED
  BY <1>3, <1>4, <1>5, <1>6

\* What has been taken keeps the budget, if each item taken fitted when it was.
LEMMA TakenFits ==
  ASSUME RecallConstants, NEW S \in SUBSET Memories, NEW R, Orders(R, S), NEW G \in SUBSET S,
         \A i \in G : Recalling!Fits(Before(R, G, i), i)
  PROVE  Recalling!Spent(G) <= Budget
<1>1. CASE G = {}
  BY <1>1, SpentLaws DEF RecallConstants
<1>2. CASE G # {}
  <2>1. IsFiniteSet(G) /\ Orders(R, G)
    BY FS_Subset DEF RecallConstants, Orders
  <2>2. PICK l \in G : \A i \in G \ {l} : <<i, l>> \in R
    BY <1>2, <2>1, LastExists
  <2>3. Before(R, G, l) = G \ {l}
    BY <2>1, <2>2 DEF Before, Orders
  <2>4. Recalling!Spent(G \ {l}) + Tokens[l] <= Budget
    BY <2>2, <2>3 DEF Recalling!Fits
  <2>5. G \ {l} \in SUBSET Memories /\ (G \ {l}) \cup {l} = G /\ l \in Memories /\ G \in SUBSET Memories
    BY <2>2
  <2>6. Recalling!Spent(G) <= Recalling!Spent(G \ {l}) + Tokens[l]
    BY <2>5, SpentLaws
  <2>7. /\ Recalling!Spent(G) \in Nat /\ Recalling!Spent(G \ {l}) \in Nat
        /\ Tokens[l] \in Nat /\ Budget \in Nat
    BY <2>5, SpentLaws DEF RecallConstants
  <2>8. QED
    BY <2>4, <2>6, <2>7
<1>3. QED
  BY <1>1, <1>2

\* What did not fit beside some does not fit beside more.
LEMMA StillNoRoom ==
  ASSUME RecallConstants, NEW S \in SUBSET Memories, NEW T \in SUBSET S, NEW i \in Memories
  PROVE  /\ Recalling!Fits(S, i) => Recalling!Fits(T, i)
         /\ Recalling!LayerFull(T, i) => Recalling!LayerFull(S, i)
<1>1. Recalling!Fits(S, i) => Recalling!Fits(T, i)
  <2>1. /\ Recalling!Spent(S) \in Nat /\ Recalling!Spent(T) \in Nat
        /\ Recalling!Spent(T) <= Recalling!Spent(S) /\ Tokens[i] \in Nat /\ Budget \in Nat
    BY SpentLaws DEF RecallConstants
  <2>2. QED
    BY <2>1 DEF Recalling!Fits
<1>2. Recalling!LayerFull(T, i) => Recalling!LayerFull(S, i)
  <2>1. PICK A, B : /\ A = {j \in T : LayerOf[j] = LayerOf[i]}
                    /\ B = {j \in S : LayerOf[j] = LayerOf[i]}
    OBVIOUS
  <2>2. A \in SUBSET B /\ IsFiniteSet(B) /\ IsFiniteSet(A)
    BY <2>1, FS_Subset DEF RecallConstants
  <2>3. /\ Cardinality(A) \in Nat /\ Cardinality(B) \in Nat /\ Cardinality(A) <= Cardinality(B)
        /\ PerLayer \in Nat
    BY <2>2, FS_Subset, FS_CardinalityType DEF RecallConstants
  <2>4. QED
    BY <2>1, <2>3, RecallTally DEF Recalling!LayerFull
<1>3. QED
  BY <1>1, <1>2

\* No layer has more than its limit, if it was not full before each item taken.
LEMMA TakenInLayer ==
  ASSUME RecallConstants, NEW S \in SUBSET Memories, NEW R, Orders(R, S), NEW G \in SUBSET S,
         \A i \in G : ~Recalling!LayerFull(Before(R, G, i), i), NEW layer
  PROVE  Cardinality({j \in G : LayerOf[j] = layer}) <= PerLayer
<1>1. PICK T : T = {j \in G : LayerOf[j] = layer}
  OBVIOUS
<1>2. IsFiniteSet(T) /\ Cardinality(T) \in Nat /\ PerLayer \in Nat /\ Orders(R, T)
  <2>1. T \in SUBSET S /\ IsFiniteSet(S) /\ PerLayer \in Nat
    BY <1>1, FS_Subset DEF RecallConstants
  <2>2. IsFiniteSet(T) /\ Cardinality(T) \in Nat
    BY <2>1, FS_Subset, FS_CardinalityType
  <2>3. QED
    BY <2>1, <2>2 DEF Orders
<1>3. CASE T = {}
  BY <1>1, <1>2, <1>3, FS_EmptySet
<1>4. CASE T # {}
  <2>1. PICK l \in T : \A i \in T \ {l} : <<i, l>> \in R
    BY <1>2, <1>4, LastExists
  <2>2. {j \in Before(R, G, l) : LayerOf[j] = LayerOf[l]} = T \ {l}
    BY <1>1, <1>2, <2>1 DEF Before, Orders
  <2>3. ~Recalling!LayerFull(Before(R, G, l), l)
    BY <1>1, <2>1
  <2>4. ~(Cardinality(T \ {l}) >= PerLayer)
    BY <2>2, <2>3, RecallTally DEF Recalling!LayerFull
  <2>5. Cardinality(T \ {l}) = Cardinality(T) - 1
    BY <1>2, <2>1, FS_RemoveElement
  <2>6. QED
    BY <1>1, <1>2, <2>4, <2>5
<1>5. QED
  BY <1>3, <1>4

\* What a context of the selected items S may be.
ContextOf(context, S) ==
    /\ Recalling!Spent(context) <= Budget /\ context \subseteq S
    /\ \A i \in S :
         /\ Recalling!Cardinality({j \in context : LayerOf[j] = LayerOf[i]}) <= PerLayer
         /\ i \in context \/ Recalling!LayerFull(context, i) \/ ~Recalling!Fits(context, i)

LEMMA CompileKeeps ==
  ASSUME RecallConstants, NEW S \in SUBSET Memories, \A i \in S : Recalling!Score(i) \in Nat
  PROVE  ContextOf(Recalling!Compile(S), S)
<1> DEFINE R    == {p \in S \X S : Recalling!Ahead(p[1], p[2])}
           Room == {p \in (SUBSET S) \X S : ~Recalling!LayerFull(p[1], p[2]) /\ Recalling!Fits(p[1], p[2])}
           Taken(G) == \A i \in S : LET before == {j \in G : Recalling!Ahead(j, i)}
                         IN i \in G <=> ~Recalling!LayerFull(before, i) /\ Recalling!Fits(before, i)
<1>1. \A i \in S : i \in Nat /\ LayerOf[i] \in Nat
  BY DEF RecallConstants
<1>2. \A i, j \in S : <<j, i>> \in R <=> Recalling!Ahead(j, i)
  OBVIOUS
<1>3. Orders(R, S)
  <2> HIDE DEF R
  <2>1. \A e \in S : <<e, e>> \notin R
    BY <1>1, <1>2 DEF Recalling!Ahead
  <2>2. \A e, f \in S : e # f => <<e, f>> \in R \/ <<f, e>> \in R
    BY <1>1, <1>2 DEF Recalling!Ahead
  <2>3. \A e, f, g \in S : <<e, f>> \in R /\ <<f, g>> \in R => <<e, g>> \in R
    BY <1>1, <1>2 DEF Recalling!Ahead
  <2>4. QED
    BY <2>1, <2>2, <2>3 DEF Orders
<1>4. IsFiniteSet(S)
  BY FS_Subset DEF RecallConstants
<1>5. ASSUME NEW G \in SUBSET S, NEW i \in S
      PROVE  Before(R, G, i) = {j \in G : Recalling!Ahead(j, i)} /\ Before(R, G, i) \in SUBSET S
  BY <1>2 DEF Before
<1>6. \A T \in SUBSET S, i \in S :
        <<T, i>> \in Room <=> ~Recalling!LayerFull(T, i) /\ Recalling!Fits(T, i)
  OBVIOUS
<1> HIDE DEF R, Room
<1>7. PICK G \in SUBSET S : Takes(G, S, R, Room)
  BY <1>3, <1>4, SelectionExists
<1>8. Taken(G)
  BY <1>5, <1>6, <1>7 DEF Takes
<1>9. PICK C : C = Recalling!Compile(S)
  OBVIOUS
<1>10. C = CHOOSE taken \in SUBSET S : Taken(taken)
  BY <1>9 DEF Recalling!Compile
<1>11. C \in SUBSET S /\ Taken(C)
  <2> HIDE DEF Taken
  <2> QED
    BY <1>8, <1>10
<1>12. ASSUME NEW i \in C
       PROVE  Recalling!Fits(Before(R, C, i), i) /\ ~Recalling!LayerFull(Before(R, C, i), i)
  BY <1>5, <1>11
<1>13. Recalling!Spent(C) <= Budget
  BY <1>3, <1>11, <1>12, TakenFits
<1>14. \A i \in S : Recalling!Cardinality({j \in C : LayerOf[j] = LayerOf[i]}) <= PerLayer
  BY <1>3, <1>11, <1>12, TakenInLayer, RecallTally
<1>15. ASSUME NEW i \in S, i \notin C
       PROVE  Recalling!LayerFull(C, i) \/ ~Recalling!Fits(C, i)
  <2>1. PICK before \in SUBSET C : Recalling!LayerFull(before, i) \/ ~Recalling!Fits(before, i)
    BY <1>11, <1>15
  <2>2. C \in SUBSET Memories /\ i \in Memories
    BY <1>11
  <2>3. QED
    BY <2>1, <2>2, StillNoRoom
<1>16. QED
  BY <1>9, <1>11, <1>13, <1>14, <1>15 DEF ContextOf

\* What a seed of the listed items S may be.
SeedFits(chosen, S) ==
    /\ Recalling!Spent(chosen) <= Budget /\ chosen \subseteq S
    /\ \A i \in S : i \in chosen \/ ~Recalling!Fits(chosen, i)

LEMMA SeedKeeps ==
  ASSUME RecallConstants, NEW S \in SUBSET Memories
  PROVE  SeedFits(Recalling!SeedOf(S), S)
<1> DEFINE R    == {p \in S \X S : p[1] > p[2]}
           Room == {p \in (SUBSET S) \X S : Recalling!Fits(p[1], p[2])}
           Taken(G) == \A i \in S : i \in G <=> Recalling!Fits({j \in G : j > i}, i)
<1>1. \A i \in S : i \in Nat
  BY DEF RecallConstants
<1>2. \A i, j \in S : <<j, i>> \in R <=> j > i
  OBVIOUS
<1>3. Orders(R, S)
  <2> HIDE DEF R
  <2> QED
    BY <1>1, <1>2 DEF Orders
<1>4. IsFiniteSet(S)
  BY FS_Subset DEF RecallConstants
<1>5. ASSUME NEW G \in SUBSET S, NEW i \in S
      PROVE  Before(R, G, i) = {j \in G : j > i} /\ Before(R, G, i) \in SUBSET S
  BY <1>2 DEF Before
<1>6. \A T \in SUBSET S, i \in S : <<T, i>> \in Room <=> Recalling!Fits(T, i)
  OBVIOUS
<1> HIDE DEF R, Room
<1>7. PICK G \in SUBSET S : Takes(G, S, R, Room)
  BY <1>3, <1>4, SelectionExists
<1>8. Taken(G)
  BY <1>5, <1>6, <1>7 DEF Takes
<1>9. PICK C : C = Recalling!SeedOf(S)
  OBVIOUS
<1>10. C = CHOOSE taken \in SUBSET S : Taken(taken)
  BY <1>9 DEF Recalling!SeedOf
<1>11. C \in SUBSET S /\ Taken(C)
  <2> HIDE DEF Taken
  <2> QED
    BY <1>8, <1>10
<1>12. \A i \in C : Recalling!Fits(Before(R, C, i), i)
  BY <1>5, <1>11
<1>13. Recalling!Spent(C) <= Budget
  BY <1>3, <1>11, <1>12, TakenFits
<1>14. ASSUME NEW i \in S, i \notin C PROVE ~Recalling!Fits(C, i)
  <2>1. PICK before \in SUBSET C : ~Recalling!Fits(before, i)
    BY <1>11, <1>14
  <2>2. C \in SUBSET Memories /\ i \in Memories
    BY <1>11
  <2>3. QED
    BY <2>1, <2>2, StillNoRoom
<1>15. QED
  BY <1>9, <1>11, <1>13, <1>14 DEF SeedFits

\* The recall moves on, or the seed does.
LEMMA RecallMoves ==
  ASSUME RecallInv, UNCHANGED <<memories, embedded, vectorRows>>,
         (RecallRecord(recallCall') /\ RecallSound(recallCall')) \/ recallCall' = recallCall,
         "pc" \in DOMAIN seed' /\ seed'.pc \in {"idle", "checking", "answered"}
  PROVE  RecallInv'
<1>1. RecallRecord(recallCall') /\ RecallSound(recallCall')
  BY DEF RecallInv, RecallTypes
<1>2. \A i : Recalling!Current(i)' <=> Recalling!Current(i)
  BY DEF Recalling!Current
<1>3. RecallSound(recallCall)'
  BY <1>1, <1>2 DEF RecallSound, InSight, CompleteAnswer, GoneStaysGone
<1>4. IndexHolds'
  BY <1>2 DEF RecallInv, IndexHolds
<1>5. RecallTypes'
  BY <1>1 DEF RecallInv, RecallTypes, RecallRecord
<1>6. QED
  BY <1>3, <1>4, <1>5 DEF RecallInv

LEMMA RecallRetain ==
  ASSUME RecallConstants, RecallInv, NEW i \in Memories, Recalling!Retain(i)
  PROVE  RecallInv'
<1>1. /\ memories' = memories \cup {i} /\ i \notin memories
      /\ UNCHANGED <<embedded, vectorRows, recallCall, seed>>
  BY DEF Recalling!Retain
<1>2. \A j \in memories : Recalling!Current(j)' => Recalling!Current(j)
  BY <1>1 DEF Recalling!Current
<1>3. RecallTypes'
  BY <1>1 DEF RecallInv, RecallTypes, RecallRecord
<1>4. IndexHolds'
  BY <1>1, <1>2 DEF RecallInv, RecallTypes, IndexHolds
<1>5. embedded \subseteq memories
  BY DEF RecallInv, RecallTypes
<1>6. RecallSound(recallCall)'
  <2>1. InSight(recallCall)'
    BY <1>1, <1>2, <1>5 DEF RecallInv, RecallSound, InSight
  <2>2. CompleteAnswer(recallCall)'
    BY <1>1, <1>2 DEF RecallInv, RecallSound, CompleteAnswer, GoneStaysGone
  <2>3. GoneStaysGone(recallCall)'
    BY <1>1, <1>2 DEF RecallInv, RecallSound, GoneStaysGone
  <2>4. QED
    BY <1>1, <2>1, <2>2, <2>3 DEF RecallInv, RecallSound
<1>7. QED
  BY <1>3, <1>4, <1>6 DEF RecallInv

LEMMA RecallEmbed ==
  ASSUME RecallConstants, RecallInv, NEW i \in Memories, Recalling!Embed(i)
  PROVE  RecallInv'
<1>1. /\ i \in memories \ embedded /\ memories' = memories /\ embedded' = embedded \cup {i}
      /\ vectorRows' = (vectorRows \cup {i}) \ {Supersedes[i]} /\ seed' = seed
  BY DEF Recalling!Embed
<1>2. /\ memories \subseteq Memories /\ embedded \subseteq memories /\ vectorRows \subseteq embedded
      /\ RecallRecord(recallCall) /\ RecallSound(recallCall) /\ IndexHolds
  BY DEF RecallInv, RecallTypes
<1>3. \A j : Recalling!Current(j)' <=> Recalling!Current(j)
  BY <1>1 DEF Recalling!Current
<1>4. ~Recalling!Current(Supersedes[i])
  BY <1>1 DEF Recalling!Current
<1>5. IndexHolds'
  BY <1>1, <1>2, <1>3, <1>4 DEF IndexHolds
<1>6. PICK c : c = recallCall
  OBVIOUS
<1>7. PICK d : d = recallCall'
  OBVIOUS
<1>8. /\ d.pc = c.pc /\ d.began = c.began /\ d.gone = c.gone /\ d.lexical = c.lexical
      /\ d.rows = c.rows /\ d.vector = c.vector /\ d.used = c.used /\ d.selected = c.selected
      /\ d.stale = c.stale /\ c.behind \subseteq d.behind
      /\ c.pc \in {"queried", "gathered"} => i \in d.behind
      /\ RecallRecord(d)
  <2>1. CASE c.pc \in {"queried", "gathered"}
    <3>1. d = [c EXCEPT !.behind = c.behind \cup {i}]
      BY <1>6, <1>7, <2>1 DEF Recalling!Embed
    <3>2. RecallRecord(c)
      BY <1>2, <1>6
    <3>3. QED
      BY <3>1, <3>2 DEF RecallRecord
  <2>2. CASE c.pc \notin {"queried", "gathered"}
    <3>1. d = c /\ RecallRecord(c)
      BY <1>2, <1>6, <1>7, <2>2 DEF Recalling!Embed
    <3>2. QED
      BY <2>2, <3>1
  <2>3. QED
    BY <2>1, <2>2
<1>9. RecallSound(c)
  BY <1>2, <1>6
<1>10. InSight(d)'
  BY <1>1, <1>3, <1>8, <1>9 DEF RecallSound, InSight
<1>11. CompleteAnswer(d)'
  BY <1>3, <1>8, <1>9 DEF RecallSound, CompleteAnswer
<1>12. GoneStaysGone(d)'
  BY <1>1, <1>3, <1>8, <1>9 DEF RecallSound, GoneStaysGone
<1>13. RecallSound(recallCall)'
  BY <1>7, <1>8, <1>9, <1>10, <1>11, <1>12 DEF RecallSound, InSight, CompleteAnswer, GoneStaysGone
<1>14. RecallTypes'
  BY <1>1, <1>2, <1>7, <1>8 DEF RecallInv, RecallTypes, RecallRecord
<1>15. QED
  BY <1>5, <1>13, <1>14 DEF RecallInv

LEMMA RecallLexicalSearch ==
  ASSUME RecallConstants, RecallInv, Recalling!LexicalSearch
  PROVE  RecallInv'
<1>1. /\ memories \subseteq Memories /\ UNCHANGED <<memories, embedded, vectorRows, seed>>
      /\ "pc" \in DOMAIN seed /\ seed.pc \in {"idle", "checking", "answered"}
  BY DEF RecallInv, RecallTypes, Recalling!LexicalSearch
<1>2. PICK heads : heads = Recalling!CurrentHeads
  OBVIOUS
<1>3. PICK found : found = Recalling!Best(Recalling!LexicalRows, 3 * TopK, Lexical)
  OBVIOUS
<1>4. /\ heads \subseteq memories
      /\ \A i : i \in heads <=> i \in memories /\ Recalling!Current(i)
      /\ Recalling!LexicalRows \in SUBSET heads
  BY <1>2 DEF Recalling!CurrentHeads, Recalling!LexicalRows
<1>5. 3 * TopK \in Nat /\ Recalling!LexicalRows \in SUBSET Memories
      /\ \A i \in Recalling!LexicalRows : Lexical[i] \in Nat
  BY <1>1, <1>4 DEF RecallConstants
<1>6. found \subseteq heads
  BY <1>3, <1>4, <1>5, BestOfFew
<1>7. PICK c : c = [Recalling!NoCall EXCEPT !.pc = "lexical", !.began = heads,
                                            !.gone = memories \ heads, !.lexical = found]
  OBVIOUS
<1>8. recallCall' = c
  BY <1>2, <1>3, <1>7 DEF Recalling!LexicalSearch
<1>9. /\ RecallRecord(c) /\ c.pc = "lexical" /\ c.began = heads /\ c.gone = memories \ heads
      /\ c.lexical = found /\ c.vector = {} /\ c.selected = {} /\ ~c.used
  BY <1>1, <1>4, <1>6, <1>7 DEF RecallRecord, Recalling!NoCall
<1>10. RecallSound(c)
  BY <1>4, <1>6, <1>9 DEF RecallSound, InSight, CompleteAnswer, GoneStaysGone
<1>11. QED
  BY <1>1, <1>8, <1>9, <1>10, RecallMoves

\* Without the required source, or without the audit event, nothing is answered.
LEMMA RecallRefused ==
  ASSUME RecallConstants, RecallInv, Recalling!LexicalFails \/ Recalling!AuditFails
  PROVE  RecallInv'
<1>1. /\ UNCHANGED <<memories, embedded, vectorRows, seed>> /\ recallCall' = Recalling!NoCall
      /\ "pc" \in DOMAIN seed /\ seed.pc \in {"idle", "checking", "answered"}
  BY DEF RecallInv, RecallTypes, Recalling!LexicalFails, Recalling!AuditFails
<1>2. QED
  BY <1>1, NoRecallRunning, RecallMoves

LEMMA RecallVectorQuery ==
  ASSUME RecallConstants, RecallInv, Recalling!VectorQuery
  PROVE  RecallInv'
<1>1. PICK c : c = recallCall
  OBVIOUS
<1>2. /\ memories \subseteq Memories /\ embedded \subseteq memories /\ vectorRows \subseteq embedded
      /\ IndexHolds /\ RecallRecord(c) /\ RecallSound(c) /\ c.pc = "lexical"
      /\ UNCHANGED <<memories, embedded, vectorRows, seed>>
      /\ "pc" \in DOMAIN seed /\ seed.pc \in {"idle", "checking", "answered"}
  BY <1>1 DEF RecallInv, RecallTypes, Recalling!VectorQuery
<1>3. PICK found : found = Recalling!Best(vectorRows, 3 * TopK, Semantic)
  OBVIOUS
<1>4. 3 * TopK \in Nat /\ vectorRows \in SUBSET Memories /\ \A i \in vectorRows : Semantic[i] \in Nat
  BY <1>2 DEF RecallConstants
<1>5. found \subseteq vectorRows
  BY <1>3, <1>4, BestOfFew
<1>6. PICK d : d = [c EXCEPT !.pc = "queried", !.rows = found, !.behind = vectorRows \ found]
  OBVIOUS
<1>7. recallCall' = d
  BY <1>1, <1>3, <1>6 DEF Recalling!VectorQuery
<1>8. /\ RecallRecord(d) /\ d.pc = "queried" /\ d.rows = found /\ d.behind = vectorRows \ found
      /\ d.began = c.began /\ d.gone = c.gone /\ d.lexical = c.lexical /\ d.vector = c.vector
      /\ d.selected = c.selected /\ d.used = c.used
  BY <1>2, <1>4, <1>5, <1>6 DEF RecallRecord
<1>9. InSight(d)
  BY <1>2, <1>5, <1>8 DEF IndexHolds, InSight
<1>10. CompleteAnswer(d) /\ GoneStaysGone(d) /\ ~d.used
  BY <1>2, <1>8 DEF RecallSound, CompleteAnswer, GoneStaysGone
<1>11. QED
  BY <1>2, <1>7, <1>8, <1>9, <1>10, RecallMoves DEF RecallSound

LEMMA RecallVectorFilter ==
  ASSUME RecallConstants, RecallInv, Recalling!VectorFilter
  PROVE  RecallInv'
<1>1. PICK c : c = recallCall
  OBVIOUS
<1>2. /\ RecallRecord(c) /\ RecallSound(c) /\ c.pc = "queried" /\ c.rows \in SUBSET Memories
      /\ UNCHANGED <<memories, embedded, vectorRows, seed>>
      /\ "pc" \in DOMAIN seed /\ seed.pc \in {"idle", "checking", "answered"}
  BY <1>1 DEF RecallInv, RecallTypes, RecallRecord, Recalling!VectorFilter
<1>3. PICK heads : heads = Recalling!StillCurrent(c.rows)
  OBVIOUS
<1>4. heads \in SUBSET Memories /\ \A i : i \in heads <=> i \in c.rows /\ Recalling!Current(i)
  BY <1>2, <1>3 DEF Recalling!StillCurrent
<1>5. PICK found : found = Recalling!Best(heads, TopK, Semantic)
  OBVIOUS
<1>6. TopK \in Nat /\ \A i \in heads : Semantic[i] \in Nat
  BY <1>4 DEF RecallConstants
<1>7. found \subseteq heads
  BY <1>4, <1>5, <1>6, BestOfFew
<1>8. PICK d : d = [c EXCEPT !.pc = "gathered", !.used = TRUE, !.rows = {}, !.vector = found,
                             !.behind = c.behind \cup (heads \ found)]
  OBVIOUS
<1>9. recallCall' = d
  BY <1>1, <1>3, <1>5, <1>8 DEF Recalling!VectorFilter
<1>10. /\ RecallRecord(d) /\ d.pc = "gathered" /\ d.used /\ d.vector = found
       /\ d.behind = c.behind \cup (heads \ found) /\ d.began = c.began /\ d.gone = c.gone
       /\ d.lexical = c.lexical /\ d.selected = c.selected
  BY <1>2, <1>4, <1>7, <1>8 DEF RecallRecord
<1>11. InSight(d)
  BY <1>2, <1>4, <1>10 DEF RecallSound, InSight
<1>12. CompleteAnswer(d) /\ GoneStaysGone(d)
  BY <1>2, <1>4, <1>7, <1>10 DEF RecallSound, CompleteAnswer, GoneStaysGone
<1>13. RecallSound(d)
  BY <1>10, <1>11, <1>12 DEF RecallSound
<1>14. QED
  BY <1>2, <1>9, <1>10, <1>13, RecallMoves

LEMMA RecallVectorFails ==
  ASSUME RecallConstants, RecallInv, Recalling!VectorFails
  PROVE  RecallInv'
<1>1. PICK c : c = recallCall
  OBVIOUS
<1>2. /\ RecallRecord(c) /\ RecallSound(c) /\ c.pc \in {"lexical", "queried"}
      /\ UNCHANGED <<memories, embedded, vectorRows, seed>>
      /\ "pc" \in DOMAIN seed /\ seed.pc \in {"idle", "checking", "answered"}
  BY <1>1 DEF RecallInv, RecallTypes, Recalling!VectorFails
<1>3. PICK d : d = [c EXCEPT !.pc = "gathered", !.rows = {}]
  OBVIOUS
<1>4. recallCall' = d
  BY <1>1, <1>3 DEF Recalling!VectorFails
<1>5. /\ RecallRecord(d) /\ d.pc = "gathered" /\ d.used = c.used /\ d.began = c.began /\ d.gone = c.gone
      /\ d.lexical = c.lexical /\ d.vector = c.vector /\ d.selected = c.selected
  BY <1>2, <1>3 DEF RecallRecord
<1>6. RecallSound(d)
  BY <1>2, <1>5 DEF RecallSound, InSight, CompleteAnswer, GoneStaysGone
<1>7. QED
  BY <1>2, <1>4, <1>5, <1>6, RecallMoves

\* Fusion drops an item only for its score or for better ones, and a fresh index
\* knows every current item.
LEMMA RecallFuse ==
  ASSUME RecallConstants, RecallInv, Recalling!FuseAndCheck \/ Recalling!FuseUnchecked
  PROVE  RecallInv'
<1>1. PICK c : c = recallCall
  OBVIOUS
<1>2. /\ memories \subseteq Memories /\ RecallRecord(c) /\ RecallSound(c) /\ c.pc = "gathered"
      /\ UNCHANGED <<memories, embedded, vectorRows, seed>>
      /\ "pc" \in DOMAIN seed /\ seed.pc \in {"idle", "checking", "answered"}
  BY <1>1 DEF RecallInv, RecallTypes, Recalling!FuseAndCheck, Recalling!FuseUnchecked
<1>3. PICK ranked : ranked = {i \in c.lexical \cup c.vector : Recalling!Score(i) >= MinScore}
  OBVIOUS
<1>4. PICK found : found = Recalling!Best(ranked, TopK, Recalling!Scores)
  OBVIOUS
<1>5. /\ c.lexical \subseteq Memories /\ c.vector \subseteq Memories /\ ranked \in SUBSET Memories
      /\ ranked \subseteq c.lexical \cup c.vector
  BY <1>2, <1>3 DEF RecallRecord
<1>6. \A i \in Memories : Recalling!Scores[i] = Recalling!Score(i) /\ Recalling!Score(i) \in Nat
  BY DEF Recalling!Scores, Recalling!Score, RecallConstants
<1>7. found \subseteq ranked /\ (Recalling!Cardinality(found) < TopK => found = ranked)
  <2>1. \A i \in ranked : Recalling!Scores[i] \in Nat
    BY <1>5, <1>6
  <2>2. TopK \in Nat
    BY DEF RecallConstants
  <2>3. QED
    BY <1>4, <1>5, <2>1, <2>2, BestOfFew
<1>8. PICK stale \in BOOLEAN :
         /\ recallCall' = [c EXCEPT !.pc = "fused", !.selected = found, !.stale = stale]
         /\ ~stale => Recalling!CurrentHeads \subseteq embedded
  <2>1. CASE Recalling!FuseAndCheck
    <3>1. PICK stale \in BOOLEAN : stale = ~(Recalling!CurrentHeads \subseteq embedded)
      OBVIOUS
    <3>2. recallCall' = [c EXCEPT !.pc = "fused", !.selected = found, !.stale = stale]
      BY <1>1, <1>3, <1>4, <2>1, <3>1, SMTT(30) DEF Recalling!FuseAndCheck
    <3>3. QED
      BY <3>1, <3>2, ZenonT(40)
  <2>2. CASE Recalling!FuseUnchecked
    BY <1>1, <1>3, <1>4, <2>2, ZenonT(40) DEF Recalling!FuseUnchecked
  <2>3. QED
    BY <2>1, <2>2, ZenonT(40)
<1>9. PICK d : d = recallCall'
  OBVIOUS
<1>10. /\ RecallRecord(d) /\ d.pc = "fused" /\ d.selected = found /\ d.stale = stale /\ d.used = c.used
       /\ d.began = c.began /\ d.gone = c.gone /\ d.lexical = c.lexical /\ d.vector = c.vector
       /\ d.behind = c.behind
  BY <1>2, <1>5, <1>7, <1>8, <1>9 DEF RecallRecord
<1>11. GoneStaysGone(d) /\ InSight(d)
  BY <1>2, <1>5, <1>7, <1>10 DEF RecallSound, GoneStaysGone, InSight
<1>12. CompleteAnswer(d)
  <2> SUFFICES ASSUME c.used, ~stale, Recalling!Cardinality(found) < TopK,
                      NEW i \in c.began, Recalling!Current(i), i \notin c.behind,
                      ~(Lexical[i] + Semantic[i] < MinScore)
               PROVE  i \in found
    BY <1>10 DEF CompleteAnswer
  <2>1. i \in memories /\ i \in Memories
    BY <1>2 DEF RecallSound, GoneStaysGone
  <2>2. i \in embedded
    BY <1>8, <2>1 DEF Recalling!CurrentHeads
  <2>3. i \in c.vector
    BY <1>2, <2>2 DEF RecallSound, InSight
  <2>4. Recalling!Score(i) = Lexical[i] + Semantic[i]
    BY <1>1, <2>3 DEF Recalling!Score
  <2>5. Recalling!Score(i) >= MinScore
    BY <1>6, <2>1, <2>4 DEF RecallConstants
  <2>6. QED
    BY <1>3, <1>7, <2>3, <2>5
<1>13. RecallSound(d)
  BY <1>10, <1>11, <1>12 DEF RecallSound
<1>14. QED
  BY <1>2, <1>9, <1>10, <1>13, RecallMoves

LEMMA RecallRespond ==
  ASSUME RecallConstants, RecallInv, Recalling!Respond
  PROVE  RecallInv'
<1>1. PICK c : c = recallCall
  OBVIOUS
<1>2. /\ RecallRecord(c) /\ RecallSound(c) /\ c.pc = "fused"
      /\ UNCHANGED <<memories, embedded, vectorRows, seed>>
      /\ "pc" \in DOMAIN seed /\ seed.pc \in {"idle", "checking", "answered"}
  BY <1>1 DEF RecallInv, RecallTypes, Recalling!Respond
<1>3. PICK context : context = Recalling!Compile(c.selected)
  OBVIOUS
<1>4. PICK d : d = [c EXCEPT !.pc = "answered", !.context = context, !.lexical = {}, !.vector = {}]
  OBVIOUS
<1>5. recallCall' = d
  BY <1>1, <1>3, <1>4 DEF Recalling!Respond
<1>6. /\ RecallRecord(d) /\ d.pc = "answered" /\ d.selected = c.selected /\ d.stale = c.stale
      /\ d.used = c.used /\ d.began = c.began /\ d.gone = c.gone /\ d.lexical = {} /\ d.vector = {}
      /\ d.behind = c.behind
  BY <1>2, <1>4 DEF RecallRecord
<1>7. RecallSound(d)
  BY <1>2, <1>6 DEF RecallSound, InSight, CompleteAnswer, GoneStaysGone
<1>8. QED
  BY <1>2, <1>5, <1>6, <1>7, RecallMoves

LEMMA RecallSeed ==
  ASSUME RecallConstants, RecallInv, Recalling!SeedList \/ Recalling!SeedCheck \/ Recalling!SeedBuild
  PROVE  RecallInv'
<1>1. UNCHANGED <<memories, embedded, vectorRows, recallCall>>
  BY DEF Recalling!SeedList, Recalling!SeedCheck, Recalling!SeedBuild
<1>2. "pc" \in DOMAIN seed /\ seed.pc \in {"idle", "checking", "answered"}
  BY DEF RecallInv, RecallTypes
<1>3. "pc" \in DOMAIN seed' /\ seed'.pc \in {"idle", "checking", "answered"}
  <2>1. CASE Recalling!SeedList
    <3>1. PICK listed : listed = {i \in memories : LayerOf[i] \in SeedLayers}
      OBVIOUS
    <3>2. seed' = [Recalling!NoSeed EXCEPT !.pc = "checking", !.began = Recalling!CurrentHeads, !.todo = listed]
      BY <2>1, <3>1 DEF Recalling!SeedList
    <3>3. QED
      BY <3>2 DEF Recalling!NoSeed
  <2>2. CASE Recalling!SeedCheck
    <3>1. PICK i : i = Recalling!Min(seed.todo)
      OBVIOUS
    <3>2. PICK left, kept : seed' = [seed EXCEPT !.todo = left, !.rows = kept]
      BY <2>2, <3>1 DEF Recalling!SeedCheck
    <3>3. QED
      BY <1>2, <3>2
  <2>3. CASE Recalling!SeedBuild
    <3>1. PICK got : seed' = [seed EXCEPT !.pc = "answered", !.rows = {}, !.items = got]
      BY <2>3 DEF Recalling!SeedBuild
    <3>2. QED
      BY <1>2, <3>1
  <2>4. QED
    BY <2>1, <2>2, <2>3
<1>4. QED
  BY <1>1, <1>3, RecallMoves

LEMMA RecallStep ==
  ASSUME RecallConstants, RecallInv, [Recalling!Next]_(Recalling!vars)
  PROVE  RecallInv'
<1>1. CASE UNCHANGED Recalling!vars
  <2>1. /\ UNCHANGED <<memories, embedded, vectorRows, recallCall, seed>>
        /\ "pc" \in DOMAIN seed /\ seed.pc \in {"idle", "checking", "answered"}
    BY <1>1 DEF Recalling!vars, RecallInv, RecallTypes
  <2>2. QED
    BY <2>1, RecallMoves
<1>2. CASE Recalling!Next
  BY <1>2, RecallRetain, RecallEmbed, RecallLexicalSearch, RecallRefused, RecallVectorQuery,
     RecallVectorFilter, RecallVectorFails, RecallFuse, RecallRespond, RecallSeed
     DEF Recalling!Next
<1>3. QED
  BY <1>1, <1>2

LEMMA RecallInit ==
  ASSUME RecallConstants, Recalling!Init
  PROVE  RecallInv
<1>1. RecallRecord(recallCall) /\ RecallSound(recallCall)
  BY NoRecallRunning DEF Recalling!Init
<1>2. RecallTypes /\ IndexHolds
  BY <1>1 DEF RecallTypes, IndexHolds, Recalling!Init, Recalling!NoSeed
<1>3. QED
  BY <1>1, <1>2 DEF RecallInv

\* No recall brings back what had been superseded when it began, and one that
\* reports a fresh index and is not full has every item that was current throughout
\* and scores enough, unless the index's own limits crowded it out or it was indexed
\* after the query.
THEOREM RecallIsTruthful ==
  RecallConstants =>
    (Recalling!Spec => [](Recalling!TypeOK /\ Recalling!NothingSuperseded /\ Recalling!FreshIsComplete))
<1> SUFFICES ASSUME RecallConstants
             PROVE  Recalling!Spec =>
                      [](Recalling!TypeOK /\ Recalling!NothingSuperseded /\ Recalling!FreshIsComplete)
  OBVIOUS
<1>1. Recalling!Init => RecallInv
  BY RecallInit
<1>2. RecallInv /\ [Recalling!Next]_(Recalling!vars) => RecallInv'
  BY RecallStep
<1>3. RecallInv => Recalling!TypeOK /\ Recalling!NothingSuperseded /\ Recalling!FreshIsComplete
  <2> SUFFICES ASSUME RecallInv
               PROVE  Recalling!TypeOK /\ Recalling!NothingSuperseded /\ Recalling!FreshIsComplete
    OBVIOUS
  <2>1. Recalling!TypeOK
    BY DEF RecallInv, RecallTypes, RecallRecord, Recalling!TypeOK
  <2>2. Recalling!NothingSuperseded
    BY DEF RecallInv, RecallSound, GoneStaysGone, Recalling!NothingSuperseded
  <2>3. Recalling!FreshIsComplete
    BY DEF RecallInv, RecallSound, CompleteAnswer, Recalling!FreshIsComplete, Recalling!CurrentHeads
  <2>4. QED
    BY <2>1, <2>2, <2>3
<1>4. QED
  BY <1>1, <1>2, <1>3, PTL DEF Recalling!Spec

-----------------------------------------------------------------------------
(* The answers.  What a recall selects is in the ledger and stays there,   *)
(* and its event is written with its context.  A seed's list holds every   *)
(* item of its layers; what is still current when it is checked is a row,  *)
(* and what is not by then never is again.                                 *)

AnswerInv ==
    /\ recallCall.lexical \cup recallCall.rows \cup recallCall.vector \cup recallCall.selected \subseteq memories
    /\ recallCall.pc = "answered" =>
         event = recallCall.context /\ ContextOf(recallCall.context, recallCall.selected)

SeedRow == [pc : {"idle", "checking", "answered"}, began : SUBSET Memories, rows : SUBSET Memories,
            todo : SUBSET Memories, items : SUBSET Memories]

SeedDue(i) == Recalling!Current(i) /\ LayerOf[i] \in SeedLayers

SeedInv ==
    /\ seed \in SeedRow /\ seed.began \subseteq memories
    /\ seed.pc = "checking" => \A i \in seed.began : SeedDue(i) => i \in seed.todo \cup seed.rows
    /\ seed.pc = "answered" =>
         /\ Recalling!Spent(seed.items) <= Budget
         /\ \A i \in seed.began \ seed.items : SeedDue(i) => ~Recalling!Fits(seed.items, i)

LEMMA SeedStays ==
  ASSUME SeedInv, memories \subseteq memories', seed' = seed
  PROVE  SeedInv'
<1>1. \A i \in memories : Recalling!Current(i)' => Recalling!Current(i)
  BY DEF Recalling!Current
<1>2. \A i \in seed.began : SeedDue(i)' => SeedDue(i)
  BY <1>1 DEF SeedInv, SeedDue
<1>3. QED
  BY <1>2 DEF SeedInv

LEMMA AnswerStays ==
  ASSUME AnswerInv, memories \subseteq memories', event' = event,
         recallCall'.pc = recallCall.pc, recallCall'.lexical = recallCall.lexical,
         recallCall'.rows = recallCall.rows, recallCall'.vector = recallCall.vector,
         recallCall'.selected = recallCall.selected, recallCall'.context = recallCall.context
  PROVE  AnswerInv'
BY DEF AnswerInv, ContextOf

\* A recall that is not answered yet.
LEMMA AnswerOpen ==
  ASSUME memories' = memories, recallCall'.pc # "answered", recallCall'.lexical \subseteq memories,
         recallCall'.rows \subseteq memories, recallCall'.vector \subseteq memories,
         recallCall'.selected \subseteq memories
  PROVE  AnswerInv'
BY DEF AnswerInv

\* The sources give items of the ledger.
LEMMA AnswerSources ==
  ASSUME RecallConstants, RecallInv, AnswerInv,
         \/ Recalling!LexicalSearch \/ Recalling!LexicalFails \/ Recalling!AuditFails
         \/ Recalling!VectorQuery \/ Recalling!VectorFilter \/ Recalling!VectorFails
  PROVE  AnswerInv'
<1>1. PICK c : c = recallCall
  OBVIOUS
<1>2. /\ memories \subseteq Memories /\ embedded \subseteq memories /\ vectorRows \subseteq embedded
      /\ RecallRecord(c) /\ TopK \in Nat /\ 3 * TopK \in Nat
      /\ c.lexical \cup c.rows \cup c.vector \cup c.selected \subseteq memories
  BY <1>1 DEF RecallInv, RecallTypes, AnswerInv, RecallConstants
<1>3. ASSUME NEW S \in SUBSET memories, NEW n \in Nat
      PROVE  /\ Recalling!Best(S, n, Lexical) \subseteq S
             /\ Recalling!Best(S, n, Semantic) \subseteq S
  BY <1>2 DEF Recalling!Best
<1>4. CASE Recalling!LexicalSearch
  <2>1. Recalling!LexicalRows \in SUBSET memories
    BY DEF Recalling!LexicalRows, Recalling!CurrentHeads
  <2>2. PICK found : found = Recalling!Best(Recalling!LexicalRows, 3 * TopK, Lexical)
    OBVIOUS
  <2>3. PICK heads : heads = Recalling!CurrentHeads
    OBVIOUS
  <2>4. recallCall' = [Recalling!NoCall EXCEPT !.pc = "lexical", !.began = heads,
                                               !.gone = memories \ heads, !.lexical = found]
    BY <1>4, <2>2, <2>3 DEF Recalling!LexicalSearch
  <2>5. found \subseteq memories
    BY <1>2, <1>3, <2>1, <2>2
  <2>6. QED
    BY <1>4, <2>4, <2>5, AnswerOpen DEF Recalling!LexicalSearch, Recalling!NoCall
<1>5. CASE Recalling!LexicalFails \/ Recalling!AuditFails
  BY <1>5, AnswerOpen DEF Recalling!LexicalFails, Recalling!AuditFails, Recalling!NoCall
<1>6. CASE Recalling!VectorQuery
  <2>1. PICK found : found = Recalling!Best(vectorRows, 3 * TopK, Semantic)
    OBVIOUS
  <2>2. recallCall' = [c EXCEPT !.pc = "queried", !.rows = found, !.behind = vectorRows \ found]
    BY <1>1, <1>6, <2>1 DEF Recalling!VectorQuery
  <2>3. /\ recallCall'.pc = "queried" /\ recallCall'.lexical = c.lexical /\ recallCall'.rows = found
        /\ recallCall'.vector = c.vector /\ recallCall'.selected = c.selected
    BY <1>2, <2>2 DEF RecallRecord
  <2>4. vectorRows \in SUBSET memories
    BY <1>2
  <2>5. found \subseteq memories
    BY <1>2, <1>3, <2>1, <2>4
  <2>6. QED
    BY <1>2, <1>6, <2>3, <2>5, AnswerOpen DEF Recalling!VectorQuery
<1>7. CASE Recalling!VectorFilter
  <2>1. Recalling!StillCurrent(c.rows) \in SUBSET memories
    BY <1>2 DEF Recalling!StillCurrent
  <2>2. PICK heads : heads = Recalling!StillCurrent(c.rows)
    OBVIOUS
  <2>3. PICK found : found = Recalling!Best(heads, TopK, Semantic)
    OBVIOUS
  <2>4. recallCall' = [c EXCEPT !.pc = "gathered", !.used = TRUE, !.rows = {}, !.vector = found,
                                !.behind = c.behind \cup (heads \ found)]
    BY <1>1, <1>7, <2>2, <2>3 DEF Recalling!VectorFilter
  <2>5. /\ recallCall'.pc = "gathered" /\ recallCall'.lexical = c.lexical /\ recallCall'.rows = {}
        /\ recallCall'.vector = found /\ recallCall'.selected = c.selected
    BY <1>2, <2>4 DEF RecallRecord
  <2>6. found \subseteq memories
    BY <1>2, <1>3, <2>1, <2>2, <2>3
  <2>7. QED
    BY <1>2, <1>7, <2>5, <2>6, AnswerOpen DEF Recalling!VectorFilter
<1>8. CASE Recalling!VectorFails
  <2>1. /\ recallCall'.pc = "gathered" /\ recallCall'.lexical = c.lexical /\ recallCall'.rows = {}
        /\ recallCall'.vector = c.vector /\ recallCall'.selected = c.selected
    BY <1>1, <1>2, <1>8 DEF RecallRecord, Recalling!VectorFails
  <2>2. QED
    BY <1>2, <1>8, <2>1, AnswerOpen DEF Recalling!VectorFails
<1>9. QED
  BY <1>4, <1>5, <1>6, <1>7, <1>8

\* Fusion selects among what the sources gave.
LEMMA AnswerFuse ==
  ASSUME RecallConstants, RecallInv, AnswerInv, Recalling!FuseAndCheck \/ Recalling!FuseUnchecked
  PROVE  AnswerInv'
<1>1. PICK c : c = recallCall
  OBVIOUS
<1>2. /\ RecallRecord(c) /\ c.lexical \cup c.rows \cup c.vector \cup c.selected \subseteq memories
  BY <1>1 DEF RecallInv, RecallTypes, AnswerInv
<1>3. PICK ranked : ranked = {i \in c.lexical \cup c.vector : Recalling!Score(i) >= MinScore}
  OBVIOUS
<1>4. PICK found : found = Recalling!Best(ranked, TopK, Recalling!Scores)
  OBVIOUS
<1>5. found \subseteq memories
  <2>1. found \subseteq ranked
    BY <1>4 DEF Recalling!Best
  <2>2. QED
    BY <1>2, <1>3, <2>1
<1>6. /\ recallCall'.pc = "fused" /\ recallCall'.lexical = c.lexical /\ recallCall'.rows = c.rows
      /\ recallCall'.vector = c.vector /\ recallCall'.selected = found
  <2>1. CASE Recalling!FuseAndCheck
    <3>1. PICK stale \in BOOLEAN : stale = ~(Recalling!CurrentHeads \subseteq embedded)
      OBVIOUS
    <3>2. recallCall' = [c EXCEPT !.pc = "fused", !.selected = found, !.stale = stale]
      BY <1>1, <1>3, <1>4, <2>1, <3>1, SMTT(30) DEF Recalling!FuseAndCheck
    <3>3. QED
      BY <1>2, <3>2 DEF RecallRecord
  <2>2. CASE Recalling!FuseUnchecked
    <3>1. recallCall' = [c EXCEPT !.pc = "fused", !.selected = found, !.stale = TRUE]
      BY <1>1, <1>3, <1>4, <2>2 DEF Recalling!FuseUnchecked
    <3>2. QED
      BY <1>2, <3>1 DEF RecallRecord
  <2>3. QED
    BY <2>1, <2>2
<1>7. QED
  BY <1>2, <1>5, <1>6, AnswerOpen DEF Recalling!FuseAndCheck, Recalling!FuseUnchecked

\* The context is compiled, recorded and given.
LEMMA AnswerRespond ==
  ASSUME RecallConstants, RecallInv, AnswerInv, Recalling!Respond
  PROVE  AnswerInv'
<1>1. PICK c : c = recallCall
  OBVIOUS
<1>2. /\ RecallRecord(c) /\ memories' = memories
      /\ c.lexical \cup c.rows \cup c.vector \cup c.selected \subseteq memories
  BY <1>1 DEF RecallInv, RecallTypes, AnswerInv, Recalling!Respond
<1>3. PICK context : context = Recalling!Compile(c.selected)
  OBVIOUS
<1>4. c.selected \in SUBSET Memories /\ \A i \in c.selected : Recalling!Score(i) \in Nat
  BY <1>2 DEF RecallRecord, Recalling!Score, RecallConstants
<1>5. ContextOf(context, c.selected)
  BY <1>3, <1>4, CompileKeeps
<1>6. /\ recallCall' = [c EXCEPT !.pc = "answered", !.context = context, !.lexical = {}, !.vector = {}]
      /\ event' = context
  BY <1>1, <1>3 DEF Recalling!Respond
<1>7. /\ recallCall'.lexical = {} /\ recallCall'.rows = c.rows /\ recallCall'.vector = {}
      /\ recallCall'.selected = c.selected /\ recallCall'.context = context
  BY <1>2, <1>6 DEF RecallRecord
<1>8. QED
  BY <1>2, <1>5, <1>6, <1>7 DEF AnswerInv, ContextOf

LEMMA AnswerStep ==
  ASSUME RecallConstants, RecallInv, AnswerInv, [Recalling!Next]_(Recalling!vars)
  PROVE  AnswerInv'
<1>1. CASE UNCHANGED Recalling!vars
  BY <1>1, AnswerStays DEF Recalling!vars
<1>2. ASSUME NEW i \in Memories, Recalling!Retain(i) PROVE AnswerInv'
  BY <1>2, AnswerStays DEF Recalling!Retain
<1>3. ASSUME NEW i \in Memories, Recalling!Embed(i) PROVE AnswerInv'
  <2>1. PICK behind : recallCall' = [recallCall EXCEPT !.behind = behind] \/ recallCall' = recallCall
    BY <1>3 DEF Recalling!Embed
  <2>2. RecallRecord(recallCall)
    BY DEF RecallInv, RecallTypes
  <2>3. /\ recallCall'.pc = recallCall.pc /\ recallCall'.lexical = recallCall.lexical
        /\ recallCall'.rows = recallCall.rows /\ recallCall'.vector = recallCall.vector
        /\ recallCall'.selected = recallCall.selected /\ recallCall'.context = recallCall.context
    BY <2>1, <2>2 DEF RecallRecord
  <2>4. memories' = memories /\ event' = event
    BY <1>3 DEF Recalling!Embed
  <2>5. QED
    BY <2>3, <2>4, AnswerStays
<1>4. CASE Recalling!SeedList \/ Recalling!SeedCheck \/ Recalling!SeedBuild
  BY <1>4, AnswerStays DEF Recalling!SeedList, Recalling!SeedCheck, Recalling!SeedBuild
<1>5. QED
  BY <1>1, <1>2, <1>3, <1>4, AnswerSources, AnswerFuse, AnswerRespond DEF Recalling!Next

LEMMA SeedListed ==
  ASSUME RecallInv, SeedInv, Recalling!SeedList
  PROVE  SeedInv'
<1>1. memories \subseteq Memories /\ memories' = memories
  BY DEF RecallInv, RecallTypes, Recalling!SeedList
<1>2. PICK heads, listed : /\ heads = Recalling!CurrentHeads
                           /\ listed = {i \in memories : LayerOf[i] \in SeedLayers}
  OBVIOUS
<1>3. heads \subseteq memories
  BY <1>2 DEF Recalling!CurrentHeads
<1>4. seed' = [Recalling!NoSeed EXCEPT !.pc = "checking", !.began = heads, !.todo = listed]
  BY <1>2 DEF Recalling!SeedList
<1>5. heads \in SUBSET Memories /\ listed \in SUBSET Memories
  BY <1>1, <1>2, <1>3
<1>6. seed' \in SeedRow /\ seed'.pc = "checking" /\ seed'.began = heads /\ seed'.todo = listed
  BY <1>4, <1>5 DEF Recalling!NoSeed, SeedRow
<1>7. QED
  BY <1>1, <1>2, <1>3, <1>6 DEF SeedInv, SeedDue

LEMMA SeedChecked ==
  ASSUME RecallInv, SeedInv, Recalling!SeedCheck
  PROVE  SeedInv'
<1>1. memories \subseteq Memories /\ memories' = memories /\ seed.pc = "checking" /\ seed \in SeedRow
  BY DEF RecallInv, RecallTypes, SeedInv, Recalling!SeedCheck
<1>2. PICK i : i = Recalling!Min(seed.todo)
  OBVIOUS
<1>3. PICK kept : kept = IF Recalling!Current(i) THEN seed.rows \cup {i} ELSE seed.rows
  OBVIOUS
<1>4. kept \in SUBSET Memories /\ kept \subseteq seed.rows \cup {i} /\ seed.rows \subseteq kept
      /\ (Recalling!Current(i) => i \in kept)
  BY <1>1, <1>3 DEF SeedRow, Recalling!Current
<1>5. seed' = [seed EXCEPT !.todo = seed.todo \ {i}, !.rows = kept]
  BY <1>2, <1>3 DEF Recalling!SeedCheck
<1>6. /\ seed' \in SeedRow /\ seed'.pc = "checking" /\ seed'.began = seed.began
      /\ seed'.todo = seed.todo \ {i} /\ seed'.rows = kept
  BY <1>1, <1>4, <1>5 DEF SeedRow
<1>7. \A j : SeedDue(j)' => SeedDue(j)
  BY <1>1 DEF SeedDue, Recalling!Current
<1>8. \A j \in seed.began : SeedDue(j) => j \in (seed.todo \ {i}) \cup kept
  BY <1>1, <1>4 DEF SeedInv, SeedDue
<1>9. QED
  BY <1>1, <1>6, <1>7, <1>8 DEF SeedInv

LEMMA SeedBuilt ==
  ASSUME RecallConstants, SeedInv, Recalling!SeedBuild
  PROVE  SeedInv'
<1>1. memories' = memories /\ seed.pc = "checking" /\ seed.todo = {} /\ seed \in SeedRow
      /\ seed.began \subseteq memories /\ seed.rows \in SUBSET Memories
  BY DEF SeedInv, SeedRow, Recalling!SeedBuild
<1>2. PICK chosen : chosen = Recalling!SeedOf(seed.rows)
  OBVIOUS
<1>3. SeedFits(chosen, seed.rows)
  BY <1>1, <1>2, SeedKeeps
<1>4. seed' = [seed EXCEPT !.pc = "answered", !.rows = {}, !.items = chosen]
  BY <1>2 DEF Recalling!SeedBuild
<1>5. /\ seed' \in SeedRow /\ seed'.pc = "answered" /\ seed'.began = seed.began /\ seed'.items = chosen
  BY <1>1, <1>3, <1>4 DEF SeedRow, SeedFits
<1>6. \A j : SeedDue(j)' => SeedDue(j)
  BY <1>1 DEF SeedDue, Recalling!Current
<1>7. \A j \in seed.began \ chosen : SeedDue(j) => ~Recalling!Fits(chosen, j)
  BY <1>1, <1>3 DEF SeedInv, SeedFits
<1>8. Recalling!Spent(chosen) <= Budget
  BY <1>3 DEF SeedFits
<1>9. QED
  BY <1>1, <1>5, <1>6, <1>7, <1>8 DEF SeedInv

LEMMA SeedStep ==
  ASSUME RecallConstants, RecallInv, SeedInv, [Recalling!Next]_(Recalling!vars)
  PROVE  SeedInv'
<1>1. CASE Recalling!SeedList \/ Recalling!SeedCheck \/ Recalling!SeedBuild
  BY <1>1, SeedListed, SeedChecked, SeedBuilt
<1>2. CASE ~(Recalling!SeedList \/ Recalling!SeedCheck \/ Recalling!SeedBuild)
  <2>1. memories \subseteq memories' /\ seed' = seed
    BY <1>2 DEF Recalling!Next, Recalling!vars, Recalling!Retain, Recalling!Embed, Recalling!LexicalSearch,
       Recalling!LexicalFails, Recalling!VectorQuery, Recalling!VectorFilter, Recalling!VectorFails,
       Recalling!FuseAndCheck, Recalling!FuseUnchecked, Recalling!Respond, Recalling!AuditFails
  <2>2. QED
    BY <2>1, SeedStays
<1>3. QED
  BY <1>1, <1>2

\* A context keeps its budget and its layers' limits and leaves out only what they
\* have no room for, and the audit event names it; a seed keeps its budget and has
\* every item of its layers that was current throughout, or no room for it.
THEOREM RecallAnswersFit == RecallConstants => (Recalling!Spec => []Recalling!AnswersFit)
<1> SUFFICES ASSUME RecallConstants PROVE Recalling!Spec => []Recalling!AnswersFit
  OBVIOUS
<1>1. Recalling!Init => RecallInv /\ AnswerInv /\ SeedInv
  <2> SUFFICES ASSUME Recalling!Init PROVE RecallInv /\ AnswerInv /\ SeedInv
    OBVIOUS
  <2>1. RecallInv
    BY RecallInit
  <2>2. AnswerInv
    BY DEF Recalling!Init, Recalling!NoCall, AnswerInv
  <2>3. SeedInv
    BY DEF Recalling!Init, Recalling!NoSeed, SeedInv, SeedRow
  <2>4. QED
    BY <2>1, <2>2, <2>3
<1>2. RecallInv /\ AnswerInv /\ SeedInv /\ [Recalling!Next]_(Recalling!vars)
        => (RecallInv /\ AnswerInv /\ SeedInv)'
  BY RecallStep, AnswerStep, SeedStep
<1>3. RecallInv /\ AnswerInv /\ SeedInv => Recalling!AnswersFit
  <2> SUFFICES ASSUME RecallInv, AnswerInv, SeedInv PROVE Recalling!AnswersFit
    OBVIOUS
  <2>1. Recalling!ContextKeepsBudget
    BY DEF AnswerInv, ContextOf, Recalling!ContextKeepsBudget, Recalling!Replay
  <2>2. Recalling!SeedIsCurrent
    BY DEF SeedInv, SeedDue, Recalling!SeedIsCurrent, Recalling!CurrentHeads
  <2>3. QED
    BY <2>1, <2>2 DEF Recalling!AnswersFit
<1>4. QED
  BY <1>1, <1>2, <1>3, PTL DEF Recalling!Spec

-----------------------------------------------------------------------------
(* The components side by side.  Whatever the others do, each makes its    *)
(* own steps or none: it keeps what was proved of it alone.                *)

LEMMA IndexingPart == OperationsSpec => IndexingSpec
<1>1. OperationsInit => IndexingInit
  BY DEF OperationsInit
<1>2. [OperationsNext]_operationsVars => [IndexingNext]_indexingVars
  BY DEF OperationsNext, StepOf, OthersThan, operationsVars
<1>3. QED
  BY <1>1, <1>2, PTL DEF OperationsSpec, IndexingSpec

LEMMA CollectionPart == OperationsSpec => Collection!Spec
<1>1. OperationsInit => Collection!Init
  BY DEF OperationsInit
<1>2. [OperationsNext]_operationsVars => [Collection!Next]_(Collection!vars)
  BY DEF OperationsNext, StepOf, OthersThan, operationsVars, collectionVars, Collection!vars
<1>3. QED
  BY <1>1, <1>2, PTL DEF OperationsSpec, Collection!Spec

LEMMA SearchPart == OperationsSpec => Search!Spec
<1>1. OperationsInit => Search!Init
  BY DEF OperationsInit
<1>2. [OperationsNext]_operationsVars => [Search!Next]_(Search!vars)
  BY DEF OperationsNext, StepOf, OthersThan, operationsVars, searchVars, Search!vars
<1>3. QED
  BY <1>1, <1>2, PTL DEF OperationsSpec, Search!Spec

LEMMA RecallPart == OperationsSpec => Recalling!Spec
<1>1. OperationsInit => Recalling!Init
  BY DEF OperationsInit
<1>2. [OperationsNext]_operationsVars => [Recalling!Next]_(Recalling!vars)
  BY DEF OperationsNext, StepOf, OthersThan, operationsVars, recallVars, Recalling!vars
<1>3. QED
  BY <1>1, <1>2, PTL DEF OperationsSpec, Recalling!Spec

\* What recall finds (embedding_main, RetrievalService, QdrantCandidateSource,
\* _search_protected_workspace), for any parameters of the components and any
\* interleaving of their steps: nothing superseded, hidden, foreign or of another
\* model, and everything due where the index or the protected index says it is
\* complete.
THEOREM RecallIsHonest == OperationsSpec => []RecallTruthful
<1>1. CollectionConstants /\ SearchConstants /\ RecallConstants
  BY OperationsAssumptions
<1>2. IndexingSpec => []Index!IndexTruthful
  <2>1. IndexingInv => Index!IndexTruthful
    BY IndexInvShows DEF IndexingInv
  <2>2. QED
    BY <2>1, IndexingInvariance, PTL
<1>3. Collection!Spec => []Collection!OneIdentity
  <2>1. Collection!Spec => [](Collection!TypeOK /\ Collection!OneIdentity)
    BY <1>1, IdentityIsOne
  <2>2. QED
    BY <2>1, PTL
<1>4. Search!Spec => []Search!IndexLosesNothing
  <2>1. Search!Spec => [](Search!TypeOK /\ Search!IndexLosesNothing)
    BY <1>1, SearchLosesNothing
  <2>2. QED
    BY <2>1, PTL
<1>5. Recalling!Spec => []Recalling!RecallHonest
  <2>1. Recalling!Spec =>
          [](Recalling!TypeOK /\ Recalling!NothingSuperseded /\ Recalling!FreshIsComplete)
    BY <1>1, RecallIsTruthful
  <2>2. Recalling!NothingSuperseded /\ Recalling!FreshIsComplete => Recalling!RecallHonest
    BY DEF Recalling!RecallHonest
  <2>3. QED
    BY <2>1, <2>2, PTL
<1>6. /\ Index!IndexTruthful /\ HeadsReachIndex /\ Collection!OneIdentity
      /\ Search!IndexLosesNothing /\ Recalling!RecallHonest
      => RecallTruthful
  BY DEF RecallTruthful
<1>7. QED
  BY <1>2, <1>3, <1>4, <1>5, <1>6, HeadsReach, IndexingPart, CollectionPart, SearchPart, RecallPart, PTL

\* ContextCompiler, SessionSeedService, RecallReplayService: whatever the other
\* components do, contexts and seeds fit and are as full as they can be, and the
\* replay names what was given.
THEOREM AnswersFitAlways == OperationsSpec => []AnswersFit
<1>1. RecallConstants
  BY OperationsAssumptions
<1>2. Recalling!Spec => []Recalling!AnswersFit
  BY <1>1, RecallAnswersFit
<1>3. Recalling!AnswersFit => AnswersFit
  BY DEF AnswersFit
<1>4. QED
  BY <1>2, <1>3, RecallPart, PTL

\* embedding_main: the index is implemented whatever the other components do.
THEOREM OperationsImplementIndex == OperationsSpec => ImplementsIndex
BY IndexingPart, IndexingImplements, PTL
=============================================================================
