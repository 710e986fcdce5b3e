--------------------------- MODULE CheckpointsProofs ---------------------------
(***************************************************************************)
(* Proofs about module Checkpoints, for any number of requests and         *)
(* revisions, and callers at most one revision ahead of the head.          *)
(*                                                                         *)
(* NoLostUpdate is not inductive: a pending write must be known not to be  *)
(* ahead of the head by more than the revision it will insert.  Bounded    *)
(* says that, and holds because the head never goes back (compaction       *)
(* keeps it).                                                              *)
(***************************************************************************)
EXTENDS Checkpoints, FiniteSetTheorems, WellFoundedInduction, TLAPS

\* A set of revisions that is not empty has a newest one.
LEMMA NewestExists ==
  ASSUME NEW S \in SUBSET Revisions, S # {}
  PROVE  \E v \in S : \A u \in S : u <= v
<1> DEFINE newer(v) == {u \in S : u > v}
           T == {newer(v) : v \in S}
<1>1. IsFiniteSet(S)
  <2>1. IsFiniteSet(Revisions)
    BY FS_Interval, CheckpointAssumptions DEF Revisions
  <2>2. QED
    BY <2>1, FS_Subset
<1>2. T \subseteq FiniteSubsetsOf(S) /\ T # {}
  <2>1. ASSUME NEW v \in S PROVE newer(v) \in FiniteSubsetsOf(S)
    <3>1. newer(v) \in SUBSET S
      OBVIOUS
    <3>2. IsFiniteSet(newer(v))
      BY <1>1, <3>1, FS_Subset
    <3>3. QED
      BY <3>1, <3>2 DEF FiniteSubsetsOf
  <2>2. QED
    BY <2>1
<1>3. PICK x \in T : \A y \in T : ~ (<<y, x>> \in StrictSubsetOrdering(S))
  BY <1>2, WFMin, FS_StrictSubsetOrderingWellFounded
<1>4. PICK v \in S : x = newer(v)
  OBVIOUS
<1>5. ASSUME NEW u \in S, u > v PROVE FALSE
  <2>1. u \in Nat /\ v \in Nat /\ S \subseteq Nat
    BY CheckpointAssumptions DEF Revisions
  <2>2. ASSUME NEW w \in newer(u) PROVE w \in newer(v)
    BY <1>5, <2>1
  <2>3. u \in newer(v) /\ u \notin newer(u)
    BY <1>5, <2>1
  <2>4. <<newer(u), x>> \in StrictSubsetOrdering(S)
    BY <2>2, <2>3, <1>4 DEF StrictSubsetOrdering
  <2>5. QED
    BY <2>4, <1>3
<1>6. QED
  BY <1>5, CheckpointAssumptions DEF Revisions

\* get_head returns the newest revision, or 0.
LEMMA HeadNewest ==
  ASSUME rows \in SUBSET Revisions
  PROVE  /\ Head \in 0 .. MaxRev
         /\ rows = {} => Head = 0
         /\ rows # {} => Head \in rows
         /\ \A u \in rows : u <= Head
<1>1. CASE rows = {}
  BY <1>1, CheckpointAssumptions DEF Head
<1>2. CASE rows # {}
  <2>1. \E v \in rows : \A u \in rows : u <= v
    BY <1>2, NewestExists
  <2>2. Head \in rows /\ \A u \in rows : u <= Head
    BY <1>2, <2>1 DEF Head
  <2>3. QED
    BY <1>2, <2>2, CheckpointAssumptions DEF Revisions
<1>3. QED
  BY <1>1, <1>2

\* The same of the next state.
LEMMA HeadNewestNext ==
  ASSUME rows' \in SUBSET Revisions
  PROVE  /\ Head' \in 0 .. MaxRev
         /\ rows' = {} => Head' = 0
         /\ rows' # {} => Head' \in rows'
         /\ \A u \in rows' : u <= Head'
<1>1. CASE rows' = {}
  BY <1>1, CheckpointAssumptions DEF Head
<1>2. CASE rows' # {}
  <2>1. \E v \in rows' : \A u \in rows' : u <= v
    BY <1>2, NewestExists
  <2>2. Head' \in rows' /\ \A u \in rows' : u <= Head'
    BY <1>2, <2>1 DEF Head
  <2>3. QED
    BY <1>2, <2>2, CheckpointAssumptions DEF Revisions
<1>3. QED
  BY <1>1, <1>2

\* compact keeps the head: nothing is newer than it.
LEMMA CompactKeepsHead ==
  ASSUME rows \in SUBSET Revisions, NEW keep \in Revisions, Compact(keep)
  PROVE  rows' \subseteq rows /\ Head' = Head
<1>1. rows' \subseteq rows
  BY DEF Compact, Kept
<1>2. CASE rows = {}
  BY <1>1, <1>2 DEF Head
<1>3. CASE rows # {}
  <2>1. Head \in rows /\ \A u \in rows : u <= Head
    BY <1>3, HeadNewest
  <2>2. {u \in rows : u > Head} = {}
    <3>1. ASSUME NEW u \in rows, u > Head PROVE FALSE
      BY <2>1, <3>1, CheckpointAssumptions DEF Revisions
    <3>2. QED
      BY <3>1
  <2>3. Cardinality({u \in rows : u > Head}) < keep
    BY <2>2, FS_EmptySet, CheckpointAssumptions DEF Revisions
  <2>4. Head \in rows'
    BY <2>1, <2>3 DEF Compact, Kept
  <2>5. Head' \in rows' /\ \A u \in rows' : u <= Head'
    BY <1>1, <2>4, HeadNewestNext
  <2>6. Head' <= Head /\ Head <= Head' /\ Head \in Nat /\ Head' \in Nat
    BY <1>1, <2>1, <2>4, <2>5, CheckpointAssumptions DEF Revisions
  <2>7. Head' = Head
    BY <2>6
  <2>8. QED
    BY <1>1, <2>7
<1>4. QED
  BY <1>2, <1>3

-----------------------------------------------------------------------------
\* A pending write was numbered from a head no newer than the present one and
\* expects no more than the head it was numbered from, or the revision it inserts.
Bounded ==
    \A r \in Requests : request[r].pc = "append" =>
        /\ request[r].revision \in 1 .. Head + 1
        /\ request[r].expected <= request[r].revision

Inv == TypeOK /\ NoLostUpdate /\ Bounded

\* save and update, up to their load: a write one revision above the head becomes
\* pending.
LEMMA InvLoad ==
  ASSUME Inv, MaxAhead <= 1, NEW r \in Requests, NEW e \in 0 .. Head + MaxAhead, Load(r, e)
  PROVE  Inv'
<1>1. Head \in 0 .. MaxRev - 1 /\ MaxRev \in Nat /\ MaxAhead \in 0 .. 1
  BY HeadNewest, CheckpointAssumptions DEF Inv, TypeOK, Load
<1>2. Head' = Head /\ rows' = rows /\ base' = base
  BY DEF Load, Head
<1>3. request' = [request EXCEPT ![r] = [pc |-> "append", expected |-> e, revision |-> Head + 1]]
  BY DEF Load
<1>4. [pc |-> "append", expected |-> e, revision |-> Head + 1]
        \in [pc : {"idle", "append"}, expected : 0 .. MaxRev + MaxAhead, revision : 0 .. MaxRev]
  BY <1>1
<1>5. TypeOK'
  BY <1>2, <1>3, <1>4 DEF Inv, TypeOK
<1>6. Bounded'
  BY <1>1, <1>2, <1>3 DEF Inv, TypeOK, Bounded
<1>7. QED
  BY <1>2, <1>5, <1>6 DEF Inv, NoLostUpdate

\* save_if_head: what it inserts is the successor of the head, and was expected to.
LEMMA AppendFacts ==
  ASSUME Inv, NEW r \in Requests, request[r].pc = "append", Appendable(r)
  PROVE  request[r].revision = Head + 1 /\ request[r].expected = Head
<1>1. request[r].revision \in 1 .. Head + 1 /\ request[r].expected <= request[r].revision
  BY DEF Inv, Bounded
<1>2. Head = request[r].expected /\ request[r].revision \notin rows
  BY DEF Appendable
<1>3. Head \in Nat /\ (Head # 0 => Head \in rows)
  BY HeadNewest, CheckpointAssumptions DEF Inv, TypeOK
<1>4. QED
  BY <1>1, <1>2, <1>3

\* save_if_head, accepted: the inserted revision is the new head.
LEMMA HeadAfterAppend ==
  ASSUME Inv, Head + 1 \in Revisions, rows' = rows \cup {Head + 1}
  PROVE  Head' = Head + 1
<1>1. rows' \in SUBSET Revisions
  BY DEF Inv, TypeOK
<1>2. Head \in Nat /\ \A u \in rows : u <= Head
  BY HeadNewest, CheckpointAssumptions DEF Inv, TypeOK
<1>3. Head' \in rows' /\ Head + 1 <= Head'
  BY <1>1, HeadNewestNext
<1>4. Head' \in Nat
  BY <1>1, HeadNewestNext, CheckpointAssumptions
<1>5. QED
  BY <1>2, <1>3, <1>4

\* save_if_head appends, or writes nothing.
LEMMA InvAppend ==
  ASSUME Inv, NEW r \in Requests, Append(r)
  PROVE  Inv' /\ Head' >= Head
<1>1. request' = [request EXCEPT ![r] = Idle] /\ request[r].pc = "append"
  BY DEF Append
<1>2. Head \in 0 .. MaxRev /\ MaxRev \in Nat /\ MaxAhead \in Nat
  BY HeadNewest, CheckpointAssumptions DEF Inv, TypeOK
<1>3. request' \in [Requests -> [pc : {"idle", "append"}, expected : 0 .. MaxRev + MaxAhead,
                                 revision : 0 .. MaxRev]]
  BY <1>1, <1>2 DEF Inv, TypeOK, Idle
<1>4. CASE Appendable(r)
  <2>1. request[r].revision = Head + 1 /\ request[r].expected = Head
    BY <1>1, <1>4, AppendFacts
  <2>2. Head + 1 \in Revisions
    BY <1>1, <1>2, <2>1 DEF Inv, TypeOK, Revisions
  <2>3. rows' = rows \cup {Head + 1} /\ base' = [base EXCEPT ![Head + 1] = Head]
    BY <1>4, <2>1 DEF Append
  <2>4. Head' = Head + 1
    BY <2>2, <2>3, HeadAfterAppend
  <2>5. TypeOK'
    BY <1>2, <1>3, <2>2, <2>3 DEF Inv, TypeOK
  <2>6. NoLostUpdate'
    BY <1>2, <2>2, <2>3 DEF Inv, TypeOK, NoLostUpdate
  <2>7. Bounded'
    BY <1>1, <1>2, <2>4 DEF Inv, TypeOK, Bounded, Idle
  <2>8. QED
    BY <1>2, <2>4, <2>5, <2>6, <2>7 DEF Inv
<1>5. CASE ~ Appendable(r)
  <2>1. rows' = rows /\ base' = base /\ Head' = Head
    BY <1>5 DEF Append, Head
  <2>2. Bounded'
    BY <1>1, <2>1 DEF Inv, TypeOK, Bounded, Idle
  <2>3. QED
    BY <1>2, <1>3, <2>1, <2>2 DEF Inv, TypeOK, NoLostUpdate
<1>6. QED
  BY <1>4, <1>5

\* Compaction, an abandoned request and a stutter leave the head where it is.
LEMMA InvOther ==
  ASSUME Inv,
         \/ \E keep \in Revisions : Compact(keep)
         \/ \E r \in Requests : Abandon(r)
         \/ UNCHANGED vars
  PROVE  Inv' /\ Head' = Head
<1>1. CASE \E keep \in Revisions : Compact(keep)
  <2>1. rows' \subseteq rows /\ Head' = Head /\ base' = base /\ request' = request
    BY <1>1, CompactKeepsHead DEF Inv, TypeOK, Compact
  <2>2. QED
    BY <2>1 DEF Inv, TypeOK, NoLostUpdate, Bounded
<1>2. ASSUME NEW r \in Requests, Abandon(r) PROVE Inv' /\ Head' = Head
  <2>1. Head' = Head /\ rows' = rows /\ base' = base /\ request' = [request EXCEPT ![r] = Idle]
    BY <1>2 DEF Abandon, Head
  <2>2. request' \in [Requests -> [pc : {"idle", "append"}, expected : 0 .. MaxRev + MaxAhead,
                                   revision : 0 .. MaxRev]]
    BY <2>1, CheckpointAssumptions DEF Inv, TypeOK, Idle
  <2>3. Bounded'
    BY <2>1 DEF Inv, TypeOK, Bounded, Idle
  <2>4. QED
    BY <2>1, <2>2, <2>3 DEF Inv, TypeOK, NoLostUpdate
<1>3. CASE UNCHANGED vars
  BY <1>3 DEF Inv, TypeOK, NoLostUpdate, Bounded, Head, vars
<1>4. QED
  BY <1>1, <1>2, <1>3

\* Every step keeps the invariant, and the head never goes back.
LEMMA InvStep ==
  ASSUME Inv, MaxAhead <= 1, [Next]_vars
  PROVE  Inv' /\ Head' >= Head
<1>1. Head \in Nat
  BY HeadNewest, CheckpointAssumptions DEF Inv, TypeOK
<1>2. ASSUME NEW r \in Requests, NEW e \in 0 .. Head + MaxAhead, Load(r, e)
      PROVE  Inv' /\ Head' >= Head
  <2>1. Head' = Head
    BY <1>2 DEF Load, Head
  <2>2. QED
    BY <1>1, <1>2, <2>1, InvLoad
<1>3. ASSUME NEW r \in Requests, SaveLoad(r) PROVE Inv' /\ Head' >= Head
  BY <1>1, <1>2, <1>3, CheckpointAssumptions DEF SaveLoad
<1>4. ASSUME NEW r \in Requests, NEW v \in 1 .. MaxRev + MaxAhead, UpdateLoad(r, v)
      PROVE  Inv' /\ Head' >= Head
  BY <1>1, <1>2, <1>4, CheckpointAssumptions DEF UpdateLoad
<1>5. QED
  BY <1>1, <1>3, <1>4, InvAppend, InvOther DEF Next

LEMMA Invariance == ASSUME MaxAhead <= 1 PROVE Spec => []Inv
<1>1. Init => Inv
  BY CheckpointAssumptions DEF Init, Inv, TypeOK, NoLostUpdate, Bounded, Revisions, Idle
<1>2. Inv /\ [Next]_vars => Inv'
  BY InvStep
<1>3. QED
  BY <1>1, <1>2, PTL DEF Spec

-----------------------------------------------------------------------------
\* save_if_head "preventing lost updates": however many requests load, append,
\* compact and die, the writer of every stored revision had seen the one before it.
THEOREM NoUpdateLost == ASSUME MaxAhead <= 1 PROVE Spec => []NoLostUpdate
<1>1. Inv => NoLostUpdate
  BY DEF Inv
<1>2. QED
  BY <1>1, Invariance, PTL

\* save_if_head and compact: a revision that appears is the head's successor, and
\* the head never goes back.
THEOREM WritesExtendHead == ASSUME MaxAhead <= 1 PROVE Spec => WritesBecomeHead
<1> DEFINE Extends == /\ rows' \ rows # {} => rows' \ rows = {Head + 1} /\ Head' = Head + 1
                      /\ Head' >= Head
<1>1. ASSUME Inv, [Next]_vars PROVE [Extends]_vars
  <2>1. Head' >= Head /\ Inv'
    BY <1>1, InvStep
  <2>2. ASSUME NEW r \in Requests, Append(r) PROVE Extends
    <3>1. CASE Appendable(r)
      <4>1. request[r].revision = Head + 1
        BY <1>1, <2>2, <3>1, AppendFacts DEF Append
      <4>2. rows' = rows \cup {Head + 1}
        BY <2>2, <3>1, <4>1 DEF Append
      <4>3. Head + 1 \notin rows /\ Head + 1 \in Revisions
        BY <2>1, <3>1, <4>1, <4>2 DEF Appendable, Inv, TypeOK
      <4>4. QED
        BY <1>1, <2>1, <4>2, <4>3, HeadAfterAppend
    <3>2. QED
      BY <2>1, <2>2, <3>1 DEF Append
  <2>3. CASE rows' \subseteq rows
    BY <2>1, <2>3
  <2>4. QED
    BY <1>1, <2>2, <2>3 DEF Next, SaveLoad, UpdateLoad, Load, Abandon, Compact, Kept, vars
<1>2. QED
  BY <1>1, Invariance, PTL DEF WritesBecomeHead, Spec
-----------------------------------------------------------------------------
\* For TypeOK alone callers may expect any revision: what matters is that a pending
\* write is never numbered 0.
Numbered == \A r \in Requests : request[r].pc = "append" => request[r].revision # 0

\* get_head, save_if_head, compact: stored revisions, their bases and the pending
\* writes stay in their domains, however far ahead of the head callers are.
THEOREM TypeCorrect == Spec => []TypeOK
<1> USE CheckpointAssumptions
<1>1. Init => TypeOK /\ Numbered
  BY DEF Init, TypeOK, Numbered, Revisions, Idle
<1>2. ASSUME TypeOK, Numbered, [Next]_vars PROVE TypeOK' /\ Numbered'
  <2> DEFINE Request == [pc : {"idle", "append"}, expected : 0 .. MaxRev + MaxAhead,
                         revision : 0 .. MaxRev]
  <2>1. Head \in 0 .. MaxRev
    BY <1>2, HeadNewest DEF TypeOK
  <2>2. ASSUME NEW r \in Requests, NEW q \in Request, q.pc = "append" => q.revision # 0,
               request' = [request EXCEPT ![r] = q]
        PROVE  request' \in [Requests -> Request] /\ Numbered'
    BY <1>2, <2>2 DEF TypeOK, Numbered
  <2>3. Idle \in Request /\ Idle.pc = "idle"
    BY DEF Idle
  <2>4. ASSUME NEW r \in Requests, NEW e \in 0 .. Head + MaxAhead, Load(r, e)
        PROVE  TypeOK' /\ Numbered'
    <3> DEFINE q == [pc |-> "append", expected |-> e, revision |-> Head + 1]
    <3>1. q \in Request /\ q.revision # 0
      BY <2>1, <2>4 DEF Load
    <3>2. request' = [request EXCEPT ![r] = q] /\ rows' = rows /\ base' = base
      BY <2>4 DEF Load
    <3> HIDE DEF q
    <3>3. QED
      BY <1>2, <2>2, <3>1, <3>2 DEF TypeOK
  <2>5. ASSUME NEW r \in Requests, SaveLoad(r) \/ \E v \in 1 .. MaxRev + MaxAhead : UpdateLoad(r, v)
        PROVE  TypeOK' /\ Numbered'
    BY <2>1, <2>4, <2>5 DEF SaveLoad, UpdateLoad
  <2>6. ASSUME NEW r \in Requests, Append(r) PROVE TypeOK' /\ Numbered'
    <3>1. request' = [request EXCEPT ![r] = Idle] /\ request[r].pc = "append"
      BY <2>6 DEF Append
    <3>2. request' \in [Requests -> Request] /\ Numbered'
      BY <2>2, <2>3, <3>1
    <3>3. request[r].revision \in Revisions
      BY <1>2, <3>1 DEF TypeOK, Numbered, Revisions
    <3>4. rows' \subseteq Revisions /\ base' \in [Revisions -> 0 .. MaxRev]
      BY <1>2, <2>1, <2>6, <3>3 DEF TypeOK, Append, Appendable
    <3>5. QED
      BY <3>2, <3>4 DEF TypeOK
  <2>7. ASSUME NEW r \in Requests, Abandon(r) PROVE TypeOK' /\ Numbered'
    BY <1>2, <2>2, <2>3, <2>7 DEF TypeOK, Abandon
  <2>8. ASSUME NEW keep \in Revisions, Compact(keep) PROVE TypeOK' /\ Numbered'
    BY <1>2, <2>8 DEF TypeOK, Numbered, Compact, Kept
  <2>9. CASE UNCHANGED vars
    BY <1>2, <2>9 DEF TypeOK, Numbered, vars
  <2>10. QED
    BY <1>2, <2>5, <2>6, <2>7, <2>8, <2>9 DEF Next
<1>3. QED
  BY <1>1, <1>2, PTL DEF Spec
=============================================================================
