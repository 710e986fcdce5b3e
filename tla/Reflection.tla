----------------------------- MODULE Reflection -----------------------------
(***************************************************************************)
(* Reflection: repeated or conflicting beliefs among the semantic memories *)
(* of a workspace become observations that name their evidence.  A call    *)
(* (the maintenance worker's, for every retained memory, or the API's)     *)
(* reads the memories, then the observations, then saves what is missing,  *)
(* one transaction each; calls overlap, fail and are repeated.             *)
(*                                                                         *)
(* Memories are numbered by created_at; they may commit in another order.  *)
(* The text patterns that find slot and value are given by the constants.  *)
(***************************************************************************)
EXTENDS Naturals, FiniteSets, FiniteSetsExt

CONSTANTS Facts,      \* memories, in the order of created_at
          SlotOf,     \* belief slot of each
          ValueOf,    \* value of each
          Reflectors  \* calls of reflect

VARIABLES facts,         \* memories committed
          observations,  \* rows: [id, summary, evidence, stale]
          audited,       \* ids with a reflection.observation.create event
          reflection     \* each call's progress

vars == <<facts, observations, audited, reflection>>

Idle == [pc |-> "idle", read |-> {}, todo |-> {}]

Init ==
  /\ facts = {} /\ observations = {} /\ audited = {}
  /\ reflection = [r \in Reflectors |-> Idle]

-----------------------------------------------------------------------------
InSlot(read, s) == {i \in read : SlotOf[i] = s}
WithValue(read, s, v) == {i \in InSlot(read, s) : ValueOf[i] = v}

(* One belief for each value of a slot that has at least two memories; the *)
(* values other than the latest memory's are stale.                        *)
Beliefs(read) ==
  {[summary  |-> Max(WithValue(read, SlotOf[i], ValueOf[i])),
    evidence |-> WithValue(read, SlotOf[i], ValueOf[i]),
    stale    |-> Max(WithValue(read, SlotOf[i], ValueOf[i])) # Max(InSlot(read, SlotOf[i]))]
      : i \in {j \in read : Cardinality(InSlot(read, SlotOf[j])) > 1}}

\* Mutant: a belief is known by its evidence, whether it became stale or not.
ObservationKeyOfEvidence(o) == <<o.summary, o.evidence>>

(* Summary, sorted evidence and staleness.                                 *)
ObservationKey(o) == <<o.summary, o.evidence, o.stale>>

\* Mutant: a random id for each observation.
ObservationIdRandom(r, o) == <<r, o.summary, o.evidence, o.stale>>

(* uuid5 of the key: calls that overlap name a belief alike.               *)
ObservationId(r, o) == ObservationKey(o)

-----------------------------------------------------------------------------
Remember(i) ==
  /\ i \notin facts
  /\ facts' = facts \cup {i}
  /\ UNCHANGED <<observations, audited, reflection>>

ReadFacts(r) ==
  /\ reflection[r].pc \in {"idle", "done"}
  /\ reflection' = [reflection EXCEPT ![r] = [Idle EXCEPT !.pc = "read", !.read = facts]]
  /\ UNCHANGED <<facts, observations, audited>>

ReadObservations(r) ==
  LET read == reflection[r].read
      known == {ObservationKey(o) : o \in observations}
  IN
  /\ reflection[r].pc = "read"
  /\ reflection' = [reflection EXCEPT ![r].pc = "save",
                      ![r].todo = {o \in Beliefs(read) : ObservationKey(o) \notin known}]
  /\ UNCHANGED <<facts, observations, audited>>

(* Insert unless the id is there, and the audit event, in one transaction. *)
(* The code saves slot by slot; the order shows only in what a failed call *)
(* leaves behind, and any order is allowed here.                           *)
SaveObservation(r, o) ==
  LET id == ObservationId(r, o) IN
  /\ reflection[r].pc = "save" /\ o \in reflection[r].todo
  /\ observations' =
       IF \E x \in observations : x.id = id THEN observations
       ELSE observations \cup {[id |-> id, summary |-> o.summary,
                                evidence |-> o.evidence, stale |-> o.stale]}
  /\ audited' = audited \cup {id}
  /\ reflection' = [reflection EXCEPT ![r].todo = @ \ {o}]
  /\ UNCHANGED facts

ReflectDone(r) ==
  /\ reflection[r].pc = "save" /\ reflection[r].todo = {}
  /\ reflection' = [reflection EXCEPT ![r].pc = "done"]
  /\ UNCHANGED <<facts, observations, audited>>

(* An exception or a crash; the event is redelivered, the request lost.    *)
ReflectFails(r) ==
  /\ reflection[r].pc \in {"read", "save"}
  /\ reflection' = [reflection EXCEPT ![r] = Idle]
  /\ UNCHANGED <<facts, observations, audited>>

Next ==
  \/ \E i \in Facts : Remember(i)
  \/ \E r \in Reflectors :
       \/ ReadFacts(r) \/ ReadObservations(r) \/ ReflectDone(r) \/ ReflectFails(r)
       \/ \E o \in reflection[r].todo : SaveObservation(r, o)

Spec == Init /\ [][Next]_vars

-----------------------------------------------------------------------------
TypeOK ==
  /\ facts \subseteq Facts
  /\ \A o \in observations : o.evidence \subseteq facts /\ o.stale \in BOOLEAN
  /\ audited = {o.id : o \in observations}
  /\ \A r \in Reflectors : /\ reflection[r].pc \in {"idle", "read", "save", "done"}
                           /\ reflection[r].read \subseteq facts

(* No belief is recorded twice.  When a call has ended and nothing was     *)
(* remembered since it began, every belief is on record as it stands, and  *)
(* an observation that still calls an outdated value active - none is ever *)
(* withdrawn - is answered by a stale one that has all its evidence        *)
(* (reflect, PostgresMemoryLedger.save).                                   *)
BeliefsOnRecord ==
  /\ \A o, x \in observations :
       o.evidence = x.evidence /\ o.stale = x.stale => o = x
  /\ (\E r \in Reflectors : reflection[r].pc = "done" /\ reflection[r].read = facts) =>
       /\ \A b \in Beliefs(facts) :
            \E o \in observations : o.evidence = b.evidence /\ o.stale = b.stale
       /\ \A o \in observations :
            LET latest == Max(InSlot(facts, SlotOf[o.summary])) IN
            ~o.stale /\ ValueOf[o.summary] # ValueOf[latest] =>
              \E x \in observations : x.stale /\ o.evidence \subseteq x.evidence
=============================================================================
