----------------------------- MODULE EventDelivery -----------------------------
(***************************************************************************)
(* What the outbox, the stream and the idempotent consumers promise        *)
(* together: every consumer's effects come from committed events only, at  *)
(* least once, and each (consumer, event) is finished at most once, after  *)
(* an effect.  Transport, leases, retries, dead letters and replays are    *)
(* invisible here.                                                         *)
(***************************************************************************)
CONSTANTS Events, Consumers

VARIABLES
    committed,   \* events whose ledger transaction committed
    effect,      \* effect[c]: events some handler run of c took effect for
    finished     \* finished[c]: events on record as processed by c

vars == <<committed, effect, finished>>

Init ==
    /\ committed = {}
    /\ effect = [c \in Consumers |-> {}]
    /\ finished = [c \in Consumers |-> {}]

Commit(e) ==
    /\ e \notin committed
    /\ committed' = committed \cup {e}
    /\ UNCHANGED <<effect, finished>>

\* A handler takes effect, possibly not for the first time (a stutter here).
Apply(c, e) ==
    /\ e \in committed
    /\ effect' = [effect EXCEPT ![c] = @ \cup {e}]
    /\ UNCHANGED <<committed, finished>>

Finish(c, e) ==
    /\ e \in effect[c] \ finished[c]
    /\ finished' = [finished EXCEPT ![c] = @ \cup {e}]
    /\ UNCHANGED <<committed, effect>>

Next ==
    \E e \in Events : Commit(e) \/ \E c \in Consumers : Apply(c, e) \/ Finish(c, e)

Spec == Init /\ [][Next]_vars
=============================================================================
