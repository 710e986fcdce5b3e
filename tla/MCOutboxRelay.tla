----------------------------- MODULE MCOutboxRelay -----------------------------
(* Model-checking instance of OutboxRelay, with the mutants of its actions.  *)
EXTENDS OutboxRelay
=============================================================================
