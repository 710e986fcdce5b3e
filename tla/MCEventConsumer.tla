---------------------------- MODULE MCEventConsumer ----------------------------
(* Model-checking instance of EventConsumer.                                 *)
EXTENDS EventConsumer
=============================================================================
