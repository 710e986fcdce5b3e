---------------------------- MODULE MCEventPipeline ----------------------------
(* Model-checking instance of EventPipeline.                                 *)
EXTENDS EventPipeline
=============================================================================
