----------------------------- MODULE MCCheckpoints -----------------------------
(* Model-checking instance of Checkpoints.                                   *)
EXTENDS Checkpoints, TLC

Symmetry == Permutations(Requests)
=============================================================================
