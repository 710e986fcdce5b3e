---------------------------- MODULE MCMemoryLedger ----------------------------
(* Model-checking instance of MemoryLedger.                                  *)
EXTENDS MemoryLedger, TLC

Symmetry == Permutations(ItemIds) \cup Permutations(Sessions) \cup Permutations(Values)
=============================================================================
