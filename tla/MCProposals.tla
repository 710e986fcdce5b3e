------------------------------ MODULE MCProposals ------------------------------
(* Model-checking instance of Proposals.                                     *)
EXTENDS Proposals, TLC

Symmetry == Permutations(Reviewers)
=============================================================================
