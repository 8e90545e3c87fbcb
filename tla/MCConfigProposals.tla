-------------------------- MODULE MCConfigProposals --------------------------
(* Two proposals, and one subject with two objects, for two callers.       *)
EXTENDS ConfigProposals, TLC

MCSymmetry == Permutations(Proposal) \cup Permutations(Caller) \cup Permutations(Object)
=============================================================================
