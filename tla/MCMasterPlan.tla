---- MODULE MCMasterPlan ----
(* Three steps at a time, five ids, two criteria.                          *)
EXTENDS MasterPlan, TLC

MCSymmetry == Permutations(StepId) \cup Permutations(Criterion)
====
