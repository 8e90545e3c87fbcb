---------------------------- MODULE MCTaskStore -----------------------------
(* Two tasks, two workers that serve both pools, a claim may find any set  *)
(* of rows locked by other transactions.                                   *)
EXTENDS TaskStore, TLC

MCServes == [w \in Worker |-> Task]
MCLockedSets == SUBSET Task
MCTimeout == {None, 3}
MCReported == {"accepted", "cancelled"}
Symmetry == Permutations(Task) \cup Permutations(Worker)
=============================================================================
