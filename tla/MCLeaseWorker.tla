--------------------------- MODULE MCLeaseWorker ----------------------------
(* One task contended by two loops: of one worker, where only the          *)
(* generation tells their leases apart, or of two, one of which stays up.  *)
EXTENDS LeaseWorker, TLC

MCServes == [w \in Worker |-> Task]
MCSkew == [w \in Worker |-> 2]
MCLockedSets == {{}}
MCReported == {"accepted"}

MCOneWorker == [s \in Slot |-> CHOOSE w \in Worker : TRUE]
MCExclusiveTimeout == {9}
Symmetry == Permutations(Slot)

MCOwnWorker == [s \in Slot |-> s]
MCFencedTimeout == {5}
=============================================================================
