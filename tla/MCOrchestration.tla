--------------------------- MODULE MCOrchestration --------------------------
(* Leaves, and orchestrators of one or two further levels.                 *)
EXTENDS Orchestration

MCAllocations ==
    {[nodes |-> n, runs |-> n, depth |-> n - 1, expiresAt |-> Lifetime] : n \in 1 .. MaxDepth}
=============================================================================
