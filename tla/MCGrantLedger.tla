---------------------------- MODULE MCGrantLedger ---------------------------
(* A root, three tokens of which two may be nested, two slots.             *)
EXTENDS GrantLedger, TLC

MCAllocations == {[nodes |-> 1, runs |-> 1, depth |-> 0, expiresAt |-> 1],
                  [nodes |-> 2, runs |-> 2, depth |-> 1, expiresAt |-> 2]}
Symmetry == Permutations(Token)
=============================================================================
