---------------------------- MODULE MCSubtaskPlan ----------------------------
(* Up to four children of a plain lane or one that orchestrates itself,    *)
(* with an id to spare.  Tasks may share a resource, a key or neither.     *)
EXTENDS SubtaskPlan

Plain == [runs |-> 2, runCap |-> 4, nodes |-> 1, nodeCap |-> 1, expandable |-> FALSE, failFast |-> FALSE]
Recursive == [runs |-> 5, runCap |-> 5, nodes |-> 2, nodeCap |-> 3, expandable |-> TRUE, failFast |-> TRUE]
MCLanes == {Plain, Recursive}
MCCostOf == [i \in Id |-> IF i = 2 THEN 8 ELSE i]

Demand(S, C) == [i \in Id |-> [needs |-> IF i \in S THEN {"r"} ELSE {},
                               conflictKeys |-> IF i \in C THEN {"k"} ELSE {}]]
MCDemands == {Demand({1, 2, 4}, {2, 3})}
Limited(n, of) == [maxConcurrentNodes |-> n, of |-> of]
MCCapacities == {Limited(1, Nothing), Limited(3, [r \in {"r"} |-> 1]), Limited(2, [r \in {"r"} |-> 2])}
=============================================================================
