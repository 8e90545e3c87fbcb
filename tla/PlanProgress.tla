----------------------------- MODULE PlanProgress ----------------------------
(***************************************************************************)
(* What the dashboard makes of a published plan (derivePlanProgress of     *)
(* TaskDispatcherAction.tsx): a display state for every step, from the     *)
(* plan and from what the telemetry shows of the steps' child tasks.  A    *)
(* child is shown running, accepted or failed (any other end), or not at   *)
(* all: it has no telemetry until it won a slot.                           *)
(***************************************************************************)
EXTENDS ReadyScheduler

Shown(child, i, S) == i \in DOMAIN child /\ child[i] \in S

\* What a step and its child say by themselves, of an active plan.
Initial(status, child, i) ==
    IF status[i] = "completed" THEN "completed"
    ELSE IF Shown(child, i, {"failed"}) THEN "failed"
    ELSE IF Shown(child, i, {"running", "accepted"}) THEN "working"
    ELSE "open"

\* derivePlanProgress, of an active plan without cycles
Progress(g, status, child) ==
    LET entry[i \in DOMAIN g] ==
            LET failed == {d \in g[i].dependsOn : entry[d].state = "failed"}
                blockedBy == UNION {IF entry[d].blockedBy = {} THEN {d} ELSE entry[d].blockedBy :
                                       d \in failed}
                complete == \A d \in g[i].dependsOn : entry[d].state = "completed"
                initial == Initial(status, child, i)
            IN  IF initial # "open" THEN [state |-> initial, blockedBy |-> {}]
                ELSE [state |-> IF blockedBy # {} THEN "failed"
                                ELSE IF complete THEN "ready" ELSE "waiting",
                      blockedBy |-> blockedBy]
    IN  entry
=============================================================================
