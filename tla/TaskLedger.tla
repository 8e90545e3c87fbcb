----------------------------- MODULE TaskLedger -----------------------------
(***************************************************************************)
(* What a durable task store promises its coordinators and workers,        *)
(* without clocks, leases' durations or housekeeping: a task is granted to *)
(* one generation at a time, a bounded number of times; only the newest    *)
(* generation can publish, and only a cancelled result once cancellation   *)
(* was requested; a terminal entry never changes.                          *)
(***************************************************************************)
EXTENDS Integers

CONSTANTS Task, Outcome, None, MaxClaims

VARIABLE ledger

Live(phase, generation, cancelled) ==
    [phase |-> phase, generation |-> generation, cancelled |-> cancelled,
     outcome |-> None, publisher |-> 0]

\* publisher is the generation whose result this is, 0 when the store itself
\* ended the task.
Ended(generation, cancelled, outcome, publisher) ==
    [phase |-> "terminal", generation |-> generation, cancelled |-> cancelled,
     outcome |-> outcome, publisher |-> publisher]

Absent == Live("absent", 0, FALSE)

\* Every entry of S is in one of the phases `from' and moves to Move's value.
Update(S, from, Move(_)) ==
    /\ S # {}
    /\ \A t \in S : ledger[t].phase \in from
    /\ ledger' = [t \in Task |-> IF t \in S THEN Move(ledger[t]) ELSE ledger[t]]

Submit(t) ==
    LET Move(e) == Live("queued", 0, FALSE) IN Update({t}, {"absent"}, Move)

Grant(t) ==
    LET Move(e) == Live("running", e.generation + 1, FALSE)
    IN  /\ ~ledger[t].cancelled
        /\ ledger[t].generation < MaxClaims
        /\ Update({t}, {"queued", "running"}, Move)

Release(S) ==
    LET Move(e) == Live("queued", e.generation, FALSE)
    IN  /\ \A t \in S : ~ledger[t].cancelled
        /\ Update(S, {"running"}, Move)

RequestCancel(t) ==
    LET Move(e) == Live("running", e.generation, TRUE)
    IN  Update({t}, {"running"}, Move)

Withdraw(t) ==
    LET Move(e) == Ended(e.generation, TRUE, "cancelled", 0)
    IN  Update({t}, {"queued", "running"}, Move)

Publish(t, o) ==
    LET Move(e) == Ended(e.generation, e.cancelled, o, e.generation)
    IN  /\ ledger[t].cancelled => o = "cancelled"
        /\ Update({t}, {"running"}, Move)

Close(S) ==
    LET Move(e) == Ended(e.generation, e.cancelled,
                         IF e.cancelled THEN "cancelled" ELSE "error", 0)
    IN  Update(S, {"queued", "running"}, Move)

Init == ledger = [t \in Task |-> Absent]

Next ==
    \/ \E t \in Task : \/ Submit(t) \/ Grant(t) \/ RequestCancel(t) \/ Withdraw(t)
                       \/ \E o \in Outcome : Publish(t, o)
    \/ \E S \in SUBSET Task : Release(S) \/ Close(S)

Spec == Init /\ [][Next]_ledger
=============================================================================
