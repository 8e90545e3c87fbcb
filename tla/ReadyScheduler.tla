--------------------------- MODULE ReadyScheduler ----------------------------
(***************************************************************************)
(* The admission decision of ready-scheduler.js, as operators.  A graph g  *)
(* maps each task to what it depends on, its cost, and the resources it    *)
(* needs: a provider, a model, a class or a workspace is a key here, and   *)
(* limits.of has those a capacity is configured for, by name or by `*'.    *)
(* Tasks are numbers, in the order of their ids.                           *)
(***************************************************************************)
EXTENDS Integers, FiniteSets, SequencesExt

Failures == {"failed", "cancelled", "blocked"}

Successors(g, i) == {j \in DOMAIN g : i \in g[j].dependsOn}

\* topologicalGraph: the least available task comes next.
TopologicalOrder(g) ==
    LET available(done) == {i \in DOMAIN g \ done : g[i].dependsOn \subseteq done}
        order[n \in 0 .. Cardinality(DOMAIN g)] ==
            IF n = 0 THEN <<>>
            ELSE LET next == available(ToSet(order[n - 1]))
                 IN  IF next = {} THEN order[n - 1] ELSE Append(order[n - 1], Min(next))
    IN  order[Cardinality(DOMAIN g)]

\* No DUPLICATE_, UNKNOWN_DEPENDENCY or DAG_CYCLE failure.
Acyclic(g) ==
    /\ \A i \in DOMAIN g : g[i].dependsOn \subseteq DOMAIN g
    /\ Len(TopologicalOrder(g)) = Cardinality(DOMAIN g)

CriticalPath(g) ==
    LET path[i \in DOMAIN g] == g[i].cost + Max({0} \cup {path[j] : j \in Successors(g, i)})
    IN  path

Descendants(g) ==
    LET below[i \in DOMAIN g] == Successors(g, i) \cup UNION {below[j] : j \in Successors(g, i)}
    IN  below

With(status, S) == {i \in DOMAIN status : status[i] \in S}

\* validateRunningState
ValidState(g, status) ==
    \A i \in With(status, {"running", "completed"}) :
        g[i].dependsOn \subseteq With(status, {"completed"})

\* Faulty: a task is blocked by the failures it depends on itself.
BlockedByItsOwn(g, status) ==
    [i \in DOMAIN g |-> IF status[i] \in {"pending", "blocked"}
                        THEN g[i].dependsOn \cap With(status, Failures) ELSE {}]

\* deriveEffectiveStatuses: the root failures of every blocked task
BlockedBy(g, status) ==
    LET roots[i \in DOMAIN g] ==
            LET up == UNION {IF status[d] \in {"failed", "cancelled"} THEN {d} ELSE roots[d] :
                                d \in g[i].dependsOn}
            IN  IF status[i] = "blocked" /\ up = {} THEN {i}
                ELSE IF status[i] \in {"pending", "blocked"} THEN up ELSE {}
    IN  roots

Effective(g, status) ==
    LET roots == BlockedBy(g, status)
    IN  [i \in DOMAIN g |-> IF roots[i] # {} THEN "blocked" ELSE status[i]]

Users(g, S, k) == {i \in S : k \in g[i].needs}
Holders(g, S, k) == {i \in S : k \in g[i].conflictKeys}

\* resourceConstraints, and the global limit before them
Constraints(g, busy, i, limits) ==
    IF Cardinality(busy) >= limits.maxConcurrentNodes THEN {"global"}
    ELSE {k \in g[i].needs \cap DOMAIN limits.of : Cardinality(Users(g, busy, k)) >= limits.of[k]}
         \cup {k \in g[i].conflictKeys : Holders(g, busy, k) # {}}

\* overcommitDiagnostics
Overcommitted(g, busy, limits) ==
    (IF Cardinality(busy) > limits.maxConcurrentNodes THEN {"global"} ELSE {})
    \cup {k \in DOMAIN limits.of : Cardinality(Users(g, busy, k)) > limits.of[k]}
    \cup {k \in UNION {g[i].conflictKeys : i \in busy} : Cardinality(Holders(g, busy, k)) > 1}

\* immediateUnlockCount
Unlocks(g, effective, i) ==
    Cardinality({j \in Successors(g, i) \cap With(effective, {"pending"}) :
                    g[j].dependsOn \ {i} \subseteq With(effective, {"completed"})})

\* comparePriority
Precedes(g, effective, i, j) ==
    LET path == CriticalPath(g)  below == Descendants(g)
        rank(k) == <<path[k], Unlocks(g, effective, k), Cardinality(below[k])>>
        differ == {n \in 1 .. 3 : rank(i)[n] # rank(j)[n]}
    IN  IF differ = {} THEN i < j ELSE rank(i)[Min(differ)] > rank(j)[Min(differ)]

Ready(g, effective) ==
    {i \in With(effective, {"pending"}) : g[i].dependsOn \subseteq With(effective, {"completed"})}

\* The loop that splits the ready tasks into `start' and `deferred': each is let
\* in beside what runs and those of higher priority that were let in.
Admitted(g, effective, ready, limits) ==
    LET running == With(effective, {"running"})
        admits[i \in ready] ==
            LET start == {j \in ready : Precedes(g, effective, j, i) /\ admits[j]}
            IN  Constraints(g, running \cup start, i, limits) = {}
    IN  {i \in ready : admits[i]}

\* diagnosisFor
Diagnosis(effective, start, ready) ==
    IF start # {} THEN "none"
    ELSE IF With(effective, {"completed"}) = DOMAIN effective THEN "COMPLETE"
    ELSE IF ready # {} THEN "CAPACITY_BLOCKED"
    ELSE IF With(effective, {"running"}) # {} THEN "WAITING_FOR_RUNNING"
    ELSE IF With(effective, {"blocked"}) # {} THEN "DEPENDENCY_BLOCKED"
    ELSE IF With(effective, {"pending"}) # {} THEN "NO_READY_NODES"
    ELSE "TERMINAL_WITH_FAILURES"

\* scheduleReadyNodes, of an acyclic graph in a valid state
Decision(g, status, limits) ==
    LET effective == Effective(g, status)
        ready == Ready(g, effective)
        start == Admitted(g, effective, ready, limits)
    IN  [start |-> start, deferred |-> ready \ start, effective |-> effective,
         diagnosis |-> Diagnosis(effective, start, ready)]
=============================================================================
