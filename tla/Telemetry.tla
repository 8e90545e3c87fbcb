------------------------------ MODULE Telemetry ------------------------------
(***************************************************************************)
(* The read model of dispatcher-telemetry.js, as operators on its process- *)
(* stable state H.  Of what a snapshot says of a task, its status and the  *)
(* number of mutations it has seen are kept.  Tasks are numbered in the    *)
(* order they start, which is the Map's; removed ones are remembered here  *)
(* with `kept' FALSE.                                                      *)
(***************************************************************************)
EXTENDS Integers, FiniteSets, SequencesExt

CONSTANTS
    Session,
    MaxTask,        \* bound: tasks started
    Ttl,            \* TELEMETRY_TERMINAL_TTL_MS
    MaxPerSession,  \* TELEMETRY_MAX_TERMINAL_TASKS_PER_SESSION
    MaxGlobal       \* TELEMETRY_MAX_TERMINAL_TASKS_GLOBAL

ASSUME TelemetryAssumption ==
    MaxTask \in Nat /\ {Ttl, MaxPerSession, MaxGlobal} \subseteq Nat \ {0}

TaskId == 1 .. MaxTask
Never == -1

Unborn == [status |-> "unborn", kept |-> FALSE]
Ids(H, status) == {t \in TaskId : H.task[t].kept /\ H.task[t].status = status}
Kept(H) == {t \in TaskId : H.task[t].kept}
Of(H, s) == {t \in Kept(H) : H.task[t].session = s}

\* dispatcherTelemetrySnapshot
Snapshot(H, s) ==
    [revision |-> H.revision[s],
     tasks |-> {[id |-> t, status |-> H.task[t].status, version |-> H.task[t].version] :
                   t \in Of(H, s)}]

\* topLevelTasks of TaskDispatcherAction.tsx: what the dashboard lists as roots
TopLevel(H, s) == {t \in Of(H, s) : H.task[t].parent \notin Of(H, s)}

\* telemetryHasAncestor: the orchestration ancestors of every task
Above(H) ==
    LET above[t \in TaskId] ==
            IF H.task[t].status = "unborn" \/ H.task[t].parent = 0 THEN {}
            ELSE {H.task[t].parent} \cup above[H.task[t].parent]
    IN  above

-----------------------------------------------------------------------------
(* Retention.                                                              *)

\* compareTerminalNewest
Newer(H, u, t) ==
    \/ H.task[u].order > H.task[t].order
    \/ H.task[u].order = H.task[t].order /\ H.task[u].finishedAt > H.task[t].finishedAt
    \/ H.task[u].order = H.task[t].order /\ H.task[u].finishedAt = H.task[t].finishedAt /\ u < t

Newest(H, S, n) == {t \in S : Cardinality({u \in S : Newer(H, u, t)}) < n}

Pinned(H) ==
    LET above == Above(H)
    IN  {t \in Ids(H, "ended") : above[t] \cap Ids(H, "running") # {}}
Fresh(H, t) == H.task[t].finishedAt > H.now - Ttl

\* The ended tasks a prune spares, the pinned apart.
Retained(H) ==
    LET pinned == Pinned(H)
        fresh == {t \in Ids(H, "ended") \ pinned : Fresh(H, t)}
        ofSession(s) == Newest(H, fresh \cap Of(H, s), MaxPerSession)
    IN  Newest(H, UNION {ofSession(s) : s \in Session}, MaxGlobal)

\* pruneTerminalTelemetry
Pruned(H) ==
    LET retained == Retained(H)
        kept == Ids(H, "running") \cup Pinned(H) \cup retained
        expiries == {H.task[t].finishedAt + Ttl : t \in retained}
    IN  [H EXCEPT !.task = [t \in TaskId |-> [H.task[t] EXCEPT !.kept = t \in kept]],
                  !.pruneAt = IF expiries = {} THEN Never
                              ELSE CHOOSE e \in expiries : \A f \in expiries : e <= f]

\* The sessions whose tasks the prune of H to P removed.
Affected(H, P) == {H.task[t].session : t \in Kept(H) \ Kept(P)}

-----------------------------------------------------------------------------
(* Revisions.                                                              *)

\* Faulty: each session counts its own revisions.
NextRevisionOfSession(H, s) == [H EXCEPT !.revision[s] = @ + 1]

\* nextTelemetryRevision
NextRevision(H, s) == [H EXCEPT !.cursor = @ + 1, !.revision[s] = H.cursor + 1]

Published(H, order) == FoldLeft(NextRevision, H, order)

\* deleteTelemetrySessionRevision, of every session without tasks and listeners
Collected(H, watched, keep) ==
    [H EXCEPT !.revision = [s \in Session |->
        IF Of(H, s) = {} /\ s \notin watched \cup keep THEN 0 ELSE @[s]]]

-----------------------------------------------------------------------------
(* The mutations of one task.                                              *)

Started(H, t, s, parent) ==
    [H EXCEPT !.task[t] = [status |-> "running", kept |-> TRUE, session |-> s, parent |-> parent,
                           version |-> 0, finishedAt |-> Never, order |-> 0]]

\* mutate, with any of its operations but finishTask's
Updated(H, t) == [H EXCEPT !.task[t].version = @ + 1]

\* Faulty: the descendants keep their places.
FinishedAlone(H, t) ==
    LET order == H.ended + 1
    IN  [H EXCEPT !.ended = order,
                  !.task[t] = [@ EXCEPT !.status = "ended", !.finishedAt = H.now, !.order = order]]

\* finishTask: the ended descendants of the task move up with it.
Finished(H, t) ==
    LET order == H.ended + 1
        above == Above(H)
        moved == {u \in Ids(H, "ended") : t \in above[u]}
    IN  [H EXCEPT !.ended = order,
                  !.task = [u \in TaskId |->
                      IF u = t THEN [@[u] EXCEPT !.status = "ended", !.finishedAt = H.now,
                                                 !.order = order]
                      ELSE IF u \in moved THEN [@[u] EXCEPT !.order = order]
                      ELSE @[u]]]

\* ensureDispatcherTelemetryState, in a new process
NewState ==
    [now |-> 0, task |-> [t \in TaskId |-> Unborn], revision |-> [s \in Session |-> 0],
     cursor |-> 0, ended |-> 0, pruneAt |-> Never]
=============================================================================
