------------------------------ MODULE Dashboard ------------------------------
(***************************************************************************)
(* The task dashboard: the host's telemetry (dispatcher-telemetry.js), its *)
(* snapshot and watch calls, and the browser's session sources (source.ts) *)
(* that follow it.                                                         *)
(*                                                                         *)
(* An action of the host is one turn of its event loop: a mutation, the    *)
(* listeners it notifies, what they prune, and the listeners that notifies *)
(* in turn.  A reply, an abort and a failure travel by themselves.         *)
(***************************************************************************)
EXTENDS Telemetry

CONSTANTS
    Viewer, SessionOf,
    Home,           \* bound: the sessions each task may be of
    MaxWatches,     \* TELEMETRY_MAX_WATCHES_GLOBAL; a session has as many
    MaxEvents       \* bound: updates, subscriptions, lost connections, restarts and ticks

ASSUME DashboardAssumption ==
    /\ SessionOf \in [Viewer -> Session]
    /\ MaxWatches \in Nat \ {0}
    /\ Home \in [TaskId -> SUBSET Session]
    /\ MaxEvents \in Nat

VARIABLES
    host,
    viewer, \* the browser's sources
    calls,  \* the calls under way, aborted ones among them
    events

vars == <<host, viewer, calls, events>>

Event == events < MaxEvents /\ events' = events + 1

Nothing == [revision |-> 0, tasks |-> {}]

Call(v, g, kind, after) ==
    [viewer |-> v, generation |-> g, kind |-> kind, after |-> after, at |-> "sent"]
Answered(c, S) ==
    [viewer |-> c.viewer, generation |-> c.generation, kind |-> c.kind, at |-> "answered",
     snapshot |-> S]
Refused(c) == [viewer |-> c.viewer, generation |-> c.generation, kind |-> c.kind, at |-> "failed"]

CallsOf(v) == {c \in calls : c.viewer = v}
Watches == {c \in calls : c.at = "waiting"}
Watched(W) == {SessionOf[c.viewer] : c \in W}

-----------------------------------------------------------------------------
(* The host.                                                               *)

\* The sessions a prune of H to P publishes; the others it affects are collected.
Survivors(H, P, preserve) ==
    {s \in Affected(H, P) : Of(P, s) # {} \/ s \in Watched(Watches) \cup preserve}

\* publishTelemetryRetention and publishTelemetryMutation: the sessions in
\* `publish' get new revisions in some order, their watches are answered, and
\* the sessions left without tasks and listeners are collected, the answered
\* ones or not, by the order.
Turns(H, publish, keep) ==
    LET woken == {c \in Watches : SessionOf[c.viewer] \in publish}
    IN  {LET N == Published(H, order)
         IN  [host |-> Collected(N, Watched(Watches \ woken), keep \cup spared),
              calls |-> (calls \ woken)
                  \cup {Answered(c, Snapshot(N, SessionOf[c.viewer])) : c \in woken}] :
            order \in SetToSeqs(publish), spared \in SUBSET Watched(woken)}

Mutates(H, publish, keep) ==
    /\ \E turn \in Turns(H, publish, keep) : host' = turn.host /\ calls' = turn.calls
    /\ UNCHANGED viewer

StartTask ==
    \E t \in TaskId : \E s \in Home[t] :
        /\ host.task[t].status = "unborn" /\ \A u \in 1 .. t - 1 : host.task[u].status # "unborn"
        /\ \E parent \in {0} \cup (Ids(host, "running") \cap Of(host, s)) :
              LET due == host.pruneAt # Never /\ host.now >= host.pruneAt
                  reads == due \/ s \in Watched(Watches)
                  H == IF reads THEN Pruned(host) ELSE host
                  others == Survivors(host, H, {})
              IN  Mutates(Started(H, t, s, parent), others \cup {s},
                          IF reads THEN {s} ELSE Session)
        /\ UNCHANGED events

\* setJobId, setDistribution, setMasterPlan, startWorker, updateWorker, ...
UpdateTask ==
    \E t \in Kept(host) :
        LET s == host.task[t].session
            reads == s \in Watched(Watches)
            H == Updated(host, t)
            P == IF reads THEN Pruned(H) ELSE H
        IN  /\ Event
            /\ Mutates(P, {s} \cup Survivors(H, P, {}), IF reads THEN {s} ELSE Session)

\* A task ends when its subtasks have.
FinishTask ==
    \E t \in Ids(host, "running") :
        LET H == Finished(host, t)
            P == Pruned(H)
            s == host.task[t].session
        IN  /\ \A u \in Ids(host, "running") : t \notin Above(host)[u]
            /\ Mutates(P, {s} \cup Survivors(H, P, {}), {s})
            /\ UNCHANGED events

\* snapshot: what reading a session may do
Reads(preserve) ==
    LET P == Pruned(host) IN Turns(P, Survivors(host, P, preserve), preserve)

\* snapshot, for an RPC of the browser
AnswerSnapshot(v) ==
    /\ \E c \in CallsOf(v) :
          /\ c.at = "sent" /\ c.kind = "snapshot"
          /\ \E turn \in Reads({}) :
                /\ host' = turn.host
                /\ calls' = (turn.calls \ {c})
                               \cup {Answered(c, Snapshot(turn.host, SessionOf[v]))}
    /\ UNCHANGED <<viewer, events>>

\* watchDispatcherTelemetry, up to its promise
AnswerWatch(v) ==
    /\ \E c \in CallsOf(v) :
          LET s == SessionOf[c.viewer]
              replies(turn) ==
                  IF turn.host.revision[s] # c.after THEN Answered(c, Snapshot(turn.host, s))
                  ELSE IF Cardinality({d \in turn.calls : d.at = "waiting"}) < MaxWatches
                  THEN [c EXCEPT !.at = "waiting"]
                  ELSE Refused(c)
          IN  /\ c.at = "sent" /\ c.kind = "watch"
              /\ \E turn \in Reads({s}) :
                    /\ host' = turn.host
                    /\ calls' = (turn.calls \ {c}) \cup {replies(turn)}
    /\ UNCHANGED <<viewer, events>>

\* A watch's timer answers with what there is.
WatchTimeout(v) ==
    /\ \E c \in Watches \cap CallsOf(v) :
          LET s == SessionOf[c.viewer]
          IN  \E turn \in Reads({s}) :
                  /\ host' = turn.host
                  /\ calls' = (turn.calls \ {c}) \cup {Answered(c, Snapshot(turn.host, s))}
    /\ UNCHANGED <<viewer, events>>

-----------------------------------------------------------------------------
(* The browser.                                                            *)

Active(c) == viewer[c.viewer].run # "none" /\ viewer[c.viewer].generation = c.generation

\* The signal of a stopped source reaches the host.
Abort(v) ==
    /\ \E c \in CallsOf(v) :
          /\ c.at \in {"sent", "waiting"} /\ ~Active(c)
          /\ calls' = calls \ {c}
    /\ UNCHANGED <<host, viewer, events>>

\* start
Subscribe(v) ==
    LET g == viewer[v].generation + 1
    IN  /\ Event
        /\ viewer[v].run = "none"
        /\ viewer' = [viewer EXCEPT ![v].run = "called", ![v].generation = g]
        /\ calls' = calls \cup {Call(v, g, "snapshot", 0)}
        /\ UNCHANGED host

\* stop
Unsubscribe(v) ==
    /\ viewer[v].run # "none"
    /\ viewer' = [viewer EXCEPT ![v].run = "none"]
    /\ UNCHANGED <<host, calls, events>>

\* evictIdle, by its timer or for want of room: the next subscriber finds a new source.
EvictIdle(v) ==
    /\ viewer[v].run = "none" /\ viewer[v].snapshot # Nothing
    /\ viewer' = [viewer EXCEPT ![v].snapshot = Nothing]
    /\ UNCHANGED <<host, calls, events>>

\* Faulty: a lower answer of a watch is skipped, and the watch asked again.
AcceptedSkippingResets(v, c) ==
    LET S == IF c.kind = "snapshot" \/ c.snapshot.revision > viewer[v].snapshot.revision
             THEN c.snapshot ELSE viewer[v].snapshot
    IN  [snapshot |-> S, next |-> Call(v, c.generation, "watch", S.revision)]

\* accept, and what the loop of `run' asks next
Accepted(v, c) ==
    LET shown == viewer[v].snapshot
        S == IF c.kind = "snapshot" \/ c.snapshot.revision > shown.revision
             THEN c.snapshot ELSE shown
    IN  IF c.kind = "watch" /\ c.snapshot.revision < shown.revision
        THEN [snapshot |-> shown, next |-> Call(v, c.generation, "snapshot", 0)]
        ELSE [snapshot |-> S, next |-> Call(v, c.generation, "watch", S.revision)]

\* Faulty: what a stopped loop still receives is shown.
ReceiveAlways(v) ==
    /\ \E c \in {d \in CallsOf(v) : d.at \in {"answered", "failed"}} :
          \/ /\ ~Active(c) /\ c.at = "failed"
             /\ calls' = calls \ {c} /\ UNCHANGED viewer
          \/ /\ ~Active(c) /\ c.at = "answered"
             /\ calls' = calls \ {c}
             /\ viewer' = [viewer EXCEPT ![v].snapshot = Accepted(v, c).snapshot]
          \/ /\ Active(c) /\ c.at = "failed"
             /\ calls' = calls \ {c}
             /\ viewer' = [viewer EXCEPT ![v].run = "retrying"]
          \/ /\ Active(c) /\ c.at = "answered"
             /\ calls' = (calls \ {c}) \cup {Accepted(v, c).next}
             /\ viewer' = [viewer EXCEPT ![v].snapshot = Accepted(v, c).snapshot]
    /\ UNCHANGED <<host, events>>

\* A call returns to `run'.
Receive(v) ==
    /\ \E c \in {d \in CallsOf(v) : d.at \in {"answered", "failed"}} :
          \/ /\ ~Active(c)
             /\ calls' = calls \ {c} /\ UNCHANGED viewer
          \/ /\ Active(c) /\ c.at = "failed"
             /\ calls' = calls \ {c}
             /\ viewer' = [viewer EXCEPT ![v].run = "retrying"]
          \/ /\ Active(c) /\ c.at = "answered"
             /\ calls' = (calls \ {c}) \cup {Accepted(v, c).next}
             /\ viewer' = [viewer EXCEPT ![v].snapshot = Accepted(v, c).snapshot]
    /\ UNCHANGED <<host, events>>

\* waitToRetry's timer
Retry(v) ==
    /\ viewer[v].run = "retrying"
    /\ viewer' = [viewer EXCEPT ![v].run = "called"]
    /\ calls' = calls \cup {Call(v, viewer[v].generation, "snapshot", 0)}
    /\ UNCHANGED <<host, events>>

-----------------------------------------------------------------------------
(* The environment.                                                        *)

\* A connection is lost, and every call on it with it.
Disconnect(v) ==
    /\ Event
    /\ calls' = {IF c.viewer = v THEN Refused(c) ELSE c : c \in calls}
    /\ UNCHANGED <<host, viewer>>

\* A new process of the host has new tasks, and counts anew.
Restart ==
    /\ Event
    /\ host' = [NewState EXCEPT !.now = host.now, !.task =
                   [t \in TaskId |-> IF host.task[t].status = "unborn" THEN Unborn
                                     ELSE [host.task[t] EXCEPT !.status = "gone", !.kept = FALSE]]]
    /\ calls' = {Refused(c) : c \in calls}
    /\ UNCHANGED viewer

Tick ==
    /\ Event
    /\ host' = [host EXCEPT !.now = @ + 1]
    /\ UNCHANGED <<viewer, calls>>

Init ==
    /\ host = NewState
    /\ viewer = [v \in Viewer |-> [run |-> "none", generation |-> 0, snapshot |-> Nothing]]
    /\ calls = {} /\ events = 0

Progress(v) ==
    \/ Receive(v) \/ Retry(v) \/ Abort(v)
    \/ AnswerSnapshot(v) \/ AnswerWatch(v) \/ WatchTimeout(v)

Next ==
    \/ StartTask \/ UpdateTask \/ FinishTask
    \/ \E v \in Viewer :
          Progress(v) \/ Subscribe(v) \/ Unsubscribe(v) \/ EvictIdle(v) \/ Disconnect(v)
    \/ Restart \/ Tick

\* The host answers, signals arrive, timers fire and the browser's loop goes on.
Fairness == \A v \in Viewer : WF_vars(Progress(v))

Spec == Init /\ [][Next]_vars /\ Fairness

-----------------------------------------------------------------------------
Shows(v) == viewer[v].snapshot.tasks = Snapshot(host, SessionOf[v]).tasks

(* A watch that waits was asked by a source that shows what the host has:  *)
(* no change, removal or reuse of a revision goes by in its sleep.         *)
NobodySleepsOverAChange ==
    \A c \in Watches : Active(c) => Shows(c.viewer)

(* What a source shows never goes back: no task is seen to run again after *)
(* it was seen to end, or loses an update, whatever was aborted, lost or   *)
(* collected between, as long as the source lives.                         *)
TasksNeverGoBack ==
    [][\A v \in Viewer :
          \A old \in viewer[v].snapshot.tasks, new \in viewer'[v].snapshot.tasks :
              old.id = new.id =>
                  /\ old.version <= new.version
                  /\ old.status = "ended" => new.status = "ended"]_vars

(* The tree of a running task is never pruned, and an ended one "keeps the *)
(* whole final tree inspectable": no task that ended before it stays when  *)
(* a part of it was removed, an expired one excepted.  No subtask outlives *)
(* its parent, to be listed as a task of its own.                          *)
TreesStayWhole ==
    LET above == Above(host)
        below(t) == {u \in TaskId : host.task[u].status \in {"running", "ended"} /\ t \in above[u]}
        ends == {t \in Ids(host, "ended") : above[t] = {}}
    IN  /\ \A t \in Ids(host, "running") : below(t) \subseteq Kept(host)
        /\ \A r, x \in ends :
              /\ host.task[r].session = host.task[x].session
              /\ host.task[x].order < host.task[r].order
              => \A u \in below(r) : u \in Kept(host) \/ ~Fresh(host, u)
        /\ \A s \in Session : \A t \in TopLevel(host, s) : host.task[t].parent = 0

(* Whoever looks at a session comes to see it as it is.                    *)
ViewsCatchUp ==
    \A v \in Viewer : []<>(viewer[v].run = "none" \/ Shows(v))
=============================================================================
