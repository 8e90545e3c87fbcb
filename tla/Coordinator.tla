----------------------------- MODULE Coordinator -----------------------------
(***************************************************************************)
(* DistributedDispatcherRuntime (dispatcher.js): how one instance of the   *)
(* plugin with the role "hybrid" gets its store and its worker, follows    *)
(* the tasks it enqueued, and gives everything up when it is unloaded.     *)
(*                                                                         *)
(* Three kinds of actor share one attempt to open the store: the loop      *)
(* that installs the worker, a monitor per task, and the tools' calls; the *)
(* disposal ends them, with a bound on each of its waits.  An action is    *)
(* one turn between two awaits.  External are the database, with its tasks *)
(* (TaskStore, LeaseWorker), and the host, which composes the worker in a  *)
(* fiber while the service "agentPresets" exists.                          *)
(***************************************************************************)
EXTENDS Naturals, FiniteSets

CONSTANTS
    Task, Caller,
    None, Idle,
    MonitorLimit, \* DISTRIBUTED_MAX_MONITORS
    MaxTroubles   \* bound: outages, losses of the service, failed activations

ASSUME CoordinatorAssumption ==
    /\ MonitorLimit \in Nat /\ MaxTroubles \in Nat
    /\ None \notin Nat

VARIABLES
    outside,  \* database up, service there, and the troubles so far
    rows,     \* the database's tasks
    store,    \* the connection pool
    attempt,  \* initializing, the shared attempt
    runtime,  \* published (storeReady), disposed, worker, fiber
    loop,     \* initializeUntilReady; `worker' is what its catch undoes
    fibers,
    live,     \* workers not disposed of; their loops claim tasks
    monitors,
    calls,    \* tools' calls: dispatch_task, dispatch_status, dispatch_cancel
    shown,    \* the status telemetry has of a task
    disposal  \* what dispose awaits

vars == <<outside, rows, store, attempt, runtime, loop, fibers, live, monitors, calls, shown, disposal>>

world == <<outside, rows>>
hosting == <<loop, fibers, live>>

\* Numbers of fibers and of workers: one, another after each trouble, one unloading.
Id == 1 .. MaxTroubles + 2

Trouble == outside.troubles < MaxTroubles
Troubled(field) == [outside EXCEPT ![field] = FALSE, !.troubles = @ + 1]

-----------------------------------------------------------------------------
(* The store.                                                              *)

\* ensureStore, until it awaits: where its caller is then
Ensured ==
    IF runtime.disposed THEN "failed" ELSE IF runtime.published THEN "ensured" ELSE "ensuring"
Attempted == IF Ensured = "ensuring" /\ attempt = "none" THEN "creating" ELSE attempt

Told(k, outcome) ==
    IF k \in {None, Idle} THEN k ELSE [k EXCEPT !.at = IF @ = "ensuring" THEN outcome ELSE @]

\* The attempt settles, and with it every caller's await.
Settle(outcome) ==
    /\ attempt' = "none"
    /\ loop' = Told(loop, outcome)
    /\ monitors' = [t \in Task |-> Told(monitors[t], outcome)]
    /\ calls' = [c \in Caller |-> Told(calls[c], outcome)]

\* createStore
Create ==
    /\ attempt = "creating"
    /\ \/ /\ outside.database
          /\ store' = "open" /\ attempt' = "initializing"
          /\ UNCHANGED <<loop, monitors, calls>>
       \/ ~outside.database /\ Settle("failed") /\ UNCHANGED store
    /\ UNCHANGED <<world, runtime, fibers, live, shown, disposal>>

\* Faulty: nobody looks whether the plugin was unloaded meanwhile.
InitializeAnyway ==
    /\ attempt = "initializing"
    /\ runtime' = [runtime EXCEPT !.published = TRUE]
    /\ Settle("ensured")
    /\ UNCHANGED <<world, store, fibers, live, shown, disposal>>

\* The turn after store.initialize: a store that comes too late is closed.
Initialize ==
    /\ attempt = "initializing"
    /\ IF runtime.disposed
       THEN /\ store' = "closing" /\ attempt' = "closing"
            /\ UNCHANGED <<runtime, loop, monitors, calls>>
       ELSE /\ runtime' = [runtime EXCEPT !.published = TRUE]
            /\ Settle("ensured")
            /\ UNCHANGED store
    /\ UNCHANGED <<world, fibers, live, shown, disposal>>

\* Its closing was awaited, or timed out.
GiveUpStore ==
    /\ attempt = "closing" /\ Settle("failed")
    /\ UNCHANGED <<world, store, runtime, fibers, live, shown, disposal>>

\* A statement is answered or refused; a closed store refuses all.
Reachable == store = "open" /\ outside.database

-----------------------------------------------------------------------------
(* The loop, and the worker's fiber.                                       *)

\* The catch of the loop, or the end of it
At(place) == [at |-> place, fiber |-> None, worker |-> None]
Backoff == At(IF runtime.disposed THEN "stopped" ELSE "sleeping")

LoopTurn(at) ==
    /\ loop.at = at
    /\ UNCHANGED <<world, store, monitors, calls, shown, disposal>>

LoopFails ==
    /\ LoopTurn("failed") /\ loop' = Backoff
    /\ UNCHANGED <<attempt, runtime, fibers, live>>

\* retrySleep ends, also by the abort.
LoopWakes ==
    /\ LoopTurn("sleeping")
    /\ loop' = At(IF runtime.disposed THEN "stopped" ELSE Ensured)
    /\ attempt' = IF runtime.disposed THEN attempt ELSE Attempted
    /\ UNCHANGED <<runtime, fibers, live>>

\* installWorker, until it awaits its fiber
Install ==
    /\ LoopTurn("ensured")
    /\ \/ /\ runtime.worker # None \/ runtime.fiber # None
          /\ loop' = At("ready")
          /\ UNCHANGED <<runtime, fibers>>
       \/ /\ runtime.worker = None /\ runtime.fiber = None /\ ~outside.service
          /\ loop' = Backoff
          /\ UNCHANGED <<runtime, fibers>>
       \/ /\ runtime.worker = None /\ runtime.fiber = None /\ outside.service
          /\ \E f \in Id :
                /\ fibers[f].state = "unmade" /\ \A g \in Id : g < f => fibers[g].state # "unmade"
                /\ fibers' = [fibers EXCEPT ![f].state = "loading"]
                /\ runtime' = [runtime EXCEPT !.fiber = f]
                /\ loop' = [loop EXCEPT !.at = "mounting", !.fiber = f]
    /\ UNCHANGED <<attempt, live>>

\* fiber.dispose(), if it has not been called
Disposed(f) ==
    IF f = None THEN fibers
    ELSE [fibers EXCEPT ![f].state = IF @ = "gone" THEN @ ELSE "disposing"]

\* The fiber settled: with a worker, or what it left is undone.
Mounted ==
    /\ LoopTurn("mounting")
    /\ LET f == loop.fiber
       IN  /\ fibers[f].state \notin {"loading", "disposing"}
           /\ \/ /\ fibers[f].state = "active" /\ runtime.worker # None
                 /\ loop' = At("ready")
                 /\ UNCHANGED <<runtime, fibers>>
              \/ /\ fibers[f].state # "active" \/ runtime.worker = None
                 /\ loop' = [loop EXCEPT !.at = "undoing fiber", !.worker = runtime.worker]
                 /\ runtime' = [runtime EXCEPT !.worker = None,
                                               !.fiber = IF @ = f THEN None ELSE @]
                 /\ fibers' = Disposed(f)
    /\ UNCHANGED <<attempt, live>>

\* Faulty: the fiber is trusted to dispose of the worker.
UndoNothing ==
    /\ LoopTurn("undoing fiber")
    /\ loop' = [loop EXCEPT !.at = "undoing worker"]
    /\ UNCHANGED <<attempt, runtime, fibers, live>>

\* Either disposal is awaited within a bound.
UndoWorker ==
    /\ LoopTurn("undoing fiber")
    /\ live' = live \ {loop.worker}
    /\ loop' = [loop EXCEPT !.at = "undoing worker"]
    /\ UNCHANGED <<attempt, runtime, fibers>>

Undone ==
    /\ LoopTurn("undoing worker") /\ loop' = Backoff
    /\ UNCHANGED <<attempt, runtime, fibers, live>>

-----------------------------------------------------------------------------
FiberTurn(f, states) ==
    /\ fibers[f].state \in states
    /\ UNCHANGED <<rows, store, attempt, loop, monitors, calls, shown, disposal>>

Used == {fibers[f].worker : f \in Id} \cup live \cup {loop.worker}

\* new DistributedWorker
New(w) == w \notin Used /\ \A v \in Id : v < w => v \in Used

\* mount, by a fiber whose service is there
Mount(f) ==
    /\ FiberTurn(f, {"loading", "waiting"})
    /\ outside.service
    /\ IF runtime.disposed \/ runtime.worker # None
       THEN fibers' = [fibers EXCEPT ![f].state = "active"] /\ UNCHANGED <<runtime, live>>
       ELSE \E w \in Id :
            /\ New(w)
            /\ fibers' = [fibers EXCEPT ![f] = [state |-> "active", worker |-> w]]
            /\ runtime' = [runtime EXCEPT !.worker = w]
            /\ live' = live \cup {w}
    /\ UNCHANGED outside

\* The service went away first, or the mount failed once its worker had started,
\* with or without its effect.
Activate(f) ==
    /\ FiberTurn(f, {"loading"})
    /\ \/ /\ ~outside.service
          /\ fibers' = [fibers EXCEPT ![f].state = "waiting"]
          /\ UNCHANGED <<outside, runtime, live>>
       \/ /\ outside.service /\ ~runtime.disposed /\ runtime.worker = None
          /\ Trouble /\ outside' = [outside EXCEPT !.troubles = @ + 1]
          /\ \E w \in Id :
                /\ New(w)
                /\ \E v \in {None, w} : fibers' = [fibers EXCEPT ![f] = [state |-> "failed", worker |-> v]]
                /\ runtime' = [runtime EXCEPT !.worker = w]
                /\ live' = live \cup {w}

\* Faulty: the disposed worker stays the runtime's.
Remembered(w) == runtime

\* this.worker after the disposer of w's effect
Forgotten(w) == [runtime EXCEPT !.worker = IF @ = w THEN None ELSE @]

\* The effect's disposer, when the service is gone or the fiber is disposed of
Unmount(f) ==
    /\ FiberTurn(f, {"active", "disposing"})
    /\ \/ /\ fibers[f].state = "active" /\ ~outside.service
          /\ fibers' = [fibers EXCEPT ![f] = [state |-> "waiting", worker |-> None]]
       \/ /\ fibers[f].state = "disposing"
          /\ fibers' = [fibers EXCEPT ![f] = [state |-> "gone", worker |-> None]]
    /\ live' = live \ {fibers[f].worker}
    /\ runtime' = Forgotten(fibers[f].worker)
    /\ UNCHANGED outside

-----------------------------------------------------------------------------
(* Monitors and calls.                                                     *)

Monitored == {t \in Task : monitors[t] # None}

\* observe
Observed(t, state) ==
    [shown EXCEPT ![t] = IF state = "terminal" THEN "ended" ELSE IF @ = "absent" THEN "running" ELSE @]

\* monitor, called with a store
Follow(t) ==
    IF t \in Monitored \/ runtime.disposed \/ Cardinality(Monitored) >= MonitorLimit THEN monitors
    ELSE [monitors EXCEPT ![t] = [at |-> "ensured", aborted |-> FALSE, seen |-> None]]

\* Faulty: a failed read ends the monitor.
GivenUp(k) == None

\* A failed read is retried after a delay.
Retried(k) == [k EXCEPT !.at = "sleeping"]

MonitorTurn(t) ==
    /\ t \in Monitored
    /\ UNCHANGED <<world, store, runtime, hosting, calls, disposal>>
    /\ LET k == monitors[t] IN
       \/ /\ k.at = "ensured" /\ Reachable
          /\ monitors' = [monitors EXCEPT ![t].at = "read", ![t].seen = rows[t]]
          /\ UNCHANGED <<attempt, shown>>
       \/ /\ k.at \in {"ensured", "read"} /\ ~Reachable
          /\ monitors' = [monitors EXCEPT ![t].at = "failed", ![t].seen = None]
          /\ UNCHANGED <<attempt, shown>>
       \/ /\ k.at \in {"read", "failed", "sleeping"} /\ k.aborted
          /\ monitors' = [monitors EXCEPT ![t] = None]
          /\ UNCHANGED <<attempt, shown>>
       \/ /\ k.at = "read" /\ ~k.aborted
          /\ shown' = Observed(t, k.seen)
          /\ monitors' = [monitors EXCEPT ![t] =
                IF k.seen = "terminal" THEN None ELSE [k EXCEPT !.at = "sleeping", !.seen = None]]
          /\ UNCHANGED attempt
       \/ /\ k.at = "failed" /\ ~k.aborted
          /\ monitors' = [monitors EXCEPT ![t] = Retried(k)]
          /\ UNCHANGED <<attempt, shown>>
       \/ /\ k.at = "sleeping" /\ ~k.aborted
          /\ monitors' = [monitors EXCEPT ![t].at = Ensured]
          /\ attempt' = Attempted
          /\ UNCHANGED shown

Begin(c) ==
    /\ calls[c] = Idle
    /\ \E t \in Task, op \in {"enqueue", "status", "cancel"} :
          calls' = [calls EXCEPT ![c] = [at |-> Ensured, op |-> op, task |-> t, seen |-> None]]
    /\ attempt' = Attempted
    /\ UNCHANGED <<world, store, runtime, hosting, monitors, shown, disposal>>

\* What the statement makes of the row; a running task ends after its cancellation.
Effects(op, state) ==
    IF op = "enqueue" /\ state = "absent" THEN {"open"}
    ELSE IF op = "cancel" /\ state = "open" THEN {"open", "terminal"} ELSE {state}

CallTurn(c) ==
    /\ calls[c] # Idle
    /\ UNCHANGED <<outside, store, attempt, runtime, hosting, disposal>>
    /\ LET k == calls[c] IN
       \/ /\ k.at = "ensured" /\ Reachable
          /\ \E state \in Effects(k.op, rows[k.task]) :
                /\ rows' = [rows EXCEPT ![k.task] = state]
                /\ calls' = [calls EXCEPT ![c] =
                      IF state = "absent" THEN Idle ELSE [k EXCEPT !.at = "answered", !.seen = state]]
          /\ UNCHANGED <<monitors, shown>>
       \/ /\ k.at = "failed" \/ (k.at \in {"ensured", "answered"} /\ ~Reachable)
          /\ calls' = [calls EXCEPT ![c] = Idle]
          /\ UNCHANGED <<rows, monitors, shown>>
       \/ /\ k.at = "answered"
          /\ shown' = Observed(k.task, k.seen)
          /\ monitors' = IF k.op = "enqueue" /\ k.seen # "terminal" THEN Follow(k.task) ELSE monitors
          /\ calls' = [calls EXCEPT ![c] = Idle]
          /\ UNCHANGED rows

-----------------------------------------------------------------------------
(* The disposal: each of its awaits may end by its time-out.               *)

Dispose ==
    /\ ~runtime.disposed
    /\ runtime' = [runtime EXCEPT !.disposed = TRUE]
    /\ monitors' = [t \in Task |-> IF t \in Monitored THEN [monitors[t] EXCEPT !.aborted = TRUE] ELSE None]
    /\ disposal' = "monitors"
    /\ UNCHANGED <<world, store, attempt, hosting, calls, shown>>

DisposeFiber ==
    /\ disposal = "monitors" /\ disposal' = "fiber"
    /\ fibers' = Disposed(runtime.fiber)
    /\ UNCHANGED <<live, store>>

DisposeWorker ==
    /\ disposal = "fiber" /\ disposal' = "worker"
    /\ live' = live \ {runtime.worker}
    /\ UNCHANGED <<fibers, store>>

\* after it awaited the worker's disposal and the loop's end
CloseStore ==
    /\ disposal = "worker" /\ disposal' = "done"
    /\ store' = IF runtime.published THEN "closing" ELSE store
    /\ UNCHANGED <<fibers, live>>

Disposal ==
    /\ DisposeFiber \/ DisposeWorker \/ CloseStore
    /\ UNCHANGED <<world, attempt, runtime, loop, monitors, calls, shown>>

-----------------------------------------------------------------------------
(* What is outside.                                                        *)

Outside(next) ==
    /\ outside' = next
    /\ UNCHANGED <<rows, store, attempt, runtime, hosting, monitors, calls, shown, disposal>>

Outage == outside.database /\ Trouble /\ Outside(Troubled("database"))
Recovery == ~outside.database /\ Outside([outside EXCEPT !.database = TRUE])
ServiceLost == outside.service /\ Trouble /\ Outside(Troubled("service"))
ServiceFound == ~outside.service /\ Outside([outside EXCEPT !.service = TRUE])

EndTask(t) ==
    /\ rows[t] = "open" /\ outside.database
    /\ rows' = [rows EXCEPT ![t] = "terminal"]
    /\ UNCHANGED <<outside, store, attempt, runtime, hosting, monitors, calls, shown, disposal>>

Closed ==
    /\ store = "closing" /\ store' = "closed"
    /\ UNCHANGED <<world, attempt, runtime, hosting, monitors, calls, shown, disposal>>

\* The constructor calls the loop, whose first turn begins the attempt.
Init ==
    /\ outside \in [database : BOOLEAN, service : BOOLEAN, troubles : {0}]
    /\ rows = [t \in Task |-> "absent"]
    /\ store = "unmade" /\ attempt = "creating"
    /\ runtime = [published |-> FALSE, disposed |-> FALSE, worker |-> None, fiber |-> None]
    /\ loop = At("ensuring")
    /\ fibers = [f \in Id |-> [state |-> "unmade", worker |-> None]]
    /\ live = {}
    /\ monitors = [t \in Task |-> None]
    /\ calls = [c \in Caller |-> Idle]
    /\ shown = [t \in Task |-> "absent"]
    /\ disposal = "none"

Open == Create \/ Initialize \/ GiveUpStore
Loop == LoopFails \/ LoopWakes \/ Install \/ Mounted \/ UndoWorker \/ Undone
Fiber(f) == Mount(f) \/ Activate(f) \/ Unmount(f)

Next ==
    \/ Open \/ Loop \/ Dispose \/ Disposal
    \/ \E f \in Id : Fiber(f)
    \/ \E t \in Task : MonitorTurn(t) \/ EndTask(t)
    \/ \E c \in Caller : Begin(c) \/ CallTurn(c)
    \/ Outage \/ Recovery \/ ServiceLost \/ ServiceFound \/ Closed

\* Promises settle and timers fire, the database comes back, tasks end; the
\* service need not come back, and nobody need unload the plugin or call.
Fairness ==
    /\ WF_vars(Open) /\ WF_vars(Loop) /\ WF_vars(Disposal)
    /\ \A f \in Id : WF_vars(Fiber(f))
    /\ \A t \in Task : WF_vars(MonitorTurn(t)) /\ WF_vars(EndTask(t))
    /\ \A c \in Caller : WF_vars(CallTurn(c))
    /\ WF_vars(Recovery) /\ WF_vars(Closed)

Spec == Init /\ [][Next]_vars /\ Fairness

-----------------------------------------------------------------------------
States == {"unmade", "loading", "waiting", "active", "failed", "disposing", "gone"}
Places == {"ensuring", "ensured", "failed", "sleeping"}

CoordinatorTypeOK ==
    /\ outside \in [database : BOOLEAN, service : BOOLEAN, troubles : 0 .. MaxTroubles]
    /\ rows \in [Task -> {"absent", "open", "terminal"}]
    /\ store \in {"unmade", "open", "closing", "closed"}
    /\ attempt \in {"none", "creating", "initializing", "closing"}
    /\ runtime \in [published : BOOLEAN, disposed : BOOLEAN,
                    worker : Id \cup {None}, fiber : Id \cup {None}]
    /\ loop \in [at : Places \cup {"mounting", "undoing fiber", "undoing worker", "ready", "stopped"},
                 fiber : Id \cup {None}, worker : Id \cup {None}]
    /\ fibers \in [Id -> [state : States, worker : Id \cup {None}]]
    /\ live \subseteq Id
    /\ monitors \in [Task -> [at : Places \cup {"read"}, aborted : BOOLEAN,
                              seen : {"open", "terminal", None}] \cup {None}]
    /\ calls \in [Caller -> [at : Places \cup {"answered"}, op : {"enqueue", "status", "cancel"},
                             task : Task, seen : {"open", "terminal", None}] \cup {Idle}]
    /\ shown \in [Task -> {"absent", "running", "ended"}]
    /\ disposal \in {"none", "monitors", "fiber", "worker", "done"}

(* A plugin instance never claims tasks with two workers of its workerId:  *)
(* whatever failed or timed out while one was taken down, the next one is  *)
(* started after it was disposed of.                                       *)
OneWorkerClaims == Cardinality(live) <= 1

(* "Coordinator and worker roles ... recover without a Harness restart":   *)
(* once the service stays, so does a worker, until the plugin is unloaded. *)
RecoversAlone ==
    <>[]outside.service => <>[](runtime.disposed \/ live # {})

(* The end of every task that a monitor follows comes to be shown, however *)
(* often the database is lost, as long as the plugin is loaded.            *)
EndsAreShown ==
    \A t \in Task : t \in Monitored ~> shown[t] = "ended" \/ runtime.disposed

Nothing ==
    /\ disposal = "done" /\ attempt = "none" /\ store \in {"unmade", "closed"}
    /\ live = {} /\ Monitored = {} /\ loop.at \in {"ready", "stopped"}
    /\ \A f \in Id : fibers[f].state \in {"unmade", "gone"}

(* An unloaded plugin leaves nothing behind, whatever was under way and    *)
(* whichever wait of its disposal timed out: no store, worker, fiber,      *)
(* monitor or retry, however late a database or a host answered.           *)
DisposalIsComplete == runtime.disposed ~> []Nothing
=============================================================================
