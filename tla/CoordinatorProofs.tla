------------------------- MODULE CoordinatorProofs -------------------------
(***************************************************************************)
(* A plugin instance never has two workers that claim tasks, for any tasks *)
(* and callers and any number of outages, losses of the service and failed *)
(* activations.                                                            *)
(*                                                                         *)
(* The guard of a mount is that the runtime knows no worker.  The catch    *)
(* block of installWorker forgets the runtime's worker before it is        *)
(* disposed of, so the guard alone shows nothing: what every step keeps is *)
(* that the worker that lives is the runtime's, or the one the catch block *)
(* is undoing, and that no fiber can mount while it does.                  *)
(***************************************************************************)
EXTENDS Coordinator, FiniteSetTheorems, TLAPS

LoopRec == [at : Places \cup {"mounting", "undoing fiber", "undoing worker", "ready", "stopped"},
            fiber : Id \cup {None}, worker : Id \cup {None}]
RuntimeRec == [published : BOOLEAN, disposed : BOOLEAN,
               worker : Id \cup {None}, fiber : Id \cup {None}]
FiberRec == [state : States, worker : Id \cup {None}]
MonitorRec == [at : Places \cup {"read"}, aborted : BOOLEAN, seen : {"open", "terminal", None}]
CallRec == [at : Places \cup {"answered"}, op : {"enqueue", "status", "cancel"},
            task : Task, seen : {"open", "terminal", None}]

HostTypeOK ==
    /\ runtime \in RuntimeRec /\ loop \in LoopRec
    /\ fibers \in [Id -> FiberRec] /\ live \subseteq Id

\* The worker that may live
Known == IF loop.at = "undoing fiber" THEN loop.worker ELSE runtime.worker

\* Only the runtime's fiber can mount, and it is given up before its worker is.
WorkersKnown ==
    /\ \A f \in Id : fibers[f].state \notin {"unmade", "disposing", "gone"} => f = runtime.fiber
    /\ loop.at = "mounting" => loop.fiber = runtime.fiber
    /\ loop.at = "undoing fiber" => runtime.fiber = None
    /\ live \subseteq {Known} \ {None}

HostOK == HostTypeOK /\ WorkersKnown

TaskTypeOK ==
    /\ rows \in [Task -> {"absent", "open", "terminal"}]
    /\ monitors \in [Task -> MonitorRec \cup {None}]
    /\ calls \in [Caller -> CallRec \cup {Idle}]
    /\ shown \in [Task -> {"absent", "running", "ended"}]

\* Nobody follows a task, or has a record of one, that is not in the database.
RowsKnown ==
    /\ \A t \in Task : monitors[t] # None => rows[t] # "absent"
    /\ \A c \in Caller :
          calls[c] # Idle /\ calls[c].at = "answered" => rows[calls[c].task] # "absent"

TaskOK == TaskTypeOK /\ RowsKnown

RestOK ==
    /\ outside \in [database : BOOLEAN, service : BOOLEAN, troubles : 0 .. MaxTroubles]
    /\ store \in {"unmade", "open", "closing", "closed"}
    /\ attempt \in {"none", "creating", "initializing", "closing"}
    /\ disposal \in {"none", "monitors", "fiber", "worker", "done"}

IInv == HostOK /\ TaskOK /\ RestOK

LEMMA NoneIsNoId == None \notin Id
BY CoordinatorAssumption DEF Id

LEMMA InitIInv == Init => IInv
<1> SUFFICES ASSUME Init PROVE IInv
  OBVIOUS
<1>1. HostOK
  BY DEF Init, HostOK, HostTypeOK, WorkersKnown, Known, At, LoopRec, RuntimeRec, FiberRec, Places,
         States
<1>2. TaskOK
  BY DEF Init, TaskOK, TaskTypeOK, RowsKnown
<1>3. RestOK
  BY CoordinatorAssumption DEF Init, RestOK
<1> QED
  BY <1>1, <1>2, <1>3 DEF IInv

-----------------------------------------------------------------------------
(* The host's side: runtime, loop, fibers and live.                        *)

LEMMA ToldLoop ==
    ASSUME HostOK, NEW outcome \in {"ensured", "failed"}, loop' = Told(loop, outcome),
           runtime' \in RuntimeRec, runtime'.worker = runtime.worker,
           runtime'.fiber = runtime.fiber, UNCHANGED <<fibers, live>>
    PROVE  HostOK'
<1>1. loop' = loop \/ (loop.at = "ensuring" /\ loop' = [loop EXCEPT !.at = outcome])
  BY DEF Told, HostOK, HostTypeOK, LoopRec
<1>2. CASE loop' = loop
  BY <1>2 DEF HostOK, HostTypeOK, WorkersKnown, Known
<1>3. CASE loop.at = "ensuring" /\ loop' = [loop EXCEPT !.at = outcome]
  <2>1. /\ loop' \in LoopRec /\ loop'.at = outcome
        /\ loop'.fiber = loop.fiber /\ loop'.worker = loop.worker
    BY <1>3 DEF HostOK, HostTypeOK, LoopRec, Places
  <2> QED
    BY <1>3, <2>1 DEF HostOK, HostTypeOK, WorkersKnown, Known
<1> QED
  BY <1>1, <1>2, <1>3

LEMMA OpenHost == ASSUME HostOK, Open PROVE HostOK'
<1>1. CASE Create
  <2>1. CASE attempt' = "initializing"
    BY <1>1, <2>1 DEF Create, Settle, HostOK, HostTypeOK, WorkersKnown, Known
  <2>2. CASE Settle("failed")
    BY <1>1, <2>2, ToldLoop DEF Create, Settle, HostOK, HostTypeOK
  <2> QED
    BY <1>1, <2>1, <2>2 DEF Create
<1>2. CASE Initialize
  <2>1. CASE runtime.disposed
    BY <1>2, <2>1 DEF Initialize, HostOK, HostTypeOK, WorkersKnown, Known
  <2>2. CASE ~runtime.disposed
    <3>1. runtime' \in RuntimeRec /\ runtime'.worker = runtime.worker /\ runtime'.fiber = runtime.fiber
      BY <1>2, <2>2 DEF Initialize, HostOK, HostTypeOK, RuntimeRec
    <3> QED
      BY <1>2, <2>2, <3>1, ToldLoop DEF Initialize, Settle
  <2> QED
    BY <2>1, <2>2
<1>3. CASE GiveUpStore
  BY <1>3, ToldLoop DEF GiveUpStore, Settle, HostOK, HostTypeOK
<1> QED
  BY <1>1, <1>2, <1>3 DEF Open

LEMMA EnsuredIsPlace == Ensured \in {"failed", "ensured", "ensuring"}
BY DEF Ensured

\* Any turn of the loop that ends with At(place)
LEMMA AtHost ==
    ASSUME HostOK, NEW place \in {"stopped", "sleeping", "ready", "failed", "ensured", "ensuring"},
           loop' = At(place), UNCHANGED <<runtime, fibers>>,
           loop.at = "undoing fiber" => live = {}, live' = live
    PROVE  HostOK'
<1>1. /\ loop' \in LoopRec /\ loop'.at = place
      /\ loop'.at \notin {"mounting", "undoing fiber"}
  BY DEF At, LoopRec, Places
<1> QED
  BY <1>1 DEF HostOK, HostTypeOK, WorkersKnown, Known

LEMMA DisposedOK ==
    ASSUME HostTypeOK, NEW f \in Id \cup {None}
    PROVE  /\ Disposed(f) \in [Id -> FiberRec]
           /\ f \in Id => Disposed(f)[f].state \in {"disposing", "gone"}
           /\ \A g \in Id : g # f => Disposed(f)[g] = fibers[g]
           /\ \A g \in Id : Disposed(f)[g] = fibers[g] \/ Disposed(f)[g].state \in {"disposing", "gone"}
<1>1. CASE f = None
  BY <1>1, NoneIsNoId DEF Disposed, HostTypeOK
<1>2. CASE f \in Id
  BY <1>2, NoneIsNoId DEF Disposed, HostTypeOK, FiberRec, States
<1> QED
  BY <1>1, <1>2

LEMMA LoopHost == ASSUME HostOK, Loop PROVE HostOK'
<1>1. CASE LoopFails
  BY <1>1, AtHost DEF LoopFails, LoopTurn, Backoff
<1>2. CASE LoopWakes
  BY <1>2, AtHost, EnsuredIsPlace DEF LoopWakes, LoopTurn
<1>3. CASE Install
  <2>1. CASE loop' \in {At("ready"), Backoff}
    <3>1. UNCHANGED <<runtime, fibers, live>> \/ loop'.at = "mounting"
      BY <1>3 DEF Install, LoopTurn, HostOK, HostTypeOK, LoopRec
    <3>2. loop'.at \in {"ready", "stopped", "sleeping"}
      BY <2>1 DEF At, Backoff
    <3> QED
      BY <1>3, <2>1, <3>1, <3>2, AtHost DEF Install, LoopTurn, Backoff
  <2>2. CASE loop' \notin {At("ready"), Backoff}
    <3>1. PICK f \in Id :
             /\ fibers' = [fibers EXCEPT ![f].state = "loading"]
             /\ runtime' = [runtime EXCEPT !.fiber = f]
             /\ loop' = [loop EXCEPT !.at = "mounting", !.fiber = f]
             /\ runtime.fiber = None /\ loop.at = "ensured" /\ live' = live
      BY <1>3, <2>2 DEF Install, LoopTurn
    <3>2. HostTypeOK'
      BY <3>1 DEF HostOK, HostTypeOK, RuntimeRec, LoopRec, FiberRec, States
    <3>3. \A g \in Id : fibers[g].state \in {"unmade", "disposing", "gone"}
      BY <3>1, NoneIsNoId DEF HostOK, WorkersKnown
    <3>4. /\ runtime'.fiber = f /\ runtime'.worker = runtime.worker
          /\ loop'.fiber = f /\ loop'.at = "mounting"
          /\ \A g \in Id \ {f} : fibers'[g] = fibers[g]
      BY <3>1 DEF HostOK, HostTypeOK, RuntimeRec, LoopRec
    <3> QED
      BY <3>1, <3>2, <3>3, <3>4 DEF HostOK, WorkersKnown, Known
  <2> QED
    BY <2>1, <2>2
<1>4. CASE Mounted
  <2> DEFINE f == loop.fiber
  <2>1. CASE loop' = At("ready") /\ UNCHANGED <<runtime, fibers>>
    BY <1>4, <2>1, AtHost DEF Mounted, LoopTurn
  <2>2. CASE /\ loop' = [loop EXCEPT !.at = "undoing fiber", !.worker = runtime.worker]
             /\ runtime' = [runtime EXCEPT !.worker = None,
                                           !.fiber = IF @ = f THEN None ELSE @]
             /\ fibers' = Disposed(f)
    <3>1. loop.at = "mounting" /\ f = runtime.fiber /\ f \in Id \cup {None} /\ live' = live
      BY <1>4 DEF Mounted, LoopTurn, HostOK, HostTypeOK, WorkersKnown, RuntimeRec
    <3>2. /\ runtime' \in RuntimeRec /\ runtime'.fiber = None
          /\ loop' \in LoopRec /\ loop'.at = "undoing fiber" /\ loop'.worker = runtime.worker
      BY <2>2, <3>1 DEF HostOK, HostTypeOK, RuntimeRec, LoopRec
    <3>3. fibers' \in [Id -> FiberRec]
      BY <2>2, <3>1, DisposedOK DEF HostOK
    <3>4. \A g \in Id : fibers'[g].state \in {"unmade", "disposing", "gone"}
      BY <2>2, <3>1, DisposedOK DEF HostOK, WorkersKnown
    <3>5. live \subseteq {runtime.worker} \ {None}
      BY <3>1 DEF HostOK, WorkersKnown, Known
    <3> QED
      BY <3>1, <3>2, <3>3, <3>4, <3>5 DEF HostOK, HostTypeOK, WorkersKnown, Known
  <2> QED
    BY <1>4, <2>1, <2>2 DEF Mounted
<1>5. CASE UndoWorker
  <2>1. /\ loop' = [loop EXCEPT !.at = "undoing worker"] /\ live' = {}
        /\ UNCHANGED <<runtime, fibers>>
    BY <1>5 DEF UndoWorker, LoopTurn, HostOK, WorkersKnown, Known
  <2>2. loop' \in LoopRec /\ loop'.at = "undoing worker"
    BY <2>1 DEF HostOK, HostTypeOK, LoopRec
  <2> QED
    BY <2>1, <2>2 DEF HostOK, HostTypeOK, WorkersKnown
<1>6. CASE Undone
  BY <1>6, AtHost DEF Undone, LoopTurn, Backoff
<1> QED
  BY <1>1, <1>2, <1>3, <1>4, <1>5, <1>6 DEF Loop

\* A new worker, started by a fiber that may mount
LEMMA MountedHost ==
    ASSUME HostOK, NEW f \in Id, fibers[f].state \in {"loading", "waiting"},
           runtime.worker = None, NEW w \in Id,
           fibers' \in [Id -> FiberRec], \A g \in Id \ {f} : fibers'[g] = fibers[g],
           runtime' = [runtime EXCEPT !.worker = w],
           live' = live \cup {w}, loop' = loop
    PROVE  HostOK'
<1>1. f = runtime.fiber /\ f # None /\ w # None
  BY NoneIsNoId DEF HostOK, WorkersKnown
<1>2. loop.at # "undoing fiber" /\ live = {}
  BY <1>1 DEF HostOK, WorkersKnown, Known
<1>3. runtime' \in RuntimeRec /\ runtime'.worker = w /\ runtime'.fiber = f
  BY <1>1 DEF HostOK, HostTypeOK, RuntimeRec
<1> QED
  BY <1>1, <1>2, <1>3 DEF HostOK, HostTypeOK, WorkersKnown, Known

\* A fiber that mounts nothing: it settled, or it waits for its service.
LEMMA SettledHost ==
    ASSUME HostOK, NEW f \in Id, fibers[f].state \in {"loading", "waiting"},
           fibers' \in [Id -> FiberRec], \A g \in Id \ {f} : fibers'[g] = fibers[g],
           UNCHANGED <<runtime, live, loop>>
    PROVE  HostOK'
BY DEF HostOK, HostTypeOK, WorkersKnown, Known

LEMMA FiberHost == ASSUME HostOK, NEW f \in Id, Fiber(f) PROVE HostOK'
<1>0. fibers \in [Id -> FiberRec] /\ fibers[f] \in FiberRec
  BY DEF HostOK, HostTypeOK
<1>1. CASE Mount(f)
  <2>1. fibers[f].state \in {"loading", "waiting"} /\ loop' = loop
    BY <1>1 DEF Mount, FiberTurn
  <2>2. CASE fibers' = [fibers EXCEPT ![f].state = "active"] /\ UNCHANGED <<runtime, live>>
    <3>1. fibers' \in [Id -> FiberRec] /\ \A g \in Id \ {f} : fibers'[g] = fibers[g]
      BY <1>0, <2>2 DEF FiberRec, States
    <3> QED
      BY <2>1, <2>2, <3>1, SettledHost
  <2>3. ASSUME runtime.worker = None,
               NEW w \in Id, fibers' = [fibers EXCEPT ![f] = [state |-> "active", worker |-> w]],
               runtime' = [runtime EXCEPT !.worker = w], live' = live \cup {w}
        PROVE  HostOK'
    <3>1. fibers' \in [Id -> FiberRec] /\ \A g \in Id \ {f} : fibers'[g] = fibers[g]
      BY <1>0, <2>3 DEF FiberRec, States
    <3> QED
      BY <2>1, <2>3, <3>1, MountedHost
  <2> QED
    BY <1>1, <2>2, <2>3 DEF Mount
<1>2. CASE Activate(f)
  <2>1. fibers[f].state = "loading" /\ loop' = loop
    BY <1>2 DEF Activate, FiberTurn
  <2>2. CASE fibers' = [fibers EXCEPT ![f].state = "waiting"] /\ UNCHANGED <<runtime, live>>
    <3>1. fibers' \in [Id -> FiberRec] /\ \A g \in Id \ {f} : fibers'[g] = fibers[g]
      BY <1>0, <2>2 DEF FiberRec, States
    <3> QED
      BY <2>1, <2>2, <3>1, SettledHost
  <2>3. ASSUME runtime.worker = None,
               NEW w \in Id, NEW v \in {None, w},
               fibers' = [fibers EXCEPT ![f] = [state |-> "failed", worker |-> v]],
               runtime' = [runtime EXCEPT !.worker = w], live' = live \cup {w}
        PROVE  HostOK'
    <3>1. fibers' \in [Id -> FiberRec] /\ \A g \in Id \ {f} : fibers'[g] = fibers[g]
      BY <1>0, <2>3 DEF FiberRec, States
    <3> QED
      BY <2>1, <2>3, <3>1, MountedHost
  <2> QED
    BY <1>2, <2>2, <2>3 DEF Activate
<1>3. CASE Unmount(f)
  <2>1. /\ fibers' \in [Id -> FiberRec] /\ \A g \in Id \ {f} : fibers'[g] = fibers[g]
        /\ fibers[f].state = "active" \/ fibers'[f].state = "gone"
    BY <1>0, <1>3 DEF Unmount, FiberTurn, FiberRec, States
  <2>2. /\ runtime' = Forgotten(fibers[f].worker)
        /\ live' = live \ {fibers[f].worker} /\ loop' = loop
    BY <1>3 DEF Unmount, FiberTurn
  <2>3. /\ runtime' \in RuntimeRec /\ runtime'.fiber = runtime.fiber
        /\ runtime'.worker = IF runtime.worker = fibers[f].worker THEN None ELSE runtime.worker
    BY <2>2 DEF Forgotten, HostOK, HostTypeOK, RuntimeRec
  <2>4. \A g \in Id : fibers'[g].state \notin {"unmade", "disposing", "gone"} => g = runtime'.fiber
    BY <2>1, <2>3 DEF HostOK, WorkersKnown
  <2>5. live' \subseteq {Known'} \ {None}
    BY <2>2, <2>3 DEF HostOK, WorkersKnown, Known
  <2> QED
    BY <2>1, <2>2, <2>3, <2>4, <2>5 DEF HostOK, HostTypeOK, WorkersKnown
<1> QED
  BY <1>1, <1>2, <1>3 DEF Fiber

LEMMA DisposalHost == ASSUME HostOK, Disposal PROVE HostOK'
<1>0. UNCHANGED <<runtime, loop>>
  BY DEF Disposal
<1>1. CASE DisposeFiber
  <2>1. fibers' = Disposed(runtime.fiber) /\ live' = live /\ runtime.fiber \in Id \cup {None}
    BY <1>1 DEF DisposeFiber, HostOK, HostTypeOK, RuntimeRec
  <2>2. /\ fibers' \in [Id -> FiberRec]
        /\ \A g \in Id : fibers'[g] = fibers[g] \/ fibers'[g].state \in {"disposing", "gone"}
    BY <2>1, DisposedOK DEF HostOK
  <2> QED
    BY <1>0, <2>1, <2>2 DEF HostOK, HostTypeOK, WorkersKnown, Known
<1>2. CASE DisposeWorker \/ CloseStore
  BY <1>0, <1>2 DEF DisposeWorker, CloseStore, HostOK, HostTypeOK, WorkersKnown, Known
<1> QED
  BY <1>1, <1>2 DEF Disposal

LEMMA DisposeHost == ASSUME HostOK, Dispose PROVE HostOK'
<1>1. /\ runtime' = [runtime EXCEPT !.disposed = TRUE]
      /\ UNCHANGED <<loop, fibers, live>>
  BY DEF Dispose, hosting
<1>2. runtime' \in RuntimeRec /\ runtime'.worker = runtime.worker /\ runtime'.fiber = runtime.fiber
  BY <1>1 DEF HostOK, HostTypeOK, RuntimeRec
<1> QED
  BY <1>1, <1>2 DEF HostOK, HostTypeOK, WorkersKnown, Known

LEMMA QuietHost == ASSUME HostOK, UNCHANGED <<runtime, loop, fibers, live>> PROVE HostOK'
BY DEF HostOK, HostTypeOK, WorkersKnown, Known

LEMMA NextHost == ASSUME HostOK, [Next]_vars PROVE HostOK'
<1>1. CASE Open
  BY <1>1, OpenHost
<1>2. CASE Loop
  BY <1>2, LoopHost
<1>3. CASE \E f \in Id : Fiber(f)
  BY <1>3, FiberHost
<1>4. CASE Dispose
  BY <1>4, DisposeHost
<1>5. CASE Disposal
  BY <1>5, DisposalHost
<1>6. CASE \E t \in Task : MonitorTurn(t) \/ EndTask(t)
  BY <1>6, QuietHost DEF MonitorTurn, EndTask, hosting
<1>7. CASE \E c \in Caller : Begin(c) \/ CallTurn(c)
  BY <1>7, QuietHost DEF Begin, CallTurn, hosting
<1>8. CASE Outage \/ Recovery \/ ServiceLost \/ ServiceFound \/ Closed
  BY <1>8, QuietHost DEF Outage, Recovery, ServiceLost, ServiceFound, Closed, Outside, hosting
<1>9. CASE UNCHANGED vars
  BY <1>9, QuietHost DEF vars
<1> QED
  BY <1>1, <1>2, <1>3, <1>4, <1>5, <1>6, <1>7, <1>8, <1>9 DEF Next

-----------------------------------------------------------------------------
(* The tasks' side: rows, monitors, calls and shown.                       *)

LEMMA ToldTasks ==
    ASSUME TaskOK, NEW outcome \in {"ensured", "failed"}, UNCHANGED <<rows, shown>>,
           monitors' = [t \in Task |-> Told(monitors[t], outcome)],
           calls' = [c \in Caller |-> Told(calls[c], outcome)]
    PROVE  TaskOK'
<1>1. ASSUME NEW t \in Task
      PROVE  /\ monitors'[t] \in MonitorRec \cup {None}
             /\ monitors'[t] # None => monitors[t] # None
  <2>1. monitors'[t] = Told(monitors[t], outcome) /\ monitors[t] \in MonitorRec \cup {None}
    BY DEF TaskOK, TaskTypeOK
  <2> QED
    BY <2>1 DEF Told, MonitorRec, Places
<1>2. ASSUME NEW c \in Caller
      PROVE  /\ calls'[c] \in CallRec \cup {Idle}
             /\ calls'[c] # Idle /\ calls'[c].at = "answered" => calls'[c] = calls[c]
  <2>1. calls'[c] = Told(calls[c], outcome) /\ calls[c] \in CallRec \cup {Idle}
    BY DEF TaskOK, TaskTypeOK
  <2> QED
    BY <2>1 DEF Told, CallRec, Places
<1> QED
  BY <1>1, <1>2 DEF TaskOK, TaskTypeOK, RowsKnown

LEMMA QuietTasks == ASSUME TaskOK, UNCHANGED <<rows, monitors, calls, shown>> PROVE TaskOK'
BY DEF TaskOK, TaskTypeOK, RowsKnown

LEMMA OpenTasks == ASSUME TaskOK, Open PROVE TaskOK'
<1>1. UNCHANGED <<rows, shown>>
  BY DEF Open, Create, Initialize, GiveUpStore, world
<1>2. CASE UNCHANGED <<monitors, calls>>
  BY <1>1, <1>2, QuietTasks
<1>3. CASE \E outcome \in {"ensured", "failed"} : Settle(outcome)
  BY <1>1, <1>3, ToldTasks DEF Settle
<1> QED
  BY <1>2, <1>3 DEF Open, Create, Initialize, GiveUpStore

LEMMA ObservedOK ==
    ASSUME shown \in [Task -> {"absent", "running", "ended"}], NEW t \in Task, NEW state
    PROVE  Observed(t, state) \in [Task -> {"absent", "running", "ended"}]
BY DEF Observed

LEMMA MonitorTasks == ASSUME TaskOK, NEW t \in Task, MonitorTurn(t) PROVE TaskOK'
<1> DEFINE k == monitors[t]
<1>1. /\ k # None /\ k \in MonitorRec /\ rows[t] \in {"open", "terminal"}
      /\ UNCHANGED <<rows, calls>>
  BY DEF MonitorTurn, Monitored, world, TaskOK, TaskTypeOK, RowsKnown
<1>2. shown' \in [Task -> {"absent", "running", "ended"}]
  BY ObservedOK DEF MonitorTurn, TaskOK, TaskTypeOK
<1>3. \E r \in MonitorRec \cup {None} : monitors' = [monitors EXCEPT ![t] = r]
  <2>1. CASE /\ k.at = "ensured"
             /\ monitors' = [monitors EXCEPT ![t].at = "read", ![t].seen = rows[t]]
    <3>1. monitors' = [monitors EXCEPT ![t] = [k EXCEPT !.at = "read", !.seen = rows[t]]]
      BY <2>1 DEF TaskOK, TaskTypeOK
    <3> QED
      BY <1>1, <3>1 DEF MonitorRec
  <2>2. CASE monitors' = [monitors EXCEPT ![t].at = "failed", ![t].seen = None]
    <3>1. monitors' = [monitors EXCEPT ![t] = [k EXCEPT !.at = "failed", !.seen = None]]
      BY <2>2 DEF TaskOK, TaskTypeOK
    <3> QED
      BY <1>1, <3>1 DEF MonitorRec, Places
  <2>3. CASE monitors' = [monitors EXCEPT ![t] = None]
    BY <2>3
  <2>4. CASE monitors' = [monitors EXCEPT ![t] =
                IF k.seen = "terminal" THEN None ELSE [k EXCEPT !.at = "sleeping", !.seen = None]]
    BY <1>1, <2>4 DEF MonitorRec, Places
  <2>5. CASE monitors' = [monitors EXCEPT ![t] = Retried(k)]
    BY <1>1, <2>5 DEF Retried, MonitorRec, Places
  <2>6. CASE monitors' = [monitors EXCEPT ![t].at = Ensured]
    <3>1. monitors' = [monitors EXCEPT ![t] = [k EXCEPT !.at = Ensured]]
      BY <2>6 DEF TaskOK, TaskTypeOK
    <3> QED
      BY <1>1, <3>1, EnsuredIsPlace DEF MonitorRec, Places
  <2> QED
    BY <2>1, <2>2, <2>3, <2>4, <2>5, <2>6 DEF MonitorTurn
<1> QED
  BY <1>1, <1>2, <1>3 DEF TaskOK, TaskTypeOK, RowsKnown

LEMMA FollowOK ==
    ASSUME TaskOK, NEW t \in Task, rows[t] # "absent"
    PROVE  /\ Follow(t) \in [Task -> MonitorRec \cup {None}]
           /\ \A u \in Task : Follow(t)[u] # None => rows[u] # "absent"
<1>1. [at |-> "ensured", aborted |-> FALSE, seen |-> None] \in MonitorRec
  BY DEF MonitorRec, Places
<1> QED
  BY <1>1 DEF Follow, TaskOK, TaskTypeOK, RowsKnown

LEMMA CallTasks == ASSUME TaskOK, NEW c \in Caller, CallTurn(c) PROVE TaskOK'
<1> DEFINE k == calls[c]
<1>1. k # Idle /\ k \in CallRec /\ k.task \in Task
  BY DEF CallTurn, TaskOK, TaskTypeOK, CallRec
<1>2. ASSUME NEW state \in Effects(k.op, rows[k.task]),
             rows' = [rows EXCEPT ![k.task] = state],
             calls' = [calls EXCEPT ![c] =
                 IF state = "absent" THEN Idle ELSE [k EXCEPT !.at = "answered", !.seen = state]],
             UNCHANGED <<monitors, shown>>
      PROVE  TaskOK'
  <2>1. /\ state \in {"absent", "open", "terminal"}
        /\ rows[k.task] # "absent" => state # "absent"
    BY <1>1 DEF Effects, TaskOK, TaskTypeOK
  <2>2. /\ calls'[c] \in CallRec \cup {Idle}
        /\ calls'[c] # Idle => state # "absent" /\ calls'[c].task = k.task
    BY <1>1, <1>2, <2>1 DEF CallRec, TaskOK, TaskTypeOK
  <2>3. \A d \in Caller \ {c} : calls'[d] = calls[d]
    BY <1>2 DEF TaskOK, TaskTypeOK
  <2>4. calls' \in [Caller -> CallRec \cup {Idle}]
    BY <1>2, <2>2, <2>3 DEF TaskOK, TaskTypeOK
  <2>5. /\ rows' \in [Task -> {"absent", "open", "terminal"}]
        /\ rows'[k.task] = state
        /\ \A t \in Task : rows[t] # "absent" => rows'[t] # "absent"
    BY <1>1, <1>2, <2>1 DEF TaskOK, TaskTypeOK
  <2>6. ASSUME NEW d \in Caller, calls'[d] # Idle, calls'[d].at = "answered"
        PROVE  rows'[calls'[d].task] # "absent"
    <3>1. CASE d = c
      BY <2>2, <2>5, <2>6, <3>1
    <3>2. CASE d # c
      <4>1. calls[d] \in CallRec /\ rows[calls[d].task] # "absent" /\ calls[d].task \in Task
        BY <2>3, <2>6, <3>2 DEF TaskOK, TaskTypeOK, RowsKnown, CallRec
      <4> QED
        BY <2>3, <2>5, <3>2, <4>1
    <3> QED
      BY <3>1, <3>2
  <2> QED
    BY <1>2, <2>4, <2>5, <2>6 DEF TaskOK, TaskTypeOK, RowsKnown
<1>3. CASE calls' = [calls EXCEPT ![c] = Idle] /\ UNCHANGED <<rows, monitors, shown>>
  BY <1>3 DEF TaskOK, TaskTypeOK, RowsKnown
<1>4. ASSUME k.at = "answered", shown' = Observed(k.task, k.seen),
             monitors' \in {Follow(k.task), monitors},
             calls' = [calls EXCEPT ![c] = Idle], UNCHANGED rows
      PROVE  TaskOK'
  <2>1. shown' \in [Task -> {"absent", "running", "ended"}]
    BY <1>1, <1>4, ObservedOK DEF TaskOK, TaskTypeOK
  <2>2. rows[k.task] # "absent"
    BY <1>1, <1>4 DEF TaskOK, RowsKnown
  <2>3. /\ monitors' \in [Task -> MonitorRec \cup {None}]
        /\ \A u \in Task : monitors'[u] # None => rows[u] # "absent"
    BY <1>1, <1>4, <2>2, FollowOK DEF TaskOK, TaskTypeOK, RowsKnown
  <2> QED
    BY <1>4, <2>1, <2>3 DEF TaskOK, TaskTypeOK, RowsKnown
<1> QED
  BY <1>2, <1>3, <1>4 DEF CallTurn

LEMMA BeginTasks == ASSUME TaskOK, NEW c \in Caller, Begin(c) PROVE TaskOK'
<1>1. UNCHANGED <<rows, monitors, shown>>
  BY DEF Begin, world
<1>2. PICK t \in Task, op \in {"enqueue", "status", "cancel"} :
         calls' = [calls EXCEPT ![c] = [at |-> Ensured, op |-> op, task |-> t, seen |-> None]]
  BY DEF Begin
<1>3. [at |-> Ensured, op |-> op, task |-> t, seen |-> None] \in CallRec /\ Ensured # "answered"
  BY EnsuredIsPlace DEF CallRec, Places
<1> QED
  BY <1>1, <1>2, <1>3 DEF TaskOK, TaskTypeOK, RowsKnown

LEMMA DisposeTasks == ASSUME TaskOK, Dispose PROVE TaskOK'
<1>1. ASSUME NEW t \in Task
      PROVE  /\ monitors'[t] \in MonitorRec \cup {None}
             /\ monitors'[t] # None => monitors[t] # None
  BY DEF Dispose, Monitored, TaskOK, TaskTypeOK, MonitorRec
<1> QED
  BY <1>1 DEF Dispose, world, TaskOK, TaskTypeOK, RowsKnown

LEMMA NextTasks == ASSUME TaskOK, [Next]_vars PROVE TaskOK'
<1>1. CASE Open
  BY <1>1, OpenTasks
<1>2. CASE Loop \/ Disposal \/ \E f \in Id : Fiber(f)
  BY <1>2, QuietTasks DEF Loop, LoopFails, LoopWakes, Install, Mounted, UndoWorker, Undone, LoopTurn,
                          Disposal, Fiber, Mount, Activate, Unmount, FiberTurn, world
<1>3. CASE Dispose
  BY <1>3, DisposeTasks
<1>4. CASE \E t \in Task : MonitorTurn(t)
  BY <1>4, MonitorTasks
<1>5. CASE \E t \in Task : EndTask(t)
  BY <1>5 DEF EndTask, TaskOK, TaskTypeOK, RowsKnown, CallRec
<1>6. CASE \E c \in Caller : Begin(c)
  BY <1>6, BeginTasks
<1>7. CASE \E c \in Caller : CallTurn(c)
  BY <1>7, CallTasks
<1>8. CASE Outage \/ Recovery \/ ServiceLost \/ ServiceFound \/ Closed
  BY <1>8, QuietTasks DEF Outage, Recovery, ServiceLost, ServiceFound, Closed, Outside, world
<1>9. CASE UNCHANGED vars
  BY <1>9, QuietTasks DEF vars
<1> QED
  BY <1>1, <1>2, <1>3, <1>4, <1>5, <1>6, <1>7, <1>8, <1>9 DEF Next

-----------------------------------------------------------------------------
LEMMA TroubledOK ==
    ASSUME RestOK, Trouble
    PROVE  /\ \A field \in {"database", "service"} :
                 Troubled(field) \in [database : BOOLEAN, service : BOOLEAN, troubles : 0 .. MaxTroubles]
           /\ [outside EXCEPT !.troubles = @ + 1]
                 \in [database : BOOLEAN, service : BOOLEAN, troubles : 0 .. MaxTroubles]
<1>1. /\ outside \in [database : BOOLEAN, service : BOOLEAN, troubles : 0 .. MaxTroubles]
      /\ outside.troubles + 1 \in 0 .. MaxTroubles
  BY CoordinatorAssumption DEF RestOK, Trouble
<1>2. Troubled("database") = [outside EXCEPT !.database = FALSE, !.troubles = @ + 1]
  BY DEF Troubled
<1>3. Troubled("service") = [outside EXCEPT !.service = FALSE, !.troubles = @ + 1]
  BY DEF Troubled
<1> QED
  BY <1>1, <1>2, <1>3

LEMMA AttemptedOK ==
    ASSUME RestOK PROVE Attempted \in {"none", "creating", "initializing", "closing"}
BY DEF RestOK, Attempted

LEMMA NextRest == ASSUME RestOK, [Next]_vars PROVE RestOK'
<1>1. CASE Open
  BY <1>1 DEF Open, Create, Initialize, GiveUpStore, Settle, RestOK, world
<1>2. CASE Loop
  BY <1>2, AttemptedOK DEF Loop, LoopFails, LoopWakes, Install, Mounted, UndoWorker, Undone, LoopTurn,
                           RestOK, world
<1>3. CASE \E f \in Id : Fiber(f)
  BY <1>3, TroubledOK DEF Fiber, Mount, Activate, Unmount, FiberTurn, RestOK
<1>4. CASE Dispose
  BY <1>4 DEF Dispose, RestOK, world
<1>5. CASE Disposal
  BY <1>5 DEF Disposal, DisposeFiber, DisposeWorker, CloseStore, RestOK, world
<1>6. CASE \E t \in Task : MonitorTurn(t) \/ EndTask(t)
  BY <1>6, AttemptedOK DEF MonitorTurn, EndTask, RestOK, world
<1>7. CASE \E c \in Caller : Begin(c) \/ CallTurn(c)
  BY <1>7, AttemptedOK DEF Begin, CallTurn, RestOK, world
<1>8. CASE Outage \/ ServiceLost
  BY <1>8, TroubledOK DEF Outage, ServiceLost, Outside, RestOK
<1>9. CASE Recovery \/ ServiceFound
  BY <1>9 DEF Recovery, ServiceFound, Outside, RestOK
<1>10. CASE Closed
  BY <1>10 DEF Closed, RestOK, world
<1>11. CASE UNCHANGED vars
  BY <1>11 DEF vars, RestOK
<1> QED
  BY <1>1, <1>2, <1>3, <1>4, <1>5, <1>6, <1>7, <1>8, <1>9, <1>10, <1>11 DEF Next

-----------------------------------------------------------------------------
(* The invariant holds for ever.                                           *)
LEMMA SpecIInv == Spec => []IInv
<1>1. IInv /\ [Next]_vars => IInv'
  BY NextHost, NextTasks, NextRest DEF IInv
<1> QED
  BY InitIInv, <1>1, PTL DEF Spec

(* Every variable of the coordinator keeps its type.                       *)
THEOREM CoordinatorTypeCorrect == Spec => []CoordinatorTypeOK
<1>1. IInv => CoordinatorTypeOK
  BY DEF IInv, HostOK, HostTypeOK, TaskOK, TaskTypeOK, RestOK, CoordinatorTypeOK, RuntimeRec,
         LoopRec, FiberRec, MonitorRec, CallRec
<1> QED
  BY SpecIInv, <1>1, PTL

(* A plugin instance never claims tasks with two workers: whatever failed  *)
(* while one was taken down, the next is started after its disposal.       *)
THEOREM WorkersAreOne == Spec => []OneWorkerClaims
<1>1. IInv => OneWorkerClaims
  <2> SUFFICES ASSUME IInv PROVE Cardinality(live) <= 1
    BY DEF OneWorkerClaims
  <2>1. live \subseteq {Known}
    BY DEF IInv, HostOK, WorkersKnown
  <2>2. IsFiniteSet({Known}) /\ Cardinality({Known}) = 1
    BY FS_Singleton
  <2> QED
    BY <2>1, <2>2, FS_Subset
<1> QED
  BY SpecIInv, <1>1, PTL

(* Nobody follows or reports a task that is not in the database.           *)
THEOREM FollowedTasksExist == Spec => []RowsKnown
BY SpecIInv, PTL DEF IInv, TaskOK
=============================================================================
