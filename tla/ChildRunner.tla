---------------------------- MODULE ChildRunner -----------------------------
(***************************************************************************)
(* runStructuredChild (dispatcher-child-runner.js) for the tasks of one    *)
(* process, each with one child at a time, and the agent host it asks to   *)
(* start and to dispose of that child.                                     *)
(*                                                                         *)
(* An action is one turn of the event loop, or one thing the host does.    *)
(* The host answers a start and a disposal late, never, or by refusing.    *)
(***************************************************************************)
EXTENDS Integers

CONSTANTS
    Task,
    SettlesInCatch  \* may a start settle while its aborted call returns

ASSUME ChildAssumption == SettlesInCatch \in BOOLEAN

VARIABLES
    child,      \* what became of the child of each task's last call
    place,      \* where each task's call is
    stopped,    \* the call's deadline.signal is aborted
    strays      \* ghost: tasks that started over an unconfirmed child

childVars == <<child, place, stopped, strays>>

(* starting: the start is awaited, or was given up.  unsure: dispose()     *)
(* rejected.                                                               *)
Child == {"none", "starting", "refused", "alive", "disposing", "gone", "unsure"}

(* thrown: the call's catch block is to run.  cleanup, unwinding: dispose()*)
(* is awaited, after a result and in the catch block.  returning: the catch*)
(* block had nothing to dispose of, and awaits no more than that.          *)
Place == {"idle", "starting", "running", "thrown", "cleanup", "unwinding", "returning"}

\* A child that may act on the workspace, now or once the host publishes it.
MayLive(t) ==
    t \in strays \/ child[t] \in {"starting", "alive", "disposing", "unsure"}

Published(t) == child[t] \in {"alive", "disposing", "gone", "unsure"}

-----------------------------------------------------------------------------
(* The call.                                                               *)

StartsChild(t) ==
    /\ child' = [child EXCEPT ![t] = "starting"]
    /\ place' = [place EXCEPT ![t] = "starting"]
    /\ stopped' = [stopped EXCEPT ![t] = FALSE]
    /\ strays' = IF MayLive(t) THEN strays \cup {t} ELSE strays

\* The abort event of deadline.signal: waitForSignal rejects.
Stops(S) ==
    /\ stopped' = [t \in Task |-> stopped[t] \/ (t \in S /\ place[t] # "idle")]
    /\ place' = [t \in Task |->
                    IF t \in S /\ place[t] \in {"starting", "running"}
                    THEN "thrown" ELSE place[t]]
    /\ UNCHANGED <<child, strays>>

TimesOut(t) ==
    /\ place[t] # "idle" /\ ~stopped[t]
    /\ Stops({t})

\* The child's result is there: its disposal begins.
Result(t) ==
    /\ place[t] = "running"
    /\ place' = [place EXCEPT ![t] = "cleanup"]
    /\ child' = [child EXCEPT ![t] = "disposing"]
    /\ UNCHANGED <<stopped, strays>>

ResultFails(t) ==
    /\ place[t] = "running"
    /\ place' = [place EXCEPT ![t] = "thrown"]
    /\ UNCHANGED <<child, stopped, strays>>

\* The catch block up to its await; disposeOnce begins at most one disposal.
Catch(t) ==
    /\ place[t] = "thrown"
    /\ place' = [place EXCEPT ![t] = IF Published(t) THEN "unwinding" ELSE "returning"]
    /\ child' = [child EXCEPT ![t] = IF @ = "alive" THEN "disposing" ELSE @]
    /\ UNCHANGED <<stopped, strays>>

\* Faulty: a disposal that never settles is awaited for ever.
CanReturnUnbounded(t) ==
    \/ place[t] = "returning"
    \/ place[t] \in {"cleanup", "unwinding"} /\ child[t] \in {"gone", "unsure"}

\* boundedSettlement has settled: with the disposal, or by its timer.
CanReturn(t) == place[t] \in {"cleanup", "unwinding", "returning"}

\* Faulty: a start that is still pending needs no fence.
UnconfirmedIfPublished(t) ==
    place[t] # "returning" /\ child[t] # "gone"

\* The call's result carries `quarantine'.
Unconfirmed(t) ==
    IF place[t] = "returning" THEN child[t] = "starting" ELSE child[t] # "gone"

\* infrastructureFailure
Infrastructure(t) ==
    Unconfirmed(t) \/ (place[t] \in {"unwinding", "returning"} /\ ~stopped[t])

\* The call may return ok.
MaySucceed(t) == place[t] = "cleanup" /\ child[t] = "gone" /\ ~stopped[t]

-----------------------------------------------------------------------------
(* The host.                                                               *)

\* The start settles with a child.  After an abort its handler disposes of
\* the child at once.
Publish(t) ==
    /\ child[t] = "starting"
    /\ place[t] = "returning" => SettlesInCatch
    /\ child' = [child EXCEPT ![t] = IF stopped[t] THEN "disposing" ELSE "alive"]
    /\ place' = [place EXCEPT ![t] = IF @ = "starting" THEN "running" ELSE @]
    /\ UNCHANGED <<stopped, strays>>

Refuse(t) ==
    /\ child[t] = "starting"
    /\ child' = [child EXCEPT ![t] = "refused"]
    /\ place' = [place EXCEPT ![t] = IF @ = "starting" THEN "thrown" ELSE @]
    /\ UNCHANGED <<stopped, strays>>

DisposalSettles(t) ==
    /\ child[t] = "disposing"
    /\ \E c \in {"gone", "unsure"} : child' = [child EXCEPT ![t] = c]
    /\ UNCHANGED <<place, stopped, strays>>

-----------------------------------------------------------------------------
ChildInit ==
    /\ child = [t \in Task |-> "none"]
    /\ place = [t \in Task |-> "idle"]
    /\ stopped = [t \in Task |-> FALSE]
    /\ strays = {}

Host(t) == Publish(t) \/ Refuse(t) \/ DisposalSettles(t) \/ Result(t) \/ ResultFails(t)
=============================================================================
