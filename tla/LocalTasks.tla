----------------------------- MODULE LocalTasks -----------------------------
(***************************************************************************)
(* DispatcherRuntime (dispatcher.js): the tasks a process runs itself,     *)
(* each a loop of executor and verifier children (runLegacyTaskPipeline),  *)
(* under workspace locks and lane circuits that survive a reload of the    *)
(* plugin.                                                                 *)
(*                                                                         *)
(* Task ids are fresh for every dispatch.  The boundary checks of a task   *)
(* and the verdicts of its children are left open.                         *)
(***************************************************************************)
EXTENDS ChildRunner

CONSTANTS
    None,
    Workspace, WorkspaceOf,     \* reservation keys
    Overlaps,                   \* pairs of distinct keys, one inside the other
    Lane, LaneOf,
    MaxAttempts, MaxConsecutiveFailures, CircuitCooldown,
    JobFailures,                \* where a failed jobs.start leaves a task
    MaxClock                    \* bound: Tick stops here

ASSUME LocalAssumption ==
    /\ None \notin Task
    /\ WorkspaceOf \in [Task -> Workspace]
    /\ Overlaps \subseteq Workspace \X Workspace
    /\ LaneOf \in [Task -> Lane]
    /\ MaxAttempts \in Nat \ {0}
    /\ MaxConsecutiveFailures \in Nat \ {0} /\ CircuitCooldown \in Nat \ {0}
    /\ JobFailures \subseteq {"registered", "ended"}
    /\ MaxClock \in Nat

VARIABLES
    locks,      \* the task that holds each key
    circuits,
    clock,
    phase,      \* what each task's pipeline does
    attempt,
    aborted,    \* unfinished tasks whose controller is aborted
    loaded,     \* a plugin instance accepts tasks
    outlived    \* ghost: unfinished tasks of instances that were unloaded

taskVars == <<locks, circuits, clock, phase, attempt, aborted, loaded, outlived>>
vars == <<childVars, taskVars>>

(* registered: the pipeline's first turn is still to come, at once or when *)
(* the job service gets to it.                                             *)
Phase == {"idle", "registered", "executor", "verifier", "ended"}

Active(t) == phase[t] \in {"registered", "executor", "verifier"}

-----------------------------------------------------------------------------
(* Locks and circuits.                                                     *)

\* Faulty: nested workspaces do not conflict.
SameKey(k, l) == k = l

\* reservationKeysOverlap
Conflict(k, l) == k = l \/ <<k, l>> \in Overlaps \/ <<l, k>> \in Overlaps

Closed == [failures |-> 0, openUntil |-> 0]

\* record
Recorded(lane, infrastructure) ==
    LET failures == circuits[lane].failures + 1
    IN  IF ~infrastructure THEN [circuits EXCEPT ![lane] = Closed]
        ELSE [circuits EXCEPT ![lane] =
                 [failures  |-> failures,
                  openUntil |-> IF failures >= MaxConsecutiveFailures
                                THEN clock + CircuitCooldown ELSE 0]]

\* The release function reserve() returned to t.
Freed(t) == [locks EXCEPT ![WorkspaceOf[t]] = IF @ = t THEN None ELSE @]

\* execute() up to reserve().
Admissible(t) ==
    /\ loaded /\ phase[t] = "idle"
    /\ circuits[LaneOf[t]].openUntil <= clock
    /\ \A k \in Workspace : locks[k] # None => ~Conflict(WorkspaceOf[t], k)

-----------------------------------------------------------------------------
(* A task.                                                                 *)

Accept(t) ==
    /\ Admissible(t)
    /\ locks' = [locks EXCEPT ![WorkspaceOf[t]] = t]
    /\ phase' = [phase EXCEPT ![t] = "registered"]
    /\ UNCHANGED <<childVars, circuits, clock, attempt, aborted, loaded, outlived>>

\* jobs.start throws.  When it had called run() already, the pipeline still
\* gets its turn, without a lock and with its signal aborted.
JobFails(t) ==
    /\ Admissible(t)
    /\ circuits' = Recorded(LaneOf[t], TRUE)
    /\ \E p \in JobFailures :
          /\ phase' = [phase EXCEPT ![t] = p]
          /\ aborted' = IF p = "registered" THEN aborted \cup {t} ELSE aborted
    /\ UNCHANGED <<childVars, locks, clock, attempt, loaded, outlived>>

\* The end of runLegacyTaskPipeline and the rest of run().
Finish(t, quarantined, infrastructure) ==
    /\ phase' = [phase EXCEPT ![t] = "ended"]
    /\ circuits' = Recorded(LaneOf[t], infrastructure)
    /\ locks' = IF quarantined THEN locks ELSE Freed(t)
    /\ attempt' = [attempt EXCEPT ![t] = 0]
    /\ aborted' = aborted \ {t} /\ outlived' = outlived \ {t}
    /\ UNCHANGED <<clock, loaded>>

\* The head of the attempt loop.
Executor(t) ==
    /\ t \notin aborted
    /\ StartsChild(t)
    /\ phase' = [phase EXCEPT ![t] = "executor"]
    /\ attempt' = [attempt EXCEPT ![t] = @ + 1]
    /\ UNCHANGED <<locks, circuits, clock, aborted, loaded, outlived>>

Verifier(t) ==
    /\ StartsChild(t)
    /\ phase' = [phase EXCEPT ![t] = "verifier"]
    /\ UNCHANGED <<locks, circuits, clock, attempt, aborted, loaded, outlived>>

\* Cancelled before it started, outside its boundary, or started.
Begin(t) ==
    /\ phase[t] = "registered"
    /\ \/ Finish(t, FALSE, FALSE) /\ UNCHANGED childVars
       \/ Executor(t)

\* Faulty: one attempt too many.
ReturnOneMore(t) ==
    /\ CanReturn(t)
    /\ \/ /\ Finish(t, Unconfirmed(t), Infrastructure(t))
          /\ place' = [place EXCEPT ![t] = "idle"]
          /\ UNCHANGED <<child, stopped, strays>>
       \/ MaySucceed(t) /\ phase[t] = "executor" /\ Verifier(t)
       \/ MaySucceed(t) /\ phase[t] = "verifier" /\ attempt[t] <= MaxAttempts /\ Executor(t)

\* The child's call returns and the pipeline goes on.
Return(t) ==
    /\ CanReturn(t)
    /\ \/ /\ Finish(t, Unconfirmed(t), Infrastructure(t))
          /\ place' = [place EXCEPT ![t] = "idle"]
          /\ UNCHANGED <<child, stopped, strays>>
       \/ MaySucceed(t) /\ phase[t] = "executor" /\ Verifier(t)
       \/ MaySucceed(t) /\ phase[t] = "verifier" /\ attempt[t] < MaxAttempts /\ Executor(t)

-----------------------------------------------------------------------------
(* The environment.                                                        *)

Cancel(t) ==
    /\ Active(t) /\ t \notin aborted
    /\ aborted' = aborted \cup {t}
    /\ Stops({t})
    /\ UNCHANGED <<locks, circuits, clock, phase, attempt, loaded, outlived>>

TimeOut(t) == TimesOut(t) /\ UNCHANGED taskVars

\* dispose() of the plugin instance; a later one shares the process state.
Unload ==
    LET S == {t \in Task : Active(t)}
    IN  /\ loaded /\ loaded' = FALSE
        /\ aborted' = aborted \cup S
        /\ outlived' = outlived \cup S
        /\ Stops(S)
        /\ UNCHANGED <<locks, circuits, clock, phase, attempt>>

Load ==
    /\ ~loaded /\ loaded' = TRUE
    /\ UNCHANGED <<childVars, locks, circuits, clock, phase, attempt, aborted, outlived>>

Tick ==
    /\ clock < MaxClock
    /\ clock' = clock + 1
    /\ UNCHANGED <<childVars, locks, circuits, phase, attempt, aborted, loaded, outlived>>

-----------------------------------------------------------------------------
Init ==
    /\ ChildInit
    /\ locks = [k \in Workspace |-> None]
    /\ circuits = [l \in Lane |-> Closed]
    /\ clock = 0
    /\ phase = [t \in Task |-> "idle"]
    /\ attempt = [t \in Task |-> 0]
    /\ aborted = {} /\ outlived = {}
    /\ loaded = TRUE

CatchBlock(t) == Catch(t) /\ UNCHANGED taskVars

Next ==
    \/ \E t \in Task : \/ Accept(t) \/ JobFails(t) \/ Begin(t)
                       \/ CatchBlock(t) \/ Return(t)
                       \/ Cancel(t) \/ TimeOut(t)
                       \/ Host(t) /\ UNCHANGED taskVars
    \/ Unload \/ Load \/ Tick

\* The event loop runs what is ready and its timers fire; nothing is assumed
\* of the host.
Fairness ==
    \A t \in Task : /\ WF_vars(Begin(t)) /\ WF_vars(CatchBlock(t))
                    /\ WF_vars(Return(t)) /\ WF_vars(TimeOut(t))

Spec == Init /\ [][Next]_vars /\ Fairness

-----------------------------------------------------------------------------
LocalTypeOK ==
    /\ child \in [Task -> Child] /\ place \in [Task -> Place]
    /\ stopped \in [Task -> BOOLEAN] /\ strays \subseteq Task
    /\ locks \in [Workspace -> Task \cup {None}]
    /\ circuits \in [Lane -> [failures : Nat, openUntil : Nat]]
    /\ clock \in Nat
    /\ phase \in [Task -> Phase] /\ attempt \in [Task -> 0 .. MaxAttempts]
    /\ aborted \subseteq Task /\ outlived \subseteq Task /\ loaded \in BOOLEAN

(* "One active task per overlapping workspace tree": no two tasks whose    *)
(* workspaces overlap ever have a child that runs, may still run after a   *)
(* failed cleanup, or may still be published, across any number of reloads.*)
OneTaskPerTree ==
    \A t, u \in Task :
        t # u /\ MayLive(t) /\ MayLive(u) =>
            /\ WorkspaceOf[t] # WorkspaceOf[u]
            /\ <<WorkspaceOf[t], WorkspaceOf[u]>> \notin Overlaps

(* "If local child cleanup cannot be confirmed, the process keeps that     *)
(* workspace reserved": a task that ended and left its workspace free left *)
(* no child that could still touch it.                                     *)
CleanupConfirmed ==
    \A t \in Task :
        phase[t] = "ended" /\ locks[WorkspaceOf[t]] # t => ~MayLive(t)

(* "The local lock remains conservative even if a late cleanup appears to  *)
(* succeed": a key its task did not release when it ended is never freed.  *)
QuarantineIsForGood ==
    [][\A k \in Workspace :
          locks[k] # None /\ phase[locks[k]] = "ended" => locks'[k] = locks[k]]_vars

(* A reload orphans nobody: every unfinished task of an unloaded instance, *)
(* also one whose job has not begun, is aborted and starts no child.       *)
UnloadReachesAll ==
    \A t \in outlived :
        t \in aborted /\ place[t] \notin {"starting", "running"}

(* Every accepted task ends, whatever the host does with its children.     *)
TasksEnd == \A t \in Task : phase[t] = "registered" ~> phase[t] = "ended"

(* "How long an open circuit rejects new work": a circuit that opened      *)
(* stays open until it has cooled down.                                    *)
CircuitsCoolDown ==
    [][\A l \in Lane :
          circuits[l].openUntil > clock => circuits'[l].openUntil >= circuits[l].openUntil]_vars
=============================================================================
