-------------------------- MODULE LocalTasksProofs --------------------------
(***************************************************************************)
(* Proofs about LocalTasks: what a child may still touch is locked, for    *)
(* any set of tasks, any overlapping workspaces and any host, as long as   *)
(* no start settles while its aborted call returns.                        *)
(***************************************************************************)
EXTENDS LocalTasks, TLAPS

\* No start settles in the catch block of its aborted call.
Punctual == SettlesInCatch = FALSE

\* What may live is locked by its task, and no two keys held overlap.
Locked ==
    /\ \A t \in Task : MayLive(t) => locks[WorkspaceOf[t]] = t
    /\ \A k, l \in Workspace :
          locks[k] # None /\ locks[l] # None /\ k # l => ~Conflict(k, l)

\* What a task's place in its call says of its child and of its pipeline.
Placed(t) ==
    /\ place[t] = "idle" <=> phase[t] \in {"idle", "registered", "ended"}
    /\ phase[t] \in {"idle", "registered"} => child[t] = "none" /\ attempt[t] = 0
    /\ phase[t] \in {"executor", "verifier"} => locks[WorkspaceOf[t]] = t
    /\ phase[t] = "registered" /\ t \notin aborted => locks[WorkspaceOf[t]] = t
    /\ place[t] = "starting" => child[t] = "starting"
    /\ place[t] = "running" => child[t] = "alive"
    /\ place[t] \in {"cleanup", "unwinding"} => child[t] \in {"disposing", "gone", "unsure"}
    /\ place[t] = "thrown" => child[t] # "none"
    /\ place[t] = "returning" => child[t] \in {"starting", "refused"}

\* What an abort of a task has done to its call.
Stopped(t) ==
    /\ t \in aborted => Active(t)
    /\ t \in outlived => t \in aborted
    /\ t \in aborted /\ place[t] # "idle" => stopped[t]
    /\ place[t] \in {"starting", "running"} => ~stopped[t]

IInv ==
    /\ LocalTypeOK
    /\ strays = {}
    /\ Locked
    /\ \A t \in Task : Placed(t) /\ Stopped(t)

-----------------------------------------------------------------------------
\* The process starts with nothing locked and nothing called.
LEMMA InitIInv == Init => IInv
  BY LocalAssumption
  DEF Init, ChildInit, IInv, LocalTypeOK, Locked, Placed, Stopped, MayLive, Closed,
      Child, Place, Phase, Active, Conflict

\* The circuits keep their type.
LEMMA RecordedOK ==
    ASSUME LocalTypeOK, NEW l \in Lane, NEW infra \in BOOLEAN
    PROVE  Recorded(l, infra) \in [Lane -> [failures : Nat, openUntil : Nat]]
  BY LocalAssumption DEF LocalTypeOK, Recorded, Closed

\* A step of the host, of a timer or of a catch block: no lock changes.
\* A task none of whose state changes keeps what its place says.
LEMMA Unchanged ==
    ASSUME NEW u \in Task, Placed(u), Stopped(u),
           place'[u] = place[u], child'[u] = child[u], stopped'[u] = stopped[u],
           phase'[u] = phase[u], attempt'[u] = attempt[u],
           locks[WorkspaceOf[u]] = u => locks'[WorkspaceOf[u]] = u,
           u \in aborted' <=> u \in aborted, u \in outlived' <=> u \in outlived
    PROVE  Placed(u)' /\ Stopped(u)'
  BY DEF Placed, Stopped, Active

\* A step of the host or of a catch block: no lock and no abort changes.
LEMMA CallSteps ==
    ASSUME IInv, Punctual, NEW t \in Task, UNCHANGED taskVars, Host(t) \/ Catch(t)
    PROVE  IInv'
<1> USE DEF Host
<1>1. LocalTypeOK'
  BY DEF IInv, LocalTypeOK, taskVars, Publish, Refuse, DisposalSettles, Result,
         ResultFails, Catch, Child, Place
<1>2. stopped' = stopped /\ strays' = {}
  BY DEF IInv, Publish, Refuse, DisposalSettles, Result, ResultFails, Catch
<1>3. \A u \in Task : u # t => place'[u] = place[u] /\ child'[u] = child[u]
  BY DEF IInv, LocalTypeOK, Publish, Refuse, DisposalSettles, Result, ResultFails, Catch
<1>4. Placed(t) /\ Stopped(t) /\ place[t] \in Place /\ child[t] \in Child /\ phase[t] \in Phase
  BY DEF IInv, LocalTypeOK
<1>5. /\ Placed(t)' /\ Stopped(t)'
      /\ MayLive(t)' => MayLive(t)
  <2>1. CASE Publish(t)
    BY <2>1, <1>2, <1>4 DEF IInv, LocalTypeOK, Punctual, taskVars, Publish, Placed, Stopped, Active, MayLive, Place, Child
  <2>2. CASE Refuse(t)
    BY <2>2, <1>2, <1>4 DEF IInv, LocalTypeOK, taskVars, Refuse, Placed, Stopped, Active, MayLive, Place, Child
  <2>3. CASE DisposalSettles(t)
    BY <2>3, <1>2, <1>4 DEF IInv, LocalTypeOK, taskVars, DisposalSettles, Placed, Stopped, Active, MayLive, Place, Child
  <2>4. CASE Result(t) \/ ResultFails(t)
    BY <2>4, <1>2, <1>4 DEF IInv, LocalTypeOK, taskVars, Result, ResultFails, Placed, Stopped, Active, MayLive, Place, Child
  <2>5. CASE Catch(t)
    BY <2>5, <1>2, <1>4 DEF IInv, LocalTypeOK, taskVars, Catch, Published, Placed, Stopped, Active, MayLive, Place, Child
  <2> QED
    BY <2>1, <2>2, <2>3, <2>4, <2>5
<1>6. \A u \in Task : Placed(u)' /\ Stopped(u)'
  BY <1>2, <1>3, <1>5, Unchanged DEF IInv, taskVars
<1>7. Locked'
  BY <1>2, <1>3, <1>5 DEF IInv, Locked, MayLive, taskVars
<1> QED
  BY <1>1, <1>2, <1>6, <1>7 DEF IInv

\* The abort event of some calls: no child and no lock changes, and calls
\* that are not idle are stopped.
LEMMA StopSteps ==
    ASSUME IInv, NEW S, Stops(S), UNCHANGED <<locks, phase>>
    PROVE  /\ child' = child /\ strays' = {} /\ Locked'
           /\ place' \in [Task -> Place] /\ stopped' \in [Task -> BOOLEAN]
           /\ \A u \in Task :
                 /\ place'[u] = "idle" <=> place[u] = "idle"
                 /\ place'[u] # place[u] => /\ place'[u] = "thrown"
                                           /\ place[u] \in {"starting", "running"}
                 /\ stopped[u] => stopped'[u]
                 /\ u \in S /\ place[u] # "idle" => stopped'[u]
                 /\ u \in S => place'[u] \notin {"starting", "running"}
                 /\ u \notin S => stopped'[u] = stopped[u]
<1>1. child' = child /\ strays' = {}
  BY DEF IInv, Stops
<1>2. Locked'
  BY <1>1 DEF IInv, Locked, MayLive, Conflict
<1> QED
  BY <1>1, <1>2 DEF IInv, LocalTypeOK, Stops, Place

LEMMA CancelStep ==
    ASSUME IInv, NEW t \in Task, Cancel(t)
    PROVE  IInv'
<1>1. Stops({t}) /\ UNCHANGED <<locks, phase>>
  BY DEF Cancel
<1>2. LocalTypeOK'
  BY <1>1, StopSteps DEF IInv, LocalTypeOK, Cancel
<1>3. ASSUME NEW u \in Task PROVE Placed(u)' /\ Stopped(u)'
  BY <1>1, StopSteps DEF IInv, LocalTypeOK, Placed, Stopped, Active, Cancel
<1> QED
  BY <1>1, <1>2, <1>3, StopSteps DEF IInv

LEMMA TimeOutStep ==
    ASSUME IInv, NEW t \in Task, TimeOut(t)
    PROVE  IInv'
<1>1. Stops({t}) /\ UNCHANGED taskVars
  BY DEF TimeOut, TimesOut
<1>2. LocalTypeOK'
  BY <1>1, StopSteps DEF IInv, LocalTypeOK, taskVars
<1>3. ASSUME NEW u \in Task PROVE Placed(u)' /\ Stopped(u)'
  BY <1>1, StopSteps DEF IInv, LocalTypeOK, Placed, Stopped, Active, taskVars
<1> QED
  BY <1>1, <1>2, <1>3, StopSteps DEF IInv, taskVars

LEMMA UnloadStep ==
    ASSUME IInv, Unload
    PROVE  IInv'
<1> DEFINE S == {t \in Task : Active(t)}
<1>1. Stops(S) /\ UNCHANGED <<locks, phase>>
  BY DEF Unload
<1>2. LocalTypeOK'
  BY <1>1, StopSteps DEF IInv, LocalTypeOK, Unload
<1>3. ASSUME NEW u \in Task PROVE Placed(u)' /\ Stopped(u)'
  <2>1. u \in aborted' <=> u \in aborted \/ Active(u)
    BY DEF Unload
  <2>2. u \in outlived' <=> u \in outlived \/ Active(u)
    BY DEF Unload
  <2>3. UNCHANGED <<locks, phase, attempt>>
    BY DEF Unload
  <2> QED
    BY <1>1, <2>1, <2>2, <2>3, StopSteps DEF IInv, LocalTypeOK, Placed, Stopped, Active
<1> QED
  BY <1>1, <1>2, <1>3, StopSteps DEF IInv

LEMMA AcceptStep ==
    ASSUME IInv, NEW t \in Task, Accept(t)
    PROVE  IInv'
<1>1. LocalTypeOK'
  BY LocalAssumption DEF IInv, LocalTypeOK, Accept, childVars, Phase
<1>2. strays' = {} /\ \A u \in Task : MayLive(u)' <=> MayLive(u)
  BY DEF IInv, Accept, MayLive, childVars
<1>3. \A k \in Workspace : locks[k] # None => ~Conflict(WorkspaceOf[t], k)
  BY DEF Accept, Admissible
<1>4. \A k \in Workspace : locks[k] # None => locks'[k] = locks[k]
  BY <1>3, LocalAssumption DEF IInv, LocalTypeOK, Accept, Conflict
<1>5. Locked'
  <2>1. \A u \in Task : MayLive(u)' => locks'[WorkspaceOf[u]] = u
    BY <1>2, <1>4, LocalAssumption DEF IInv, Locked
  <2>2. ASSUME NEW k \in Workspace, NEW l \in Workspace,
               locks'[k] # None, locks'[l] # None, k # l
        PROVE  ~Conflict(k, l)
    BY <2>2, <1>3, LocalAssumption DEF IInv, LocalTypeOK, Locked, Accept, Conflict
  <2> QED
    BY <2>1, <2>2 DEF Locked, Conflict
<1>6. ASSUME NEW u \in Task PROVE Placed(u)' /\ Stopped(u)'
  <2>1. CASE u = t
    BY <2>1, LocalAssumption
    DEF IInv, LocalTypeOK, Placed, Stopped, Active, Accept, Admissible, childVars
  <2>2. CASE u # t
    BY <2>2, <1>4, Unchanged, LocalAssumption DEF IInv, LocalTypeOK, Accept, childVars
  <2> QED
    BY <2>1, <2>2
<1> QED
  BY <1>1, <1>2, <1>5, <1>6 DEF IInv

LEMMA JobFailsStep ==
    ASSUME IInv, NEW t \in Task, JobFails(t)
    PROVE  IInv'
<1>1. PICK p \in JobFailures :
          /\ phase' = [phase EXCEPT ![t] = p]
          /\ aborted' = IF p = "registered" THEN aborted \cup {t} ELSE aborted
  BY DEF JobFails
<1>2. p \in {"registered", "ended"} /\ LaneOf[t] \in Lane
  BY LocalAssumption
<1>3. UNCHANGED <<childVars, locks, clock, attempt, loaded, outlived>> /\ phase[t] = "idle"
  BY DEF JobFails, Admissible
<1>4. circuits' \in [Lane -> [failures : Nat, openUntil : Nat]]
  BY <1>2, RecordedOK DEF IInv, JobFails
<1>5. LocalTypeOK'
  BY <1>1, <1>2, <1>3, <1>4 DEF IInv, LocalTypeOK, childVars, Phase
<1>6. Locked' /\ strays' = {}
  BY <1>3 DEF IInv, Locked, MayLive, Conflict, childVars
<1>7. ASSUME NEW u \in Task PROVE Placed(u)' /\ Stopped(u)'
  <2>1. CASE u = t
    BY <2>1, <1>1, <1>2, <1>3 DEF IInv, LocalTypeOK, Placed, Stopped, Active, childVars
  <2>2. CASE u # t
    BY <2>2, <1>1, <1>3, Unchanged DEF IInv, LocalTypeOK, childVars
  <2> QED
    BY <2>1, <2>2
<1> QED
  BY <1>5, <1>6, <1>7 DEF IInv

\* The pipeline of t ends.
LEMMA FinishStep ==
    ASSUME IInv, NEW t \in Task, NEW q \in BOOLEAN, NEW infra \in BOOLEAN,
           Finish(t, q, infra), phase[t] \in {"registered", "executor", "verifier"},
           UNCHANGED <<child, stopped, strays>>,
           place' = [place EXCEPT ![t] = "idle"],
           ~q => ~MayLive(t)
    PROVE  IInv'
<1>1. circuits' \in [Lane -> [failures : Nat, openUntil : Nat]]
  BY RecordedOK, LocalAssumption DEF IInv, Finish
<1>2. \A k \in Workspace : locks'[k] # locks[k] => locks[k] = t /\ locks'[k] = None /\ ~q
  BY LocalAssumption DEF IInv, LocalTypeOK, Finish, Freed
<1>3. locks' \in [Workspace -> Task \cup {None}]
  BY DEF IInv, LocalTypeOK, Finish, Freed
<1>4. LocalTypeOK'
  BY <1>1, <1>3, LocalAssumption DEF IInv, LocalTypeOK, Finish, Phase, Place
<1>5. \A u \in Task : MayLive(u)' <=> MayLive(u)
  BY DEF MayLive
<1>6. Locked'
  BY <1>2, <1>5, LocalAssumption DEF IInv, Locked, Conflict
<1>7. ASSUME NEW u \in Task PROVE Placed(u)' /\ Stopped(u)'
  <2>1. CASE u = t
    BY <2>1 DEF IInv, LocalTypeOK, Placed, Stopped, Active, Finish
  <2>2. CASE u # t
    BY <2>2, <1>2, Unchanged, LocalAssumption DEF IInv, LocalTypeOK, Finish
  <2> QED
    BY <2>1, <2>2
<1> QED
  BY <1>4, <1>6, <1>7 DEF IInv

\* The pipeline of t starts a child: no other of its children may live.
LEMMA StartStep ==
    ASSUME IInv, NEW t \in Task, StartsChild(t), Executor(t) \/ Verifier(t),
           t \notin aborted, ~MayLive(t), locks[WorkspaceOf[t]] = t,
           Executor(t) => attempt[t] < MaxAttempts
    PROVE  IInv'
<1>1. strays' = {} /\ UNCHANGED <<locks, circuits, clock, aborted, loaded, outlived>>
  BY DEF IInv, StartsChild, Executor, Verifier
<1>2. attempt' \in [Task -> 0 .. MaxAttempts]
  BY LocalAssumption DEF IInv, LocalTypeOK, Executor, Verifier
<1>3. LocalTypeOK'
  BY <1>1, <1>2 DEF IInv, LocalTypeOK, StartsChild, Executor, Verifier, Child, Place, Phase
<1>4. \A u \in Task : u # t => (MayLive(u)' <=> MayLive(u))
  BY <1>1 DEF IInv, LocalTypeOK, MayLive, StartsChild
<1>5. Locked'
  BY <1>1, <1>4 DEF IInv, Locked, Conflict
<1>6. ASSUME NEW u \in Task PROVE Placed(u)' /\ Stopped(u)'
  <2>1. CASE u = t
    BY <2>1, <1>1
    DEF IInv, LocalTypeOK, Placed, Stopped, Active, StartsChild, Executor, Verifier
  <2>2. CASE u # t
    BY <2>2, <1>1, Unchanged
    DEF IInv, LocalTypeOK, StartsChild, Executor, Verifier
  <2> QED
    BY <2>1, <2>2
<1> QED
  BY <1>1, <1>3, <1>5, <1>6 DEF IInv

LEMMA BeginStep ==
    ASSUME IInv, NEW t \in Task, Begin(t)
    PROVE  IInv'
<1>1. /\ phase[t] = "registered" /\ place[t] = "idle" /\ child[t] = "none"
      /\ attempt[t] = 0 /\ ~MayLive(t)
      /\ t \notin aborted => locks[WorkspaceOf[t]] = t
  BY DEF IInv, Placed, MayLive, Begin
<1>2. CASE Finish(t, FALSE, FALSE) /\ UNCHANGED childVars
  <2>1. place' = [place EXCEPT ![t] = "idle"]
    BY <1>1, <1>2 DEF IInv, LocalTypeOK, childVars
  <2> QED
    BY <1>1, <1>2, <2>1, FinishStep DEF childVars
<1>3. CASE Executor(t)
  <2>1. t \notin aborted /\ StartsChild(t)
    BY <1>3 DEF Executor
  <2>2. attempt[t] < MaxAttempts
    BY <1>1, LocalAssumption
  <2> QED
    BY <1>1, <1>3, <2>1, <2>2, StartStep
<1> QED
  BY <1>2, <1>3 DEF Begin

\* What a call that can return says of its task.
LEMMA ReturnFacts ==
    ASSUME IInv, NEW t \in Task, CanReturn(t)
    PROVE  /\ phase[t] \in {"executor", "verifier"} /\ locks[WorkspaceOf[t]] = t
           /\ ~Unconfirmed(t) => ~MayLive(t)
           /\ MaySucceed(t) => t \notin aborted /\ ~MayLive(t)
           /\ Unconfirmed(t) \in BOOLEAN /\ Infrastructure(t) \in BOOLEAN
<1>1. phase[t] \in {"executor", "verifier"} /\ locks[WorkspaceOf[t]] = t
  BY DEF IInv, LocalTypeOK, Placed, CanReturn, Phase
<1> QED
  BY <1>1 DEF IInv, LocalTypeOK, Placed, Stopped, CanReturn, Unconfirmed,
              Infrastructure, MaySucceed, MayLive

LEMMA ReturnStep ==
    ASSUME IInv, NEW t \in Task, Return(t)
    PROVE  IInv'
<1>1. CanReturn(t)
  BY DEF Return
<1>2. CASE /\ Finish(t, Unconfirmed(t), Infrastructure(t))
           /\ place' = [place EXCEPT ![t] = "idle"]
           /\ UNCHANGED <<child, stopped, strays>>
  BY <1>1, <1>2, ReturnFacts, FinishStep
<1>3. CASE MaySucceed(t) /\ phase[t] = "executor" /\ Verifier(t)
  <2>1. ~Executor(t)
    BY <1>3 DEF IInv, LocalTypeOK, Executor, Verifier
  <2> QED
    BY <1>1, <1>3, <2>1, ReturnFacts, StartStep DEF Verifier
<1>4. CASE MaySucceed(t) /\ phase[t] = "verifier" /\ attempt[t] < MaxAttempts /\ Executor(t)
  BY <1>1, <1>4, ReturnFacts, StartStep DEF Executor
<1> QED
  BY <1>2, <1>3, <1>4 DEF Return

LEMMA OtherSteps ==
    ASSUME IInv, Load \/ Tick \/ UNCHANGED vars
    PROVE  IInv'
<1>1. UNCHANGED <<childVars, locks, circuits, phase, attempt, aborted, outlived>>
  BY DEF Load, Tick, vars, taskVars
<1>2. clock' \in Nat /\ loaded' \in BOOLEAN /\ circuits' = circuits
  <2>1. clock \in Nat /\ loaded \in BOOLEAN
    BY DEF IInv, LocalTypeOK
  <2>2. CASE Load
    BY <2>1, <2>2 DEF Load
  <2>3. CASE Tick
    BY <2>1, <2>3 DEF Tick
  <2>4. CASE UNCHANGED vars
    BY <2>1, <2>4 DEF vars, taskVars
  <2> QED
    BY <2>2, <2>3, <2>4
<1>3. LocalTypeOK' /\ Locked' /\ strays' = {}
  BY <1>1, <1>2 DEF IInv, LocalTypeOK, Locked, MayLive, Conflict, childVars
<1>4. \A u \in Task : Placed(u)' /\ Stopped(u)'
  BY <1>1, Unchanged DEF IInv, childVars
<1> QED
  BY <1>3, <1>4 DEF IInv

LEMMA NextIInv ==
    ASSUME IInv, Punctual, [Next]_vars
    PROVE  IInv'
<1>1. ASSUME NEW t \in Task, (Host(t) /\ UNCHANGED taskVars) \/ CatchBlock(t)
      PROVE  IInv'
  BY <1>1, CallSteps DEF CatchBlock
<1> QED
  BY <1>1, AcceptStep, JobFailsStep, BeginStep, ReturnStep, CancelStep, TimeOutStep,
     UnloadStep, OtherSteps
  DEF Next

-----------------------------------------------------------------------------
LEMMA Inductive == ASSUME Punctual PROVE Spec => []IInv
  BY InitIInv, NextIInv, PTL DEF Spec

(* A call of a child, a task, a lock and a circuit keep their types for    *)
(* any tasks, workspaces and limits (runStructuredChild, run, record).     *)
THEOREM LocalTypeCorrect == ASSUME Punctual PROVE Spec => []LocalTypeOK
<1>1. IInv => LocalTypeOK
  BY DEF IInv
<1> QED
  BY <1>1, Inductive, PTL

(* One active task per overlapping workspace tree (reserve), whatever the  *)
(* host does with a start or a disposal and however often the plugin is    *)
(* reloaded.                                                               *)
THEOREM OneTaskAtATime == ASSUME Punctual PROVE Spec => []OneTaskPerTree
<1>1. IInv => OneTaskPerTree
  BY LocalAssumption DEF IInv, Locked, OneTaskPerTree, Conflict
<1> QED
  BY <1>1, Inductive, PTL

(* A workspace that was released holds nothing of the task that released   *)
(* it (run's finally block).                                               *)
THEOREM CleanupIsConfirmed == ASSUME Punctual PROVE Spec => []CleanupConfirmed
<1>1. IInv => CleanupConfirmed
  BY DEF IInv, Locked, CleanupConfirmed
<1> QED
  BY <1>1, Inductive, PTL

(* dispose() of the plugin reaches every unfinished task.                  *)
THEOREM UnloadIsComplete == ASSUME Punctual PROVE Spec => []UnloadReachesAll
<1>1. IInv => UnloadReachesAll
  BY DEF IInv, Stopped, UnloadReachesAll, LocalTypeOK
<1> QED
  BY <1>1, Inductive, PTL

(* A key that was not released when its task ended is never freed.         *)
THEOREM QuarantineIsKept == ASSUME Punctual PROVE Spec => QuarantineIsForGood
<1> DEFINE Kept == \A k \in Workspace :
                locks[k] # None /\ phase[locks[k]] = "ended" => locks'[k] = locks[k]
<1>1. ASSUME IInv, Next PROVE Kept
  <2>1. ASSUME NEW t \in Task, Accept(t) PROVE Kept
    BY <1>1, <2>1, LocalAssumption DEF IInv, LocalTypeOK, Accept, Admissible, Conflict
  <2>2. ASSUME NEW t \in Task, NEW q \in BOOLEAN, NEW i \in BOOLEAN, Finish(t, q, i),
               phase[t] # "ended"
        PROVE  Kept
    BY <1>1, <2>2, LocalAssumption DEF IInv, LocalTypeOK, Finish, Freed
  <2>3. ASSUME NEW t \in Task, Begin(t) PROVE Kept
    BY <2>2, <2>3 DEF Begin, Executor
  <2>4. ASSUME NEW t \in Task, Return(t) PROVE Kept
    BY <1>1, <2>2, <2>4, ReturnFacts DEF Return, Executor, Verifier
  <2>5. ASSUME UNCHANGED locks PROVE Kept
    BY <2>5
  <2> QED
    BY <1>1, <2>1, <2>3, <2>4, <2>5
    DEF Next, JobFails, CatchBlock, Cancel, TimeOut, Unload, Load, Tick, taskVars
<1>2. IInv /\ [Next]_vars => [Kept]_vars
  BY <1>1
<1> QED
  BY <1>2, Inductive, PTL DEF Spec, QuarantineIsForGood
=============================================================================
