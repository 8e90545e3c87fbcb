--------------------------- MODULE Orchestration ----------------------------
(***************************************************************************)
(* One orchestrated root task of dispatcher.js: the tree of pipelines      *)
(* runOrchestratedTaskPipeline runs, each for the grant it was given, over *)
(* the grant ledger they share.                                            *)
(*                                                                         *)
(* An action is one turn of the event loop: what a continuation does until *)
(* it awaits again.  An abort signal reaches the whole subtree inside the  *)
(* turn that raises it.                                                    *)
(*                                                                         *)
(* Which plan tasks exist, which are ready and which verdict a model call  *)
(* returns is left open; a plan task is the token of its reservation, and  *)
(* tokens are numbered as they are drawn.  A call of a model may fail, and *)
(* so may its charge or a reservation, for want of model runs: what is     *)
(* left of them is GrantLedger's subject.                                  *)
(***************************************************************************)
EXTENDS Grants

CONSTANTS
    FailFast,       \* depths whose lane's failureMode is `fail-fast'
    MaxWave         \* bound: children started by one turn

ASSUME OrchestrationAssumption ==
    /\ Token = 1 .. Cardinality(Token)
    /\ FailFast \subseteq Nat
    /\ MaxWave \in Nat \ {0}

VARIABLES
    pc,         \* where each node's pipeline is
    aborted,    \* nodes whose signal is aborted
    failed      \* nodes whose result is not `accepted'

vars == <<ledger, clock, pc, aborted, failed>>

(* starting: waitForStart is awaited.   hosting: a planner, a worker or a  *)
(* verifier runs.   joining: the scheduling loop awaits one of its         *)
(* children.   resuming: waitForResume is awaited.   draining:             *)
(* settleRemaining awaits all of them.   closing: the pipeline returned.   *)
(* closed: its grant was settled.   joined: the parent took the outcome.   *)
Place == {"idle", "starting", "hosting", "joining", "resuming",
          "draining", "closing", "closed", "joined"}

Orchestrates(t) == ledger.node[t].depth < ledger.node[t].ceiling

\* running: the children whose outcomes p has not taken.
InFlight(p) == {u \in Children(ledger, p) : pc[u] # "joined"}

\* The pipelines an abort of p's children reaches.
Subtree(p) ==
    {u \in Token : /\ p \in ledger.node[u].above
                   /\ pc[u] \in {"starting", "hosting", "joining", "resuming", "draining"}}

AwaitsAdmission(t) ==
    \E q \in ToSet(ledger.waiters) \cup ToSet(ledger.woken) : q.token = t

\* The admission calls of S see their signals aborted.
Silenced(L, S) ==
    [L EXCEPT !.waiters = FoldLeft(LAMBDA w, q : IF q.token \in S THEN w ELSE Append(w, q),
                                   <<>>, @),
              !.woken   = [i \in DOMAIN @ |->
                              IF @[i].token \in S THEN [@[i] EXCEPT !.aborted = TRUE]
                              ELSE @[i]]]

-----------------------------------------------------------------------------
(* The scheduling loop.  q is pc as the turn has left it so far.           *)

\* Faulty: the parent keeps its slot while its children wait for one.
LaunchedHoldingTheSlot(p, order, ask) ==
    FoldLeft(LAMBDA K, u : Entered(K, "start", u, clock),
             Reserved(ledger, p, ask), order)

\* startReady and the first turns of the children it launches, in order.
Launched(p, order, ask) ==
    LET M == Reserved(ledger, p, ask)
        N == IF ledger.node[p].running THEN SlotFreed(M, p) ELSE M
    IN  IF p \in aborted THEN N
        ELSE FoldLeft(LAMBDA K, u : Entered(K, "start", u, clock), N, order)

StartReady(q, p) ==
    /\ \E n \in 1 .. MaxWave :
          LET drawn == Cardinality({t \in Token : q[t] # "idle"})
              order == [i \in 1 .. n |-> drawn + i]
          IN  /\ ToSet(order) \subseteq Token
              /\ \E ask \in [ToSet(order) -> Allocations] :
                    /\ CanReserve(ledger, p, ask, clock)
                    /\ ledger' = Launched(p, order, ask)
              /\ pc' = [t \in Node |->
                           IF t = p THEN "joining"
                           ELSE IF t \notin ToSet(order) THEN q[t]
                           ELSE IF ledger'.node[t].running THEN "hosting" ELSE "starting"]
              /\ aborted' = IF p \in aborted THEN aborted \cup ToSet(order) ELSE aborted
    /\ UNCHANGED <<clock, failed>>

\* settleRemaining
SettleRemaining(q, p) ==
    /\ ledger' = Silenced(ledger, Subtree(p))
    /\ aborted' = aborted \cup Subtree(p)
    /\ pc' = [q EXCEPT ![p] = "draining"]
    /\ UNCHANGED <<clock, failed>>

\* Faulty: what was reserved and never started stays open.
FinishUnrevoked(q, p) ==
    /\ pc' = [q EXCEPT ![p] = "closing"]
    /\ failed' = failed \cup {p}
    /\ UNCHANGED <<ledger, clock, aborted>>

\* `finish' and `finally' of a pipeline that does not end joined.
Finish(q, p) ==
    /\ ledger' = IF ledger.node[p].status = "active"
                 THEN Withdrawn(ledger, Forest(ledger, p)) ELSE ledger
    /\ pc' = [q EXCEPT ![p] = "closing"]
    /\ failed' = failed \cup {p}
    /\ UNCHANGED <<clock, aborted>>

\* resumeForHostPhase, before a replan or the final verification.
ResumeForHostPhase(q, p) ==
    LET L == IF p = Root THEN ledger ELSE Entered(ledger, "resume", p, clock)
    IN  /\ ledger' = L
        /\ pc' = [q EXCEPT ![p] = IF p = Root \/ L.node[p].running
                                  THEN "hosting" ELSE "resuming"]
        /\ UNCHANGED <<clock, aborted, failed>>

\* A charge, a reservation or a record threw, or the signal or a failure stops
\* the loop: whatever still runs is aborted and awaited.
Stops(q, p) == SettleRemaining(q, p)

\* p's loop takes the outcome of its child u.
Join(p, u) ==
    LET q    == [pc EXCEPT ![u] = "joined"]
        rest == InFlight(p) \ {u}
        stop == p \in aborted \/ (ledger.node[p].depth \in FailFast /\ u \in failed)
    IN  /\ pc[p] = "joining"
        /\ u \in InFlight(p) /\ pc[u] = "closed"
        /\ \/ Stops(q, p)
           \/ /\ ~stop
              /\ \/ StartReady(q, p)
                 \/ rest # {} /\ pc' = q /\ UNCHANGED <<ledger, clock, aborted, failed>>
                 \/ rest = {} /\ IF Children(ledger, p) \cap failed = {}
                                 THEN ResumeForHostPhase(q, p)
                                 ELSE Finish(q, p)

\* Faulty: the first aborted child ends the wait.
DrainedByTheFirst(p) ==
    /\ pc[p] = "draining"
    /\ \E u \in InFlight(p) : pc[u] = "closed"
    /\ Finish([t \in Node |-> IF t \in InFlight(p) THEN "joined" ELSE pc[t]], p)

\* Promise.all of settleRemaining.
Drained(p) ==
    /\ pc[p] = "draining"
    /\ \A u \in InFlight(p) : pc[u] = "closed"
    /\ Finish([t \in Node |-> IF t \in InFlight(p) THEN "joined" ELSE pc[t]], p)

-----------------------------------------------------------------------------
(* A pipeline's own turns.                                                 *)

\* The initial plan was accepted, or a replan left tasks to start.
Planned(p) == pc[p] = "hosting" /\ Orchestrates(p) /\ StartReady(pc, p)

HostFails(p) == pc[p] = "hosting" /\ Orchestrates(p) /\ Finish(pc, p)

\* A leaf's pipeline returned, or the final verifier of a joined tree did.
HostEnds(p) ==
    /\ pc[p] = "hosting"
    /\ Orchestrates(p) =>
          /\ Children(ledger, p) # {}
          /\ Children(ledger, p) \cap failed = {}
    /\ pc' = [pc EXCEPT ![p] = "closing"]
    /\ \/ failed' = failed \cup {p}
       \/ ~(Orchestrates(p) /\ p \in aborted) /\ failed' = failed
    /\ UNCHANGED <<ledger, clock, aborted>>

\* The grant of t is settled; a refusal makes the result an error.
Settles(t) ==
    IF Joined(ledger, t) THEN ledger' = Settled(ledger, t) /\ failed' = failed
    ELSE ledger' = ledger /\ failed' = failed \cup {t}

\* executeOrchestrationChild settles what the child was granted.
Close(t) ==
    /\ pc[t] = "closing" /\ t # Root
    /\ Settles(t)
    /\ pc' = [pc EXCEPT ![t] = "closed"]
    /\ UNCHANGED <<clock, aborted>>

\* runTaskPipeline settles the tree; no task is accepted that was aborted.
CloseRoot ==
    /\ pc[Root] = "closing"
    /\ IF Root \in aborted /\ Joined(ledger, Root)
       THEN ledger' = Settled(ledger, Root) /\ failed' = failed \cup {Root}
       ELSE Settles(Root)
    /\ pc' = [pc EXCEPT ![Root] = "closed"]
    /\ UNCHANGED <<clock, aborted>>

\* The oldest woken admission call.
Continue ==
    LET t == Head(ledger.woken).token
    IN  /\ ledger.woken # <<>>
        /\ ledger' = Continued(ledger, clock)
        /\ pc' = IF ledger'.node[t].running THEN [pc EXCEPT ![t] = "hosting"] ELSE pc
        /\ UNCHANGED <<clock, aborted, failed>>

\* waitForStart or waitForResume threw.
Refused(t) ==
    /\ ~AwaitsAdmission(t)
    /\ \/ /\ pc[t] = "starting"
          /\ pc' = [pc EXCEPT ![t] = "closed"]
          /\ failed' = failed \cup {t}
          /\ UNCHANGED <<ledger, clock, aborted>>
       \/ pc[t] = "resuming" /\ SettleRemaining(pc, t)

-----------------------------------------------------------------------------
(* The environment.                                                        *)

InPipeline(t) == pc[t] \in {"hosting", "joining", "resuming", "draining"}

\* The deadline of a nested orchestrator fires.
Timeout(t) ==
    LET S == {t} \cup Subtree(t)
    IN  /\ t # Root /\ Orchestrates(t) /\ InPipeline(t) /\ t \notin aborted
        /\ ledger' = Silenced(ledger, S)
        /\ aborted' = aborted \cup S
        /\ UNCHANGED <<clock, pc, failed>>

\* The root's deadline fires, or the caller cancels the task.
Cancel ==
    LET S == {Root} \cup Subtree(Root)
    IN  /\ pc[Root] # "closed" /\ Root \notin aborted
        /\ ledger' = Silenced(Cancelled(ledger), S)
        /\ aborted' = aborted \cup S
        /\ UNCHANGED <<clock, pc, failed>>

Expire(i) ==
    /\ i \in 1 .. Len(ledger.waiters)
    /\ clock >= ledger.node[ledger.waiters[i].token].expiresAt
    /\ ledger' = [ledger EXCEPT !.waiters = RemoveAt(@, i)]
    /\ UNCHANGED <<clock, pc, aborted, failed>>

Tick ==
    /\ clock < MaxClock
    /\ clock' = clock + 1
    /\ UNCHANGED <<ledger, pc, aborted, failed>>

-----------------------------------------------------------------------------
Init ==
    /\ ledger = NewLedger(Lifetime)
    /\ clock = 0
    /\ pc = [t \in Node |-> IF t = Root THEN "hosting" ELSE "idle"]
    /\ aborted = {} /\ failed = {}

Turn(t) ==
    \/ Planned(t) \/ HostFails(t) \/ HostEnds(t)
    \/ Drained(t) \/ Close(t) \/ Refused(t)
    \/ t = Root /\ CloseRoot
    \/ \E u \in Token : Join(t, u)

Finished == pc[Root] = "closed" /\ UNCHANGED vars

Next ==
    \/ \E t \in Node : Turn(t) \/ Timeout(t)
    \/ Continue \/ Cancel \/ Tick \/ Finished
    \/ \E i \in 1 .. Len(ledger.waiters) : Expire(i)

\* Every model call has a timeout, and the event loop runs every continuation.
Fairness == WF_vars(Continue) /\ \A t \in Node : WF_vars(Turn(t))

Spec == Init /\ [][Next]_vars /\ Fairness

-----------------------------------------------------------------------------
OrchestrationTypeOK ==
    /\ ledger.node \in [Node -> Grant]
    /\ ledger.budget \in [Node -> Budget]
    /\ ledger.waiters \in Seq(Request) /\ ledger.woken \in Seq(Request)
    /\ ledger.active \in Nat /\ ledger.permits \in Nat
    /\ pc \in [Node -> Place]
    /\ aborted \subseteq Node /\ failed \subseteq Node

(* The ledger never refuses what the pipelines ask of it at the end: a     *)
(* pipeline that returned can settle, one that resumes has joined, and one *)
(* that is closed left its grant settled or never had one.                 *)
AuthorityClosesCleanly ==
    \A t \in Node :
        /\ pc[t] \in {"closing", "resuming"} => Joined(ledger, t)
        /\ pc[t] \in {"closed", "joined"} =>
              ledger.node[t].status \in {"settled", "reserved", "dropped"}

(* A model runs on behalf of a node only while the node holds a slot of    *)
(* the whole-tree limit, and slots are held for nothing else.              *)
SlotsAreForWork ==
    /\ \A t \in Token :
          /\ pc[t] = "hosting" => ledger.node[t].running
          /\ ledger.node[t].running => pc[t] \in {"hosting", "closing"}
    /\ Cardinality({t \in Token : pc[t] = "hosting"}) <= MaxConcurrentNodes

(* The master changes its plan, or verifies the whole, only in a slot and  *)
(* at a quiescent boundary: no pipeline below it is in flight.  Nothing    *)
(* below a pipeline that returned still runs, waits for a slot or can be   *)
(* published.                                                              *)
QuiescentBoundary ==
    /\ SlotsAreForWork
    /\ \A p \in Node : pc[p] \in {"hosting", "resuming", "closing", "closed"} =>
           \A u \in Token : p \in ledger.node[u].above =>
               pc[u] = "joined" /\ ~AwaitsAdmission(u)

(* Every orchestrated task comes to an end, without help from a deadline.  *)
RootCloses == <>(pc[Root] = "closed")

(* "When one Worker settles while another remains in flight, the Host      *)
(* immediately admits newly ready work into the released slot": while      *)
(* anybody waits and no admission is under way, every slot is in use.      *)
ReleasedSlotsAreUsed ==
    ledger.waiters # <<>> /\ ledger.woken = <<>> => ledger.active = MaxConcurrentNodes
=============================================================================
