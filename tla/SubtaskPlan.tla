----------------------------- MODULE SubtaskPlan -----------------------------
(***************************************************************************)
(* The plan of one orchestrated pipeline (runOrchestratedTaskPipeline of   *)
(* dispatcher.js): the proposal that starts it, the waves the scheduler    *)
(* admits, the patches that replace what is pending, and the model runs,   *)
(* node credits and child slots of the pipeline's grant that pay for them. *)
(* The tree of pipelines and its slots are the subject of Orchestration.   *)
(*                                                                         *)
(* A turn of a planner, a reviewer or the final verifier is one action,    *)
(* with its charge.  `covers' is both the criteria and the deliverables a  *)
(* task takes on; contracts, texts and scopes are left out.  A proposal is *)
(* any the validators let pass.                                            *)
(***************************************************************************)
EXTENDS PlanProgress

CONSTANTS
    Id, Duty,
    CostOf,             \* bound: ORCHESTRATION_ESTIMATED_COST of each id
    Lanes,              \* bound: what a child of each lane may cost
    Runs, Credits,      \* bounds: the model runs and node credits the pipeline is given
    MaxTaskNodes, MaxChildrenPerNode, MaxConcurrentNodes, MaxPlanPatches

ASSUME SubtaskAssumption ==
    /\ Id \subseteq Nat \ {0}
    /\ CostOf \in [Id -> Nat \ {0}]
    /\ \A l \in Lanes : {l.runs, l.runCap, l.nodes, l.nodeCap} \subseteq Nat \ {0}
    /\ \A l \in Lanes : l.expandable => l.runs <= l.runCap   \* validateDispatcherConfig
    /\ Runs \cup Credits \subseteq Nat
    /\ {MaxTaskNodes, MaxChildrenPerNode, MaxConcurrentNodes} \subseteq Nat \ {0}
    /\ MaxChildrenPerNode < MaxTaskNodes /\ MaxPlanPatches \in Nat

VARIABLES
    lane,
    grant,      \* remainingModelRuns, remainingNodeCredits, remainingChildSlots
    pc,
    tasks,      \* currentTasks
    status,     \* the plan's steps and `terminal'
    seen,       \* seenTaskIds, with the tasks they named first
    patches,    \* patchCount
    optional,   \* dynamicCreditsRemaining
    patch,      \* under review
    checkpoint, \* checkpointRequested
    refills     \* rolling refills since the last boundary: history

vars == <<lane, grant, pc, tasks, status, seen, patches, optional, patch, checkpoint, refills>>

Nothing == [i \in {} |-> {}]
Also(f, g) == [i \in DOMAIN f \cup DOMAIN g |-> IF i \in DOMAIN f THEN f[i] ELSE g[i]]
Only(f, S) == [i \in S |-> f[i]]

Completed == With(status, {"completed"})
Pending == With(status, {"pending"})
Running == With(status, {"running"})
AllAccepted(st) == With(st, {"failed"}) = {}

Graph == [i \in DOMAIN tasks |-> [dependsOn |-> tasks[i].dependsOn, cost |-> CostOf[i],
                                  needs |-> {}, conflictKeys |-> {}]]
Limits == [maxConcurrentNodes |-> MaxConcurrentNodes, of |-> Nothing]

-----------------------------------------------------------------------------
(* Proposals and patches.                                                  *)

Contracts(S) == [S -> [dependsOn : SUBSET Id, covers : SUBSET Duty]]

\* Bound: the first ids there are, in an order of the graph.
Proposals(n) ==
    {T \in [1 .. n -> [dependsOn : SUBSET (1 .. n - 1), covers : SUBSET Duty]] :
        \A i \in 1 .. n : T[i].dependsOn \subseteq 1 .. i - 1}

\* validateSubtaskProposal
ValidProposal(T, maxNodes) ==
    /\ Cardinality(DOMAIN T) \in 1 .. maxNodes
    /\ Acyclic(T)
    /\ UNION {T[i].covers : i \in DOMAIN T} = Duty

\* orchestrationPendingCapacity, and orchestrationProposalCapacity
Capacity(completed, reserved) ==
    Max({0, Min({MaxChildrenPerNode - completed, grant.slots,
                 Max({0, grant.runs - reserved}) \div lane.runs, grant.nodes \div lane.nodes})})

\* Faulty: an id that was dropped may come back as another task.
KeepsIdsOfPending(T) == \A i \in DOMAIN T \cap Pending : T[i] = tasks[i]

\* An id is the pending task it names, or new.
KeepsIds(T) == \A i \in DOMAIN T : IF i \in Pending THEN T[i] = tasks[i] ELSE i \notin DOMAIN seen

\* Faulty: the coverage of the whole former plan is asked for.
ValidPatchOfTheFormer(T, capacity) ==
    /\ Cardinality(DOMAIN T) <= capacity /\ DOMAIN T \cap Completed = {}
    /\ Acyclic(Also(Only(tasks, Completed), T))
    /\ Cardinality(Completed \cup DOMAIN T) \in 1 .. MaxChildrenPerNode
    /\ UNION {Also(tasks, T)[i].covers : i \in DOMAIN tasks \cup DOMAIN T} = Duty
    /\ KeepsIds(T) /\ (T # Only(tasks, Pending) \/ Cardinality(Pending) > 1)
    /\ Cardinality(DOMAIN seen \cup DOMAIN T) <= 2 * MaxTaskNodes

\* parseSubtaskPlanPatch, of `replace_pending'.  Another order of the same
\* tasks is a change too.
ValidPatch(T, capacity) ==
    /\ Cardinality(DOMAIN T) <= capacity /\ DOMAIN T \cap Completed = {}
    /\ ValidProposal(Also(Only(tasks, Completed), T), MaxChildrenPerNode)
    /\ KeepsIds(T) /\ (T # Only(tasks, Pending) \/ Cardinality(Pending) > 1)
    /\ Cardinality(DOMAIN seen \cup DOMAIN T) <= 2 * MaxTaskNodes

\* Bound: a patch adds one task at most, and may drop any.
Patches ==
    UNION {{Also(Only(tasks, S), N) : N \in {Nothing} \cup UNION {Contracts({i}) : i \in Id \ S}} :
              S \in SUBSET Pending}

-----------------------------------------------------------------------------
(* Paying for a wave.                                                      *)

\* The sum of boundedAllocation, for n children of one lane.
Allocated(total, least, most, n) == n * least + Min({total - n * least, n * Max({0, most - least})})

\* Faulty: what later tasks need is given to the ready ones.
WaveSpent(n, later) ==
    [runs |-> Allocated(grant.runs - (1 + optional), lane.runs, lane.runCap, n),
     nodes |-> Allocated(grant.nodes, lane.nodes, lane.nodeCap, n)]

\* orchestrationWaveAllocations: what the later tasks and the host phases leave
WaveAllocation(n, later) ==
    [runs |-> Allocated(grant.runs - (1 + optional) - later * lane.runs, lane.runs, lane.runCap, n),
     nodes |-> Allocated(grant.nodes - later * lane.nodes, lane.nodes, lane.nodeCap, n)]

WaveIsFunded(n, later) ==
    /\ grant.runs - (1 + optional) - later * lane.runs >= n * lane.runs
    /\ grant.nodes - later * lane.nodes >= n * lane.nodes
    /\ n <= grant.slots

Ends(result) ==
    /\ pc' = result
    /\ UNCHANGED <<lane, grant, tasks, status, seen, patches, optional, patch, checkpoint, refills>>

\* A phase of the host that charges one run; `next' says the rest.
Charged(next) ==
    IF grant.runs = 0 THEN Ends("refused")
    ELSE next /\ grant' = [grant EXCEPT !.runs = @ - 1] /\ UNCHANGED lane

Fails == pc' = "failed" /\ UNCHANGED <<tasks, status, seen, patches, optional, patch, checkpoint, refills>>

-----------------------------------------------------------------------------
(* The initial plan.                                                       *)

\* The planner of the pipeline, and its retry after a protocol failure
Plan ==
    /\ pc \in {"planning", "retrying"}
    /\ IF Capacity(0, 3) < 1 THEN Ends("failed")
       ELSE Charged(
              \/ \E n \in 1 .. Capacity(0, 3) : \E T \in Proposals(n) :
                    /\ ValidProposal(T, Capacity(0, 3))
                    /\ tasks' = T /\ seen' = T
                    /\ status' = [i \in 1 .. n |-> "pending"]
                    /\ pc' = "reviewing"
                    /\ UNCHANGED <<patches, optional, patch, checkpoint, refills>>
              \/ /\ pc = "planning" /\ pc' = "retrying"
                 /\ UNCHANGED <<tasks, status, seen, patches, optional, patch, checkpoint, refills>>
              \/ Fails)

\* n tasks and the final verification, when `left' runs are left
PlanIsFunded(n, left) ==
    left >= n * lane.runs + 1 /\ grant.nodes >= n * lane.nodes /\ n <= grant.slots

\* The review of the plan, and the checks of the budget after it
Review ==
    LET n == Cardinality(DOMAIN tasks)
        floor == IF lane.expandable THEN lane.runCap ELSE lane.runs
        left == grant.runs - 1
        surplus == Max({0, left - 1 - n * floor})
    IN  /\ pc = "reviewing"
        /\ Charged(
              \/ /\ pc' = IF PlanIsFunded(n, left) THEN "scheduling" ELSE "refused"
                 /\ optional' = 2 * Min({MaxPlanPatches, surplus \div 2})
                 /\ UNCHANGED <<tasks, status, seen, patches, patch, checkpoint, refills>>
              \/ Fails)

-----------------------------------------------------------------------------
(* The scheduling loop.                                                    *)

MayPatch(st) == patches < MaxPlanPatches /\ optional >= 2 /\ AllAccepted(st)

Wave(st) == Decision(Graph, st, Limits).start

\* startReady, when the steps are as in st: the tasks of W start.
Starts(st, W) ==
    LET n == Cardinality(W)
        later == Cardinality(With(st, {"pending"})) - n
        spent == WaveAllocation(n, later)
    IN  IF ValidState(Graph, st) /\ WaveIsFunded(n, later)
        THEN /\ status' = [i \in DOMAIN st |-> IF i \in W THEN "running" ELSE st[i]]
             /\ grant' = [runs |-> grant.runs - spent.runs, nodes |-> grant.nodes - spent.nodes,
                          slots |-> grant.slots - n]
             /\ pc' = "scheduling"
        ELSE pc' = "refused" /\ UNCHANGED <<grant, status>>

\* What the loop comes to when nothing runs and nothing starts
Joins == pc' = IF Completed = DOMAIN tasks THEN "verifying" ELSE "failed"

\* replan, up to the planner's answer: nobody runs, and all went well.
Replan ==
    /\ pc = "scheduling" /\ Running = {} /\ Pending # {}
    /\ Completed # {} /\ MayPatch(status)
    /\ Charged(
          \/ /\ pc' = "replanned" /\ optional' = optional - 1
             /\ UNCHANGED <<tasks, status, seen, patches, patch, checkpoint, refills>>
          \/ /\ \E T \in Patches :
                   ValidPatch(T, Capacity(Cardinality(Completed), 3)) /\ patch' = T
             /\ pc' = "patching" /\ optional' = optional - 1
             /\ UNCHANGED <<tasks, status, seen, patches, checkpoint, refills>>
          \/ Fails)

\* The review of the patch, the checks after it, and applySubtaskPlanPatch
ReviewPatch ==
    LET n == Cardinality(DOMAIN patch)
        left == grant.runs - 1
    IN  /\ pc = "patching"
        /\ Charged(
              \/ IF optional >= 1 /\ PlanIsFunded(n, left)
                 THEN /\ optional' = Min({optional - 1, left - (n * lane.runs + 1)})
                      /\ tasks' = Also(Only(tasks, Completed), patch)
                      /\ status' = Also(Only(status, Completed), [i \in DOMAIN patch |-> "pending"])
                      /\ seen' = Also(seen, patch)
                      /\ patches' = patches + 1
                      /\ patch' = Nothing /\ pc' = "replanned"
                      /\ UNCHANGED <<checkpoint, refills>>
                 ELSE /\ pc' = "refused"
                      /\ UNCHANGED <<tasks, status, seen, patches, optional, patch, checkpoint, refills>>
              \/ Fails)

\* The next wave, when nobody runs
NextWave ==
    /\ \/ /\ pc = "scheduling" /\ Running = {} /\ Pending # {}
          /\ ~(Completed # {} /\ MayPatch(status))
       \/ pc = "replanned"
    /\ LET W == Wave(status)
       IN  IF W = {} THEN Joins /\ UNCHANGED <<grant, status>> ELSE Starts(status, W)
    /\ checkpoint' = FALSE /\ refills' = 0
    /\ UNCHANGED <<lane, tasks, seen, patches, optional, patch>>

Join ==
    /\ pc = "scheduling" /\ Running = {} /\ Pending = {}
    /\ Joins
    /\ UNCHANGED <<lane, grant, tasks, status, seen, patches, optional, patch, checkpoint, refills>>

\* Faulty: admission is never closed.
SettleRolling(i, outcome) ==
    LET st == [status EXCEPT ![i] = outcome]
        W == Wave(st)
    IN  /\ pc = "scheduling" /\ i \in Running
        /\ IF outcome = "failed" /\ lane.failFast
           THEN status' = st /\ pc' = "failed" /\ UNCHANGED <<grant, checkpoint, refills>>
           ELSE IF With(st, {"running"}) = {} \/ W = {}
           THEN status' = st /\ UNCHANGED <<pc, grant, checkpoint, refills>>
           ELSE Starts(st, W) /\ refills' = refills + 1 /\ UNCHANGED checkpoint
        /\ UNCHANGED <<lane, tasks, seen, patches, optional, patch>>

\* A child settles: recordOutcome, and a rolling refill while others run.
Settle(i, outcome) ==
    LET st == [status EXCEPT ![i] = outcome]
        W == Wave(st)
    IN  /\ pc = "scheduling" /\ i \in Running
        /\ IF outcome = "failed" /\ lane.failFast
           THEN status' = st /\ pc' = "failed" /\ UNCHANGED <<grant, checkpoint, refills>>
           ELSE IF With(st, {"running"}) = {} \/ checkpoint \/ W = {}
           THEN status' = st /\ UNCHANGED <<pc, grant, checkpoint, refills>>
           ELSE /\ Starts(st, W)
                /\ refills' = refills + 1
                /\ checkpoint' = (With(st, {"pending"}) \ W # {} /\ MayPatch(st))
        /\ UNCHANGED <<lane, tasks, seen, patches, optional, patch>>

-----------------------------------------------------------------------------
\* The final verifier
Verify ==
    /\ pc = "verifying"
    /\ Charged(
          \/ /\ pc' = "accepted"
             /\ UNCHANGED <<tasks, status, seen, patches, optional, patch, checkpoint, refills>>
          \/ Fails)

Ended == pc \in {"accepted", "failed", "refused", "cancelled"}

\* The signal of the task, or evidence too large to be joined: what runs is
\* settled, and decides no more.
Abort == ~Ended /\ Ends("cancelled")

Init ==
    /\ lane \in Lanes
    /\ \E r \in Runs, n \in Credits :
          grant = [runs |-> r, nodes |-> n, slots |-> MaxChildrenPerNode]
    /\ pc = "planning"
    /\ tasks = Nothing /\ status = Nothing /\ seen = Nothing /\ patch = Nothing
    /\ patches = 0 /\ optional = 0 /\ checkpoint = FALSE /\ refills = 0

Next ==
    \/ Plan \/ Review \/ Replan \/ ReviewPatch \/ NextWave \/ Join \/ Verify \/ Abort
    \/ \E i \in Id, outcome \in {"completed", "failed"} : Settle(i, outcome)
    \/ Ended /\ UNCHANGED vars

Spec == Init /\ [][Next]_vars

-----------------------------------------------------------------------------
(* A plan or a patch that was accepted is never refused afterwards for     *)
(* want of runs, node credits or child slots, nor by the scheduler: every  *)
(* later wave, every review and the final verification are paid for,       *)
(* whatever optional patches were taken and whatever surplus was shared.   *)
NothingPlannedIsRefused == pc # "refused"

(* An accepted task has done everything it was asked for: the tasks that   *)
(* its plan kept, through every patch, all completed, after what they      *)
(* depend on, and together cover every criterion and deliverable.          *)
VerdictIsCovered ==
    /\ \A i \in Running \cup Completed : tasks[i].dependsOn \subseteq Completed
    /\ pc = "accepted" =>
          /\ Completed = DOMAIN tasks
          /\ UNION {tasks[i].covers : i \in Completed} = Duty

(* An id means one task for ever: a patch changes no task that started and *)
(* brings back no id that was dropped, so evidence is never misattributed. *)
IdsKeepTheirMeaning ==
    [][/\ \A i \in DOMAIN tasks' : tasks'[i] = seen'[i]
       /\ \A i \in Running \cup Completed : i \in DOMAIN tasks' /\ status'[i] # "pending"]_vars

(* "One rolling refill is enough": while a patch may and can be paid for,  *)
(* admission closes after it, and the pool drains to the next boundary.    *)
CheckpointsComeSoon == pc = "scheduling" /\ MayPatch(status) => refills <= 1

-----------------------------------------------------------------------------
(* What the scheduler promises, by definitions of their own.               *)

\* The least set with the successors of i, and those of its members
After(g, i) ==
    {j \in DOMAIN g : \A S \in SUBSET DOMAIN g :
        Successors(g, i) \subseteq S /\ (\A k \in S : Successors(g, k) \subseteq S) => j \in S}

\* The costliest tasks from i on of which none can overlap another
Heaviest(g, i) ==
    Max({MapThenSumSet(LAMBDA j : g[j].cost, S) :
            S \in {T \in SUBSET ({i} \cup After(g, i)) :
                      i \in T /\ \A j, k \in T : j = k \/ j \in After(g, k) \/ k \in After(g, j)}})

CONSTANTS Demands, Capacities   \* bounds: of the resources of tasks and their limits

\* What the telemetry may show of the children, at and between the turns that
\* record their outcomes: one refused a slot ends without having been shown.
Pictures ==
    LET views(i) == CASE status[i] = "completed" -> {"accepted"}
                      [] status[i] = "failed" -> {"failed", "unseen"}
                      [] status[i] = "running" -> {"running", "accepted", "failed", "unseen"}
                      [] OTHER -> {"unseen"}
    IN  {v \in [DOMAIN tasks -> {"running", "accepted", "failed", "unseen"}] :
            \A i \in DOMAIN tasks : v[i] \in views(i)}

(* Whatever resources the tasks need and whatever the limits: admission    *)
(* overcommits nothing, defers a task only for a limit or for running and  *)
(* costlier work that needs the same, blocks a task exactly when something *)
(* it needs has failed, and always finds work in an idle, able pool.  The  *)
(* dashboard's picture of the plan, whatever it has seen of the children,  *)
(* calls a pending step ready, waiting or blocked, and by what, in that    *)
(* same sense, and agrees with the scheduler once it has seen the same.    *)
SchedulerIsRight ==
    pc \in {"scheduling", "replanned"} =>
      /\ \A demand \in Demands, limits \in Capacities :
        LET g == [i \in DOMAIN tasks |->
                     [dependsOn |-> tasks[i].dependsOn, cost |-> CostOf[i],
                      needs |-> demand[i].needs, conflictKeys |-> demand[i].conflictKeys]]
            decision == Decision(g, status, limits)
            started == decision.start
            ahead(i) == {j \in started : Heaviest(g, j) >= Heaviest(g, i)}
        IN  /\ Overcommitted(g, Running \cup started, limits)
                   \subseteq Overcommitted(g, Running, limits)
            /\ \A i \in decision.deferred : Constraints(g, Running \cup ahead(i), i, limits) # {}
            /\ \A i \in DOMAIN g :
                  decision.effective[i] = "blocked" <=>
                      i \in Pending /\ \E j \in With(status, {"failed"}) : i \in After(g, j)
            /\ decision.diagnosis # "NO_READY_NODES"
            /\ Pending # {} /\ Running = {} /\ AllAccepted(status) /\ limits.of = Nothing
                  => started # {}
      /\ \A view \in Pictures :
        LET shows == Progress(Graph, status, view)
            failed == With(view, {"failed"})
        IN  \A i \in Pending :
                /\ shows[i].blockedBy = {j \in failed : i \in After(Graph, j)}
                /\ shows[i].state = "failed" <=> shows[i].blockedBy # {}
                /\ shows[i].state = "ready" <=> tasks[i].dependsOn \subseteq Completed
                /\ failed = With(status, {"failed"}) =>
                      /\ shows[i].blockedBy = BlockedBy(Graph, status)[i]
                      /\ shows[i].state = "ready" <=> i \in Ready(Graph, Effective(Graph, status))
=============================================================================
