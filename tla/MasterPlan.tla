----------------------------- MODULE MasterPlan -----------------------------
(***************************************************************************)
(* runMasterPlanPipeline (dispatcher.js): a planner, reviewers, executors  *)
(* and verifiers run one after the other under one budget of child runs,   *)
(* over an ordered plan whose pending suffix may be replaced.              *)
(*                                                                         *)
(* An action is one turn: it takes the result of the child that ran and    *)
(* starts the next one, or ends.  What the children report is left open.   *)
(* A signal that aborts while a successful child returns may come after    *)
(* the child's own last test of it.                                        *)
(***************************************************************************)
EXTENDS Integers, Sequences, FiniteSets

CONSTANTS
    StepId, Criterion,
    MaxTotalChildRuns, MaxPlanSteps, MaxPlanPatches, MaxAttempts, RetryOnRevise

ASSUME PlanAssumption ==
    /\ IsFiniteSet(StepId) /\ IsFiniteSet(Criterion)
    /\ MaxTotalChildRuns \in Nat /\ MaxTotalChildRuns >= 5
    /\ MaxPlanSteps \in Nat \ {0} /\ MaxPlanPatches \in Nat
    /\ MaxAttempts \in Nat \ {0} /\ RetryOnRevise \in BOOLEAN

VARIABLES
    pc,         \* the phase whose child runs
    total,      \* totalChildRuns
    plan,
    retried,    \* the phase is a protocol retry
    trigger,    \* what the replanner was asked for
    draft,      \* the patch under review
    aborted,
    result,     \* the status of the task's result
    ran         \* ghost: executor runs of each step id

vars == <<pc, total, plan, retried, trigger, draft, aborted, result, ran>>

Phases == {"planning", "reviewing", "executing", "verifying",
           "replanning", "patch-reviewing", "final"}

(* exhausted: the error of a child that runPhase did not start.            *)
Status == {"accepted", "rejected", "blocked", "cancelled", "error", "exhausted"}

Outline == [id : StepId, covers : SUBSET Criterion]
Step == [id : StepId, covers : SUBSET Criterion, done : BOOLEAN, attempts : Nat]

-----------------------------------------------------------------------------
(* Plans.                                                                  *)

Ids(s) == {s[i].id : i \in DOMAIN s}
Covered(s) == UNION {s[i].covers : i \in DOMAIN s}

\* What normalizePlanSteps accepts of at most n steps.
Outlines(n) ==
    {s \in UNION {[1 .. k -> Outline] : k \in 0 .. n} :
        \A i, j \in DOMAIN s : s[i].id = s[j].id => i = j}

Done(p) == {i \in DOMAIN p.steps : p.steps[i].done}
Pending(p) == DOMAIN p.steps \ Done(p)

\* The runs that p still needs: its pending steps and the final verifier.
Mandatory(p) == 2 * Cardinality(Pending(p)) + 1
Affords(n) == total + n <= MaxTotalChildRuns

Current(p) == CHOOSE i \in Pending(p) : \A j \in Pending(p) : i <= j

\* createMasterPlan, with seenStepIds
Created(s) ==
    [steps   |-> [i \in DOMAIN s |->
                     [id |-> s[i].id, covers |-> s[i].covers, done |-> FALSE, attempts |-> 0]],
     patches |-> 0,
     seen    |-> Ids(s)]

Completes(p) == [p EXCEPT !.steps[Current(p)].done = TRUE]
Attempted(p) == [p EXCEPT !.steps[Current(p)].attempts = @ + 1]

\* Faulty: the completed steps do not count.
PatchesSuffix(p, s) ==
    /\ p.patches < MaxPlanPatches
    /\ \A i \in Done(p), j \in Pending(p) : i < j
    /\ s # <<>> \/ (Done(p) # {} /\ Pending(p) # {})
    /\ \A i \in DOMAIN s :
          s[i].id \in p.seen => \E j \in Pending(p) : p.steps[j].id = s[i].id
    /\ Criterion = Covered(s) \cup UNION {p.steps[i].covers : i \in Done(p)}
    /\ Cardinality(p.seen \cup Ids(s)) <= 2 * MaxPlanSteps

\* Faulty: a completed step's id may come again.
PatchesAgain(p, s) ==
    /\ p.patches < MaxPlanPatches
    /\ \A i \in Done(p), j \in Pending(p) : i < j
    /\ s # <<>> \/ (Done(p) # {} /\ Pending(p) # {})
    /\ Len(s) + Cardinality(Done(p)) <= MaxPlanSteps
    /\ Criterion = Covered(s) \cup UNION {p.steps[i].covers : i \in Done(p)}
    /\ Cardinality(p.seen \cup Ids(s)) <= 2 * MaxPlanSteps

\* Faulty: what is dropped counts as covered.
PatchesUncovered(p, s) ==
    /\ p.patches < MaxPlanPatches
    /\ \A i \in Done(p), j \in Pending(p) : i < j
    /\ s # <<>> \/ (Done(p) # {} /\ Pending(p) # {})
    /\ Len(s) + Cardinality(Done(p)) <= MaxPlanSteps
    /\ \A i \in DOMAIN s :
          s[i].id \in p.seen => \E j \in Pending(p) : p.steps[j].id = s[i].id
    /\ Criterion = Covered(s) \cup Covered(p.steps)
    /\ Cardinality(p.seen \cup Ids(s)) <= 2 * MaxPlanSteps

\* parsePlanPatch: s may replace the pending suffix of p.  Text is left open,
\* so only an empty suffix is the same as before.
Patches(p, s) ==
    /\ p.patches < MaxPlanPatches
    /\ \A i \in Done(p), j \in Pending(p) : i < j
    /\ s # <<>> \/ (Done(p) # {} /\ Pending(p) # {})
    /\ Len(s) + Cardinality(Done(p)) <= MaxPlanSteps
    /\ \A i \in DOMAIN s :
          s[i].id \in p.seen => \E j \in Pending(p) : p.steps[j].id = s[i].id
    /\ Criterion = Covered(s) \cup UNION {p.steps[i].covers : i \in Done(p)}
    /\ Cardinality(p.seen \cup Ids(s)) <= 2 * MaxPlanSteps

Attempts(p, id) ==
    IF \E j \in Pending(p) : p.steps[j].id = id
    THEN p.steps[CHOOSE j \in Pending(p) : p.steps[j].id = id].attempts ELSE 0

\* applyPlanPatch
Patched(p, s) ==
    LET n == Cardinality(Done(p))
    IN  [steps   |-> [i \in 1 .. n + Len(s) |->
                         IF i <= n THEN p.steps[i]
                         ELSE [id |-> s[i - n].id, covers |-> s[i - n].covers,
                               done |-> FALSE, attempts |-> Attempts(p, s[i - n].id)]],
         patches |-> p.patches + 1,
         seen    |-> p.seen \cup Ids(s)]

-----------------------------------------------------------------------------
(* Turns.                                                                  *)

\* finish
Ends(status) ==
    /\ pc' = "ended" /\ result' = status
    /\ UNCHANGED total

\* runPhase; a child that is not started ends the task.
Call(phase) ==
    \/ aborted /\ Ends("cancelled")
    \/ ~aborted /\ ~Affords(1) /\ Ends("exhausted")
    \/ /\ ~aborted /\ Affords(1)
       /\ total' = total + 1 /\ pc' = phase
       /\ UNCHANGED result

\* The head of the loop, with plan p.
Loop(p) ==
    \/ aborted /\ Ends("cancelled") /\ plan' = p /\ UNCHANGED ran
    \/ /\ ~aborted /\ Pending(p) = {}
       /\ Call("final") /\ plan' = p /\ UNCHANGED ran
    \/ /\ ~aborted /\ Pending(p) # {}
       /\ \/ Ends("error") /\ plan' = p /\ UNCHANGED ran
          \/ /\ Call("executing") /\ plan' = Attempted(p)
             /\ ran' = IF Affords(1) THEN [ran EXCEPT ![p.steps[Current(p)].id] = @ + 1] ELSE ran

Replan(p, why) ==
    /\ Call("replanning") /\ plan' = p
    /\ trigger' = why
    /\ UNCHANGED ran

Begin ==
    /\ pc = "begin"
    /\ Call("planning") \/ Ends("error")
    /\ UNCHANGED <<plan, retried, trigger, draft, aborted, ran>>

\* Any child may fail, time out, be cancelled or report nothing valid.
Fail ==
    /\ pc \in Phases
    /\ Ends("error") \/ Ends("cancelled")
    /\ UNCHANGED <<plan, retried, trigger, draft, aborted, ran>>

\* A structured-output miss of a read-only child is retried once.
Retry ==
    /\ pc \in {"planning", "reviewing"} /\ ~retried /\ ~aborted
    /\ Affords(1 + (IF pc = "planning" THEN 4 ELSE 3))
    /\ Call(pc) /\ retried' = TRUE
    /\ UNCHANGED <<plan, trigger, draft, aborted, ran>>

Planned ==
    /\ pc = "planning"
    /\ \E s \in Outlines(MaxPlanSteps) :
          /\ s # <<>> /\ Covered(s) = Criterion
          /\ plan' = Created(s)
    /\ Call("reviewing") /\ retried' = FALSE
    /\ UNCHANGED <<trigger, draft, aborted, ran>>

Reviewed ==
    /\ pc = "reviewing"
    /\ \/ (Ends("blocked") \/ Ends("rejected")) /\ UNCHANGED <<plan, ran>>
       \/ ~Affords(Mandatory(plan)) /\ Ends("rejected") /\ UNCHANGED <<plan, ran>>
       \/ Affords(Mandatory(plan)) /\ Loop(plan)
    /\ UNCHANGED <<retried, trigger, draft, aborted>>

Executed ==
    /\ pc = "executing"
    /\ Ends("blocked") \/ Call("verifying")
    /\ UNCHANGED <<plan, retried, trigger, draft, aborted, ran>>

Revised ==
    /\ pc = "verifying"
    /\ \/ (Ends("blocked") \/ Ends("rejected")) /\ UNCHANGED <<plan, ran>>
       \/ /\ RetryOnRevise /\ plan.steps[Current(plan)].attempts < MaxAttempts
          /\ Affords(Mandatory(plan))
          /\ Loop(plan)
    /\ UNCHANGED <<retried, trigger, draft, aborted>>

\* Faulty: the replanner's own runs are not set aside.
MayReplanFor(p) ==
    /\ Pending(p) # {} /\ p.patches < MaxPlanPatches
    /\ Affords(Mandatory(p))

\* optionalReplanBudget
MayReplan(p) ==
    /\ Pending(p) # {} /\ p.patches < MaxPlanPatches
    /\ Affords(Mandatory(p) + 2)

Verified ==
    /\ pc = "verifying"
    /\ LET p == Completes(plan)
       IN  \/ MayReplan(p) /\ Replan(p, "step-completed")
           \/ ~MayReplan(p) /\ Loop(p) /\ UNCHANGED trigger
    /\ UNCHANGED <<retried, draft, aborted>>

Replanned ==
    /\ pc = "replanning"
    /\ \/ Ends("blocked") /\ UNCHANGED <<plan, draft, ran>>
       \/ /\ trigger = "step-completed"
          /\ Loop(plan) /\ UNCHANGED draft
       \/ /\ trigger = "final-review-gap"
          /\ Ends("rejected") /\ UNCHANGED <<plan, draft, ran>>
       \/ /\ \E s \in Outlines(MaxPlanSteps) : Patches(plan, s) /\ draft' = s
          /\ Call("patch-reviewing") /\ UNCHANGED <<plan, ran>>
    /\ UNCHANGED <<retried, trigger, aborted>>

PatchReviewed ==
    /\ pc = "patch-reviewing"
    /\ LET p == Patched(plan, draft)
       IN  \/ (Ends("blocked") \/ Ends("rejected")) /\ UNCHANGED <<plan, ran>>
           \/ ~Affords(2 * Len(draft) + 1) /\ Ends("rejected") /\ UNCHANGED <<plan, ran>>
           \/ Affords(2 * Len(draft) + 1) /\ Loop(p)
    /\ draft' = <<>>
    /\ UNCHANGED <<retried, trigger, aborted>>

MayRemedy ==
    /\ RetryOnRevise /\ plan.patches < MaxPlanPatches
    /\ Cardinality(Done(plan)) < MaxPlanSteps
    /\ Cardinality(plan.seen) < 2 * MaxPlanSteps
    /\ Affords(5)

FinallyVerified ==
    /\ pc = "final"
    /\ \/ /\ Ends("accepted") \/ Ends("blocked") \/ Ends("rejected")
          /\ UNCHANGED <<plan, trigger, ran>>
       \/ MayRemedy /\ Replan(plan, "final-review-gap")
    /\ UNCHANGED <<retried, draft, aborted>>

Abort ==
    /\ pc # "ended" /\ ~aborted
    /\ aborted' = TRUE
    /\ UNCHANGED <<pc, total, plan, retried, trigger, draft, result, ran>>

-----------------------------------------------------------------------------
Init ==
    /\ pc = "begin" /\ total = 0
    /\ plan = [steps |-> <<>>, patches |-> 0, seen |-> {}]
    /\ retried = FALSE /\ aborted = FALSE
    /\ trigger = "none" /\ draft = <<>> /\ result = "none"
    /\ ran = [s \in StepId |-> 0]

Next ==
    \/ Begin \/ Fail \/ Retry \/ Planned \/ Reviewed \/ Executed \/ Revised \/ Verified
    \/ Replanned \/ PatchReviewed \/ FinallyVerified
    \/ Abort

Spec == Init /\ [][Next]_vars

-----------------------------------------------------------------------------
(* A plan never outgrows its limits, has a completed prefix, and names no  *)
(* step twice.                                                             *)
PlanTypeOK ==
    /\ pc \in Phases \cup {"begin", "ended"}
    /\ total \in 0 .. MaxTotalChildRuns
    /\ plan.steps \in Seq(Step) /\ Len(plan.steps) <= MaxPlanSteps
    /\ plan.patches \in 0 .. MaxPlanPatches
    /\ plan.seen \subseteq StepId /\ Cardinality(plan.seen) <= 2 * MaxPlanSteps
    /\ Ids(plan.steps) \subseteq plan.seen
    /\ \A i, j \in DOMAIN plan.steps :
          i # j => plan.steps[i].id # plan.steps[j].id
    /\ Done(plan) = 1 .. Cardinality(Done(plan))
    /\ retried \in BOOLEAN /\ aborted \in BOOLEAN
    /\ trigger \in {"none", "step-completed", "final-review-gap"}
    /\ draft \in Seq(Outline)
    /\ result \in Status \cup {"none"}
    /\ ran \in [StepId -> Nat]

(* "Preserve two runs for every pending step and one final global          *)
(* verification": no retry, replan or remediation ever spends what the     *)
(* mandatory phases need, so no task dies of an exhausted budget.          *)
RunsSuffice == result # "exhausted"

(* No effect is repeated behind the plan's back: a step had the runs its   *)
(* attempts show, whatever patches carried it along, dropped it or reused  *)
(* its id, and never more than the lane allows.                            *)
EffectsAreBounded ==
    /\ \A i \in DOMAIN plan.steps : ran[plan.steps[i].id] = plan.steps[i].attempts
    /\ \A s \in StepId : ran[s] <= MaxAttempts

(* "Never weakened acceptance": a task is accepted only over completed     *)
(* steps that together cover every criterion, whatever the patches dropped.*)
AcceptedIsCovered ==
    result = "accepted" =>
        /\ Pending(plan) = {}
        /\ Covered(plan.steps) = Criterion

(* "Completed work is immutable": no turn moves, changes or removes it.    *)
CompletedIsImmutable ==
    [][\A i \in Done(plan) : i \in DOMAIN plan'.steps /\ plan'.steps[i] = plan.steps[i]]_vars
=============================================================================
