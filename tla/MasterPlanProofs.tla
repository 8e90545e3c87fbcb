-------------------------- MODULE MasterPlanProofs --------------------------
(***************************************************************************)
(* The invariants of MasterPlan, for every budget, every limit on steps,   *)
(* patches and attempts, and any finite sets of ids and criteria.          *)
(*                                                                         *)
(* The argument is an account: Funded says what each phase leaves unspent. *)
(* A phase is entered with what it and all that must follow it cost, and   *)
(* what is optional is entered only with its own cost on top.              *)
(***************************************************************************)
EXTENDS MasterPlan, FiniteSetTheorems, SequenceTheorems, TLAPS

PlanRecord == [steps : Seq(Step), patches : Nat, seen : SUBSET StepId]

\* What every plan of a lane is like.
Formed(p) ==
    /\ p \in PlanRecord
    /\ Len(p.steps) <= MaxPlanSteps /\ p.patches <= MaxPlanPatches
    /\ Cardinality(p.seen) <= 2 * MaxPlanSteps
    /\ Ids(p.steps) \subseteq p.seen
    /\ \A i, j \in DOMAIN p.steps : i # j => p.steps[i].id # p.steps[j].id
    /\ \E n \in 0 .. Len(p.steps) : Done(p) = 1 .. n

\* The attempts p shows are the runs r that were made; what is unseen had none.
Counted(p, r) ==
    /\ \A i \in DOMAIN p.steps : r[p.steps[i].id] = p.steps[i].attempts
    /\ \A s \in StepId \ p.seen : r[s] = 0

\* Only the step that runs has been attempted without being completed.
Untried(p) == \A i \in Pending(p) : p.steps[i].attempts = 0

-----------------------------------------------------------------------------
LEMMA ShapeFacts ==
    ASSUME NEW p, Formed(p), NEW n \in 0 .. Len(p.steps), Done(p) = 1 .. n
    PROVE  /\ DOMAIN p.steps = 1 .. Len(p.steps) /\ Len(p.steps) \in Nat
           /\ Pending(p) = (n + 1) .. Len(p.steps)
           /\ Cardinality(Done(p)) = n
           /\ Cardinality(Pending(p)) = Len(p.steps) - n
           /\ Pending(p) # {} => Current(p) = n + 1 /\ Current(p) \in Pending(p)
<1>1. p.steps \in Seq(Step)
  BY DEF Formed, PlanRecord
<1>2. DOMAIN p.steps = 1 .. Len(p.steps) /\ Len(p.steps) \in Nat
  BY <1>1
<1>3. Pending(p) = (n + 1) .. Len(p.steps)
  BY <1>2 DEF Pending
<1>4. Cardinality(1 .. n) = n
  BY <1>2, FS_Interval
<1>5. Cardinality((n + 1) .. Len(p.steps)) = Len(p.steps) - n
  <2>1. n + 1 \in Int /\ Len(p.steps) \in Int
    BY <1>2
  <2>2. Cardinality((n + 1) .. Len(p.steps))
            = IF n + 1 > Len(p.steps) THEN 0 ELSE Len(p.steps) - (n + 1) + 1
    BY <2>1, FS_Interval, Zenon
  <2> QED
    BY <1>2, <2>2
<1>6. Pending(p) # {} => Current(p) = n + 1 /\ Current(p) \in Pending(p)
  <2> SUFFICES ASSUME Pending(p) # {} PROVE Current(p) = n + 1 /\ Current(p) \in Pending(p)
    OBVIOUS
  <2>1. n + 1 \in Pending(p) /\ \A j \in Pending(p) : n + 1 <= j
    BY <1>2, <1>3
  <2>2. Current(p) \in Pending(p) /\ \A j \in Pending(p) : Current(p) <= j
    BY <2>1, Zenon DEF Current
  <2> QED
    BY <1>2, <1>3, <2>1, <2>2
<1> QED
  BY <1>2, <1>3, <1>4, <1>5, <1>6

LEMMA CompletesOK ==
    ASSUME NEW p, Formed(p), Pending(p) # {}
    PROVE  LET q == Completes(p)
           IN  /\ Formed(q) /\ Pending(q) = Pending(p) \ {Current(p)}
               /\ Cardinality(Pending(q)) = Cardinality(Pending(p)) - 1
               /\ Covered(q.steps) = Covered(p.steps)
               /\ q.seen = p.seen /\ q.patches = p.patches
               /\ DOMAIN q.steps = DOMAIN p.steps
               /\ \A i \in DOMAIN p.steps : /\ q.steps[i].id = p.steps[i].id
                                            /\ q.steps[i].attempts = p.steps[i].attempts
                                            /\ i # Current(p) => q.steps[i] = p.steps[i]
<1> DEFINE q == Completes(p)
           c == Current(p)
<1>1. PICK n \in 0 .. Len(p.steps) : Done(p) = 1 .. n
  BY DEF Formed
<1>2. /\ DOMAIN p.steps = 1 .. Len(p.steps) /\ Len(p.steps) \in Nat
      /\ Pending(p) = (n + 1) .. Len(p.steps)
      /\ Cardinality(Pending(p)) = Len(p.steps) - n
      /\ c = n + 1 /\ c \in Pending(p)
  BY <1>1, ShapeFacts
<1>3. p.steps \in Seq(Step) /\ p.patches \in Nat /\ p.seen \subseteq StepId /\ p.steps[c] \in Step
  BY <1>2 DEF Formed, PlanRecord
<1>4. /\ q.steps = [p.steps EXCEPT ![c].done = TRUE]
      /\ q.patches = p.patches /\ q.seen = p.seen
      /\ DOMAIN q = DOMAIN p
  BY DEF Formed, PlanRecord, Completes
<1>5. [p.steps[c] EXCEPT !.done = TRUE] \in Step
  BY <1>3 DEF Step
<1>6. q.steps \in Seq(Step) /\ Len(q.steps) = Len(p.steps) /\ DOMAIN q.steps = DOMAIN p.steps
  BY <1>2, <1>3, <1>4, <1>5
<1>7. \A i \in DOMAIN p.steps : /\ q.steps[i].id = p.steps[i].id
                                /\ q.steps[i].covers = p.steps[i].covers
                                /\ q.steps[i].attempts = p.steps[i].attempts
                                /\ i # c => q.steps[i] = p.steps[i]
  BY <1>2, <1>3, <1>4 DEF Step
<1>8. q \in PlanRecord
  BY <1>3, <1>4, <1>6 DEF Formed, PlanRecord, Completes
<1>9. q.steps[c].done
  BY <1>2, <1>3, <1>4 DEF Step
<1>10. Done(q) = 1 .. (n + 1)
  BY <1>1, <1>2, <1>6, <1>7, <1>9 DEF Done
<1>11. Covered(q.steps) = Covered(p.steps) /\ Ids(q.steps) = Ids(p.steps)
  BY <1>6, <1>7 DEF Covered, Ids
<1>12. Formed(q)
  <2>1. n + 1 \in 0 .. Len(q.steps)
    BY <1>2, <1>6
  <2>2. \A i, j \in DOMAIN q.steps : i # j => q.steps[i].id # q.steps[j].id
    BY <1>6, <1>7 DEF Formed
  <2> HIDE DEF q
  <2> QED
    BY <1>4, <1>6, <1>8, <1>10, <1>11, <2>1, <2>2 DEF Formed
<1>13. Cardinality(Pending(q)) = Len(p.steps) - (n + 1) /\ Pending(q) = Pending(p) \ {c}
  BY <1>2, <1>6, <1>10, <1>12, ShapeFacts
<1> HIDE DEF q, c
<1> QED
  BY <1>2, <1>4, <1>6, <1>7, <1>11, <1>12, <1>13 DEF q, c

LEMMA AttemptedOK ==
    ASSUME NEW p, Formed(p), Pending(p) # {}
    PROVE  LET q == Attempted(p)
           IN  /\ Formed(q) /\ Pending(q) = Pending(p) /\ Done(q) = Done(p)
               /\ Covered(q.steps) = Covered(p.steps)
               /\ q.seen = p.seen /\ q.patches = p.patches
               /\ DOMAIN q.steps = DOMAIN p.steps
               /\ Current(p) \in DOMAIN p.steps
               /\ q.steps[Current(p)].attempts = p.steps[Current(p)].attempts + 1
               /\ \A i \in DOMAIN p.steps : /\ q.steps[i].id = p.steps[i].id
                                            /\ i # Current(p) => q.steps[i] = p.steps[i]
<1> DEFINE q == Attempted(p)
           c == Current(p)
<1>1. PICK n \in 0 .. Len(p.steps) : Done(p) = 1 .. n
  BY DEF Formed
<1>2. /\ DOMAIN p.steps = 1 .. Len(p.steps) /\ Len(p.steps) \in Nat
      /\ Pending(p) = (n + 1) .. Len(p.steps)
      /\ c = n + 1 /\ c \in Pending(p) /\ c \in DOMAIN p.steps
  BY <1>1, ShapeFacts DEF Pending
<1>3. p.steps \in Seq(Step) /\ p.patches \in Nat /\ p.seen \subseteq StepId /\ p.steps[c] \in Step
  BY <1>2 DEF Formed, PlanRecord
<1>4. /\ q.steps = [p.steps EXCEPT ![c].attempts = @ + 1]
      /\ q.patches = p.patches /\ q.seen = p.seen
  BY DEF Formed, PlanRecord, Attempted
<1>5. [p.steps[c] EXCEPT !.attempts = @ + 1] \in Step
  BY <1>3 DEF Step
<1>6. q.steps \in Seq(Step) /\ Len(q.steps) = Len(p.steps) /\ DOMAIN q.steps = DOMAIN p.steps
  BY <1>2, <1>3, <1>4, <1>5
<1>7. /\ \A i \in DOMAIN p.steps : /\ q.steps[i].id = p.steps[i].id
                                   /\ q.steps[i].covers = p.steps[i].covers
                                   /\ q.steps[i].done = p.steps[i].done
                                   /\ i # c => q.steps[i] = p.steps[i]
      /\ q.steps[c].attempts = p.steps[c].attempts + 1
  BY <1>2, <1>3, <1>4 DEF Step
<1>8. q \in PlanRecord
  BY <1>3, <1>4, <1>6 DEF Formed, PlanRecord, Attempted
<1>9. Done(q) = Done(p) /\ Pending(q) = Pending(p)
  BY <1>6, <1>7 DEF Done, Pending
<1>10. Covered(q.steps) = Covered(p.steps) /\ Ids(q.steps) = Ids(p.steps)
  BY <1>6, <1>7 DEF Covered, Ids
<1>11. Formed(q)
  <2>1. \A i, j \in DOMAIN q.steps : i # j => q.steps[i].id # q.steps[j].id
    BY <1>6, <1>7 DEF Formed
  <2>2. n \in 0 .. Len(q.steps)
    BY <1>6
  <2> HIDE DEF q
  <2> QED
    BY <1>1, <1>4, <1>6, <1>8, <1>9, <1>10, <2>1, <2>2 DEF Formed
<1> HIDE DEF q, c
<1> QED
  BY <1>2, <1>4, <1>6, <1>7, <1>9, <1>10, <1>11 DEF q, c

\* What an accepted proposal is like.
LEMMA OutlineFacts ==
    ASSUME NEW s \in Outlines(MaxPlanSteps)
    PROVE  /\ s \in Seq(Outline) /\ Len(s) <= MaxPlanSteps /\ DOMAIN s = 1 .. Len(s)
           /\ Len(s) \in Nat
           /\ \A i, j \in DOMAIN s : s[i].id = s[j].id => i = j
           /\ \A i \in DOMAIN s : s[i].id \in StepId /\ s[i].covers \in SUBSET Criterion
           /\ Ids(s) \subseteq StepId /\ Covered(s) \subseteq Criterion
           /\ Cardinality(Ids(s)) <= MaxPlanSteps
<1>1. PICK k \in 0 .. MaxPlanSteps : s \in [1 .. k -> Outline]
  BY DEF Outlines
<1>2. /\ s \in Seq(Outline) /\ Len(s) = k /\ DOMAIN s = 1 .. k /\ k \in Nat
      /\ k <= MaxPlanSteps
  BY <1>1, PlanAssumption
<1>3. \A i \in DOMAIN s : s[i].id \in StepId /\ s[i].covers \in SUBSET Criterion
  BY <1>1 DEF Outline
<1>4. Ids(s) \subseteq StepId /\ Covered(s) \subseteq Criterion
  BY <1>3 DEF Ids, Covered
<1>5. Cardinality(Ids(s)) <= MaxPlanSteps
  <2> DEFINE f == [i \in 1 .. k |-> s[i].id]
  <2>1. f \in Surjection(1 .. k, Ids(s))
    BY <1>2 DEF Surjection, Ids
  <2>2. IsFiniteSet(1 .. k) /\ Cardinality(1 .. k) = k
    BY <1>2, FS_Interval
  <2>3. Cardinality(Ids(s)) <= k
    BY <2>1, <2>2, FS_Surjection
  <2>4. IsFiniteSet(Ids(s))
    BY <2>1, <2>2, FS_Surjection
  <2> QED
    BY <1>2, <2>3, <2>4, FS_CardinalityType, PlanAssumption
<1> QED
  BY <1>2, <1>3, <1>4, <1>5 DEF Outlines

LEMMA CreatedOK ==
    ASSUME NEW s \in Outlines(MaxPlanSteps)
    PROVE  LET p == Created(s)
           IN  /\ Formed(p) /\ Untried(p) /\ Covered(p.steps) = Covered(s)
               /\ \A i \in DOMAIN p.steps : p.steps[i].attempts = 0
<1> DEFINE p == Created(s)
<1>1. /\ s \in Seq(Outline) /\ Len(s) <= MaxPlanSteps /\ DOMAIN s = 1 .. Len(s)
      /\ Len(s) \in Nat
      /\ \A i, j \in DOMAIN s : s[i].id = s[j].id => i = j
      /\ \A i \in DOMAIN s : s[i].id \in StepId /\ s[i].covers \in SUBSET Criterion
      /\ Ids(s) \subseteq StepId /\ Cardinality(Ids(s)) <= MaxPlanSteps
  BY OutlineFacts
<1>2. /\ p.patches = 0 /\ p.seen = Ids(s) /\ DOMAIN p.steps = 1 .. Len(s)
      /\ \A i \in 1 .. Len(s) : /\ p.steps[i].id = s[i].id /\ p.steps[i].covers = s[i].covers
                                /\ p.steps[i].done = FALSE /\ p.steps[i].attempts = 0
                                /\ p.steps[i] \in Step
  BY <1>1 DEF Created, Step
<1>3. p.steps \in Seq(Step) /\ Len(p.steps) = Len(s)
  BY <1>1, <1>2 DEF Created
<1>4. p \in PlanRecord
  BY <1>1, <1>2, <1>3 DEF PlanRecord, Created
<1>5. Done(p) = {} /\ Pending(p) = 1 .. Len(s) /\ Done(p) = 1 .. 0
  BY <1>2 DEF Done, Pending
<1>6. Ids(p.steps) = Ids(s) /\ Covered(p.steps) = Covered(s)
  BY <1>1, <1>2 DEF Ids, Covered
<1>7. Formed(p)
  <2>1. Cardinality(p.seen) <= 2 * MaxPlanSteps
    <3>1. Cardinality(Ids(s)) \in Nat
      BY <1>1, PlanAssumption, FS_Subset, FS_CardinalityType
    <3> QED
      BY <1>1, <1>2, <3>1, PlanAssumption
  <2>2. 0 \in 0 .. Len(p.steps) /\ p.patches <= MaxPlanPatches
    BY <1>1, <1>2, <1>3, PlanAssumption
  <2>3. \A i, j \in DOMAIN p.steps : i # j => p.steps[i].id # p.steps[j].id
    BY <1>1, <1>2
  <2> HIDE DEF p
  <2> QED
    BY <1>1, <1>2, <1>3, <1>4, <1>5, <1>6, <2>1, <2>2, <2>3 DEF Formed
<1>8. Untried(p)
  BY <1>2, <1>5 DEF Untried
<1> HIDE DEF p
<1> QED
  BY <1>2, <1>6, <1>7, <1>8 DEF p

\* A patch that parses leaves a plan of the lane.
LEMMA PatchedOK ==
    ASSUME NEW p, NEW s \in Outlines(MaxPlanSteps), NEW r,
           Formed(p), Untried(p), Counted(p, r), Patches(p, s)
    PROVE  LET q == Patched(p, s)
           IN  /\ Formed(q) /\ Untried(q) /\ Counted(q, r)
               /\ Covered(q.steps) = Criterion
               /\ Cardinality(Pending(q)) = Len(s)
               /\ \A i \in Done(p) : i \in DOMAIN q.steps /\ q.steps[i] = p.steps[i]
<1> DEFINE q == Patched(p, s)
           n == Cardinality(Done(p))
           m == Len(s)
<1>1. PICK k \in 0 .. Len(p.steps) : Done(p) = 1 .. k
  BY DEF Formed
<1>2. /\ DOMAIN p.steps = 1 .. Len(p.steps) /\ Len(p.steps) \in Nat
      /\ Pending(p) = (n + 1) .. Len(p.steps)
      /\ n = k /\ n \in Nat /\ n <= Len(p.steps) /\ Done(p) = 1 .. n
  BY <1>1, ShapeFacts
<1>3. /\ s \in Seq(Outline) /\ m \in Nat /\ DOMAIN s = 1 .. m
      /\ \A i, j \in DOMAIN s : s[i].id = s[j].id => i = j
      /\ \A i \in DOMAIN s : s[i].id \in StepId /\ s[i].covers \in SUBSET Criterion
      /\ Ids(s) \subseteq StepId
  BY OutlineFacts
<1>4. \A i \in DOMAIN p.steps : /\ p.steps[i] \in Step /\ p.steps[i].id \in p.seen
                                /\ p.steps[i].id \in StepId
  <2>1. \A i \in DOMAIN p.steps : p.steps[i] \in Step /\ p.steps[i].id \in p.seen
    BY <1>2 DEF Formed, PlanRecord, Ids
  <2> QED
    BY <2>1 DEF Step
<1>5. \A id \in StepId : Attempts(p, id) = 0
  <2> SUFFICES ASSUME NEW id \in StepId, \E j \in Pending(p) : p.steps[j].id = id
               PROVE  Attempts(p, id) = 0
    BY DEF Attempts
  <2>1. (CHOOSE j \in Pending(p) : p.steps[j].id = id) \in Pending(p)
    OBVIOUS
  <2> QED
    BY <2>1, Zenon DEF Attempts, Untried
<1>6. /\ q.patches = p.patches + 1 /\ q.seen = p.seen \cup Ids(s)
      /\ DOMAIN q.steps = 1 .. n + m
      /\ \A i \in 1 .. n : q.steps[i] = p.steps[i]
      /\ \A i \in (n + 1) .. (n + m) :
            q.steps[i] = [id |-> s[i - n].id, covers |-> s[i - n].covers,
                          done |-> FALSE, attempts |-> Attempts(p, s[i - n].id)]
  BY <1>2, <1>3 DEF Patched
<1>7. \A i \in (n + 1) .. (n + m) :
          /\ i - n \in DOMAIN s
          /\ q.steps[i].id = s[i - n].id /\ q.steps[i].covers = s[i - n].covers
          /\ q.steps[i].done = FALSE /\ q.steps[i].attempts = 0
          /\ q.steps[i] \in Step
  <2> SUFFICES ASSUME NEW i \in (n + 1) .. (n + m)
               PROVE  /\ i - n \in DOMAIN s
                      /\ q.steps[i].id = s[i - n].id /\ q.steps[i].covers = s[i - n].covers
                      /\ q.steps[i].done = FALSE /\ q.steps[i].attempts = 0
                      /\ q.steps[i] \in Step
    BY <1>2, <1>3
  <2>1. i - n \in DOMAIN s
    BY <1>2, <1>3
  <2>2. Attempts(p, s[i - n].id) = 0
    BY <1>3, <1>5, <2>1
  <2>3. q.steps[i] = [id |-> s[i - n].id, covers |-> s[i - n].covers,
                      done |-> FALSE, attempts |-> 0]
    BY <1>6, <2>2
  <2> QED
    BY <1>3, <2>1, <2>3 DEF Step
<1>8. \A i \in 1 .. n + m : i \in 1 .. n \/ i \in (n + 1) .. (n + m)
  BY <1>2, <1>3
<1>9. \A i \in 1 .. n : i \in DOMAIN p.steps /\ i \in Done(p) /\ p.steps[i].done
  BY <1>2 DEF Done
<1>10. q.steps \in Seq(Step) /\ Len(q.steps) = n + m
  <2>1. \A i \in 1 .. n + m : q.steps[i] \in Step
    BY <1>4, <1>6, <1>7, <1>8, <1>9
  <2>2. q.steps = [i \in 1 .. n + m |-> q.steps[i]]
    BY DEF Patched
  <2> HIDE DEF q
  <2>3. n + m \in Nat
    BY <1>2, <1>3
  <2> QED
    BY <2>1, <2>2, <2>3
<1>11. q \in PlanRecord
  <2>1. p.patches + 1 \in Nat /\ p.seen \cup Ids(s) \subseteq StepId
    BY <1>3 DEF Formed, PlanRecord
  <2> QED
    BY <1>6, <1>10, <2>1 DEF Patched, PlanRecord
<1>12. Done(q) = 1 .. n /\ Pending(q) = (n + 1) .. (n + m)
  <2> HIDE DEF q
  <2>1. \A i \in 1 .. n + m : q.steps[i].done <=> i \in 1 .. n
    <3>1. \A i \in (n + 1) .. (n + m) : i \notin 1 .. n
      BY <1>2, <1>3
    <3> QED
      BY <1>6, <1>7, <1>8, <1>9, <3>1
  <2>2. \A i : i \in 1 .. n => i \in 1 .. n + m
    BY <1>2, <1>3
  <2>3. \A i : i \in (n + 1) .. (n + m) <=> i \in 1 .. n + m /\ i \notin 1 .. n
    BY <1>2, <1>3
  <2>4. Done(q) = 1 .. n
    BY <1>6, <2>1, <2>2 DEF Done
  <2> QED
    BY <1>6, <2>3, <2>4 DEF Pending
<1>13. ASSUME NEW i \in DOMAIN q.steps, NEW j \in DOMAIN q.steps, i # j
       PROVE  q.steps[i].id # q.steps[j].id
  <2> HIDE DEF q
  <2>1. ASSUME NEW a \in 1 .. n, NEW b \in (n + 1) .. (n + m)
        PROVE  p.steps[a].id # s[b - n].id
    <3>1. b - n \in DOMAIN s /\ a \in DOMAIN p.steps /\ p.steps[a].id \in p.seen
      BY <1>4, <1>7, <1>9
    <3>2. s[b - n].id \in p.seen => \E c \in Pending(p) : p.steps[c].id = s[b - n].id
      BY <3>1 DEF Patches
    <3>3. \A c \in Pending(p) : c # a /\ c \in DOMAIN p.steps
      BY <1>2
    <3>4. \A c \in Pending(p) : p.steps[c].id # p.steps[a].id
      BY <3>1, <3>3 DEF Formed
    <3> QED
      BY <3>1, <3>2, <3>4
  <2>2. CASE i \in 1 .. n /\ j \in 1 .. n
    BY <1>6, <1>9, <1>13, <2>2 DEF Formed
  <2>3. CASE i \in 1 .. n /\ j \in (n + 1) .. (n + m)
    BY <1>6, <1>7, <2>1, <2>3
  <2>4. CASE i \in (n + 1) .. (n + m) /\ j \in 1 .. n
    BY <1>6, <1>7, <2>1, <2>4
  <2>5. CASE i \in (n + 1) .. (n + m) /\ j \in (n + 1) .. (n + m)
    <3>1. i - n \in DOMAIN s /\ j - n \in DOMAIN s /\ i - n # j - n
      BY <1>2, <1>3, <1>7, <1>13, <2>5
    <3>2. s[i - n].id # s[j - n].id
      BY <1>3, <3>1
    <3> QED
      BY <1>7, <2>5, <3>2
  <2> QED
    BY <1>6, <1>8, <2>2, <2>3, <2>4, <2>5
<1>14. Ids(q.steps) \subseteq q.seen
  <2> HIDE DEF q
  <2> SUFFICES ASSUME NEW i \in 1 .. n + m PROVE q.steps[i].id \in q.seen
    BY <1>6 DEF Ids
  <2>1. CASE i \in 1 .. n
    BY <1>4, <1>6, <1>9, <2>1
  <2>2. CASE i \in (n + 1) .. (n + m)
    BY <1>6, <1>7, <2>2 DEF Ids
  <2> QED
    BY <1>8, <2>1, <2>2
<1>15. Formed(q)
  <2>1. n + m <= MaxPlanSteps /\ p.patches + 1 <= MaxPlanPatches
    BY <1>2, <1>3, PlanAssumption DEF Patches, Formed, PlanRecord
  <2>2. Cardinality(q.seen) <= 2 * MaxPlanSteps
    BY <1>6 DEF Patches
  <2>3. n \in 0 .. Len(q.steps)
    BY <1>2, <1>3, <1>10
  <2> HIDE DEF q
  <2> QED
    BY <1>6, <1>10, <1>11, <1>12, <1>13, <1>14, <2>1, <2>2, <2>3 DEF Formed
<1>16. Untried(q)
  <2> HIDE DEF q
  <2> QED
    BY <1>7, <1>12 DEF Untried
<1>17. Counted(q, r)
  <2> HIDE DEF q
  <2>1. ASSUME NEW i \in 1 .. n PROVE r[q.steps[i].id] = q.steps[i].attempts
    BY <1>6, <1>9 DEF Counted
  <2>2. ASSUME NEW i \in (n + 1) .. (n + m) PROVE r[q.steps[i].id] = q.steps[i].attempts
    <3>1. s[i - n].id \in p.seen => \E c \in Pending(p) : p.steps[c].id = s[i - n].id
      BY <1>7 DEF Patches
    <3>2. \A c \in Pending(p) : r[p.steps[c].id] = 0
      BY <1>2 DEF Counted, Untried, Pending
    <3>3. s[i - n].id \in StepId
      BY <1>3, <1>7
    <3>4. r[s[i - n].id] = 0
      BY <3>1, <3>2, <3>3 DEF Counted
    <3> QED
      BY <1>7, <3>4
  <2> QED
    BY <1>6, <1>8, <2>1, <2>2 DEF Counted
<1>18. Covered(q.steps) = Criterion
  <2> HIDE DEF q
  <2>1. \A x : x \in Covered(q.steps) <=> \E i \in 1 .. n + m : x \in q.steps[i].covers
    BY <1>6 DEF Covered
  <2>2. \A x : x \in Criterion <=> \/ \E i \in DOMAIN s : x \in s[i].covers
                                   \/ \E i \in 1 .. n : x \in p.steps[i].covers
    BY <1>2 DEF Patches, Covered
  <2>3. \A i \in DOMAIN s : i + n \in (n + 1) .. (n + m) /\ (i + n) - n = i /\ i + n \in 1 .. n + m
    BY <1>2, <1>3
  <2>4. \A x : (\E i \in DOMAIN s : x \in s[i].covers)
                <=> \E i \in (n + 1) .. (n + m) : x \in q.steps[i].covers
    BY <1>7, <2>3
  <2>5. \A x : (\E i \in 1 .. n : x \in p.steps[i].covers)
                <=> \E i \in 1 .. n : x \in q.steps[i].covers
    BY <1>6
  <2>6. \A x : (\E i \in 1 .. n + m : x \in q.steps[i].covers)
                <=> \/ \E i \in (n + 1) .. (n + m) : x \in q.steps[i].covers
                    \/ \E i \in 1 .. n : x \in q.steps[i].covers
    <3>1. \A i : (i \in 1 .. n \/ i \in (n + 1) .. (n + m)) => i \in 1 .. n + m
      BY <1>2, <1>3
    <3> QED
      BY <1>8, <3>1, Zenon
  <2> QED
    BY <2>1, <2>2, <2>4, <2>5, <2>6
<1>19. Cardinality(Pending(q)) = m
  <2>1. n \in 0 .. Len(q.steps)
    BY <1>2, <1>3, <1>10
  <2> HIDE DEF q
  <2>2. Cardinality(Pending(q)) = Len(q.steps) - n
    BY <1>12, <1>15, <2>1, ShapeFacts
  <2> QED
    BY <1>2, <1>3, <1>10, <2>2
<1>20. \A i \in Done(p) : i \in DOMAIN q.steps /\ q.steps[i] = p.steps[i]
  <2> HIDE DEF q
  <2> QED
    BY <1>2, <1>3, <1>6
<1> HIDE DEF q
<1> QED
  BY <1>15, <1>16, <1>17, <1>18, <1>19, <1>20 DEF q

\* What is left to run is a number.
LEMMA SizeFacts ==
    ASSUME NEW p, Formed(p)
    PROVE  /\ Cardinality(Pending(p)) \in Nat /\ Mandatory(p) \in Nat
           /\ Mandatory(p) = 2 * Cardinality(Pending(p)) + 1
           /\ Pending(p) = {} => Cardinality(Pending(p)) = 0
           /\ Pending(p) # {} => Cardinality(Pending(p)) >= 1
<1>1. PICK n \in 0 .. Len(p.steps) : Done(p) = 1 .. n
  BY DEF Formed
<1>2. /\ Len(p.steps) \in Nat /\ Pending(p) = (n + 1) .. Len(p.steps)
      /\ Cardinality(Pending(p)) = Len(p.steps) - n
  BY <1>1, ShapeFacts
<1>3. Cardinality(Pending(p)) \in Nat
  BY <1>2
<1>4. Pending(p) # {} <=> n + 1 <= Len(p.steps)
  BY <1>2
<1> QED
  BY <1>2, <1>3, <1>4 DEF Mandatory

\* The run of the current step is the attempt its plan shows.
LEMMA AttemptCounted ==
    ASSUME NEW p, Formed(p), Pending(p) # {},
           NEW r \in [StepId -> Nat], Counted(p, r),
           \A s \in StepId : r[s] <= MaxAttempts,
           p.steps[Current(p)].attempts < MaxAttempts
    PROVE  LET q == Attempted(p)
               t == [r EXCEPT ![p.steps[Current(p)].id] = @ + 1]
           IN  /\ t \in [StepId -> Nat] /\ Counted(q, t)
               /\ \A s \in StepId : t[s] <= MaxAttempts
<1> DEFINE q == Attempted(p)
           c == Current(p)
           id == p.steps[c].id
           t == [r EXCEPT ![id] = @ + 1]
<1>1. /\ q.seen = p.seen /\ DOMAIN q.steps = DOMAIN p.steps /\ c \in DOMAIN p.steps
      /\ q.steps[c].attempts = p.steps[c].attempts + 1
      /\ \A i \in DOMAIN p.steps : /\ q.steps[i].id = p.steps[i].id
                                   /\ i # c => q.steps[i] = p.steps[i]
  BY AttemptedOK
<1>2. id \in p.seen /\ p.seen \subseteq StepId
  BY <1>1 DEF Formed, PlanRecord, Ids
<1>3. \A i \in DOMAIN p.steps : p.steps[i].id \in StepId
  BY DEF Formed, PlanRecord, Ids
<1>4. r[id] = p.steps[c].attempts /\ r[id] \in Nat
  BY <1>1, <1>3 DEF Counted
<1>5. \A i \in DOMAIN p.steps : i # c => p.steps[i].id # id
  BY <1>1 DEF Formed
<1> HIDE DEF q, c, id
<1>6. /\ t \in [StepId -> Nat] /\ t[id] = r[id] + 1
      /\ \A s \in StepId : s # id => t[s] = r[s]
  BY <1>2, <1>4
<1>7. \A s \in StepId : t[s] <= MaxAttempts
  BY <1>4, <1>6, PlanAssumption DEF c
<1> HIDE DEF t
<1>8. \A i \in DOMAIN q.steps : t[q.steps[i].id] = q.steps[i].attempts
  <2> SUFFICES ASSUME NEW i \in DOMAIN p.steps
               PROVE  t[q.steps[i].id] = q.steps[i].attempts
    BY <1>1
  <2>1. CASE i = c
    BY <1>1, <1>4, <1>6, <2>1 DEF id
  <2>2. CASE i # c
    BY <1>1, <1>3, <1>5, <1>6, <2>2 DEF Counted
  <2> QED
    BY <2>1, <2>2
<1>9. \A s \in StepId \ q.seen : t[s] = 0
  BY <1>1, <1>2, <1>6 DEF Counted
<1> QED
  BY <1>6, <1>7, <1>8, <1>9 DEF Counted, q, t, id, c

-----------------------------------------------------------------------------
(* The inductive invariant.                                                *)

InReview == pc \in {"reviewing", "replanning", "patch-reviewing"}

TypeInv ==
    /\ pc \in Phases \cup {"begin", "ended"}
    /\ total \in 0 .. MaxTotalChildRuns
    /\ retried \in BOOLEAN /\ aborted \in BOOLEAN
    /\ trigger \in {"none", "step-completed", "final-review-gap"}
    /\ draft \in Seq(Outline)
    /\ result \in Status \cup {"none"}
    /\ ran \in [StepId -> Nat]

\* The plan and the runs it stands for.
PlanInv ==
    /\ Formed(plan) /\ Counted(plan, ran)
    /\ \A s \in StepId : ran[s] <= MaxAttempts

\* Only the current step may have been tried in vain.
Fresh(p) == \A i \in Pending(p) : i # Current(p) => p.steps[i].attempts = 0

\* Where the pipeline is, as the plan shows it.
PhaseInv ==
    /\ pc # "ended" => result = "none"
    /\ result # "exhausted" /\ AcceptedIsCovered
    /\ pc = "begin" => total = 0
    /\ pc \in {"begin", "planning"} => plan.steps = <<>> /\ plan.seen = {}
    /\ pc \in Phases \ {"planning"} => Covered(plan.steps) = Criterion
    /\ pc \in {"executing", "verifying"} => Pending(plan) # {} /\ Fresh(plan)
    /\ InReview => Untried(plan)
    /\ pc = "final" \/ (pc = "replanning" /\ trigger # "step-completed") => Pending(plan) = {}
    /\ pc = "patch-reviewing" => draft \in Outlines(MaxPlanSteps) /\ Patches(plan, draft)

\* What each phase has left to spend.
Funded ==
    /\ pc = "planning" => Affords(4)
    /\ pc = "executing" => Affords(2 * Cardinality(Pending(plan)))
    /\ pc = "verifying" => Affords(2 * Cardinality(Pending(plan)) - 1)
    /\ pc = "replanning" =>
          Affords(IF trigger = "step-completed" THEN Mandatory(plan) + 1 ELSE 4)

IInv == TypeInv /\ PlanInv /\ PhaseInv /\ Funded

\* What no turn of this kind touches.
Sound ==
    /\ retried' \in BOOLEAN /\ aborted' \in BOOLEAN
    /\ trigger' \in {"none", "step-completed", "final-review-gap"}
    /\ draft' \in Seq(Outline)

LEMMA InitIInv == Init => IInv
<1> SUFFICES ASSUME Init PROVE IInv
  OBVIOUS
<1>1. TypeInv
  <2>1. draft \in Seq(Outline)
    BY DEF Init
  <2>2. ran \in [StepId -> Nat]
    BY DEF Init
  <2>3. total \in 0 .. MaxTotalChildRuns
    BY PlanAssumption DEF Init
  <2>4. /\ pc \in Phases \cup {"begin", "ended"} /\ result \in Status \cup {"none"}
        /\ trigger \in {"none", "step-completed", "final-review-gap"}
        /\ retried \in BOOLEAN /\ aborted \in BOOLEAN
    BY DEF Init
  <2> QED
    BY <2>1, <2>2, <2>3, <2>4, Zenon DEF TypeInv
<1>2. plan.steps = <<>> /\ plan.patches = 0 /\ plan.seen = {} /\ DOMAIN plan.steps = {}
  BY DEF Init
<1>3. PlanInv
  <2>1. plan \in PlanRecord
    BY DEF Init, PlanRecord
  <2>2. Len(plan.steps) = 0 /\ Done(plan) = {} /\ Done(plan) = 1 .. 0 /\ Ids(plan.steps) = {}
    BY <1>2 DEF Done, Ids
  <2>3. Cardinality(plan.seen) = 0
    BY <1>2, FS_EmptySet
  <2>4. Formed(plan)
    BY <1>2, <2>1, <2>2, <2>3, PlanAssumption DEF Formed
  <2> QED
    BY <1>2, <2>4, PlanAssumption DEF Init, PlanInv, Counted
<1>4. PhaseInv
  BY DEF Init, PhaseInv, AcceptedIsCovered, Phases, InReview
<1>5. Funded
  BY DEF Init, Funded
<1> QED
  BY <1>1, <1>3, <1>4, <1>5 DEF IInv

\* An end is always in order.
LEMMA EndsOK ==
    ASSUME NEW status \in Status, status # "exhausted", Ends(status), TypeInv, Sound,
           PlanInv', ran' \in [StepId -> Nat],
           status = "accepted" => Pending(plan') = {} /\ Covered(plan'.steps) = Criterion
    PROVE  IInv'
<1>1. TypeInv'
  BY DEF Ends, TypeInv, Sound
<1>2. PhaseInv'
  BY DEF Ends, PhaseInv, AcceptedIsCovered, InReview, Phases
<1>3. Funded'
  BY DEF Ends, Funded
<1> QED
  BY <1>1, <1>2, <1>3 DEF IInv

\* A child that can be paid for is started, unless the task was aborted.
LEMMA CallOK ==
    ASSUME NEW phase, Call(phase), TypeInv, Affords(1)
    PROVE  \/ Ends("cancelled")
           \/ /\ pc' = phase /\ total' = total + 1 /\ total' \in 0 .. MaxTotalChildRuns
              /\ result' = result
BY PlanAssumption DEF Call, TypeInv, Affords

\* The loop is entered with the price of all that must follow.
LEMMA LoopOK ==
    ASSUME IInv, pc \in Phases, Sound,
           NEW p, Formed(p), Counted(p, ran), Covered(p.steps) = Criterion, Fresh(p),
           Pending(p) # {} => p.steps[Current(p)].attempts < MaxAttempts,
           Affords(Mandatory(p)), Loop(p)
    PROVE  IInv'
<1> USE DEF IInv
<1>1. /\ Cardinality(Pending(p)) \in Nat /\ Mandatory(p) \in Nat
      /\ Mandatory(p) = 2 * Cardinality(Pending(p)) + 1
  BY SizeFacts
<1>2. total \in Nat /\ MaxTotalChildRuns \in Nat /\ Affords(1)
  BY <1>1, PlanAssumption DEF Affords, TypeInv
<1>3. result = "none" /\ ran \in [StepId -> Nat] /\ \A s \in StepId : ran[s] <= MaxAttempts
  BY DEF PhaseInv, Phases, TypeInv, PlanInv
<1>4. ASSUME plan' = p, ran' = ran PROVE PlanInv'
  BY <1>3, <1>4 DEF PlanInv
<1>5. ASSUME Ends("cancelled") \/ Ends("error"), plan' = p, ran' = ran PROVE IInv'
  <2>1. PlanInv' /\ ran' \in [StepId -> Nat]
    BY <1>3, <1>4, <1>5
  <2> QED
    BY <1>5, <2>1, EndsOK DEF Status
<1>6. CASE Pending(p) = {} /\ Call("final") /\ plan' = p /\ ran' = ran
  <2>1. CASE Ends("cancelled")
    BY <1>5, <1>6, <2>1
  <2>2. CASE /\ pc' = "final" /\ total' = total + 1 /\ total' \in 0 .. MaxTotalChildRuns
             /\ result' = result
    <3>1. TypeInv'
      BY <1>3, <1>6, <2>2 DEF TypeInv, Sound, Phases
    <3>2. PhaseInv'
      BY <1>3, <1>6, <2>2 DEF PhaseInv, AcceptedIsCovered, InReview, Phases
    <3>3. Funded'
      BY <2>2 DEF Funded
    <3> QED
      BY <1>4, <1>6, <3>1, <3>2, <3>3
  <2> QED
    BY <1>2, <1>6, <2>1, <2>2, CallOK
<1>7. CASE /\ Pending(p) # {} /\ Call("executing") /\ plan' = Attempted(p)
           /\ ran' = [ran EXCEPT ![p.steps[Current(p)].id] = @ + 1]
  <2> DEFINE q == Attempted(p)
  <2>1. /\ Formed(q) /\ Pending(q) = Pending(p) /\ Covered(q.steps) = Criterion
        /\ \A i \in DOMAIN p.steps : i # Current(p) => q.steps[i] = p.steps[i]
    BY <1>7, AttemptedOK
  <2>2. /\ ran' \in [StepId -> Nat] /\ Counted(q, ran')
        /\ \A s \in StepId : ran'[s] <= MaxAttempts
    BY <1>3, <1>7, AttemptCounted
  <2>3. Current(q) = Current(p)
    BY <2>1 DEF Current
  <2>4. Fresh(q)
    BY <2>1, <2>3 DEF Fresh, Pending
  <2> HIDE DEF q
  <2>5. plan' = q
    BY <1>7 DEF q
  <2>6. PlanInv'
    BY <2>1, <2>2, <2>5 DEF PlanInv
  <2>7. CASE Ends("cancelled")
    BY <2>2, <2>6, <2>7, EndsOK DEF Status
  <2>8. CASE /\ pc' = "executing" /\ total' = total + 1 /\ total' \in 0 .. MaxTotalChildRuns
             /\ result' = result
    <3>1. TypeInv'
      BY <1>3, <2>2, <2>8 DEF TypeInv, Sound, Phases
    <3>2. PhaseInv'
      BY <1>3, <1>7, <2>1, <2>4, <2>5, <2>8 DEF PhaseInv, AcceptedIsCovered, InReview, Phases
    <3>3. Funded'
      BY <1>1, <1>2, <2>1, <2>5, <2>8 DEF Funded, Affords
    <3> QED
      BY <2>6, <3>1, <3>2, <3>3
  <2> QED
    BY <1>2, <1>7, <2>7, <2>8, CallOK
<1> QED
  BY <1>2, <1>5, <1>6, <1>7 DEF Loop

-----------------------------------------------------------------------------
(* The turns.                                                              *)

LEMMA UntriedIsFresh ==
    ASSUME NEW p, Formed(p), Untried(p)
    PROVE  /\ Fresh(p)
           /\ Pending(p) # {} => p.steps[Current(p)].attempts < MaxAttempts
<1>1. Pending(p) # {} => Current(p) \in Pending(p)
  BY ShapeFacts DEF Formed
<1> QED
  BY <1>1, PlanAssumption DEF Untried, Fresh

\* A turn that keeps the plan keeps what is counted.
LEMMA SameSound ==
    ASSUME TypeInv, UNCHANGED <<retried, trigger, draft, aborted>>
    PROVE  Sound
BY DEF TypeInv, Sound

LEMMA BeginOK == ASSUME IInv, Begin PROVE IInv'
<1> USE DEF IInv
<1>1. Sound /\ PlanInv' /\ ran' \in [StepId -> Nat]
  BY DEF Begin, TypeInv, Sound, PlanInv
<1>2. total = 0 /\ Affords(1) /\ pc = "begin" /\ result = "none"
  BY PlanAssumption DEF Begin, PhaseInv, Affords
<1>3. CASE Ends("cancelled") \/ Ends("error")
  BY <1>1, <1>3, EndsOK DEF Status
<1>4. CASE pc' = "planning" /\ total' = total + 1 /\ total' \in 0 .. MaxTotalChildRuns /\ result' = result
  <2>1. TypeInv' /\ PhaseInv'
    BY <1>2, <1>4 DEF Begin, TypeInv, PhaseInv, AcceptedIsCovered, InReview, Phases
  <2>2. Funded'
    BY <1>2, <1>4, PlanAssumption DEF Funded, Affords
  <2> QED
    BY <1>1, <2>1, <2>2
<1> QED
  BY <1>2, <1>3, <1>4, CallOK DEF Begin

LEMMA FailOK == ASSUME IInv, Fail PROVE IInv'
<1> USE DEF IInv
<1>1. Sound /\ PlanInv' /\ ran' \in [StepId -> Nat]
  BY DEF Fail, TypeInv, Sound, PlanInv
<1> QED
  BY <1>1, EndsOK DEF Fail, Status

LEMMA RetryOK == ASSUME IInv, Retry PROVE IInv'
<1> USE DEF IInv
<1>1. Sound /\ PlanInv' /\ ran' \in [StepId -> Nat]
  BY DEF Retry, TypeInv, Sound, PlanInv
<1>2. total \in Nat /\ MaxTotalChildRuns \in Nat /\ result = "none"
  BY PlanAssumption DEF Retry, PhaseInv, TypeInv
<1>3. Affords(1) /\ (pc = "planning" => Affords(5))
  BY <1>2 DEF Retry, Affords
<1>4. CASE Ends("cancelled")
  BY <1>1, <1>4, EndsOK DEF Status
<1>5. CASE pc' = pc /\ total' = total + 1 /\ total' \in 0 .. MaxTotalChildRuns /\ result' = result
  <2>1. TypeInv'
    BY <1>5 DEF Retry, TypeInv
  <2>2. PhaseInv'
    BY <1>2, <1>5 DEF Retry, PhaseInv, AcceptedIsCovered, InReview, Phases
  <2>3. Funded'
    BY <1>2, <1>3, <1>5 DEF Retry, Funded, Affords
  <2> QED
    BY <1>1, <2>1, <2>2, <2>3
<1> QED
  BY <1>3, <1>4, <1>5, CallOK DEF Retry

LEMMA PlannedOK == ASSUME IInv, Planned PROVE IInv'
<1> USE DEF IInv
<1>1. PICK s \in Outlines(MaxPlanSteps) : Covered(s) = Criterion /\ plan' = Created(s)
  BY DEF Planned
<1> DEFINE p == Created(s)
<1>2. /\ Formed(p) /\ Untried(p) /\ Covered(p.steps) = Criterion
      /\ \A i \in DOMAIN p.steps : p.steps[i].attempts = 0
  BY <1>1, CreatedOK
<1> HIDE DEF p
<1>3. plan' = p /\ ran' = ran
  BY <1>1 DEF Planned, p
<1>4. \A x \in StepId : ran[x] = 0
  BY DEF Planned, PhaseInv, PlanInv, Counted
<1>5. \A i \in DOMAIN p.steps : p.steps[i].id \in StepId
  BY <1>2 DEF Formed, PlanRecord, Ids
<1>6. Counted(p, ran)
  BY <1>2, <1>4, <1>5 DEF Counted
<1>7. PlanInv' /\ ran' \in [StepId -> Nat] /\ Sound
  BY <1>2, <1>3, <1>6 DEF Planned, PlanInv, TypeInv, Sound
<1>8. Affords(1) /\ result = "none"
  BY PlanAssumption DEF Planned, Funded, Affords, TypeInv, PhaseInv
<1>9. CASE Ends("cancelled")
  BY <1>7, <1>9, EndsOK DEF Status
<1>10. CASE /\ pc' = "reviewing" /\ total' = total + 1 /\ total' \in 0 .. MaxTotalChildRuns
            /\ result' = result
  <2>1. TypeInv'
    BY <1>7, <1>10 DEF TypeInv, Sound, Phases
  <2>2. PhaseInv'
    BY <1>2, <1>3, <1>8, <1>10 DEF PhaseInv, AcceptedIsCovered, InReview, Phases
  <2>3. Funded'
    BY <1>10 DEF Funded
  <2> QED
    BY <1>7, <2>1, <2>2, <2>3
<1> QED
  BY <1>8, <1>9, <1>10, CallOK DEF Planned

LEMMA ReviewedOK == ASSUME IInv, Reviewed PROVE IInv'
<1> USE DEF IInv
<1>1. Sound /\ pc \in Phases
  BY SameSound DEF Reviewed, Phases
<1>2. CASE (Ends("blocked") \/ Ends("rejected")) /\ UNCHANGED <<plan, ran>>
  <2>1. PlanInv' /\ ran' \in [StepId -> Nat]
    BY <1>2 DEF TypeInv, PlanInv
  <2> QED
    BY <1>1, <1>2, <2>1, EndsOK DEF Status
<1>3. CASE Affords(Mandatory(plan)) /\ Loop(plan)
  <2>1. /\ Formed(plan) /\ Counted(plan, ran) /\ Covered(plan.steps) = Criterion
        /\ Untried(plan)
    BY DEF Reviewed, PlanInv, PhaseInv, InReview, Phases
  <2> QED
    BY <1>1, <1>3, <2>1, UntriedIsFresh, LoopOK
<1> QED
  BY <1>2, <1>3 DEF Reviewed

LEMMA ExecutedOK == ASSUME IInv, Executed PROVE IInv'
<1> USE DEF IInv
<1>1. Sound /\ PlanInv' /\ ran' \in [StepId -> Nat]
  BY DEF Executed, TypeInv, Sound, PlanInv
<1>2. /\ Formed(plan) /\ Pending(plan) # {} /\ result = "none"
      /\ Affords(2 * Cardinality(Pending(plan)))
  BY DEF Executed, PhaseInv, PlanInv, Funded
<1>3. Cardinality(Pending(plan)) \in Nat /\ Cardinality(Pending(plan)) >= 1
  BY <1>2, SizeFacts
<1>4. total \in Nat /\ MaxTotalChildRuns \in Nat
  BY PlanAssumption DEF TypeInv
<1>5. Affords(1)
  BY <1>2, <1>3, <1>4 DEF Affords
<1>6. CASE Ends("blocked") \/ Ends("cancelled")
  BY <1>1, <1>6, EndsOK DEF Status
<1>7. CASE /\ pc' = "verifying" /\ total' = total + 1 /\ total' \in 0 .. MaxTotalChildRuns
           /\ result' = result
  <2>1. TypeInv'
    BY <1>7 DEF Executed, TypeInv, Phases
  <2>2. PhaseInv'
    BY <1>2, <1>7 DEF Executed, PhaseInv, AcceptedIsCovered, InReview, Phases
  <2>3. Funded'
    BY <1>2, <1>3, <1>4, <1>7 DEF Executed, Funded, Affords
  <2> QED
    BY <1>1, <2>1, <2>2, <2>3
<1> QED
  BY <1>5, <1>6, <1>7, CallOK DEF Executed

LEMMA RevisedOK == ASSUME IInv, Revised PROVE IInv'
<1> USE DEF IInv
<1>1. Sound /\ pc \in Phases
  BY SameSound DEF Revised, Phases
<1>2. CASE (Ends("blocked") \/ Ends("rejected")) /\ UNCHANGED <<plan, ran>>
  <2>1. PlanInv' /\ ran' \in [StepId -> Nat]
    BY <1>2 DEF TypeInv, PlanInv
  <2> QED
    BY <1>1, <1>2, <2>1, EndsOK DEF Status
<1>3. CASE /\ plan.steps[Current(plan)].attempts < MaxAttempts
           /\ Affords(Mandatory(plan)) /\ Loop(plan)
  <2>1. /\ Formed(plan) /\ Counted(plan, ran) /\ Covered(plan.steps) = Criterion
        /\ Fresh(plan)
    BY DEF Revised, PlanInv, PhaseInv, Phases
  <2> QED
    BY <1>1, <1>3, <2>1, LoopOK
<1> QED
  BY <1>2, <1>3 DEF Revised

LEMMA VerifiedOK == ASSUME IInv, Verified PROVE IInv'
<1> USE DEF IInv
<1> DEFINE p == Completes(plan)
<1>1. /\ Formed(plan) /\ Counted(plan, ran) /\ Pending(plan) # {} /\ Fresh(plan)
      /\ Covered(plan.steps) = Criterion /\ result = "none" /\ pc \in Phases
      /\ Affords(2 * Cardinality(Pending(plan)) - 1)
  BY DEF Verified, PhaseInv, PlanInv, Funded, Phases
<1>2. /\ Formed(p) /\ Pending(p) = Pending(plan) \ {Current(plan)}
      /\ Cardinality(Pending(p)) = Cardinality(Pending(plan)) - 1
      /\ Covered(p.steps) = Criterion /\ p.seen = plan.seen
      /\ DOMAIN p.steps = DOMAIN plan.steps
      /\ \A i \in DOMAIN plan.steps : /\ p.steps[i].id = plan.steps[i].id
                                      /\ p.steps[i].attempts = plan.steps[i].attempts
  BY <1>1, CompletesOK
<1> HIDE DEF p
<1>3. Counted(p, ran)
  BY <1>1, <1>2 DEF Counted
<1>4. Untried(p)
  BY <1>1, <1>2 DEF Fresh, Untried, Pending
<1>5. /\ Cardinality(Pending(p)) \in Nat /\ Mandatory(p) \in Nat
      /\ Mandatory(p) = 2 * Cardinality(Pending(p)) + 1
  BY <1>2, SizeFacts
<1>6. Cardinality(Pending(plan)) \in Nat /\ total \in Nat /\ MaxTotalChildRuns \in Nat
  BY <1>1, SizeFacts, PlanAssumption DEF TypeInv
<1>7. Affords(Mandatory(p))
  BY <1>1, <1>2, <1>5, <1>6 DEF Affords
<1>8. CASE MayReplan(p) /\ Replan(p, "step-completed")
  <2>1. Sound /\ plan' = p /\ ran' = ran /\ trigger' = "step-completed"
    BY <1>8 DEF Verified, Replan, Sound, TypeInv
  <2>2. PlanInv' /\ ran' \in [StepId -> Nat]
    BY <1>2, <1>3, <2>1 DEF PlanInv, TypeInv
  <2>3. Affords(Mandatory(p) + 2) /\ Affords(1)
    BY <1>5, <1>6, <1>8 DEF MayReplan, Affords
  <2>4. CASE Ends("cancelled")
    BY <2>1, <2>2, <2>4, EndsOK DEF Status
  <2>5. CASE /\ pc' = "replanning" /\ total' = total + 1 /\ total' \in 0 .. MaxTotalChildRuns
             /\ result' = result
    <3>1. TypeInv'
      BY <2>1, <2>2, <2>5 DEF TypeInv, Sound, Phases
    <3>2. PhaseInv'
      BY <1>1, <1>2, <1>4, <2>1, <2>5 DEF PhaseInv, AcceptedIsCovered, InReview, Phases
    <3>3. Funded'
      BY <1>5, <1>6, <2>1, <2>3, <2>5 DEF Funded, Affords
    <3> QED
      BY <2>2, <3>1, <3>2, <3>3
  <2> QED
    BY <1>8, <2>3, <2>4, <2>5, CallOK DEF Replan
<1>9. CASE Loop(p) /\ UNCHANGED trigger
  <2>1. Sound
    BY <1>9 DEF Verified, Sound, TypeInv
  <2> QED
    BY <1>1, <1>2, <1>3, <1>4, <1>7, <1>9, <2>1, UntriedIsFresh, LoopOK
<1> QED
  BY <1>8, <1>9 DEF Verified, p

LEMMA ReplannedOK == ASSUME IInv, Replanned PROVE IInv'
<1> USE DEF IInv
<1>1. /\ Formed(plan) /\ Counted(plan, ran) /\ Untried(plan) /\ Covered(plan.steps) = Criterion
      /\ result = "none" /\ pc \in Phases /\ pc = "replanning"
      /\ Affords(IF trigger = "step-completed" THEN Mandatory(plan) + 1 ELSE 4)
  BY DEF Replanned, PhaseInv, PlanInv, Funded, Phases, InReview
<1>2. Mandatory(plan) \in Nat /\ total \in Nat /\ MaxTotalChildRuns \in Nat
  BY <1>1, SizeFacts, PlanAssumption DEF TypeInv
<1>3. CASE (Ends("blocked") \/ Ends("rejected")) /\ UNCHANGED <<plan, draft, ran>>
  <2>1. Sound /\ PlanInv' /\ ran' \in [StepId -> Nat]
    BY <1>3 DEF Replanned, TypeInv, PlanInv, Sound
  <2> QED
    BY <1>3, <2>1, EndsOK DEF Status
<1>4. CASE trigger = "step-completed" /\ Loop(plan) /\ UNCHANGED draft
  <2>1. Sound
    BY <1>4 DEF Replanned, Sound, TypeInv
  <2>2. Affords(Mandatory(plan))
    BY <1>1, <1>2, <1>4 DEF Affords
  <2> QED
    BY <1>1, <1>4, <2>1, <2>2, UntriedIsFresh, LoopOK
<1>5. CASE /\ \E s \in Outlines(MaxPlanSteps) : Patches(plan, s) /\ draft' = s
           /\ Call("patch-reviewing") /\ UNCHANGED <<plan, ran>>
  <2>1. draft' \in Outlines(MaxPlanSteps) /\ Patches(plan', draft')
    BY <1>5
  <2>2. draft' \in Seq(Outline)
    BY <2>1, OutlineFacts
  <2>3. Sound /\ PlanInv' /\ ran' \in [StepId -> Nat]
    BY <1>5, <2>2 DEF Replanned, TypeInv, PlanInv, Sound
  <2>4. Affords(1)
    BY <1>1, <1>2 DEF Affords
  <2>5. CASE Ends("cancelled")
    BY <2>3, <2>5, EndsOK DEF Status
  <2>6. CASE /\ pc' = "patch-reviewing" /\ total' = total + 1
             /\ total' \in 0 .. MaxTotalChildRuns /\ result' = result
    <3>1. TypeInv'
      BY <2>3, <2>6 DEF TypeInv, Sound, Phases
    <3>2. PhaseInv'
      BY <1>1, <1>5, <2>1, <2>6 DEF PhaseInv, AcceptedIsCovered, InReview, Phases
    <3>3. Funded'
      BY <2>6 DEF Funded
    <3> QED
      BY <2>3, <3>1, <3>2, <3>3
  <2> QED
    BY <1>5, <2>4, <2>5, <2>6, CallOK
<1> QED
  BY <1>3, <1>4, <1>5 DEF Replanned

LEMMA PatchReviewedOK == ASSUME IInv, PatchReviewed PROVE IInv'
<1> USE DEF IInv
<1> DEFINE p == Patched(plan, draft)
<1>1. /\ Formed(plan) /\ Counted(plan, ran) /\ Untried(plan) /\ pc \in Phases
      /\ draft \in Outlines(MaxPlanSteps) /\ Patches(plan, draft)
  BY DEF PatchReviewed, PhaseInv, PlanInv, Phases, InReview
<1>2. /\ Formed(p) /\ Untried(p) /\ Counted(p, ran)
      /\ Covered(p.steps) = Criterion /\ Cardinality(Pending(p)) = Len(draft)
  BY <1>1, PatchedOK
<1> HIDE DEF p
<1>3. <<>> \in Seq(Outline)
  OBVIOUS
<1>4. Sound
  BY <1>3 DEF PatchReviewed, Sound, TypeInv
<1>5. CASE (Ends("blocked") \/ Ends("rejected")) /\ UNCHANGED <<plan, ran>>
  <2>1. PlanInv' /\ ran' \in [StepId -> Nat]
    BY <1>5 DEF TypeInv, PlanInv
  <2> QED
    BY <1>4, <1>5, <2>1, EndsOK DEF Status
<1>6. CASE Affords(2 * Len(draft) + 1) /\ Loop(p)
  <2>1. Affords(Mandatory(p))
    BY <1>2, <1>6 DEF Mandatory
  <2> QED
    BY <1>1, <1>2, <1>4, <1>6, <2>1, UntriedIsFresh, LoopOK
<1> QED
  BY <1>5, <1>6 DEF PatchReviewed, p

LEMMA FinallyVerifiedOK == ASSUME IInv, FinallyVerified PROVE IInv'
<1> USE DEF IInv
<1>1. /\ Formed(plan) /\ Covered(plan.steps) = Criterion /\ Pending(plan) = {}
      /\ result = "none"
  BY DEF FinallyVerified, PhaseInv, PlanInv, Phases
<1>2. CASE /\ Ends("accepted") \/ Ends("blocked") \/ Ends("rejected")
           /\ UNCHANGED <<plan, trigger, ran>>
  <2>1. Sound /\ PlanInv' /\ ran' \in [StepId -> Nat]
    BY <1>2 DEF FinallyVerified, TypeInv, PlanInv, Sound
  <2>2. Pending(plan') = {} /\ Covered(plan'.steps) = Criterion
    BY <1>1, <1>2
  <2> QED
    BY <1>2, <2>1, <2>2, EndsOK DEF Status
<1>3. CASE MayRemedy /\ Replan(plan, "final-review-gap")
  <2>1. Sound /\ plan' = plan /\ ran' = ran /\ trigger' = "final-review-gap"
    BY <1>3 DEF FinallyVerified, Replan, Sound, TypeInv
  <2>2. PlanInv' /\ ran' \in [StepId -> Nat]
    BY <2>1 DEF PlanInv, TypeInv
  <2>3. total \in Nat /\ MaxTotalChildRuns \in Nat
    BY PlanAssumption DEF TypeInv
  <2>4. Affords(5) /\ Affords(1)
    BY <1>3, <2>3 DEF MayRemedy, Affords
  <2>5. CASE Ends("cancelled")
    BY <2>1, <2>2, <2>5, EndsOK DEF Status
  <2>6. CASE /\ pc' = "replanning" /\ total' = total + 1 /\ total' \in 0 .. MaxTotalChildRuns
             /\ result' = result
    <3>1. TypeInv'
      BY <2>1, <2>2, <2>6 DEF TypeInv, Sound, Phases
    <3>2. PhaseInv'
      BY <1>1, <2>1, <2>6 DEF PhaseInv, AcceptedIsCovered, InReview, Phases, Untried
    <3>3. Funded'
      BY <2>1, <2>3, <2>4, <2>6 DEF Funded, Affords
    <3> QED
      BY <2>2, <3>1, <3>2, <3>3
  <2> QED
    BY <1>3, <2>4, <2>5, <2>6, CallOK DEF Replan
<1> QED
  BY <1>2, <1>3 DEF FinallyVerified

LEMMA AbortOK == ASSUME IInv, Abort PROVE IInv'
<1> USE DEF IInv
<1>1. TypeInv' /\ PlanInv'
  BY DEF Abort, TypeInv, PlanInv
<1>2. PhaseInv' /\ Funded'
  BY DEF Abort, PhaseInv, AcceptedIsCovered, InReview, Funded, Affords
<1> QED
  BY <1>1, <1>2

LEMMA NextIInv == IInv /\ [Next]_vars => IInv'
<1> SUFFICES ASSUME IInv, [Next]_vars PROVE IInv'
  OBVIOUS
<1>1. CASE UNCHANGED vars
  BY <1>1 DEF vars, IInv, TypeInv, PlanInv, PhaseInv, AcceptedIsCovered, InReview, Funded, Affords
<1> QED
  BY <1>1, BeginOK, FailOK, RetryOK, PlannedOK, ReviewedOK, ExecutedOK, RevisedOK, VerifiedOK,
     ReplannedOK, PatchReviewedOK, FinallyVerifiedOK, AbortOK DEF Next

-----------------------------------------------------------------------------
(* What follows.                                                           *)

LEMMA SpecIInv == Spec => []IInv
  BY InitIInv, NextIInv, PTL DEF Spec

(* Every plan of every run keeps to its limits, its completed prefix and   *)
(* its distinct ids (createMasterPlan, applyPlanPatch).                    *)
THEOREM PlanTypeCorrect == Spec => []PlanTypeOK
<1>1. ASSUME IInv PROVE PlanTypeOK
  <2>1. PICK n \in 0 .. Len(plan.steps) : Done(plan) = 1 .. n
    BY <1>1 DEF IInv, PlanInv, Formed
  <2>2. Cardinality(Done(plan)) = n
    BY <1>1, <2>1, ShapeFacts DEF IInv, PlanInv
  <2>3. plan.patches \in 0 .. MaxPlanPatches
    BY <1>1, PlanAssumption DEF IInv, PlanInv, Formed, PlanRecord
  <2> QED
    BY <1>1, <2>1, <2>2, <2>3 DEF IInv, TypeInv, PlanInv, Formed, PlanRecord, PlanTypeOK
<1> QED
  BY <1>1, SpecIInv, PTL

(* runPhase never refuses a child for want of runs: every guard that lets  *)
(* an optional child start leaves the mandatory ones paid for.             *)
THEOREM RunsAlwaysSuffice == Spec => []RunsSuffice
<1>1. ASSUME IInv PROVE RunsSuffice
  BY <1>1 DEF IInv, PhaseInv, RunsSuffice
<1> QED
  BY <1>1, SpecIInv, PTL

(* A step is executed as often as its attempts say, and no oftener than    *)
(* the lane allows, across every patch that parsePlanPatch lets through.   *)
THEOREM EffectsBounded == Spec => []EffectsAreBounded
<1>1. ASSUME IInv PROVE EffectsAreBounded
  BY <1>1 DEF IInv, PlanInv, Counted, EffectsAreBounded
<1> QED
  BY <1>1, SpecIInv, PTL

(* The pipeline accepts only when the completed steps cover all criteria.  *)
THEOREM AcceptanceIsCovered == Spec => []AcceptedIsCovered
<1>1. ASSUME IInv PROVE AcceptedIsCovered
  BY <1>1 DEF IInv, PhaseInv
<1> QED
  BY <1>1, SpecIInv, PTL

\* The loop only adds an attempt to a pending step.
LEMMA LoopKeeps ==
    ASSUME NEW p, Formed(p), Loop(p)
    PROVE  \A i \in Done(p) : i \in DOMAIN plan'.steps /\ plan'.steps[i] = p.steps[i]
<1>1. plan' = p \/ (Pending(p) # {} /\ plan' = Attempted(p))
  BY DEF Loop
<1>2. \A i \in Done(p) : i \in DOMAIN p.steps
  BY DEF Done
<1>3. CASE Pending(p) # {} /\ plan' = Attempted(p)
  <2>1. Current(p) \in Pending(p)
    BY <1>3, ShapeFacts DEF Formed
  <2>2. \A i \in Done(p) : i # Current(p)
    BY <2>1 DEF Pending
  <2> QED
    BY <1>2, <1>3, <2>2, AttemptedOK
<1> QED
  BY <1>1, <1>2, <1>3

(* No turn of the pipeline touches a completed step: not an attempt, not   *)
(* another completion, not a patch.                                        *)
THEOREM CompletedStays == Spec => CompletedIsImmutable
<1> DEFINE Keeps == \A i \in Done(plan) : i \in DOMAIN plan'.steps /\ plan'.steps[i] = plan.steps[i]
<1>1. ASSUME IInv, [Next]_vars PROVE [Keeps]_vars
  <2>1. Formed(plan) /\ Counted(plan, ran)
    BY <1>1 DEF IInv, PlanInv
  <2>2. CASE plan' = plan
    BY <2>2 DEF Done
  <2>3. CASE Planned
    <3>1. Done(plan) = {}
      BY <1>1, <2>3 DEF Planned, IInv, PhaseInv, Done
    <3> QED
      BY <3>1
  <2>4. CASE Loop(plan)
    BY <2>1, <2>4, LoopKeeps
  <2>5. CASE Verified
    <3> DEFINE p == Completes(plan)
    <3>1. Pending(plan) # {}
      BY <1>1, <2>5 DEF Verified, IInv, PhaseInv
    <3>2. /\ Formed(p) /\ Pending(p) = Pending(plan) \ {Current(plan)}
          /\ DOMAIN p.steps = DOMAIN plan.steps
          /\ \A i \in DOMAIN plan.steps : i # Current(plan) => p.steps[i] = plan.steps[i]
      BY <2>1, <3>1, CompletesOK
    <3>3. Current(plan) \in Pending(plan)
      BY <2>1, <3>1, ShapeFacts DEF Formed
    <3>4. plan' = p \/ Loop(p)
      BY <2>5 DEF Verified, Replan
    <3> HIDE DEF p
    <3>5. \A i \in Done(plan) : i \in DOMAIN plan.steps /\ i \in Done(p) /\ p.steps[i] = plan.steps[i]
      BY <3>2, <3>3 DEF Done, Pending
    <3>6. CASE plan' = p
      BY <3>2, <3>5, <3>6
    <3>7. CASE Loop(p)
      BY <3>2, <3>5, <3>7, LoopKeeps
    <3> QED
      BY <3>4, <3>6, <3>7
  <2>6. CASE PatchReviewed /\ Loop(Patched(plan, draft))
    <3> DEFINE p == Patched(plan, draft)
    <3>1. Untried(plan) /\ draft \in Outlines(MaxPlanSteps) /\ Patches(plan, draft)
      BY <1>1, <2>6 DEF PatchReviewed, IInv, PhaseInv, InReview
    <3>2. /\ Formed(p)
          /\ \A i \in Done(plan) : i \in DOMAIN p.steps /\ p.steps[i] = plan.steps[i]
      BY <2>1, <3>1, PatchedOK
    <3> HIDE DEF p
    <3>3. Loop(p)
      BY <2>6 DEF p
    <3>4. \A i \in Done(plan) : i \in Done(p)
      BY <3>2 DEF Done
    <3> QED
      BY <3>2, <3>3, <3>4, LoopKeeps
  <2> QED
    BY <1>1, <2>2, <2>3, <2>4, <2>5, <2>6 DEF Next, vars, Begin, Fail, Retry, Reviewed,
       Executed, Revised, Replanned, PatchReviewed, FinallyVerified, Replan, Abort
<1> QED
  BY <1>1, SpecIInv, PTL DEF Spec, CompletedIsImmutable
=============================================================================
