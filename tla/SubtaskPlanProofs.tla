------------------------- MODULE SubtaskPlanProofs --------------------------
(***************************************************************************)
(* Proofs about the plan of one pipeline, for any lanes, limits, duties    *)
(* and proposals: that what the plan promises is paid for, that a verdict  *)
(* covers the task, that a checkpoint is reached within two refills, and   *)
(* that an id names one task for as long as the pipeline runs.             *)
(*                                                                         *)
(* The heart of the invariant is Affords: every phase has the runs, nodes  *)
(* and slots that the rest of the plan needs at the least, so that no test *)
(* of a later phase can fail.  It leans on the order in which tasks start, *)
(* and of the scheduler it uses only that it starts ready tasks: what its  *)
(* recursive graphs compute is not needed here.                            *)
(***************************************************************************)
EXTENDS SubtaskPlan, FiniteSetTheorems, TLAPS

-----------------------------------------------------------------------------
(* The inductive invariant.                                                *)

Statuses == {"pending", "running", "completed", "failed"}
Planned  == {"reviewing", "scheduling", "replanned", "patching", "verifying", "accepted"}
Stages   == Planned \cup {"planning", "retrying", "failed", "refused", "cancelled"}
Amounts  == [runs : Nat, nodes : Nat, slots : Nat]

TypeOK ==
    /\ lane \in Lanes
    /\ grant \in Amounts
    /\ pc \in Stages
    /\ IsFiniteSet(DOMAIN tasks)
    /\ status \in [DOMAIN tasks -> Statuses]
    /\ patches \in Nat /\ optional \in Nat /\ refills \in Nat
    /\ checkpoint \in BOOLEAN

\* The tasks of the plan are the ones their ids named first.
Remembered == \A i \in DOMAIN tasks : i \in DOMAIN seen /\ tasks[i] = seen[i]

\* In the steps st of the tasks T, what started follows what it depends on.
InOrder(T, st) ==
    \A i \in With(st, {"running", "completed"}) : T[i].dependsOn \subseteq With(st, {"completed"})

CoversAll(T) == UNION {T[i].covers : i \in DOMAIN T} = Duty

Phases ==
    /\ pc \in {"planning", "retrying"} => tasks = Nothing
    /\ pc \in Planned => CoversAll(tasks)
    /\ pc = "reviewing" => Pending = DOMAIN tasks
    /\ pc \in {"patching", "replanned"} => Running = {}
    /\ pc \in {"verifying", "accepted"} => Completed = DOMAIN tasks

\* n children of the lane l, and `spare' runs more, can be had from g.
Funds(g, l, n, spare) ==
    /\ g.runs >= n * l.runs + spare
    /\ g.nodes >= n * l.nodes
    /\ n <= g.slots

\* A patch under review takes the place of what is pending.
Replaces ==
    /\ IsFiniteSet(DOMAIN patch) /\ DOMAIN patch \cap Completed = {}
    /\ CoversAll(Also(Only(tasks, Completed), patch))
    /\ KeepsIds(patch)

\* What is planned is paid for, with the turns of the host it needs.
Affords ==
    /\ pc = "reviewing" => Funds(grant, lane, Cardinality(DOMAIN tasks), 2)
    /\ pc \in {"scheduling", "replanned"} => Funds(grant, lane, Cardinality(Pending), 1 + optional)
    /\ pc = "patching" =>
          optional >= 1 /\ Funds(grant, lane, Cardinality(DOMAIN patch), 2) /\ Replaces
    /\ pc = "verifying" => grant.runs >= 1
    /\ pc # "refused"

\* The second refill of a wave finds admission closed, or nothing to admit.
Rhythm ==
    /\ pc \in {"planning", "retrying", "reviewing"} => refills = 0
    /\ pc = "scheduling" /\ MayPatch(status) =>
          refills = 0 \/ (refills = 1 /\ (checkpoint \/ Pending = {}))

IInv == TypeOK /\ Remembered /\ InOrder(tasks, status) /\ Phases /\ Affords /\ Rhythm

-----------------------------------------------------------------------------
(* Arithmetic.                                                             *)

\* The least member of a set of numbers that has one.
LEMMA LeastOf ==
    ASSUME NEW S \in SUBSET Int, NEW m \in S, \A k \in S : m <= k
    PROVE  Min(S) \in S /\ \A k \in S : Min(S) <= k
  BY DEF Min

\* The smaller of two numbers.
LEMMA MinOfTwo ==
    ASSUME NEW a \in Int, NEW b \in Int
    PROVE  /\ Min({a, b}) \in {a, b}
           /\ Min({a, b}) <= a /\ Min({a, b}) <= b
  <1> DEFINE S == {a, b}  m == IF a <= b THEN a ELSE b
  <1>1. S \in SUBSET Int /\ m \in S /\ \A k \in S : m <= k
    OBVIOUS
  <1> HIDE DEF m
  <1>2. Min(S) \in S /\ \A k \in S : Min(S) <= k
    BY <1>1, LeastOf
  <1>3. QED
    BY <1>2

\* The smallest of four numbers.
LEMMA MinOfFour ==
    ASSUME NEW a \in Int, NEW b \in Int, NEW c \in Int, NEW d \in Int
    PROVE  /\ Min({a, b, c, d}) \in {a, b, c, d}
           /\ \A k \in {a, b, c, d} : Min({a, b, c, d}) <= k
  <1> DEFINE S == {a, b, c, d}
             x == IF a <= b THEN a ELSE b
             y == IF c <= d THEN c ELSE d
             m == IF x <= y THEN x ELSE y
  <1>1. x \in {a, b} /\ x <= a /\ x <= b
    OBVIOUS
  <1>2. y \in {c, d} /\ y <= c /\ y <= d
    OBVIOUS
  <1> HIDE DEF x, y
  <1>3. m \in {x, y} /\ m <= x /\ m <= y
    BY <1>1, <1>2
  <1> HIDE DEF m
  <1>4. S \in SUBSET Int /\ m \in S /\ \A k \in S : m <= k
    BY <1>1, <1>2, <1>3
  <1>5. Min(S) \in S /\ \A k \in S : Min(S) <= k
    BY ONLY <1>4, LeastOf
  <1>6. QED
    BY <1>5

\* What is left of a number below zero is nothing.
LEMMA AtLeastNothing ==
    ASSUME NEW x \in Int
    PROVE  /\ Max({0, x}) \in Nat
           /\ x >= 0 => Max({0, x}) = x
           /\ x < 0 => Max({0, x}) = 0
  <1> DEFINE m == IF x >= 0 THEN x ELSE 0
  <1>1. m \in {0, x} /\ \A y \in {0, x} : m >= y
    OBVIOUS
  <1>2. Max({0, x}) \in {0, x} /\ \A y \in {0, x} : Max({0, x}) >= y
    BY <1>1 DEF Max
  <1>3. QED
    BY <1>2

\* As many shares of b as go into a are no more than a.
LEMMA Quotient ==
    ASSUME NEW a \in Nat, NEW b \in Nat, b >= 1
    PROVE  a \div b \in Nat /\ (a \div b) * b <= a
  OBVIOUS

\* The cost of m tasks is that of k of them and that of the others.
LEMMA ProductsGrow ==
    ASSUME NEW k \in Nat, NEW m \in Nat, NEW r \in Nat, k <= m
    PROVE  /\ k * r \in Nat /\ m * r \in Nat /\ (m - k) * r \in Nat
           /\ k * r <= m * r
           /\ m * r = k * r + (m - k) * r
  <1>1. m - k \in Nat
    OBVIOUS
  <1> DEFINE d == m - k
  <1>2. d \in Nat /\ m = k + d
    OBVIOUS
  <1> HIDE DEF d
  <1>3. k * r \in Nat /\ d * r \in Nat /\ (k + d) * r = k * r + d * r
    BY <1>2
  <1>4. QED
    BY <1>2, <1>3 DEF d

\* boundedAllocation spends no more than there is, and no less than the least.
LEMMA AllocatedWithin ==
    ASSUME NEW total \in Int, NEW least \in Nat, NEW most \in Nat, NEW n \in Nat,
           total >= n * least
    PROVE  /\ Allocated(total, least, most, n) \in Nat
           /\ Allocated(total, least, most, n) <= total
  <1> DEFINE p == n * least
             z == Max({0, most - least})
             q == n * z
             t == total - p
             m == Min({t, q})
  <1>1. p \in Nat
    OBVIOUS
  <1>2. z \in Nat
    BY AtLeastNothing, most - least \in Int
  <1>3. q \in Nat
    BY <1>2
  <1> HIDE DEF q, z
  <1>4. t \in Nat /\ p + t = total
    BY <1>1
  <1>5. Allocated(total, least, most, n) = p + m
    BY DEF Allocated, q, z
  <1> HIDE DEF t, p
  <1>6. m \in {t, q} /\ m <= t
    BY <1>3, <1>4, MinOfTwo
  <1> HIDE DEF m
  <1>7. QED
    BY <1>1, <1>3, <1>4, <1>5, <1>6
-----------------------------------------------------------------------------
(* The scheduler and the wave it starts.                                   *)

\* scheduleReadyNodes starts pending tasks whose dependencies completed.
LEMMA WaveIsReady ==
    ASSUME NEW st, DOMAIN st = DOMAIN tasks
    PROVE  Wave(st) \subseteq {i \in With(st, {"pending"}) :
                                  tasks[i].dependsOn \subseteq With(st, {"completed"})}
  <1> DEFINE eff == Effective(Graph, st)
             ready == Ready(Graph, eff)
  <1>1. Wave(st) \subseteq ready
    BY DEF Wave, Decision, Admitted
  <1>2. DOMAIN eff = DOMAIN tasks
        /\ \A i \in DOMAIN tasks : eff[i] = "blocked" \/ eff[i] = st[i]
    <2> DEFINE roots == BlockedBy(Graph, st)
    <2>1. eff = [i \in DOMAIN Graph |-> IF roots[i] # {} THEN "blocked" ELSE st[i]]
      BY DEF Effective
    <2>2. DOMAIN Graph = DOMAIN tasks
      BY DEF Graph
    <2> HIDE DEF roots, eff
    <2>3. QED
      BY <2>1, <2>2
  <1> HIDE DEF eff
  <1>3. With(eff, {"pending"}) \subseteq With(st, {"pending"})
    BY <1>2 DEF With
  <1>4. With(eff, {"completed"}) \subseteq With(st, {"completed"})
    BY <1>2 DEF With
  <1>5. \A i \in DOMAIN tasks : Graph[i].dependsOn = tasks[i].dependsOn
    BY DEF Graph
  <1>6. ready \subseteq {i \in With(st, {"pending"}) :
                            tasks[i].dependsOn \subseteq With(st, {"completed"})}
    BY <1>2, <1>3, <1>4, <1>5 DEF Ready, With
  <1>7. QED
    BY <1>1, <1>6

\* The steps of st when the tasks of W have started
Begun(st, W) == [i \in DOMAIN st |-> IF i \in W THEN "running" ELSE st[i]]

\* Starting ready tasks changes no other step and keeps the order.
LEMMA BegunSteps ==
    ASSUME NEW st, NEW W, W \subseteq With(st, {"pending"}),
           DOMAIN st = DOMAIN tasks, st \in [DOMAIN tasks -> Statuses], InOrder(tasks, st),
           \A i \in W : tasks[i].dependsOn \subseteq With(st, {"completed"})
    PROVE  /\ Begun(st, W) \in [DOMAIN tasks -> Statuses]
           /\ With(Begun(st, W), {"pending"}) = With(st, {"pending"}) \ W
           /\ With(Begun(st, W), {"completed"}) = With(st, {"completed"})
           /\ With(Begun(st, W), {"failed"}) = With(st, {"failed"})
           /\ InOrder(tasks, Begun(st, W))
  <1>1. Begun(st, W) \in [DOMAIN tasks -> Statuses]
    BY DEF Begun, Statuses
  <1>2. /\ With(Begun(st, W), {"pending"}) = With(st, {"pending"}) \ W
        /\ With(Begun(st, W), {"completed"}) = With(st, {"completed"})
        /\ With(Begun(st, W), {"failed"}) = With(st, {"failed"})
    BY DEF Begun, With
  <1>3. With(Begun(st, W), {"running", "completed"}) = With(st, {"running", "completed"}) \cup W
    BY DEF Begun, With
  <1>4. QED
    BY <1>1, <1>2, <1>3 DEF InOrder

\* A lane's costs are positive numbers.
LEMMA LaneCosts ==
    ASSUME NEW l \in Lanes
    PROVE  /\ l.runs \in Nat /\ l.runCap \in Nat /\ l.nodes \in Nat /\ l.nodeCap \in Nat
           /\ l.runs >= 1 /\ l.runCap >= 1 /\ l.nodes >= 1
           /\ l.expandable => l.runs <= l.runCap
  BY SubtaskAssumption

\* A wave of n of p pending tasks, all paid for, leaves the rest paid for.
LEMMA WaveLeavesTheRest ==
    ASSUME lane \in Lanes, grant \in Amounts, optional \in Nat,
           NEW n \in Nat, NEW p \in Nat, n <= p,
           Funds(grant, lane, p, 1 + optional)
    PROVE  /\ WaveIsFunded(n, p - n)
           /\ LET spent == WaveAllocation(n, p - n)
                  left == [runs |-> grant.runs - spent.runs, nodes |-> grant.nodes - spent.nodes,
                           slots |-> grant.slots - n]
              IN  left \in Amounts /\ Funds(left, lane, p - n, 1 + optional)
  <1> DEFINE later == p - n
             r == lane.runs   a == n * r   b == later * r
             d == lane.nodes  x == n * d   y == later * d
             R == grant.runs - (1 + optional) - b
             N == grant.nodes - y
             e == Allocated(R, r, lane.runCap, n)
             f == Allocated(N, d, lane.nodeCap, n)
  <1>1. r \in Nat /\ d \in Nat /\ lane.runCap \in Nat /\ lane.nodeCap \in Nat
    BY LaneCosts
  <1>2. grant.runs \in Nat /\ grant.nodes \in Nat /\ grant.slots \in Nat
    BY DEF Amounts
  <1> HIDE DEF r, d
  <1>3. later \in Nat
    OBVIOUS
  <1>4. a \in Nat /\ b \in Nat /\ p * r = a + b
    BY <1>1, ProductsGrow
  <1>5. x \in Nat /\ y \in Nat /\ p * d = x + y
    BY <1>1, ProductsGrow
  <1>6. grant.runs >= p * r + (1 + optional) /\ grant.nodes >= p * d /\ p <= grant.slots
    BY DEF Funds, r, d
  <1> HIDE DEF a, b, x, y
  <1>7. R \in Int /\ R >= a /\ N \in Int /\ N >= x
    BY <1>2, <1>4, <1>5, <1>6
  <1>8. WaveIsFunded(n, later)
    BY <1>2, <1>3, <1>6, <1>7 DEF WaveIsFunded, a, b, x, y, r, d
  <1> HIDE DEF R, N
  <1>9. e \in Nat /\ e <= R /\ f \in Nat /\ f <= N
    <2>1. e \in Nat /\ e <= R
      BY <1>1, <1>7, AllocatedWithin DEF a
    <2>2. f \in Nat /\ f <= N
      BY <1>1, <1>7, AllocatedWithin DEF x
    <2>3. QED
      BY <2>1, <2>2
  <1>10. WaveAllocation(n, later) = [runs |-> e, nodes |-> f]
    BY DEF WaveAllocation, e, f, R, N, b, y, r, d
  <1> HIDE DEF e, f
  <1> DEFINE g == [runs |-> grant.runs - e, nodes |-> grant.nodes - f, slots |-> grant.slots - n]
  <1>11. /\ grant.runs - e \in Nat /\ grant.runs - e >= b + (1 + optional)
         /\ grant.nodes - f \in Nat /\ grant.nodes - f >= y
         /\ grant.slots - n \in Nat /\ later <= grant.slots - n
    BY <1>2, <1>3, <1>4, <1>5, <1>6, <1>9 DEF R, N
  <1>12. g \in Amounts
    BY <1>11 DEF Amounts
  <1>13. Funds(g, lane, later, 1 + optional)
    BY <1>11 DEF Funds, b, y, r, d
  <1>14. QED
    BY <1>8, <1>10, <1>12, <1>13

\* What is true of the steps and the grant once a wave has started
Afoot(st, W) ==
    /\ pc' = "scheduling"
    /\ status' = Begun(st, W)
    /\ grant' \in Amounts
    /\ Funds(grant', lane, Cardinality(With(st, {"pending"}) \ W), 1 + optional)

\* startReady refuses no wave of a plan that is paid for and in order.
LEMMA StartsWhatIsPaidFor ==
    ASSUME NEW st, NEW W,
           TypeOK, st \in [DOMAIN tasks -> Statuses], InOrder(tasks, st),
           Funds(grant, lane, Cardinality(With(st, {"pending"})), 1 + optional),
           W \subseteq With(st, {"pending"}),
           Starts(st, W)
    PROVE  Afoot(st, W)
  <1> DEFINE P == With(st, {"pending"})
             n == Cardinality(W)
             p == Cardinality(P)
             later == p - n
  <1>1. IsFiniteSet(P) /\ p \in Nat /\ n \in Nat /\ n <= p
        /\ Cardinality(P \ W) = later
    <2>1. P \subseteq DOMAIN tasks
      BY DEF With
    <2>2. IsFiniteSet(P)
      BY <2>1, FS_Subset DEF TypeOK
    <2>3. IsFiniteSet(W) /\ n <= p
      BY <2>2, FS_Subset
    <2>4. p \in Nat /\ n \in Nat
      BY <2>2, <2>3, FS_CardinalityType
    <2>5. P \cap W = W
      OBVIOUS
    <2>6. Cardinality(P \ W) = p - Cardinality(P \cap W)
      BY <2>2, FS_Difference
    <2>7. QED
      BY <2>2, <2>3, <2>4, <2>5, <2>6
  <1>2. ValidState(Graph, st)
    <2>1. \A i \in DOMAIN tasks : Graph[i].dependsOn = tasks[i].dependsOn
      BY DEF Graph
    <2>2. With(st, {"running", "completed"}) \subseteq DOMAIN tasks
      BY DEF With
    <2>3. QED
      BY <2>1, <2>2 DEF ValidState, InOrder
  <1> DEFINE spent == WaveAllocation(n, later)
             left == [runs |-> grant.runs - spent.runs, nodes |-> grant.nodes - spent.nodes,
                      slots |-> grant.slots - n]
  <1>3. /\ WaveIsFunded(n, later)
        /\ left \in Amounts /\ Funds(left, lane, later, 1 + optional)
    <2>1. lane \in Lanes /\ grant \in Amounts /\ optional \in Nat
      BY DEF TypeOK
    <2>2. Funds(grant, lane, p, 1 + optional)
      OBVIOUS
    <2> HIDE DEF n, p
    <2>3. QED
      BY <1>1, <2>1, <2>2, WaveLeavesTheRest
  <1>4. /\ pc' = "scheduling" /\ grant' = left
        /\ status' = [i \in DOMAIN st |-> IF i \in W THEN "running" ELSE st[i]]
    BY <1>2, <1>3 DEF Starts
  <1>5. QED
    BY <1>1, <1>3, <1>4 DEF Afoot, Begun

-----------------------------------------------------------------------------
(* Charges and capacities.                                                 *)

\* A capacity of n children pays for n children above what is reserved.
LEMMA CapacityPays ==
    ASSUME TypeOK, NEW c \in Nat, NEW s \in Nat, NEW n \in Nat, n <= Capacity(c, s)
    PROVE  /\ n * lane.runs <= Max({0, grant.runs - s})
           /\ n * lane.nodes <= grant.nodes
           /\ n <= grant.slots
  <1> DEFINE R == Max({0, grant.runs - s})
             r == lane.runs
             d == lane.nodes
             N == grant.nodes
             u == MaxChildrenPerNode - c
             x == R \div r
             y == N \div d
             v == grant.slots
             m == Min({u, v, x, y})
  <1>1. r \in Nat /\ r >= 1 /\ d \in Nat /\ d >= 1
    BY LaneCosts DEF TypeOK
  <1>2. grant.runs \in Nat /\ N \in Nat /\ v \in Nat
    BY DEF TypeOK, Amounts
  <1>3. R \in Nat
    <2>1. grant.runs - s \in Int
      BY <1>2
    <2>2. QED
      BY <2>1, AtLeastNothing
  <1>4. u \in Int
    BY SubtaskAssumption
  <1>5. Capacity(c, s) = Max({0, m})
    BY DEF Capacity
  <1> HIDE DEF R, r, d, N
  <1>6. x \in Nat /\ x * r <= R /\ y \in Nat /\ y * d <= N
    BY <1>1, <1>2, <1>3, Quotient
  <1> HIDE DEF u, v, x, y
  <1>7. m \in Int /\ m <= v /\ m <= x /\ m <= y
    <2>1. v \in Int /\ x \in Int /\ y \in Int
      BY <1>2, <1>6
    <2>2. m \in {u, v, x, y} /\ \A k \in {u, v, x, y} : m <= k
      BY ONLY <1>4, <2>1, MinOfFour
    <2> HIDE DEF m
    <2>3. QED
      BY <1>4, <2>1, <2>2
  <1> HIDE DEF m
  <1>8. n = 0 \/ n <= m
    BY <1>5, <1>7, AtLeastNothing
  <1>9. n <= x /\ n <= y /\ n <= v
    BY <1>2, <1>6, <1>7, <1>8
  <1>10. n * r <= x * r /\ n * d <= y * d /\ n * r \in Nat /\ x * r \in Nat
         /\ n * d \in Nat /\ y * d \in Nat
    BY <1>1, <1>6, <1>9, ProductsGrow
  <1>11. n * r <= R /\ n * d <= N
    BY <1>2, <1>3, <1>6, <1>10
  <1>12. QED
    BY <1>9, <1>11 DEF R, r, d, N, v

\* The grant of a pipeline after the charge of a run
Debited == [grant EXCEPT !.runs = @ - 1]

\* A host turn takes one run of a grant that has one.
LEMMA DebitedAmounts ==
    ASSUME TypeOK, grant.runs # 0
    PROVE  /\ Debited \in Amounts
           /\ Debited.runs = grant.runs - 1
           /\ Debited.nodes = grant.nodes /\ Debited.slots = grant.slots
           /\ grant.runs \in Nat /\ grant.nodes \in Nat /\ grant.slots \in Nat
  BY DEF TypeOK, Amounts, Debited

\* It takes it from what was to spare.
LEMMA DebitedFunds ==
    ASSUME TypeOK, grant.runs # 0, NEW n \in Nat, NEW spare \in Nat,
           Funds(grant, lane, n, spare + 1)
    PROVE  Funds(Debited, lane, n, spare)
  <1> DEFINE p == n * lane.runs
  <1>1. p \in Nat
    BY LaneCosts DEF TypeOK
  <1>2. grant.runs >= p + (spare + 1)
    BY DEF Funds
  <1> HIDE DEF p
  <1>3. grant.runs - 1 >= p + spare
    BY <1>1, <1>2, DebitedAmounts
  <1>4. QED
    BY <1>3, DebitedAmounts DEF Funds, p

\* Who can pay for something more has a run to spend.
LEMMA FundsARun ==
    ASSUME TypeOK, NEW n \in Nat, NEW spare \in Nat, Funds(grant, lane, n, spare)
    PROVE  grant.runs >= spare
  <1> DEFINE p == n * lane.runs
  <1>1. p \in Nat
    BY LaneCosts DEF TypeOK
  <1>2. grant.runs >= p + spare /\ grant.runs \in Nat
    BY DEF Funds, TypeOK, Amounts
  <1> HIDE DEF p
  <1>3. QED
    BY <1>1, <1>2

-----------------------------------------------------------------------------
(* The actions.                                                            *)

Others == <<lane, tasks, status, seen, patches, optional, patch, checkpoint, refills>>

\* Cardinalities of parts of the plan are numbers.
LEMMA PlanIsFinite ==
    ASSUME TypeOK
    PROVE  /\ Cardinality(DOMAIN tasks) \in Nat /\ IsFiniteSet(DOMAIN tasks)
           /\ \A S : IsFiniteSet(With(status, S)) /\ Cardinality(With(status, S)) \in Nat
  <1>1. IsFiniteSet(DOMAIN tasks)
    BY DEF TypeOK
  <1>2. ASSUME NEW S PROVE IsFiniteSet(With(status, S))
    <2>1. With(status, S) \subseteq DOMAIN tasks
      BY DEF With, TypeOK
    <2>2. QED
      BY <1>1, <2>1, FS_Subset
  <1>3. QED
    BY <1>1, <1>2, FS_CardinalityType

\* A pipeline that ends keeps the plan as it is.
LEMMA EndKeeps ==
    ASSUME IInv, pc' \in {"failed", "cancelled"}, grant' \in Amounts, UNCHANGED Others
    PROVE  IInv'
  <1>1. TypeOK'
    BY DEF IInv, TypeOK, Others, Stages
  <1>2. Remembered' /\ InOrder(tasks, status)'
    BY DEF IInv, Remembered, InOrder, Others, With
  <1>3. Phases'
    BY DEF Phases, Planned
  <1>4. Affords' /\ Rhythm'
    BY DEF Affords, Rhythm
  <1>5. QED
    BY <1>1, <1>2, <1>3, <1>4 DEF IInv

\* The failure of a turn, charged
LEMMA FailsKeeps ==
    ASSUME IInv, Fails, grant.runs # 0, grant' = Debited, lane' = lane
    PROVE  IInv'
  <1>1. Debited \in Amounts
    BY DebitedAmounts DEF IInv
  <1>2. QED
    BY <1>1, EndKeeps DEF Fails, Others

\* A pipeline begins with any grant and no plan.
LEMMA InitIInv ==
    ASSUME Init
    PROVE  IInv
  <1>1. DOMAIN Nothing = {}
    BY DEF Nothing
  <1>2. TypeOK
    <2>1. IsFiniteSet({})
      BY FS_EmptySet
    <2>2. Runs \cup Credits \subseteq Nat /\ MaxChildrenPerNode \in Nat
      BY SubtaskAssumption
    <2>3. Nothing \in [DOMAIN Nothing -> Statuses]
      BY <1>1 DEF Nothing
    <2>4. grant \in Amounts
      BY <2>2 DEF Init, Amounts
    <2>5. QED
      BY <1>1, <2>1, <2>3, <2>4 DEF Init, TypeOK, Stages
  <1>3. Remembered /\ InOrder(tasks, status)
    BY <1>1 DEF Init, Remembered, InOrder, With
  <1>4. Phases /\ Affords /\ Rhythm
    BY DEF Init, Phases, Planned, Affords, Rhythm
  <1>5. QED
    BY <1>2, <1>3, <1>4 DEF IInv

\* The invariant speaks of the variables only.
LEMMA StutterKeeps ==
    ASSUME IInv, UNCHANGED vars
    PROVE  IInv'
  <1>1. TypeOK' /\ Remembered' /\ InOrder(tasks, status)' /\ Phases' /\ Rhythm'
    BY DEF IInv, vars, TypeOK, Remembered, InOrder, With, Phases, Rhythm, MayPatch, Pending,
           Running, Completed, AllAccepted
  <1>2. Replaces' = Replaces
    BY DEF vars, Replaces, KeepsIds, CoversAll, Also, Only, With, Pending, Completed
  <1>3. Pending' = Pending
    BY DEF vars, Pending, With
  <1>4. Affords'
    BY <1>2, <1>3 DEF IInv, vars, Affords, Funds
  <1>5. QED
    BY <1>1, <1>4 DEF IInv

\* The planner proposes what its capacity pays for.
LEMMA PlanKeeps ==
    ASSUME IInv, Plan
    PROVE  IInv'
  <1>1. TypeOK /\ pc \in {"planning", "retrying"} /\ tasks = Nothing /\ refills = 0
    BY DEF IInv, Plan, Phases, Rhythm
  <1>2. CASE Capacity(0, 3) < 1
    <2>1. Ends("failed")
      BY <1>2 DEF Plan
    <2>2. QED
      BY <1>1, <2>1, EndKeeps DEF Ends, Others, TypeOK
  <1>3. CASE ~(Capacity(0, 3) < 1)
    <2> DEFINE K == Capacity(0, 3)
               R == Max({0, grant.runs - 3})
    <2>1. K \in Nat
      <3> DEFINE N == Min({MaxChildrenPerNode - 0, grant.slots,
                           R \div lane.runs, grant.nodes \div lane.nodes})
      <3>1. grant.runs \in Nat /\ grant.nodes \in Nat /\ grant.slots \in Nat
            /\ lane.runs \in Nat /\ lane.runs >= 1 /\ lane.nodes \in Nat /\ lane.nodes >= 1
        BY <1>1, LaneCosts DEF TypeOK, Amounts
      <3>2. R \in Nat
        BY <3>1, AtLeastNothing, grant.runs - 3 \in Int
      <3> HIDE DEF R
      <3>3. R \div lane.runs \in Int /\ grant.nodes \div lane.nodes \in Int
            /\ MaxChildrenPerNode - 0 \in Int
        BY <3>1, <3>2, Quotient, SubtaskAssumption
      <3>4. N \in Int
        <4> DEFINE a == MaxChildrenPerNode - 0  b == grant.slots
                   c == R \div lane.runs  d == grant.nodes \div lane.nodes
        <4>1. a \in Int /\ b \in Int /\ c \in Int /\ d \in Int
          BY <3>1, <3>3
        <4> HIDE DEF a, b, c, d
        <4>2. Min({a, b, c, d}) \in {a, b, c, d}
          BY ONLY <4>1, MinOfFour
        <4>3. Min({a, b, c, d}) \in Int
          BY <4>1, <4>2
        <4>4. QED
          BY <4>3 DEF a, b, c, d
      <3>5. K = Max({0, N})
        BY DEF Capacity, R
      <3> HIDE DEF N, K
      <3>6. QED
        BY <3>4, <3>5, AtLeastNothing
    <2>2. ASSUME NEW n \in 1 .. K
          PROVE  Funds(grant, lane, n, 3)
      <3> DEFINE p == n * lane.runs
      <3>1. n \in Nat /\ n >= 1 /\ n <= K
        BY <2>1
      <3>2. p <= R /\ n * lane.nodes <= grant.nodes /\ n <= grant.slots
        BY <1>1, <3>1, CapacityPays
      <3>3. p \in Nat /\ p >= 1
        <4> DEFINE r == lane.runs
        <4>1. r \in Nat /\ r >= 1
          BY <1>1, LaneCosts DEF TypeOK
        <4> HIDE DEF r
        <4>2. 1 * r <= n * r /\ n * r \in Nat
          BY <3>1, <4>1, ProductsGrow
        <4>3. QED
          BY <4>1, <4>2 DEF r
      <3> HIDE DEF p
      <3>4. grant.runs \in Nat
        BY <1>1 DEF TypeOK, Amounts
      <3>5. R = grant.runs - 3
        <4>1. grant.runs - 3 \in Int
          BY <3>4
        <4>2. R = grant.runs - 3 \/ R = 0
          BY <4>1, AtLeastNothing
        <4>3. QED
          BY <3>2, <3>3, <4>2
      <3>6. grant.runs >= p + 3
        BY <3>2, <3>3, <3>4, <3>5
      <3>7. QED
        BY <3>2, <3>6 DEF Funds, p
    <2> HIDE DEF R
    <2>3. grant.runs # 0
      <3>1. 1 \in 1 .. K
        BY <1>3, <2>1
      <3>2. grant.runs >= 3
        BY <1>1, <2>2, <3>1, FundsARun
      <3>3. QED
        BY <3>2
    <2> HIDE DEF K
    <2>4. /\ grant' = Debited /\ lane' = lane
          /\ \/ \E n \in 1 .. K : \E T \in Proposals(n) :
                   /\ ValidProposal(T, K)
                   /\ tasks' = T /\ seen' = T
                   /\ status' = [i \in 1 .. n |-> "pending"]
                   /\ pc' = "reviewing"
                   /\ UNCHANGED <<patches, optional, patch, checkpoint, refills>>
             \/ /\ pc' = "retrying"
                /\ UNCHANGED <<tasks, status, seen, patches, optional, patch, checkpoint, refills>>
             \/ Fails
      BY <1>3, <2>3 DEF Plan, Charged, Debited, K
    <2>5. grant' \in Amounts
      BY <1>1, <2>3, <2>4, DebitedAmounts
    <2>6. CASE Fails
      BY <2>3, <2>4, <2>6, FailsKeeps
    <2>7. CASE /\ pc' = "retrying"
               /\ UNCHANGED <<tasks, status, seen, patches, optional, patch, checkpoint, refills>>
      <3>1. TypeOK'
        BY <1>1, <2>4, <2>5, <2>7 DEF TypeOK, Stages
      <3>2. Remembered' /\ InOrder(tasks, status)'
        BY <2>7 DEF IInv, Remembered, InOrder, With
      <3>3. Phases' /\ Affords' /\ Rhythm'
        BY <1>1, <2>7 DEF Phases, Affords, Rhythm, Planned
      <3>4. QED
        BY <3>1, <3>2, <3>3 DEF IInv
    <2>8. ASSUME NEW n \in 1 .. K, NEW T \in Proposals(n),
                 ValidProposal(T, K),
                 tasks' = T, seen' = T,
                 status' = [i \in 1 .. n |-> "pending"],
                 pc' = "reviewing",
                 UNCHANGED <<patches, optional, patch, checkpoint, refills>>
          PROVE  IInv'
      <3>1. DOMAIN T = 1 .. n /\ n \in Nat
        BY <2>1 DEF Proposals
      <3>2. IsFiniteSet(1 .. n) /\ Cardinality(1 .. n) = n
        <4>1. n = n - 1 + 1 /\ 1 \in Int /\ n \in Int /\ n >= 1
          BY <2>1
        <4>2. QED
          BY <4>1, FS_Interval
      <3>3. TypeOK'
        <4>1. status' \in [DOMAIN T -> Statuses]
          BY <2>8, <3>1 DEF Statuses
        <4>2. QED
          BY <1>1, <2>4, <2>5, <2>8, <3>1, <3>2, <4>1 DEF TypeOK, Stages, Planned
      <3>4. Remembered'
        BY <2>8 DEF Remembered
      <3>5. Pending' = 1 .. n /\ With(status', {"running", "completed"}) = {}
        BY <2>8 DEF Pending, With
      <3>6. InOrder(tasks, status)'
        BY <3>5 DEF InOrder
      <3>7. Phases'
        BY <2>8, <3>1, <3>5 DEF Phases, ValidProposal, CoversAll
      <3>8. Affords'
        <4>1. Funds(grant, lane, n, 2 + 1)
          BY <2>2
        <4>2. Funds(Debited, lane, n, 2)
          BY <1>1, <2>3, <3>1, <4>1, DebitedFunds
        <4>3. Funds(grant', lane', Cardinality(DOMAIN tasks'), 2)
          BY <2>4, <2>8, <3>1, <3>2, <4>2
        <4>4. QED
          BY <2>8, <4>3 DEF Affords
      <3>9. Rhythm'
        BY <1>1, <2>8 DEF Rhythm
      <3>10. QED
        BY <3>3, <3>4, <3>6, <3>7, <3>8, <3>9 DEF IInv
    <2>9. QED
      BY <2>4, <2>6, <2>7, <2>8
  <1>4. QED
    BY <1>2, <1>3

\* The review of the plan sets apart what patches may cost.
LEMMA ReviewKeeps ==
    ASSUME IInv, Review
    PROVE  IInv'
  <1> DEFINE n == Cardinality(DOMAIN tasks)
             floor == IF lane.expandable THEN lane.runCap ELSE lane.runs
             left == grant.runs - 1
             surplus == Max({0, left - 1 - n * floor})
             half == surplus \div 2
             share == 2 * Min({MaxPlanPatches, half})
  <1>1. /\ TypeOK /\ pc = "reviewing" /\ refills = 0
        /\ Funds(grant, lane, n, 2) /\ Pending = DOMAIN tasks /\ CoversAll(tasks)
    BY DEF IInv, Review, Phases, Affords, Rhythm, Planned
  <1>2. n \in Nat
    BY <1>1, PlanIsFinite
  <1>3. grant.runs # 0 /\ grant.runs \in Nat
    BY <1>1, <1>2, FundsARun DEF TypeOK, Amounts
  <1>4. grant' = Debited /\ lane' = lane /\ Debited \in Amounts
    BY <1>1, <1>3, DebitedAmounts DEF Review, Charged, Debited
  <1>5. CASE Fails
    BY <1>3, <1>4, <1>5, FailsKeeps
  <1>6. CASE ~Fails
    <2>1. /\ pc' = IF PlanIsFunded(n, left) THEN "scheduling" ELSE "refused"
          /\ optional' = share
          /\ UNCHANGED <<tasks, status, seen, patches, patch, checkpoint, refills>>
      BY <1>3, <1>6 DEF Review, Charged
    <2> DEFINE p == n * lane.runs
               q == n * floor
    <2>2. lane.runs \in Nat /\ floor \in Nat /\ lane.runs <= floor
      BY <1>1, LaneCosts DEF TypeOK
    <2> HIDE DEF floor, n
    <2>3. p \in Nat /\ q \in Nat /\ p <= q
      <3> DEFINE r == lane.runs
      <3>1. r \in Nat /\ r <= floor
        BY <2>2
      <3> HIDE DEF r
      <3>2. r * n \in Nat /\ floor * n \in Nat /\ r * n <= floor * n
        BY <1>2, <2>2, <3>1, ProductsGrow
      <3>3. r * n = n * r /\ floor * n = n * floor
        BY <1>2, <2>2, <3>1
      <3>4. QED
        BY <3>2, <3>3 DEF r
    <2>4. grant.runs >= p + 2 /\ grant.nodes >= n * lane.nodes /\ n <= grant.slots
      BY <1>1 DEF Funds
    <2> HIDE DEF p, q
    <2>5. surplus \in Nat /\ (surplus = 0 \/ surplus = left - 1 - q)
      <3>1. left - 1 - q \in Int
        BY <1>3, <2>3
      <3>2. surplus = Max({0, left - 1 - q})
        BY DEF q
      <3> HIDE DEF surplus, left
      <3>3. QED
        BY <3>1, <3>2, AtLeastNothing
    <2> HIDE DEF surplus
    <2>6. half \in Nat /\ half * 2 <= surplus
      BY <2>5, Quotient
    <2> HIDE DEF half
    <2>7. share \in Nat /\ share <= surplus
      <3>1. MaxPlanPatches \in Nat
        BY SubtaskAssumption
      <3> DEFINE m == Min({MaxPlanPatches, half})
      <3>2. m \in {MaxPlanPatches, half} /\ m <= half
        BY <2>6, <3>1, MinOfTwo
      <3> HIDE DEF m
      <3>3. 2 * m \in Nat /\ 2 * m <= surplus
        BY <2>5, <2>6, <3>1, <3>2
      <3>4. QED
        BY <3>3 DEF m
    <2> HIDE DEF share
    <2>8. left \in Nat /\ left >= p + (1 + share)
      BY <1>3, <2>3, <2>4, <2>5, <2>7
    <2>9. PlanIsFunded(n, left)
      BY <2>3, <2>4, <2>7, <2>8 DEF PlanIsFunded, p
    <2>10. Funds(Debited, lane, n, 1 + share)
      BY <1>1, <1>3, <2>4, <2>8, DebitedAmounts DEF Funds, p
    <2>11. Pending' = Pending
      BY <2>1 DEF Pending, With
    <2>12. TypeOK'
      BY <1>1, <1>4, <2>1, <2>7, <2>9 DEF TypeOK, Stages, Planned
    <2>13. Remembered' /\ InOrder(tasks, status)'
      BY <2>1 DEF IInv, Remembered, InOrder, With
    <2>14. Phases'
      BY <1>1, <2>1, <2>9 DEF Phases, Planned
    <2>15. Affords'
      BY <1>1, <1>4, <2>1, <2>9, <2>10, <2>11 DEF Affords, n
    <2>16. Rhythm'
      BY <1>1, <2>1, <2>9 DEF Rhythm
    <2>17. QED
      BY <2>12, <2>13, <2>14, <2>15, <2>16 DEF IInv
  <1>7. QED
    BY <1>5, <1>6

\* A patch that the validators let pass replaces what is pending.
LEMMA ValidPatchReplaces ==
    ASSUME TypeOK, NEW T, T \in Patches, NEW k, ValidPatch(T, k)
    PROVE  /\ IsFiniteSet(DOMAIN T) /\ DOMAIN T \cap Completed = {}
           /\ CoversAll(Also(Only(tasks, Completed), T))
           /\ KeepsIds(T) /\ Cardinality(DOMAIN T) <= k
  <1> DEFINE Added(S) == {Nothing} \cup UNION {Contracts({i}) : i \in Id \ S}
  <1>0. PICK S \in SUBSET Pending : T \in {Also(Only(tasks, S), N) : N \in Added(S)}
    BY DEF Patches
  <1>1. PICK N \in Added(S) : T = Also(Only(tasks, S), N)
    BY <1>0
  <1>2. DOMAIN T = S \cup DOMAIN N
    BY <1>1 DEF Also, Only
  <1>3. IsFiniteSet(DOMAIN N)
    <2>1. DOMAIN N = {} \/ \E i \in Id : DOMAIN N = {i}
      BY DEF Nothing, Contracts
    <2>2. QED
      BY <2>1, FS_EmptySet, FS_Singleton
  <1>4. IsFiniteSet(S)
    BY PlanIsFinite, FS_Subset DEF Pending
  <1>5. IsFiniteSet(DOMAIN T)
    BY <1>2, <1>3, <1>4, FS_Union
  <1>6. QED
    BY <1>5 DEF ValidPatch, ValidProposal, CoversAll

\* The planner replaces what is pending by what can be paid for.
LEMMA ReplanKeeps ==
    ASSUME IInv, Replan
    PROVE  IInv'
  <1> DEFINE p == Cardinality(Pending)
  <1>1. /\ TypeOK /\ pc = "scheduling" /\ Running = {} /\ optional \in Nat /\ optional >= 2
        /\ Funds(grant, lane, p, 1 + optional) /\ CoversAll(tasks)
    BY DEF IInv, Replan, Phases, Affords, Planned, MayPatch, TypeOK
  <1>2. p \in Nat /\ Cardinality(Completed) \in Nat
    BY <1>1, PlanIsFinite DEF Pending, Completed
  <1>3. grant.runs >= 1 + optional /\ grant.runs \in Nat
    BY <1>1, <1>2, FundsARun DEF TypeOK, Amounts
  <1>4. grant.runs # 0 /\ grant.runs >= 3
    BY <1>1, <1>3
  <1>5. grant' = Debited /\ lane' = lane /\ Debited \in Amounts
    BY <1>1, <1>4, DebitedAmounts DEF Replan, Charged, Debited
  <1>6. CASE Fails
    BY <1>4, <1>5, <1>6, FailsKeeps
  <1>7. CASE /\ pc' = "replanned" /\ optional' = optional - 1
             /\ UNCHANGED <<tasks, status, seen, patches, patch, checkpoint, refills>>
    <2>1. TypeOK'
      BY <1>1, <1>5, <1>7 DEF TypeOK, Stages, Planned
    <2>2. Remembered' /\ InOrder(tasks, status)'
      BY <1>7 DEF IInv, Remembered, InOrder, With
    <2>3. Phases'
      BY <1>1, <1>7 DEF Phases, Planned, Running, With
    <2>4. Funds(Debited, lane, p, optional)
      BY <1>1, <1>2, <1>4, DebitedFunds, optional + 1 = 1 + optional
    <2>5. Affords'
      <3>1. Pending' = Pending
        BY <1>7 DEF Pending, With
      <3>2. 1 + optional' = optional
        BY <1>1, <1>7
      <3>3. QED
        BY <1>5, <1>7, <2>4, <3>1, <3>2 DEF Affords
    <2>6. Rhythm'
      BY <1>7 DEF Rhythm
    <2>7. QED
      BY <2>1, <2>2, <2>3, <2>5, <2>6 DEF IInv
  <1>8. ASSUME NEW T \in Patches, ValidPatch(T, Capacity(Cardinality(Completed), 3)),
               patch' = T, pc' = "patching", optional' = optional - 1,
               UNCHANGED <<tasks, status, seen, patches, checkpoint, refills>>
        PROVE  IInv'
    <2> DEFINE n == Cardinality(DOMAIN T)
               R == Max({0, grant.runs - 3})
               q == n * lane.runs
    <2>1. /\ IsFiniteSet(DOMAIN T) /\ DOMAIN T \cap Completed = {}
          /\ CoversAll(Also(Only(tasks, Completed), T))
          /\ KeepsIds(T) /\ n <= Capacity(Cardinality(Completed), 3)
      BY <1>1, <1>8, ValidPatchReplaces
    <2>2. n \in Nat
      BY <2>1, FS_CardinalityType
    <2>3. q <= R /\ n * lane.nodes <= grant.nodes /\ n <= grant.slots
      BY <1>1, <1>2, <2>1, <2>2, CapacityPays
    <2>4. q \in Nat
      BY <1>1, <2>2, LaneCosts DEF TypeOK
    <2>5. R = grant.runs - 3
      BY <1>3, <1>4, AtLeastNothing, grant.runs - 3 \in Int
    <2> HIDE DEF q, R
    <2>6. grant.runs >= q + 3
      BY <1>3, <2>3, <2>4, <2>5
    <2>7. Funds(grant, lane, n, 2 + 1)
      BY <2>3, <2>6 DEF Funds, q
    <2>8. Funds(Debited, lane, n, 2)
      BY <1>1, <1>4, <2>2, <2>7, DebitedFunds
    <2>9. TypeOK'
      BY <1>1, <1>5, <1>8 DEF TypeOK, Stages, Planned
    <2>10. Remembered' /\ InOrder(tasks, status)'
      BY <1>8 DEF IInv, Remembered, InOrder, With
    <2>11. Phases'
      BY <1>1, <1>8 DEF Phases, Planned, Running, With
    <2>12. Replaces'
      <3>1. Completed' = Completed /\ Pending' = Pending
        BY <1>8 DEF Completed, Pending, With
      <3>2. Also(Only(tasks, Completed), patch)' = Also(Only(tasks, Completed), T)
        BY <1>8, <3>1 DEF Also, Only
      <3>3. CoversAll(Also(Only(tasks, Completed), patch))'
        BY <2>1, <3>2 DEF CoversAll
      <3>4. KeepsIds(patch)'
        BY <1>8, <2>1, <3>1 DEF KeepsIds
      <3>5. QED
        BY <1>8, <2>1, <3>1, <3>3, <3>4 DEF Replaces
    <2>13. Affords'
      <3>1. optional' >= 1
        BY <1>1, <1>8
      <3>2. Funds(grant', lane', Cardinality(DOMAIN patch'), 2)
        BY <1>5, <1>8, <2>8
      <3>3. QED
        BY <1>8, <2>12, <3>1, <3>2 DEF Affords
    <2>14. Rhythm'
      BY <1>8 DEF Rhythm
    <2>15. QED
      BY <2>9, <2>10, <2>11, <2>13, <2>14 DEF IInv
  <1>9. QED
    BY <1>4, <1>6, <1>7, <1>8 DEF Replan, Charged

\* The plan after a patch: what completed, and what the patch has
LEMMA PatchedPlan ==
    ASSUME IInv, pc = "patching",
           tasks' = Also(Only(tasks, Completed), patch),
           status' = Also(Only(status, Completed), [i \in DOMAIN patch |-> "pending"]),
           seen' = Also(seen, patch)
    PROVE  /\ IsFiniteSet(DOMAIN tasks') /\ status' \in [DOMAIN tasks' -> Statuses]
           /\ Completed' = Completed /\ Pending' = DOMAIN patch /\ Running' = {}
           /\ Remembered' /\ InOrder(tasks, status)' /\ CoversAll(tasks)'
  <1>1. /\ TypeOK /\ Remembered /\ InOrder(tasks, status)
        /\ IsFiniteSet(DOMAIN patch) /\ DOMAIN patch \cap Completed = {}
        /\ CoversAll(Also(Only(tasks, Completed), patch)) /\ KeepsIds(patch)
    BY DEF IInv, Affords, Replaces
  <1>2. Completed \subseteq DOMAIN tasks /\ DOMAIN status = DOMAIN tasks
        /\ \A i \in Completed : status[i] = "completed"
    BY <1>1 DEF Completed, With, TypeOK
  <1>3. /\ DOMAIN tasks' = Completed \cup DOMAIN patch
        /\ \A i \in Completed : tasks'[i] = tasks[i]
        /\ \A i \in DOMAIN patch \ Completed : tasks'[i] = patch[i]
    BY DEF Also, Only
  <1>4. /\ DOMAIN status' = Completed \cup DOMAIN patch
        /\ \A i \in Completed : status'[i] = "completed"
        /\ \A i \in DOMAIN patch : status'[i] = "pending"
        /\ status' = [i \in DOMAIN status' |-> status'[i]]
    BY <1>1, <1>2 DEF Also, Only
  <1>5. IsFiniteSet(DOMAIN tasks')
    BY <1>1, <1>3, PlanIsFinite, FS_Union DEF Completed
  <1>6. status' \in [DOMAIN tasks' -> Statuses]
    BY <1>3, <1>4 DEF Statuses
  <1>7. Completed' = Completed /\ Pending' = DOMAIN patch /\ Running' = {}
    BY <1>1, <1>4 DEF Completed, Pending, Running, With
  <1>8. Remembered'
    <2> SUFFICES ASSUME NEW i \in DOMAIN tasks'
                 PROVE  i \in DOMAIN seen' /\ tasks'[i] = seen'[i]
      BY DEF Remembered
    <2>1. /\ DOMAIN seen' = DOMAIN seen \cup DOMAIN patch
          /\ i \in DOMAIN seen => seen'[i] = seen[i]
          /\ i \in DOMAIN patch /\ i \notin DOMAIN seen => seen'[i] = patch[i]
      BY <1>3 DEF Also
    <2>2. CASE i \in Completed
      BY <1>1, <1>2, <1>3, <2>1, <2>2 DEF Remembered
    <2>3. CASE i \in DOMAIN patch /\ i \in Pending
      <3>1. i \in DOMAIN tasks
        BY <2>3, <1>2 DEF Pending, With
      <3>2. patch[i] = tasks[i]
        BY <1>1, <2>3 DEF KeepsIds
      <3>3. QED
        BY <1>1, <1>3, <2>1, <2>3, <3>1, <3>2 DEF Remembered
    <2>4. CASE i \in DOMAIN patch /\ i \notin Pending
      <3>1. i \notin DOMAIN seen
        BY <1>1, <2>4 DEF KeepsIds
      <3>2. QED
        BY <1>1, <1>3, <2>1, <2>4, <3>1
    <2>5. QED
      BY <1>3, <2>2, <2>3, <2>4
  <1>9. InOrder(tasks, status)'
    <2>1. With(status, {"running", "completed"})' = Completed
      BY <1>1, <1>4, <1>2 DEF With
    <2>2. With(status, {"completed"})' = Completed
      BY <1>7 DEF Completed
    <2>3. Completed \subseteq With(status, {"running", "completed"})
      BY DEF Completed, With
    <2>4. \A i \in Completed : tasks[i].dependsOn \subseteq Completed
      BY <1>1, <2>3 DEF InOrder, Completed
    <2>5. QED
      BY <1>3, <2>1, <2>2, <2>4 DEF InOrder
  <1>10. CoversAll(tasks)'
    BY <1>1 DEF CoversAll
  <1>11. QED
    BY <1>5, <1>6, <1>7, <1>8, <1>9, <1>10

\* An accepted patch is paid for, by what was set apart for patches.
LEMMA ReviewPatchKeeps ==
    ASSUME IInv, ReviewPatch
    PROVE  IInv'
  <1> DEFINE n == Cardinality(DOMAIN patch)
             left == grant.runs - 1
             p == n * lane.runs
             rest == left - (p + 1)
             share == Min({optional - 1, rest})
  <1>1. /\ TypeOK /\ pc = "patching" /\ optional \in Nat /\ optional >= 1
        /\ Funds(grant, lane, n, 2) /\ IsFiniteSet(DOMAIN patch)
    BY DEF IInv, ReviewPatch, Affords, TypeOK, Replaces
  <1>2. n \in Nat
    BY <1>1, FS_CardinalityType
  <1>3. grant.runs # 0 /\ grant.runs \in Nat
    BY <1>1, <1>2, FundsARun DEF TypeOK, Amounts
  <1>4. grant' = Debited /\ lane' = lane /\ Debited \in Amounts
    BY <1>1, <1>3, DebitedAmounts DEF ReviewPatch, Charged, Debited
  <1>5. CASE Fails
    BY <1>3, <1>4, <1>5, FailsKeeps
  <1>6. CASE ~Fails
    <2>1. p \in Nat
      BY <1>1, <1>2, LaneCosts DEF TypeOK
    <2>2. grant.runs >= p + 2 /\ grant.nodes >= n * lane.nodes /\ n <= grant.slots
      BY <1>1 DEF Funds
    <2>3. PlanIsFunded(n, left)
      <3> HIDE DEF p, n
      <3>1. left >= p + 1
        BY <1>3, <2>1, <2>2
      <3>2. QED
        BY <2>2, <3>1 DEF PlanIsFunded, p
    <2>4. /\ optional' = share
          /\ tasks' = Also(Only(tasks, Completed), patch)
          /\ status' = Also(Only(status, Completed), [i \in DOMAIN patch |-> "pending"])
          /\ seen' = Also(seen, patch)
          /\ patches' = patches + 1
          /\ patch' = Nothing /\ pc' = "replanned"
          /\ UNCHANGED <<checkpoint, refills>>
      BY <1>1, <1>3, <1>6, <2>3 DEF ReviewPatch, Charged
    <2>5. /\ IsFiniteSet(DOMAIN tasks') /\ status' \in [DOMAIN tasks' -> Statuses]
          /\ Pending' = DOMAIN patch /\ Running' = {}
          /\ Remembered' /\ InOrder(tasks, status)' /\ CoversAll(tasks)'
      BY <1>1, <2>4, PatchedPlan
    <2> HIDE DEF p, n
    <2>6. rest \in Nat
      BY <1>3, <2>1, <2>2
    <2>7. share \in Nat /\ share <= rest
      <3> DEFINE o == optional - 1
      <3>1. o \in Nat
        BY <1>1
      <3> HIDE DEF o, rest
      <3>2. Min({o, rest}) \in {o, rest} /\ Min({o, rest}) <= rest
        BY <2>6, <3>1, MinOfTwo
      <3>3. QED
        BY <2>6, <3>1, <3>2 DEF o
    <2> HIDE DEF share
    <2>8. left >= p + (1 + share)
      BY <1>3, <2>1, <2>6, <2>7
    <2>9. Funds(Debited, lane, n, 1 + share)
      BY <1>1, <1>3, <2>2, <2>8, DebitedAmounts DEF Funds, p
    <2>10. TypeOK'
      BY <1>1, <1>4, <2>4, <2>5, <2>7 DEF TypeOK, Stages, Planned
    <2>11. Phases'
      BY <2>4, <2>5 DEF Phases
    <2>12. Affords'
      BY <1>4, <2>4, <2>5, <2>9 DEF Affords, n
    <2>13. Rhythm'
      BY <2>4 DEF Rhythm
    <2>14. QED
      BY <2>5, <2>10, <2>11, <2>12, <2>13 DEF IInv
  <1>7. QED
    BY <1>5, <1>6

\* Nothing runs and nothing can start: the verifier takes over, or the plan failed.
LEMMA JoinsKeep ==
    ASSUME IInv, pc \in {"scheduling", "replanned"}, Joins,
           UNCHANGED <<lane, grant, tasks, status, seen, patches, optional, patch>>,
           checkpoint' \in BOOLEAN, refills' \in Nat
    PROVE  IInv'
  <1>1. pc' \in {"verifying", "failed"} /\ (pc' = "verifying" => Completed = DOMAIN tasks)
    BY DEF Joins
  <1>2. TypeOK /\ CoversAll(tasks) /\ Funds(grant, lane, Cardinality(Pending), 1 + optional)
    BY DEF IInv, Phases, Planned, Affords
  <1>3. grant.runs >= 1
    <2>1. Cardinality(Pending) \in Nat /\ optional \in Nat /\ 1 + optional \in Nat
          /\ grant.runs \in Nat
      BY <1>2, PlanIsFinite DEF Pending, TypeOK, Amounts
    <2>2. grant.runs >= 1 + optional
      BY <1>2, <2>1, FundsARun
    <2>3. QED
      BY <2>1, <2>2
  <1>4. TypeOK'
    BY <1>1, <1>2 DEF TypeOK, Stages, Planned
  <1>5. Remembered' /\ InOrder(tasks, status)'
    BY DEF IInv, Remembered, InOrder, With
  <1>6. Phases'
    <2>1. Completed' = Completed
      BY DEF Completed, With
    <2>2. CoversAll(tasks)'
      BY <1>2 DEF CoversAll
    <2>3. QED
      BY <1>1, <2>1, <2>2 DEF Phases
  <1>7. Affords' /\ Rhythm'
    BY <1>1, <1>3 DEF Affords, Rhythm
  <1>8. QED
    BY <1>4, <1>5, <1>6, <1>7 DEF IInv

\* After a join the verifier takes over, or the plan failed.
LEMMA JoinKeeps ==
    ASSUME IInv, Join
    PROVE  IInv'
  <1>1. checkpoint \in BOOLEAN /\ refills \in Nat
    BY DEF IInv, TypeOK
  <1>2. QED
    BY <1>1, JoinsKeep DEF Join

\* The steps after a wave has started keep what a plan in scheduling promises.
LEMMA AfootKeeps ==
    ASSUME IInv, NEW st, NEW W, CoversAll(tasks),
           st \in [DOMAIN tasks -> Statuses], InOrder(tasks, st),
           W \subseteq With(st, {"pending"}),
           \A i \in W : tasks[i].dependsOn \subseteq With(st, {"completed"}),
           Afoot(st, W),
           UNCHANGED <<lane, tasks, seen, patches, optional, patch>>,
           checkpoint' \in BOOLEAN, refills' \in Nat,
           MayPatch(st) =>
              refills' = 0
              \/ (refills' = 1 /\ (checkpoint' \/ With(st, {"pending"}) \ W = {}))
    PROVE  IInv'
  <1>1. TypeOK /\ Remembered
    BY DEF IInv
  <1>2. /\ pc' = "scheduling" /\ status' = Begun(st, W) /\ grant' \in Amounts
        /\ Funds(grant', lane, Cardinality(With(st, {"pending"}) \ W), 1 + optional)
    BY DEF Afoot
  <1>3. /\ Begun(st, W) \in [DOMAIN tasks -> Statuses]
        /\ With(Begun(st, W), {"pending"}) = With(st, {"pending"}) \ W
        /\ With(Begun(st, W), {"failed"}) = With(st, {"failed"})
        /\ InOrder(tasks, Begun(st, W))
    BY BegunSteps
  <1>4. Pending' = With(st, {"pending"}) \ W
    BY <1>2, <1>3 DEF Pending
  <1>5. TypeOK'
    BY <1>1, <1>2, <1>3 DEF TypeOK, Stages, Planned
  <1>6. Remembered'
    BY <1>1 DEF Remembered
  <1>7. InOrder(tasks, status)'
    BY <1>2, <1>3 DEF InOrder
  <1>8. Phases'
    <2>1. CoversAll(tasks)'
      BY DEF CoversAll
    <2>2. QED
      BY <1>2, <2>1 DEF Phases
  <1>9. Affords'
    BY <1>2, <1>4 DEF Affords
  <1>10. Rhythm'
    <2>1. MayPatch(status)' => MayPatch(st)
      BY <1>2, <1>3 DEF MayPatch, AllAccepted
    <2>2. QED
      BY <1>2, <1>4, <2>1 DEF Rhythm
  <1>11. QED
    BY <1>5, <1>6, <1>7, <1>8, <1>9, <1>10 DEF IInv

\* A wave starts or the loop ends: in both cases the rest is paid for.
LEMMA NextWaveKeeps ==
    ASSUME IInv, NextWave
    PROVE  IInv'
  <1> DEFINE W == Wave(status)
  <1>1. /\ TypeOK /\ InOrder(tasks, status) /\ pc \in {"scheduling", "replanned"}
        /\ CoversAll(tasks) /\ Funds(grant, lane, Cardinality(Pending), 1 + optional)
    BY DEF IInv, NextWave, Phases, Planned, Affords
  <1>2. /\ checkpoint' = FALSE /\ refills' = 0
        /\ UNCHANGED <<lane, tasks, seen, patches, optional, patch>>
        /\ \/ Joins /\ UNCHANGED <<grant, status>>
           \/ Starts(status, W)
    BY DEF NextWave
  <1>3. CASE Joins /\ UNCHANGED <<grant, status>>
    BY <1>1, <1>2, <1>3, JoinsKeep
  <1>4. CASE Starts(status, W)
    <2>1. status \in [DOMAIN tasks -> Statuses] /\ DOMAIN status = DOMAIN tasks
      BY <1>1 DEF TypeOK
    <2>2. W \subseteq With(status, {"pending"})
          /\ \A i \in W : tasks[i].dependsOn \subseteq With(status, {"completed"})
      BY <2>1, WaveIsReady
    <2> HIDE DEF W
    <2>3. Funds(grant, lane, Cardinality(With(status, {"pending"})), 1 + optional)
      BY <1>1 DEF Pending
    <2>4. Afoot(status, W)
      BY <1>1, <1>4, <2>1, <2>2, <2>3, StartsWhatIsPaidFor
    <2>5. checkpoint' \in BOOLEAN /\ refills' \in Nat /\ refills' = 0
      BY <1>2
    <2>6. QED
      BY <1>1, <1>2, <2>1, <2>2, <2>4, <2>5, AfootKeeps
  <1>5. QED
    BY <1>2, <1>3, <1>4

\* A child that settles may complete, and leaves what is pending alone.
LEMMA SettledSteps ==
    ASSUME TypeOK, InOrder(tasks, status), NEW i \in Running,
           NEW outcome \in {"completed", "failed"},
           NEW st, st = [status EXCEPT ![i] = outcome]
    PROVE  /\ st \in [DOMAIN tasks -> Statuses]
           /\ With(st, {"pending"}) = Pending
           /\ Completed \subseteq With(st, {"completed"})
           /\ InOrder(tasks, st)
           /\ MayPatch(st) => MayPatch(status)
  <1>1. /\ status \in [DOMAIN tasks -> Statuses] /\ i \in DOMAIN tasks /\ status[i] = "running"
    BY DEF TypeOK, Running, With
  <1>2. /\ st \in [DOMAIN tasks -> Statuses]
        /\ \A j \in DOMAIN tasks : st[j] = IF j = i THEN outcome ELSE status[j]
    BY <1>1 DEF Statuses
  <1>3. With(st, {"pending"}) = Pending
    BY <1>1, <1>2 DEF With, Pending
  <1>4. Completed \subseteq With(st, {"completed"})
    BY <1>1, <1>2 DEF With, Completed
  <1>5. With(st, {"running", "completed"}) \subseteq With(status, {"running", "completed"})
    BY <1>1, <1>2 DEF With
  <1>6. With(status, {"failed"}) \subseteq With(st, {"failed"})
    BY <1>1, <1>2 DEF With
  <1>7. InOrder(tasks, st)
    BY <1>4, <1>5 DEF InOrder, Completed
  <1>8. MayPatch(st) => MayPatch(status)
    BY <1>6 DEF MayPatch, AllAccepted
  <1>9. QED
    BY <1>2, <1>3, <1>4, <1>7, <1>8

\* A child settles: its step ends, and the loop refills, waits or joins.
LEMMA SettleKeeps ==
    ASSUME IInv, NEW i \in Id, NEW outcome \in {"completed", "failed"}, Settle(i, outcome)
    PROVE  IInv'
  <1> DEFINE st == [status EXCEPT ![i] = outcome]
             W == Wave(st)
  <1>1. /\ TypeOK /\ InOrder(tasks, status) /\ pc = "scheduling" /\ i \in Running
        /\ CoversAll(tasks) /\ Funds(grant, lane, Cardinality(Pending), 1 + optional)
        /\ MayPatch(status) => refills = 0 \/ (refills = 1 /\ (checkpoint \/ Pending = {}))
    BY DEF IInv, Settle, Phases, Planned, Affords, Rhythm
  <1>2. /\ st \in [DOMAIN tasks -> Statuses]
        /\ With(st, {"pending"}) = Pending
        /\ InOrder(tasks, st)
        /\ MayPatch(st) => MayPatch(status)
    BY <1>1, SettledSteps
  <1>3. /\ UNCHANGED <<lane, tasks, seen, patches, optional, patch>>
        /\ \/ status' = st /\ pc' = "failed" /\ UNCHANGED <<grant, checkpoint, refills>>
           \/ status' = st /\ UNCHANGED <<pc, grant, checkpoint, refills>>
           \/ /\ Starts(st, W) /\ W # {} /\ ~checkpoint
              /\ refills' = refills + 1
              /\ checkpoint' = (With(st, {"pending"}) \ W # {} /\ MayPatch(st))
    BY DEF Settle
  <1>4. CASE status' = st /\ pc' \in {"failed", "scheduling"} /\ UNCHANGED <<grant, checkpoint, refills>>
    <2> HIDE DEF st
    <2>1. Pending' = Pending
      BY <1>2, <1>4 DEF Pending
    <2>2. TypeOK'
      BY <1>1, <1>2, <1>3, <1>4 DEF TypeOK, Stages, Planned
    <2>3. Remembered' /\ InOrder(tasks, status)'
      BY <1>2, <1>3, <1>4 DEF IInv, Remembered, InOrder
    <2>4. Phases'
      <3>1. CoversAll(tasks)'
        BY <1>1, <1>3 DEF CoversAll
      <3>2. QED
        BY <1>4, <3>1 DEF Phases
    <2>5. Affords'
      BY <1>1, <1>3, <1>4, <2>1 DEF Affords
    <2>6. Rhythm'
      <3>1. MayPatch(status)' => MayPatch(st)
        BY <1>3, <1>4 DEF MayPatch, AllAccepted
      <3>2. QED
        BY <1>1, <1>2, <1>4, <2>1, <3>1 DEF Rhythm
    <2>7. QED
      BY <2>2, <2>3, <2>4, <2>5, <2>6 DEF IInv
  <1>5. CASE /\ Starts(st, W) /\ W # {} /\ ~checkpoint
             /\ refills' = refills + 1
             /\ checkpoint' = (With(st, {"pending"}) \ W # {} /\ MayPatch(st))
    <2>1. DOMAIN st = DOMAIN tasks
      BY <1>2
    <2> HIDE DEF st
    <2>2. W \subseteq With(st, {"pending"})
          /\ \A j \in W : tasks[j].dependsOn \subseteq With(st, {"completed"})
      BY <2>1, WaveIsReady
    <2> HIDE DEF W
    <2>3. Funds(grant, lane, Cardinality(With(st, {"pending"})), 1 + optional)
      BY <1>1, <1>2
    <2>4. Afoot(st, W)
      BY <1>1, <1>2, <1>5, <2>2, <2>3, StartsWhatIsPaidFor
    <2>5. checkpoint' \in BOOLEAN /\ refills' \in Nat
      <3>1. refills \in Nat
        BY <1>1 DEF TypeOK
      <3>2. checkpoint' \in BOOLEAN
        BY <1>5
      <3>3. QED
        BY <1>5, <3>1, <3>2
    <2>6. MayPatch(st) =>
              refills' = 0
              \/ (refills' = 1 /\ (checkpoint' \/ With(st, {"pending"}) \ W = {}))
      <3> SUFFICES ASSUME MayPatch(st)
                   PROVE  refills' = 1 /\ (checkpoint' \/ With(st, {"pending"}) \ W = {})
        OBVIOUS
      <3>1. Pending # {}
        BY <1>2, <1>5, <2>2
      <3>2. refills = 0
        BY <1>1, <1>2, <1>5, <3>1
      <3>3. checkpoint' <=> With(st, {"pending"}) \ W # {}
        BY <1>5
      <3>4. QED
        BY <1>5, <3>2, <3>3
    <2>7. QED
      BY <1>1, <1>2, <1>3, <2>2, <2>4, <2>5, <2>6, AfootKeeps
  <1>6. QED
    BY <1>1, <1>3, <1>4, <1>5

\* The final verification ends the pipeline.
LEMMA VerifyKeeps ==
    ASSUME IInv, Verify
    PROVE  IInv'
  <1>1. TypeOK /\ pc = "verifying" /\ grant.runs >= 1 /\ Completed = DOMAIN tasks /\ CoversAll(tasks)
    BY DEF IInv, Verify, Phases, Planned, Affords
  <1>2. grant.runs # 0
    BY <1>1 DEF TypeOK, Amounts
  <1>3. grant' = Debited /\ lane' = lane /\ Debited \in Amounts
    BY <1>1, <1>2, DebitedAmounts DEF Verify, Charged, Debited
  <1>4. CASE Fails
    BY <1>2, <1>3, <1>4, FailsKeeps
  <1>5. CASE /\ pc' = "accepted"
             /\ UNCHANGED <<tasks, status, seen, patches, optional, patch, checkpoint, refills>>
    <2>1. TypeOK'
      BY <1>1, <1>3, <1>5 DEF TypeOK, Stages, Planned
    <2>2. Remembered' /\ InOrder(tasks, status)'
      BY <1>5 DEF IInv, Remembered, InOrder, With
    <2>3. Phases'
      BY <1>1, <1>5 DEF Phases, CoversAll, Completed, With
    <2>4. Affords' /\ Rhythm'
      BY <1>5 DEF Affords, Rhythm
    <2>5. QED
      BY <2>1, <2>2, <2>3, <2>4 DEF IInv
  <1>6. QED
    BY <1>2, <1>4, <1>5 DEF Verify, Charged

\* An abort ends the wave.
LEMMA AbortKeeps ==
    ASSUME IInv, Abort
    PROVE  IInv'
  BY EndKeeps DEF Abort, Ends, Others, IInv, TypeOK

\* Every step keeps the invariant.
LEMMA NextIInv ==
    ASSUME IInv, [Next]_vars
    PROVE  IInv'
  <1>1. CASE Plan
    BY <1>1, PlanKeeps
  <1>2. CASE Review
    BY <1>2, ReviewKeeps
  <1>3. CASE Replan
    BY <1>3, ReplanKeeps
  <1>4. CASE ReviewPatch
    BY <1>4, ReviewPatchKeeps
  <1>5. CASE NextWave
    BY <1>5, NextWaveKeeps
  <1>6. CASE Join
    BY <1>6, JoinKeeps
  <1>7. CASE Verify
    BY <1>7, VerifyKeeps
  <1>8. CASE Abort
    BY <1>8, AbortKeeps
  <1>9. ASSUME NEW i \in Id, NEW outcome \in {"completed", "failed"}, Settle(i, outcome)
        PROVE  IInv'
    BY <1>9, SettleKeeps
  <1>10. CASE UNCHANGED vars
    BY <1>10, StutterKeeps
  <1>11. QED
    BY <1>1, <1>2, <1>3, <1>4, <1>5, <1>6, <1>7, <1>8, <1>9, <1>10 DEF Next

-----------------------------------------------------------------------------
(* The theorems.                                                           *)

\* The plan, its steps and its grant are well formed in every reachable state,
\* what is planned is in order, remembered and paid for.
THEOREM PlansAreSound == Spec => []IInv
  <1>1. Init => IInv
    BY InitIInv
  <1>2. IInv /\ [Next]_vars => IInv'
    BY NextIInv
  <1>3. QED
    BY <1>1, <1>2, PTL DEF Spec

\* No wave, review or verification of a plan is refused for want of runs, node
\* credits or child slots, nor by the scheduler (orchestrationWaveAllocations,
\* validateRunningState).
THEOREM PlansAreFunded == Spec => []NothingPlannedIsRefused
  <1>1. IInv => NothingPlannedIsRefused
    BY DEF IInv, Affords, NothingPlannedIsRefused
  <1>2. QED
    BY <1>1, PlansAreSound, PTL

\* Work starts after what it depends on, and what is accepted covers every
\* criterion and deliverable, through every patch (parseSubtaskPlanPatch).
THEOREM VerdictsAreCovered == Spec => []VerdictIsCovered
  <1>1. IInv => VerdictIsCovered
    <2> SUFFICES ASSUME IInv PROVE VerdictIsCovered
      OBVIOUS
    <2>1. With(status, {"running", "completed"}) = Running \cup Completed
      BY DEF With, Running, Completed
    <2>2. \A i \in Running \cup Completed : tasks[i].dependsOn \subseteq Completed
      BY <2>1 DEF IInv, InOrder, Completed
    <2>3. pc = "accepted" =>
             Completed = DOMAIN tasks /\ UNION {tasks[i].covers : i \in Completed} = Duty
      BY DEF IInv, Phases, Planned, CoversAll
    <2>4. QED
      BY <2>2, <2>3 DEF VerdictIsCovered
  <1>2. QED
    BY <1>1, PlansAreSound, PTL

\* While a patch may be had, a wave is refilled once at most before its pool
\* drains to the boundary (the checkpoint of the scheduling loop).
THEOREM CheckpointsAreReached == Spec => []CheckpointsComeSoon
  <1>1. IInv => CheckpointsComeSoon
    BY DEF IInv, Rhythm, CheckpointsComeSoon
  <1>2. QED
    BY <1>1, PlansAreSound, PTL

\* What a step may never do to the ids of a plan
Keeping ==
    /\ \A i \in DOMAIN tasks' : tasks'[i] = seen'[i]
    /\ \A i \in Running \cup Completed : i \in DOMAIN tasks' /\ status'[i] # "pending"

\* No step gives an id that was used to another task.
LEMMA StepsKeepIds ==
    ASSUME IInv, [Next]_vars
    PROVE  Keeping
  <1>1. \A i \in DOMAIN tasks' : tasks'[i] = seen'[i]
    BY NextIInv DEF IInv, Remembered
  <1>2. TypeOK /\ DOMAIN status = DOMAIN tasks
    BY DEF IInv, TypeOK
  <1>3. Running \cup Completed \subseteq DOMAIN tasks
        /\ \A i \in Running \cup Completed : status[i] # "pending"
    BY <1>2 DEF Running, Completed, With
  <1>4. CASE UNCHANGED <<tasks, status>>
    BY <1>1, <1>3, <1>4 DEF Keeping
  <1>5. CASE Plan
    <2>1. tasks = Nothing
      BY <1>5 DEF IInv, Phases, Plan
    <2>2. Running \cup Completed = {}
      BY <1>3, <2>1 DEF Nothing
    <2>3. QED
      BY <1>1, <2>2 DEF Keeping
  <1>6. CASE ReviewPatch /\ ~UNCHANGED <<tasks, status>>
    <2>1. /\ pc = "patching"
          /\ tasks' = Also(Only(tasks, Completed), patch)
          /\ status' = Also(Only(status, Completed), [i \in DOMAIN patch |-> "pending"])
          /\ seen' = Also(seen, patch)
      BY <1>6 DEF ReviewPatch, Charged, Ends, Fails
    <2>2. Running = {} /\ Completed' = Completed /\ DOMAIN status' = DOMAIN tasks'
      BY <2>1, PatchedPlan DEF IInv, Phases
    <2>3. \A i \in Completed' : i \in DOMAIN status' /\ status'[i] # "pending"
      BY DEF Completed, With
    <2>4. QED
      BY <1>1, <2>2, <2>3 DEF Keeping
  <1>7. ASSUME NEW st, NEW W, DOMAIN st = DOMAIN tasks, Starts(st, W),
               \A i \in Running \cup Completed : st[i] # "pending" \/ UNCHANGED status,
               tasks' = tasks
        PROVE  Keeping
    <2>1. UNCHANGED status
          \/ status' = [i \in DOMAIN st |-> IF i \in W THEN "running" ELSE st[i]]
      BY <1>7 DEF Starts
    <2>2. \A i \in Running \cup Completed : status'[i] # "pending"
      BY <1>3, <1>7, <2>1
    <2>3. QED
      BY <1>1, <1>3, <1>7, <2>2 DEF Keeping
  <1>8. CASE NextWave
    <2>1. tasks' = tasks /\ (status' = status \/ Starts(status, Wave(status)))
      BY <1>8 DEF NextWave
    <2>2. QED
      BY <1>2, <1>3, <1>4, <1>7, <2>1
  <1>9. ASSUME NEW i \in Id, NEW outcome \in {"completed", "failed"}, Settle(i, outcome)
        PROVE  Keeping
    <2> DEFINE st == [status EXCEPT ![i] = outcome]
    <2>1. tasks' = tasks /\ (status' = st \/ Starts(st, Wave(st)))
      BY <1>9 DEF Settle
    <2>2. DOMAIN st = DOMAIN tasks /\ \A j \in Running \cup Completed : st[j] # "pending"
      BY <1>2, <1>3
    <2> HIDE DEF st
    <2>3. CASE status' = st
      BY <1>1, <1>3, <2>1, <2>2, <2>3 DEF Keeping
    <2>4. QED
      BY <1>7, <2>1, <2>2, <2>3
  <1>10. CASE Review \/ Replan \/ Join \/ Verify \/ Abort \/ UNCHANGED vars
    <2>1. UNCHANGED <<tasks, status>>
      BY <1>10 DEF Review, Replan, Join, Verify, Abort, vars, Charged, Ends, Fails
    <2>2. QED
      BY <1>4, <2>1
  <1>11. QED
    BY <1>4, <1>5, <1>6, <1>8, <1>9, <1>10 DEF Next

\* An id names one task for ever, and a task that started stays in the plan
\* and never starts anew (applySubtaskPlanPatch, the identity checks of
\* parseSubtaskPlanPatch).
THEOREM IdsNameOneTask == Spec => IdsKeepTheirMeaning
  <1>1. IInv /\ [Next]_vars => Keeping
    BY StepsKeepIds
  <1>2. QED
    BY <1>1, PlansAreSound, PTL DEF Spec, IdsKeepTheirMeaning, Keeping
=============================================================================
