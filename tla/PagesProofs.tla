----------------------------- MODULE PagesProofs -----------------------------
(***************************************************************************)
(* The dashboard, for any numbers of tasks, sessions, sources and calls    *)
(* and any limits of retention: the trees it lists are whole, a watch that *)
(* waits misses no change, and what a source shows never goes back.        *)
(*                                                                         *)
(* The invariant has three parts.  `Trees' is about retention: in the tree *)
(* of a running task nothing has been removed, and in that of an ended one *)
(* that is kept beside an older one only what expired.  Ancestors are a    *)
(* recursive function; as subtasks begin after their parents, a claim that *)
(* passes from parents on is shown of the first task it would be false of. *)
(* `Numbers' says that a session without a revision has no tasks.  `Views' *)
(* is about the calls under way and the sources: each snapshot, wherever   *)
(* it is, tells what the session lists as long as its revision is the      *)
(* session's, and is no further than the host; an answer to a source's     *)
(* present run is no older than what the source shows; a watch that waits  *)
(* knows the present revision; and a run has at most one call.             *)
(*                                                                         *)
(* A turn of the host's event loop (a mutation, the listeners it calls,    *)
(* the prune and the collection of revisions) is one lemma, in which the   *)
(* order of the listeners does not matter: each session that a prune or a  *)
(* mutation changed gets a new revision or nobody waits for it.            *)
(*                                                                         *)
(* The settings tab, for any edits and any number of saves, revisions and  *)
(* restarts: a save replaces exactly the settings its user was looking at. *)
(* A revision alone does not name a state of the host, as each process     *)
(* counts from zero.  Whatever the browser holds, or is answered, comes    *)
(* from the running process, in which a revision names one value; a        *)
(* reconnect drops all the rest.                                           *)
(***************************************************************************)
EXTENDS Pages, FiniteSetTheorems, WellFoundedInduction, TLAPS

-----------------------------------------------------------------------------
(* The invariant of the telemetry, a predicate of its value H.             *)

Task == [status : {"running", "ended", "gone"}, kept : BOOLEAN, session : Session,
         parent : 0 .. MaxTask, version : Nat, finishedAt : Int, order : Nat]
NoTask == [status : {"unborn"}, kept : {FALSE}]

Telemetry == [now : Nat, task : [TaskId -> Task \cup NoTask], revision : [Session -> Nat],
              cursor : Nat, ended : Nat, pruneAt : Int]

Born(H) == {t \in TaskId : H.task[t].status # "unborn"}
Parents(H, t) == IF t \in Born(H) /\ H.task[t].parent # 0 THEN {H.task[t].parent} ELSE {}
Stands(H) == {t \in TaskId : H.task[t].status \in {"running", "ended"}}
Runs(H) == {t \in TaskId : H.task[t].status = "running"}
Ends(H) == {t \in TaskId : H.task[t].status = "ended"}

\* What the status of a task says of it
Stages(H) ==
    /\ Runs(H) \subseteq Kept(H) /\ Kept(H) \subseteq Stands(H)
    /\ \A t \in Born(H), u \in TaskId : u < t => u \in Born(H)
    /\ \A t \in Ends(H) :
          /\ H.task[t].finishedAt \in Nat /\ H.task[t].finishedAt <= H.now
          /\ H.task[t].order <= H.ended

\* A subtask and the task it was started by
Follows(H, t, p) ==
    /\ p \in Born(H) /\ p < t /\ H.task[p].session = H.task[t].session
    /\ t \in Runs(H) => p \in Runs(H)
    /\ t \in Stands(H) => p \in Stands(H)
    /\ t \in Kept(H) => p \in Kept(H)
    /\ t \in Kept(H) /\ p \in Ends(H) =>
          /\ H.task[t].order = H.task[p].order
          /\ H.task[t].finishedAt <= H.task[p].finishedAt

Family(H) == \A t \in TaskId : \A p \in Parents(H, t) : Follows(H, t, p)

Below(H, t) == {u \in Stands(H) : t \in Above(H)[u]}
Roots(H) == {t \in Kept(H) \cap Ends(H) : Above(H)[t] = {}}

\* The trees of running tasks, and of the ended ones that keep an older one company
Whole(H) ==
    /\ \A t \in Runs(H) : Below(H, t) \subseteq Kept(H)
    /\ \A r, x \in Roots(H) :
          /\ H.task[r].session = H.task[x].session
          /\ H.task[x].order < H.task[r].order
          => \A u \in Below(H, r) : u \in Kept(H) \/ ~Fresh(H, u)

Ordered(H) == H \in Telemetry /\ Stages(H) /\ Family(H)
Trees(H) == Ordered(H) /\ Whole(H)

-----------------------------------------------------------------------------
(* The ancestors of a task.                                                *)

\* f has the ancestors of every task.
Chains(H, f) ==
    f = [t \in TaskId |-> Parents(H, t) \cup UNION {f[p] : p \in Parents(H, t)}]

\* A nonempty set of subsets of a finite set has a smallest member.
LEMMA SmallestSubset ==
    ASSUME NEW S, IsFiniteSet(S), NEW B \in SUBSET (SUBSET S), B # {}
    PROVE  \E m \in B : \A n \in B : n \subseteq m => n = m
  <1>1. IsWellFoundedOn(StrictSubsetOrdering(S), SUBSET S)
    BY FS_StrictSubsetOrderingWellFounded, FS_FiniteSubsetsOfFinite
  <1>2. PICK m \in B : \A n \in B : ~(<<n, m>> \in StrictSubsetOrdering(S))
    BY <1>1, WFMin
  <1>3. QED
    BY <1>2 DEF StrictSubsetOrdering

\* A set of numbers has a smallest one.
LEMMA SmallestNumber ==
    ASSUME NEW B \in SUBSET Nat, B # {}
    PROVE  \E m \in B : \A k \in B : m <= k
  <1>1. PICK b \in B : TRUE
    OBVIOUS
  <1> DEFINE C == {0 .. k : k \in {j \in B : j <= b}}
  <1>2. C \in SUBSET (SUBSET (0 .. b)) /\ C # {}
    <2>1. (0 .. b) \in C
      BY <1>1
    <2>2. \A s \in C : s \subseteq 0 .. b
      BY <1>1
    <2>3. QED
      BY <2>1, <2>2
  <1>3. IsFiniteSet(0 .. b)
    BY <1>1, FS_Interval
  <1> DEFINE S == 0 .. b
  <1>0. IsFiniteSet(S) /\ C \in SUBSET (SUBSET S) /\ C # {}
    BY <1>2, <1>3
  <1> HIDE DEF C, S
  <1>4. PICK c \in C : \A d \in C : d \subseteq c => d = c
    BY ONLY <1>0, SmallestSubset
  <1> USE DEF C
  <1>5. PICK m \in B : m <= b /\ c = 0 .. m
    BY <1>4
  <1>6. ASSUME NEW k \in B
        PROVE  m <= k
    <2>1. SUFFICES ASSUME k < m PROVE FALSE
      BY <1>5
    <2>2. (0 .. k) \in C /\ (0 .. k) \subseteq c
      BY <1>1, <1>5, <2>1
    <2>3. 0 .. k = 0 .. m
      BY <1>4, <1>5, <2>2
    <2>4. m \in 0 .. m /\ m \notin 0 .. k
      BY <2>1
    <2>5. QED
      BY <2>3, <2>4
  <1>7. QED
    BY <1>5, <1>6

\* The recursion of Above, by definition.
LEMMA AboveDef ==
    ASSUME NEW H, \A t \in TaskId : Parents(H, t) \subseteq TaskId
    PROVE  Above(H) = CHOOSE f : Chains(H, f)
  <1>1. ASSUME NEW f, NEW t \in TaskId
        PROVE  (IF H.task[t].status = "unborn" \/ H.task[t].parent = 0 THEN {}
                ELSE {H.task[t].parent} \cup f[H.task[t].parent])
               = Parents(H, t) \cup UNION {f[p] : p \in Parents(H, t)}
    BY DEF Parents, Born
  <1> DEFINE Rec(f) == [t \in TaskId |->
                 IF H.task[t].status = "unborn" \/ H.task[t].parent = 0 THEN {}
                 ELSE {H.task[t].parent} \cup f[H.task[t].parent]]
             Set(f) == [t \in TaskId |-> Parents(H, t) \cup UNION {f[p] : p \in Parents(H, t)}]
  <1>2. \A f : Rec(f) = Set(f)
    BY <1>1
  <1>3. Above(H) = CHOOSE f : f = Rec(f)
    BY DEF Above
  <1> HIDE DEF Rec, Set
  <1>4. \A f : (f = Rec(f)) <=> (f = Set(f))
    BY <1>2
  <1>5. (CHOOSE f : f = Rec(f)) = CHOOSE f : f = Set(f)
    BY <1>4
  <1>6. QED
    BY <1>3, <1>5 DEF Set, Chains

\* X has the parents of its members.
Upward(H, X) == \A u \in X : Parents(H, u) \subseteq X

\* The recursion has a solution: the least sets that have a task's parents and
\* the parents of their members.
LEMMA AboveIs ==
    ASSUME NEW H, \A t \in TaskId : Parents(H, t) \subseteq TaskId
    PROVE  Chains(H, Above(H))
  <1> DEFINE Closed(t) == {X \in SUBSET TaskId : Upward(H, X) /\ Parents(H, t) \subseteq X}
             g == [t \in TaskId |-> {a \in TaskId : \A X \in Closed(t) : a \in X}]
  <1>1. ASSUME NEW t \in TaskId
        PROVE  g[t] \subseteq Parents(H, t) \cup UNION {g[p] : p \in Parents(H, t)}
    <2> DEFINE Y == Parents(H, t) \cup UNION {g[p] : p \in Parents(H, t)}
    <2>1. Y \in SUBSET TaskId
      OBVIOUS
    <2>2. ASSUME NEW p \in Parents(H, t)
          PROVE  Parents(H, p) \subseteq g[p]
      <3>1. p \in TaskId
        OBVIOUS
      <3>2. QED
        BY <3>1
    <2>3. ASSUME NEW p \in Parents(H, t), NEW u \in g[p]
          PROVE  Parents(H, u) \subseteq g[p]
      <3>1. p \in TaskId /\ u \in TaskId
        OBVIOUS
      <3>2. QED
        BY <3>1 DEF Upward
    <2> HIDE DEF g
    <2>4. Upward(H, Y)
      BY <2>2, <2>3 DEF Upward
    <2>5. Y \in Closed(t)
      BY <2>1, <2>4
    <2> HIDE DEF Y
    <2>6. QED
      BY <2>5 DEF g, Y
  <1>2. ASSUME NEW t \in TaskId
        PROVE  Parents(H, t) \cup UNION {g[p] : p \in Parents(H, t)} \subseteq g[t]
    <2>1. Parents(H, t) \subseteq g[t]
      OBVIOUS
    <2>2. ASSUME NEW p \in Parents(H, t)
          PROVE  g[p] \subseteq g[t]
      <3>1. p \in TaskId
        OBVIOUS
      <3>2. Closed(t) \subseteq Closed(p)
        BY DEF Upward
      <3> HIDE DEF Closed
      <3>3. QED
        BY <3>1, <3>2
    <2> HIDE DEF g
    <2>3. QED
      BY <2>1, <2>2
  <1>3. g = [t \in TaskId |-> g[t]]
    OBVIOUS
  <1> HIDE DEF g
  <1>4. \A t \in TaskId : g[t] = Parents(H, t) \cup UNION {g[p] : p \in Parents(H, t)}
    BY <1>1, <1>2
  <1>5. Chains(H, g)
    BY <1>3, <1>4 DEF Chains
  <1>6. QED
    BY <1>5, AboveDef

\* Families are told by their parents.
LEMMA ParentsIs ==
    ASSUME NEW H, Ordered(H)
    PROVE  /\ \A t \in TaskId : Parents(H, t) \subseteq TaskId
           /\ \A t \in TaskId : t \notin Born(H) => Parents(H, t) = {}
           /\ \A t \in TaskId : \A p \in Parents(H, t) : p \in Born(H) /\ p < t
           /\ \A t \in TaskId : \A p, q \in Parents(H, t) : p = q
           /\ Chains(H, Above(H))
  <1>1. \A t \in TaskId : \A p \in Parents(H, t) : p \in Born(H) /\ p < t /\ p \in TaskId
    BY DEF Ordered, Family, Follows, Born
  <1>2. \A t \in TaskId : \A p, q \in Parents(H, t) : p = q
    BY DEF Parents
  <1>3. \A t \in TaskId : t \notin Born(H) => Parents(H, t) = {}
    BY DEF Parents
  <1>4. QED
    BY <1>1, <1>2, <1>3, AboveIs

\* A claim about every task holds if it is inherited from parents.
LEMMA Inherited ==
    ASSUME NEW B \in SUBSET TaskId,
           \A t \in B : \E p \in B : p < t
    PROVE  B = {}
  <1>1. B \in SUBSET Nat
    BY TelemetryAssumption DEF TaskId
  <1>2. SUFFICES ASSUME B # {} PROVE FALSE
    OBVIOUS
  <1>3. PICK m \in B : \A k \in B : m <= k
    BY <1>1, <1>2, SmallestNumber
  <1>4. QED
    BY <1>1, <1>3

\* The ancestors of a task are its parent and the parent's.
LEMMA OneAbove ==
    ASSUME NEW H, Ordered(H), NEW t \in TaskId
    PROVE  /\ \A p \in Parents(H, t) : Above(H)[t] = {p} \cup Above(H)[p]
           /\ Parents(H, t) = {} => Above(H)[t] = {}
           /\ Parents(H, t) \subseteq Above(H)[t]
  BY ParentsIs DEF Chains

\* What ancestors have in common
LEMMA AncestorsAre ==
    ASSUME NEW H, Ordered(H), NEW u \in TaskId
    PROVE  /\ Above(H)[u] \subseteq Born(H) /\ Above(H)[u] \subseteq TaskId
           /\ \A a \in Above(H)[u] :
                 /\ u \in Born(H)
                 /\ H.task[a].session = H.task[u].session
                 /\ Above(H)[a] \subseteq Above(H)[u]
                 /\ u \in Runs(H) => a \in Runs(H)
                 /\ u \in Stands(H) => a \in Stands(H)
                 /\ u \in Kept(H) => a \in Kept(H)
                 /\ u \in Kept(H) /\ a \in Ends(H) =>
                       /\ u \in Ends(H)
                       /\ H.task[u].order = H.task[a].order
                       /\ H.task[u].finishedAt <= H.task[a].finishedAt
  <1> DEFINE Good(v, a) == 
                 /\ a \in Born(H) /\ v \in Born(H)
                 /\ H.task[a].session = H.task[v].session
                 /\ Above(H)[a] \subseteq Above(H)[v]
                 /\ v \in Runs(H) => a \in Runs(H)
                 /\ v \in Stands(H) => a \in Stands(H)
                 /\ v \in Kept(H) => a \in Kept(H)
                 /\ v \in Kept(H) /\ a \in Ends(H) =>
                       /\ v \in Ends(H)
                       /\ H.task[v].order = H.task[a].order
                       /\ H.task[v].finishedAt <= H.task[a].finishedAt
             B == {v \in TaskId : \E a \in Above(H)[v] : ~Good(v, a)}
  <1>1. ASSUME NEW v \in TaskId, NEW p \in Parents(H, v)
        PROVE  Good(v, p)
    <2>1. Follows(H, v, p) /\ v \in Born(H) /\ p \in Born(H)
      BY DEF Ordered, Family, Parents, Follows
    <2>2. Above(H)[p] \subseteq Above(H)[v]
      BY OneAbove
    <2>3. v \in Kept(H) /\ p \in Ends(H) => v \in Ends(H)
      <3>1. ~(p \in Ends(H) /\ p \in Runs(H))
        BY DEF Ends, Runs
      <3>2. v \in Kept(H) => v \in Runs(H) \/ v \in Ends(H)
        BY DEF Ordered, Stages, Stands, Runs, Ends
      <3>3. QED
        BY <2>1, <3>1, <3>2 DEF Follows
    <2>4. QED
      BY <2>1, <2>2, <2>3 DEF Follows
  <1>2. ASSUME NEW v \in TaskId, NEW p \in Parents(H, v), NEW a \in Above(H)[p], Good(p, a)
        PROVE  Good(v, a)
    <2>1. Good(v, p)
      BY <1>1
    <2>2. v \in Born(H) /\ p \in Born(H) /\ a \in Born(H)
      BY <1>2, <2>1
    <2>3. v \in Kept(H) /\ a \in Ends(H) => p \in Kept(H) /\ p \in Ends(H) /\ v \in Ends(H)
      BY <1>2, <2>1
    <2>4. \A t \in Ends(H) : H.task[t].finishedAt \in Nat
      BY DEF Ordered, Stages
    <2>5. v \in Kept(H) /\ a \in Ends(H) => H.task[v].finishedAt <= H.task[a].finishedAt
      BY <1>2, <2>1, <2>3, <2>4
    <2>6. QED
      BY <1>2, <2>1, <2>2, <2>3, <2>5
  <1>3. ASSUME NEW v \in B
        PROVE  \E p \in B : p < v
    <2>1. PICK a \in Above(H)[v] : ~Good(v, a)
      OBVIOUS
    <2> HIDE DEF Good
    <2>2. PICK p \in Parents(H, v) : TRUE
      BY <2>1, OneAbove
    <2>3. Above(H)[v] = {p} \cup Above(H)[p]
      BY OneAbove
    <2>4. a \in Above(H)[p]
      BY <1>1, <2>1, <2>3
    <2>5. ~Good(p, a)
      BY <1>2, <2>1, <2>4
    <2>6. p \in TaskId /\ p < v
      BY ParentsIs
    <2>7. QED
      BY <2>4, <2>5, <2>6
  <1>4. B = {}
    <2> HIDE DEF B
    <2>1. B \in SUBSET TaskId
      BY DEF B
    <2>2. QED
      BY ONLY <1>3, <2>1, Inherited
  <1>5. \A a \in Above(H)[u] : Good(u, a)
    BY <1>4
  <1>6. QED
    BY <1>5 DEF Born

\* Of a root's descendants, the root is above all that is above them.
LEMMA RootIsFirst ==
    ASSUME NEW H, Ordered(H), NEW r \in TaskId, Above(H)[r] = {},
           NEW u \in TaskId, r \in Above(H)[u], NEW a \in Above(H)[u]
    PROVE  a = r \/ r \in Above(H)[a]
  <1> DEFINE B == {v \in TaskId : /\ r \in Above(H)[v]
                                  /\ \E b \in Above(H)[v] : b # r /\ r \notin Above(H)[b]}
  <1>1. ASSUME NEW v \in B
        PROVE  \E p \in B : p < v
    <2>1. PICK b \in Above(H)[v] : b # r /\ r \notin Above(H)[b]
      OBVIOUS
    <2>2. PICK p \in Parents(H, v) : TRUE
      BY <2>1, OneAbove
    <2>3. Above(H)[v] = {p} \cup Above(H)[p]
      BY OneAbove
    <2>4. p \in TaskId /\ p < v
      BY ParentsIs
    <2>5. QED
      BY <2>1, <2>3, <2>4
  <1>2. B = {}
    <2> HIDE DEF B
    <2>1. B \in SUBSET TaskId
      BY DEF B
    <2>2. QED
      BY ONLY <1>1, <2>1, Inherited
  <1>3. QED
    BY <1>2

\* Tasks with the same forebears have the same ancestors.
LEMMA SameAbove ==
    ASSUME NEW H, Ordered(H), NEW K, \A t \in TaskId : Parents(K, t) \subseteq TaskId,
           NEW S \in SUBSET TaskId,
           \A t \in S : Parents(K, t) = Parents(H, t) /\ Parents(H, t) \subseteq S
    PROVE  \A t \in S : Above(K)[t] = Above(H)[t]
  <1> DEFINE B == {t \in S : Above(K)[t] # Above(H)[t]}
  <1>1. Chains(K, Above(K))
    BY AboveIs
  <1>2. \A t \in TaskId : Above(K)[t] = Parents(K, t) \cup UNION {Above(K)[p] : p \in Parents(K, t)}
    BY <1>1 DEF Chains
  <1>3. \A t \in TaskId : Above(H)[t] = Parents(H, t) \cup UNION {Above(H)[p] : p \in Parents(H, t)}
    BY ParentsIs DEF Chains
  <1>4. ASSUME NEW t \in B
        PROVE  \E p \in B : p < t
    <2>1. PICK p \in Parents(H, t) : Above(K)[p] # Above(H)[p]
      <3>1. SUFFICES ASSUME \A p \in Parents(H, t) : Above(K)[p] = Above(H)[p]
                     PROVE  Above(K)[t] = Above(H)[t]
        OBVIOUS
      <3>2. {Above(K)[p] : p \in Parents(K, t)} = {Above(H)[p] : p \in Parents(H, t)}
        BY <3>1
      <3>3. QED
        BY <3>2, <1>2, <1>3
    <2>2. p \in S /\ p < t
      BY <2>1, ParentsIs
    <2>3. QED
      BY <2>1, <2>2
  <1>5. B = {}
    <2> HIDE DEF B
    <2>1. B \in SUBSET TaskId
      BY DEF B
    <2>2. QED
      BY ONLY <1>4, <2>1, Inherited
  <1>6. QED
    BY <1>5

-----------------------------------------------------------------------------
(* What a prune removes, and what it spares.                               *)

Spared(H) == Ids(H, "running") \cup Pinned(H) \cup Retained(H)

\* P has what H has but for some tasks that are no longer kept.
Thinned(H, P) ==
    /\ P \in Telemetry
    /\ P.now = H.now /\ P.ended = H.ended /\ P.cursor = H.cursor /\ P.revision = H.revision
    /\ Kept(P) \subseteq Kept(H)
    /\ \A t \in TaskId : P.task[t] = [H.task[t] EXCEPT !.kept = t \in Kept(P)]

\* The newest of a set are some of it.
LEMMA NewestIn ==
    ASSUME NEW H, NEW S, NEW n
    PROVE  Newest(H, S, n) \subseteq S
  BY DEF Newest

\* The ended tasks a prune may remove
Idle(H) == {t \in Ids(H, "ended") \ Pinned(H) : Fresh(H, t)}

\* The idle tasks of s that its quota keeps
OfSession(H, s) == Newest(H, Idle(H) \cap Of(H, s), MaxPerSession)

\* What the quotas retain are idle tasks.
LEMMA RetainedIs ==
    ASSUME NEW H
    PROVE  /\ Retained(H) = Newest(H, UNION {OfSession(H, s) : s \in Session}, MaxGlobal)
           /\ Retained(H) \subseteq Idle(H)
  <1>1. Retained(H) = Newest(H, UNION {OfSession(H, s) : s \in Session}, MaxGlobal)
    BY DEF Retained, OfSession, Idle
  <1>2. \A s \in Session : OfSession(H, s) \subseteq Idle(H)
    BY NewestIn DEF OfSession
  <1>3. Retained(H) \subseteq UNION {OfSession(H, s) : s \in Session}
    BY <1>1, NewestIn
  <1>4. QED
    BY <1>1, <1>2, <1>3

\* A prune spares tasks that stand and are kept.
LEMMA SparedIsKept ==
    ASSUME NEW H
    PROVE  Spared(H) \subseteq Kept(H) /\ Spared(H) \subseteq Stands(H)
  <1>1. Retained(H) \subseteq Ids(H, "ended")
    BY RetainedIs DEF Idle
  <1>2. QED
    BY <1>1 DEF Spared, Pinned, Ids, Kept, Stands

\* The fields of a born task but `kept'
LEMMA ThinnedTask ==
    ASSUME NEW H \in Telemetry, NEW t \in TaskId, NEW k \in BOOLEAN,
           k => H.task[t].kept,
           NEW x, x = [H.task[t] EXCEPT !.kept = k]
    PROVE  /\ x \in Task \cup NoTask
           /\ x.kept = k
           /\ x.status = H.task[t].status
           /\ H.task[t].status # "unborn" =>
                 /\ x.session = H.task[t].session
                 /\ x.parent = H.task[t].parent
                 /\ x.version = H.task[t].version
                 /\ x.finishedAt = H.task[t].finishedAt
                 /\ x.order = H.task[t].order
  <1> DEFINE y == H.task[t]
  <1>1. y \in Task \cup NoTask
    BY DEF Telemetry
  <1>2. CASE y \in NoTask
    <2>1. k = FALSE
      BY <1>2 DEF NoTask
    <2>2. x = [y EXCEPT !.kept = FALSE]
      BY <2>1
    <2> HIDE DEF y
    <2>3. x \in NoTask /\ x.kept = FALSE /\ x.status = y.status /\ y.status = "unborn"
      BY <1>2, <2>2 DEF NoTask
    <2>4. QED
      BY <2>1, <2>3 DEF y
  <1>3. CASE y \in Task
    <2>1. x = [y EXCEPT !.kept = k]
      OBVIOUS
    <2> HIDE DEF y
    <2>2. x \in Task /\ x.kept = k /\ x.status = y.status /\ x.session = y.session
          /\ x.parent = y.parent /\ x.version = y.version /\ x.finishedAt = y.finishedAt
          /\ x.order = y.order
      BY <1>3, <2>1 DEF Task
    <2>3. QED
      BY <2>2 DEF y
  <1>4. QED
    BY <1>1, <1>2, <1>3

\* pruneTerminalTelemetry
LEMMA PrunedIs ==
    ASSUME NEW H, H \in Telemetry, Stages(H)
    PROVE  Thinned(H, Pruned(H)) /\ Kept(Pruned(H)) = Spared(H)
  <1> DEFINE K == Spared(H)
             F == [t \in TaskId |-> [H.task[t] EXCEPT !.kept = t \in K]]
             expiries == {H.task[t].finishedAt + Ttl : t \in Retained(H)}
             e == IF expiries = {} THEN Never
                  ELSE CHOOSE x \in expiries : \A f \in expiries : x <= f
             P == Pruned(H)
  <1>1. P = [H EXCEPT !.task = F, !.pruneAt = e]
    BY DEF Pruned, Spared
  <1>2. e \in Int
    <2>1. Retained(H) \subseteq Ends(H)
      BY RetainedIs DEF Idle, Ids, Ends
    <2>2. expiries \in SUBSET Nat
      BY <2>1, TelemetryAssumption DEF Stages
    <2> HIDE DEF expiries
    <2>3. expiries # {} => \E x \in expiries : \A f \in expiries : x <= f
      BY <2>2, SmallestNumber
    <2>4. expiries # {} => e \in expiries
      BY <2>3
    <2>5. CASE expiries = {}
      BY <2>5 DEF Never
    <2>6. CASE expiries # {}
      <3>1. e \in expiries
        BY <2>4, <2>6
      <3> HIDE DEF e
      <3>2. QED
        BY <2>2, <3>1
    <2>7. QED
      BY <2>5, <2>6
  <1>3. K \subseteq Kept(H)
    BY SparedIsKept
  <1> HIDE DEF K, e, P
  <1>4. ASSUME NEW t \in TaskId
        PROVE  F[t] \in Task \cup NoTask /\ F[t].kept = (t \in K)
    <2> DEFINE k == t \in K
    <2>1. k \in BOOLEAN /\ (k => H.task[t].kept) /\ F[t] = [H.task[t] EXCEPT !.kept = k]
      BY <1>3 DEF Kept
    <2> HIDE DEF F, k
    <2>2. F[t] \in Task \cup NoTask /\ F[t].kept = k
      BY <2>1, ThinnedTask
    <2>3. QED
      BY <2>2 DEF k
  <1>5. F \in [TaskId -> Task \cup NoTask]
    BY <1>4
  <1>7. P.task = F
    BY <1>1 DEF Telemetry
  <1> HIDE DEF F
  <1>6. /\ P \in Telemetry /\ P.task = F
        /\ P.now = H.now /\ P.ended = H.ended /\ P.cursor = H.cursor /\ P.revision = H.revision
    BY <1>1, <1>2, <1>5 DEF Telemetry
  <1>8. Kept(P) = K
    <2>1. K \subseteq TaskId
      BY <1>3 DEF Kept
    <2>2. QED
      BY <1>4, <1>7, <2>1 DEF Kept
  <1>9. \A t \in TaskId : P.task[t] = [H.task[t] EXCEPT !.kept = t \in Kept(P)]
    BY <1>7, <1>8 DEF F
  <1>10. Thinned(H, P)
    BY <1>3, <1>6, <1>8, <1>9 DEF Thinned
  <1>11. QED
    BY <1>8, <1>10 DEF K, P

\* What a thinned telemetry still says
LEMMA ThinnedIs ==
    ASSUME NEW H, H \in Telemetry, NEW P, Thinned(H, P)
    PROVE  /\ Born(P) = Born(H) /\ Runs(P) = Runs(H) /\ Ends(P) = Ends(H) /\ Stands(P) = Stands(H)
           /\ \A t \in TaskId : Parents(P, t) = Parents(H, t)
           /\ \A t \in Born(H) :
                 /\ P.task[t].session = H.task[t].session
                 /\ P.task[t].version = H.task[t].version
                 /\ P.task[t].finishedAt = H.task[t].finishedAt
                 /\ P.task[t].order = H.task[t].order
  <1>1. ASSUME NEW t \in TaskId
        PROVE  /\ P.task[t].status = H.task[t].status
               /\ H.task[t].status # "unborn" =>
                     /\ P.task[t].session = H.task[t].session
                     /\ P.task[t].parent = H.task[t].parent
                     /\ P.task[t].version = H.task[t].version
                     /\ P.task[t].finishedAt = H.task[t].finishedAt
                     /\ P.task[t].order = H.task[t].order
    <2> DEFINE k == t \in Kept(P)
               x == P.task[t]
    <2>1. k \in BOOLEAN /\ x = [H.task[t] EXCEPT !.kept = k] /\ (k => H.task[t].kept)
      BY DEF Thinned, Kept
    <2> HIDE DEF k, x
    <2>2. /\ x.status = H.task[t].status
          /\ H.task[t].status # "unborn" =>
                /\ x.session = H.task[t].session
                /\ x.parent = H.task[t].parent
                /\ x.version = H.task[t].version
                /\ x.finishedAt = H.task[t].finishedAt
                /\ x.order = H.task[t].order
      BY <2>1, ThinnedTask
    <2>3. QED
      BY <2>2 DEF x
  <1>2. Born(P) = Born(H) /\ Runs(P) = Runs(H) /\ Ends(P) = Ends(H) /\ Stands(P) = Stands(H)
    BY <1>1 DEF Born, Runs, Ends, Stands
  <1>3. \A t \in TaskId : Parents(P, t) = Parents(H, t)
    BY <1>1, <1>2 DEF Parents, Born
  <1>4. QED
    BY <1>1, <1>2, <1>3 DEF Born

\* What is no longer kept is still an ancestor.
LEMMA ThinnedAbove ==
    ASSUME NEW H, Ordered(H), NEW P, Thinned(H, P)
    PROVE  \A t \in TaskId : Above(P)[t] = Above(H)[t]
  <1>1. \A t \in TaskId : Parents(P, t) = Parents(H, t) /\ Parents(H, t) \subseteq TaskId
    BY ThinnedIs, ParentsIs DEF Ordered
  <1> DEFINE S == TaskId
  <1>2. S \in SUBSET TaskId /\ \A t \in S : Parents(P, t) = Parents(H, t) /\ Parents(H, t) \subseteq S
    BY <1>1
  <1> HIDE DEF S
  <1>3. \A t \in TaskId : Parents(P, t) \subseteq TaskId
    BY <1>1
  <1>4. \A t \in S : Above(P)[t] = Above(H)[t]
    BY <1>2, <1>3, SameAbove
  <1>5. QED
    BY <1>4 DEF S

\* compareTerminalNewest is transitive.
LEMMA NewerTransitive ==
    ASSUME NEW H, Ordered(H), NEW v \in Ends(H), NEW u \in Ends(H), NEW x \in Ends(H),
           Newer(H, v, u), Newer(H, u, x)
    PROVE  Newer(H, v, x)
  <1>1. \A t \in Ends(H) : t \in Int /\ H.task[t].order \in Int /\ H.task[t].finishedAt \in Int
    <2>1. ASSUME NEW t \in Ends(H)
          PROVE  H.task[t] \in Task
      BY DEF Ordered, Telemetry, Ends, NoTask
    <2>2. \A t \in Ends(H) : t \in Int
      BY TelemetryAssumption DEF Ends, TaskId
    <2>3. QED
      BY <2>1, <2>2 DEF Task
  <1>2. QED
    BY <1>1 DEF Newer

\* Whoever is ahead of a member of the n newest, and everyone ahead of it, is one.
LEMMA NewestUp ==
    ASSUME NEW H, NEW S, IsFiniteSet(S), NEW n \in Nat, NEW x \in Newest(H, S, n), NEW u \in S,
           \A v \in S : Newer(H, v, u) => Newer(H, v, x)
    PROVE  u \in Newest(H, S, n)
  <1> DEFINE A == {v \in S : Newer(H, v, u)}
             C == {v \in S : Newer(H, v, x)}
  <1>1. A \in SUBSET C /\ C \in SUBSET S
    OBVIOUS
  <1>2. Cardinality(C) < n
    BY DEF Newest
  <1> HIDE DEF A, C
  <1>3. IsFiniteSet(C)
    BY <1>1, FS_Subset
  <1>4. Cardinality(A) <= Cardinality(C) /\ IsFiniteSet(A)
    BY <1>1, <1>3, FS_Subset
  <1>5. Cardinality(A) \in Nat /\ Cardinality(C) \in Nat
    BY <1>3, <1>4, FS_CardinalityType
  <1>6. Cardinality(A) < n
    BY <1>2, <1>4, <1>5
  <1>7. QED
    BY <1>6 DEF Newest, A

\* The quotas keep what is newer than a task of its session that they keep.
LEMMA RetainedUp ==
    ASSUME NEW H, Ordered(H), NEW x \in Retained(H), NEW u \in Idle(H),
           H.task[u].session = H.task[x].session, Newer(H, u, x)
    PROVE  u \in Retained(H)
  <1> DEFINE s == H.task[x].session
             S == Idle(H) \cap Of(H, s)
             A == UNION {OfSession(H, z) : z \in Session}
  <1>1. Idle(H) \subseteq TaskId /\ Idle(H) \subseteq Ends(H) /\ Idle(H) \subseteq Kept(H)
    BY DEF Idle, Ids, Ends, Kept
  <1>2. \A z \in Session : OfSession(H, z) \subseteq Idle(H) \cap Of(H, z)
    BY NewestIn DEF OfSession
  <1>3. Retained(H) = Newest(H, A, MaxGlobal) /\ x \in A /\ x \in Idle(H)
    BY RetainedIs, NewestIn
  <1>4. x \in OfSession(H, s) /\ s \in Session
    BY <1>2, <1>3 DEF Of
  <1>5. IsFiniteSet(TaskId)
    BY TelemetryAssumption, FS_Interval DEF TaskId
  <1>6. S \in SUBSET TaskId /\ A \in SUBSET TaskId /\ A \subseteq Idle(H)
    BY <1>1, <1>2
  <1>7. IsFiniteSet(S) /\ IsFiniteSet(A)
    BY <1>5, <1>6, FS_Subset
  <1>8. u \in S
    BY <1>1, <1>3 DEF Of
  <1>9. \A v \in Idle(H) : Newer(H, v, u) => Newer(H, v, x)
    BY <1>1, <1>3, NewerTransitive
  <1>10. MaxPerSession \in Nat /\ MaxGlobal \in Nat
    BY TelemetryAssumption
  <1>11. OfSession(H, s) = Newest(H, S, MaxPerSession)
    BY DEF OfSession
  <1>12. \A v \in S : Newer(H, v, u) => Newer(H, v, x)
    BY <1>9
  <1>13. \A v \in A : Newer(H, v, u) => Newer(H, v, x)
    BY <1>6, <1>9
  <1> HIDE DEF S, A, s
  <1>14. u \in Newest(H, S, MaxPerSession)
    BY <1>4, <1>7, <1>8, <1>10, <1>11, <1>12, NewestUp
  <1>15. u \in A
    BY <1>4, <1>11, <1>14 DEF A
  <1>16. x \in Newest(H, A, MaxGlobal)
    BY <1>3
  <1>17. u \in Newest(H, A, MaxGlobal)
    BY <1>7, <1>10, <1>13, <1>15, <1>16, NewestUp
  <1>18. QED
    BY <1>3, <1>17

\* A prune removes no parent of a task it spares.
LEMMA ParentsAreSpared ==
    ASSUME NEW H, Ordered(H), NEW t \in Spared(H), NEW p \in Parents(H, t)
    PROVE  p \in Spared(H)
  <1>1. t \in TaskId /\ t \in Kept(H) /\ p \in TaskId /\ p < t /\ t \in Nat /\ p \in Nat
    BY SparedIsKept, ParentsIs, TelemetryAssumption DEF Kept, TaskId
  <1>2. Follows(H, t, p)
    BY <1>1 DEF Ordered, Family
  <1>3. p \in Kept(H) /\ Kept(H) \subseteq Stands(H) /\ Runs(H) \subseteq Kept(H)
    BY <1>1, <1>2 DEF Follows, Ordered, Stages
  <1>4. Ids(H, "running") = Runs(H) /\ Ids(H, "ended") = Ends(H) \cap Kept(H)
    BY <1>3 DEF Ids, Runs, Ends, Kept
  <1>5. p \in Runs(H) \/ p \in Ends(H)
    BY <1>3 DEF Stands, Runs, Ends
  <1>6. CASE p \in Runs(H)
    BY <1>4, <1>6 DEF Spared
  <1>7. CASE p \in Ends(H) /\ p \notin Runs(H)
    <2>1. p \in Ids(H, "ended") /\ t \notin Runs(H)
      BY <1>2, <1>3, <1>4, <1>7 DEF Follows
    <2>2. Above(H)[t] = {p} \cup Above(H)[p]
      BY <1>1, OneAbove
    <2>3. p \in Pinned(H) <=> Above(H)[p] \cap Runs(H) # {}
      BY <1>4, <2>1 DEF Pinned
    <2>4. CASE t \in Pinned(H)
      <3>1. Above(H)[t] \cap Runs(H) # {}
        BY <1>4, <2>4 DEF Pinned
      <3>2. QED
        BY <1>7, <2>2, <2>3, <3>1 DEF Spared
    <2>5. CASE t \in Retained(H)
      <3>1. t \in Ids(H, "ended") /\ t \notin Pinned(H) /\ Fresh(H, t)
        BY <2>5, RetainedIs DEF Idle
      <3>2. p \notin Pinned(H)
        BY <1>4, <2>2, <2>3, <3>1 DEF Pinned
      <3>3. /\ H.task[t].order = H.task[p].order /\ H.task[t].finishedAt <= H.task[p].finishedAt
            /\ H.task[p].session = H.task[t].session
        BY <1>1, <1>2, <1>7 DEF Follows
      <3>4. H.task[t].finishedAt \in Int /\ H.task[p].finishedAt \in Int
        BY <1>4, <1>7, <3>1 DEF Ordered, Stages
      <3>5. Fresh(H, p)
        <4>1. H.now \in Int /\ Ttl \in Int
          BY TelemetryAssumption DEF Ordered, Telemetry
        <4> DEFINE a == H.now - Ttl
        <4>2. a \in Int
          BY <4>1
        <4>3. H.task[t].finishedAt > a
          BY <3>1 DEF Fresh
        <4> HIDE DEF a
        <4>4. H.task[p].finishedAt > a
          BY <3>3, <3>4, <4>2, <4>3
        <4>5. QED
          BY <4>4 DEF Fresh, a
      <3>6. p \in Idle(H)
        BY <2>1, <3>2, <3>5 DEF Idle
      <3>7. Newer(H, p, t)
        BY <1>1, <3>3, <3>4 DEF Newer
      <3>8. p \in Retained(H)
        BY <2>5, <3>3, <3>6, <3>7, RetainedUp
      <3>9. QED
        BY <3>8 DEF Spared
    <2>6. QED
      BY <1>4, <2>1, <2>4, <2>5 DEF Spared
  <1>8. QED
    BY <1>5, <1>6, <1>7

\* A prune removes tasks and nothing of what remains.
LEMMA PruneKeepsOrder ==
    ASSUME NEW H, Ordered(H)
    PROVE  Ordered(Pruned(H)) /\ Thinned(H, Pruned(H)) /\ Kept(Pruned(H)) = Spared(H)
  <1> DEFINE P == Pruned(H)
  <1>1. Thinned(H, P) /\ Kept(P) = Spared(H) /\ H \in Telemetry
    BY PrunedIs DEF Ordered
  <1> HIDE DEF P
  <1>2. /\ Born(P) = Born(H) /\ Runs(P) = Runs(H) /\ Ends(P) = Ends(H) /\ Stands(P) = Stands(H)
        /\ \A t \in TaskId : Parents(P, t) = Parents(H, t)
        /\ \A t \in Born(H) :
              /\ P.task[t].session = H.task[t].session
              /\ P.task[t].finishedAt = H.task[t].finishedAt
              /\ P.task[t].order = H.task[t].order
    BY <1>1, ThinnedIs
  <1>3. Ends(H) \subseteq Born(H) /\ Kept(H) \subseteq Born(H)
    BY DEF Ends, Born, Kept, Ordered, Stages, Stands
  <1>4. Stages(P)
    <2>1. Runs(H) \subseteq Spared(H)
      BY DEF Spared, Ids, Runs, Ordered, Stages, Kept
    <2>2. Spared(H) \subseteq Stands(H)
      BY SparedIsKept
    <2>3. P.now = H.now /\ P.ended = H.ended
      BY <1>1 DEF Thinned
    <2>4. QED
      BY <1>1, <1>2, <1>3, <2>1, <2>2, <2>3 DEF Ordered, Stages
  <1>5. ASSUME NEW t \in TaskId, NEW p \in Parents(P, t)
        PROVE  Follows(P, t, p)
    <2>1. p \in Parents(H, t) /\ Follows(H, t, p) /\ t \in Born(H) /\ p \in Born(H)
      BY <1>2 DEF Ordered, Family, Parents, Follows
    <2>2. t \in Kept(P) => p \in Kept(P)
      BY <1>1, <2>1, ParentsAreSpared
    <2>3. Kept(P) \subseteq Kept(H)
      BY <1>1, SparedIsKept
    <2>4. QED
      BY <1>2, <2>1, <2>2, <2>3 DEF Follows
  <1>6. QED
    BY <1>1, <1>4, <1>5 DEF Ordered, Family, Thinned, P

\* A prune breaks no tree.
LEMMA PruneKeepsTrees ==
    ASSUME NEW H, Trees(H)
    PROVE  Trees(Pruned(H))
  <1> DEFINE P == Pruned(H)
  <1>0. Ordered(H) /\ Whole(H)
    BY DEF Trees
  <1>1. Ordered(P) /\ Thinned(H, P) /\ Kept(P) = Spared(H) /\ H \in Telemetry
    BY <1>0, PruneKeepsOrder DEF Ordered
  <1> HIDE DEF P
  <1>2. /\ Born(P) = Born(H) /\ Runs(P) = Runs(H) /\ Ends(P) = Ends(H) /\ Stands(P) = Stands(H)
        /\ \A t \in Born(H) :
              /\ P.task[t].session = H.task[t].session
              /\ P.task[t].finishedAt = H.task[t].finishedAt
              /\ P.task[t].order = H.task[t].order
        /\ P.now = H.now
    BY <1>1, ThinnedIs DEF Thinned
  <1>3. \A t \in TaskId : Above(P)[t] = Above(H)[t]
    BY <1>0, <1>1, ThinnedAbove
  <1>4. Runs(H) \subseteq Kept(H) /\ Kept(H) \subseteq Stands(H) /\ Stands(H) \subseteq Born(H)
    BY <1>0 DEF Ordered, Stages, Stands, Born
  <1>5. Ids(H, "running") = Runs(H) /\ Ids(H, "ended") = Ends(H) \cap Kept(H)
    BY <1>4 DEF Ids, Runs, Ends, Kept
  <1>6. \A t \in TaskId : Below(P, t) = Below(H, t)
    BY <1>2, <1>3 DEF Below, Stands
  <1>7. ASSUME NEW t \in Runs(P), NEW u \in Below(P, t)
        PROVE  u \in Kept(P)
    <2>1. t \in Runs(H) /\ t \in TaskId /\ u \in Below(H, t) /\ u \in Stands(H) /\ t \in Above(H)[u]
      BY <1>2, <1>6 DEF Runs, Below
    <2>2. u \in Kept(H)
      BY <1>0, <2>1 DEF Whole
    <2>3. u \in Runs(H) \/ u \in Ends(H)
      BY <2>1 DEF Stands, Runs, Ends
    <2>4. u \in Ends(H) => u \in Pinned(H)
      BY <1>5, <2>1, <2>2 DEF Pinned
    <2>5. QED
      BY <1>1, <1>5, <2>3, <2>4 DEF Spared
  <1>8. ASSUME NEW r \in Roots(P), NEW x \in Roots(P),
               P.task[r].session = P.task[x].session, P.task[x].order < P.task[r].order,
               NEW u \in Below(P, r), Fresh(P, u)
        PROVE  u \in Kept(P)
    <2>1. /\ r \in TaskId /\ x \in TaskId /\ r \in Spared(H) /\ x \in Spared(H)
          /\ r \in Ends(H) /\ x \in Ends(H) /\ Above(H)[r] = {} /\ Above(H)[x] = {}
      BY <1>1, <1>2, <1>3 DEF Roots, Ends
    <2>2. r \in Kept(H) /\ x \in Kept(H) /\ r \in Born(H) /\ x \in Born(H)
      BY <1>4, <2>1, SparedIsKept
    <2>3. r \in Roots(H) /\ x \in Roots(H)
      BY <2>1, <2>2 DEF Roots
    <2>4. H.task[r].session = H.task[x].session /\ H.task[x].order < H.task[r].order
      BY <1>2, <1>8, <2>2
    <2>5. u \in Below(H, r) /\ u \in Stands(H) /\ u \in TaskId /\ r \in Above(H)[u] /\ u \in Born(H)
      BY <1>4, <1>6, <2>1 DEF Below, Stands
    <2>6. Fresh(H, u)
      BY <1>2, <1>8, <2>5 DEF Fresh
    <2>7. u \in Kept(H)
      BY <1>0, <2>3, <2>4, <2>5, <2>6 DEF Whole
    <2>8. /\ u \in Ends(H) /\ H.task[u].order = H.task[r].order
          /\ H.task[r].session = H.task[u].session
      BY <1>0, <2>1, <2>5, <2>7, AncestorsAre
    <2>9. r \notin Runs(H) /\ x \notin Runs(H)
      BY <2>1 DEF Runs, Ends
    <2>10. u \notin Pinned(H)
      <3>1. SUFFICES ASSUME NEW a \in Above(H)[u], a \in Runs(H) PROVE FALSE
        BY <1>5 DEF Pinned
      <3>2. a = r \/ r \in Above(H)[a]
        BY <1>0, <2>1, <2>5, RootIsFirst
      <3>3. a \in TaskId
        BY <3>1 DEF Runs
      <3>4. r \in Above(H)[a] => r \in Runs(H)
        BY <1>0, <3>1, <3>3, AncestorsAre
      <3>5. QED
        BY <2>9, <3>1, <3>2, <3>4
    <2>11. x \in Retained(H)
      <3>1. x \notin Pinned(H)
        BY <2>1 DEF Pinned
      <3>2. QED
        BY <1>5, <2>1, <2>9, <3>1 DEF Spared
    <2>12. u \in Idle(H)
      BY <1>5, <2>6, <2>7, <2>8, <2>10 DEF Idle
    <2>13. Newer(H, u, x)
      <3>1. H.task[x] \in Task /\ H.task[u] \in Task
        BY <1>1, <2>2, <2>5 DEF Telemetry, NoTask, Born
      <3>2. H.task[x].order \in Int /\ H.task[u].order \in Int
        BY <3>1 DEF Task
      <3>3. QED
        BY <2>4, <2>8, <3>2 DEF Newer
    <2>14. u \in Retained(H)
      BY <1>0, <2>4, <2>8, <2>11, <2>12, <2>13, RetainedUp
    <2>15. QED
      BY <1>1, <2>14 DEF Spared
  <1>9. Whole(P)
    BY <1>7, <1>8 DEF Whole
  <1>10. QED
    BY <1>1, <1>9 DEF Trees, P

-----------------------------------------------------------------------------
(* What mutations do to the trees.                                         *)

\* K differs from H in no field that retention looks at.
Alike(H, K) ==
    /\ K \in Telemetry
    /\ K.now >= H.now /\ K.ended >= H.ended
    /\ \A t \in TaskId :
          /\ K.task[t].status = H.task[t].status
          /\ K.task[t].kept = H.task[t].kept
    /\ \A t \in Born(H) :
          /\ K.task[t].session = H.task[t].session
          /\ K.task[t].parent = H.task[t].parent
          /\ K.task[t].finishedAt = H.task[t].finishedAt
          /\ K.task[t].order = H.task[t].order

\* K is H with another task t: only what is said of t differs, and it goes on.
Moves(H, K, t) ==
    /\ K.cursor = H.cursor /\ K.revision = H.revision
    /\ \A u \in TaskId \ {t} :
          K.task[u].status = H.task[u].status /\ K.task[u].kept = H.task[u].kept
    /\ \A u \in Born(H) \ {t} : K.task[u].version = H.task[u].version
    /\ \A u \in Born(H) :
          /\ u \in Born(K)
          /\ K.task[u].session = H.task[u].session
          /\ K.task[u].version >= H.task[u].version
          /\ u \notin Runs(H) => u \notin Runs(K)

\* A telemetry that is alike has whole trees too.
LEMMA AlikeKeepsTrees ==
    ASSUME NEW H, Trees(H), NEW K, Alike(H, K)
    PROVE  Trees(K)
  <1>1. Ordered(H) /\ Whole(H) /\ H \in Telemetry
    BY DEF Trees, Ordered
  <1>2. /\ Born(K) = Born(H) /\ Runs(K) = Runs(H) /\ Ends(K) = Ends(H) /\ Stands(K) = Stands(H)
        /\ Kept(K) = Kept(H)
    BY DEF Alike, Born, Runs, Ends, Stands, Kept
  <1>3. \A t \in TaskId : Parents(K, t) = Parents(H, t)
    BY <1>2 DEF Alike, Parents
  <1>4. Kept(H) \subseteq Born(H) /\ Ends(H) \subseteq Born(H) /\ Stands(H) \subseteq Born(H)
    BY <1>1 DEF Ends, Born, Stands, Ordered, Stages
  <1>5. H.now \in Int /\ K.now \in Int /\ H.ended \in Int /\ K.ended \in Int
    BY <1>1 DEF Alike, Telemetry
  <1>6. Stages(K)
    <2>1. ASSUME NEW t \in Ends(K)
          PROVE  /\ K.task[t].finishedAt \in Nat /\ K.task[t].finishedAt <= K.now
                 /\ K.task[t].order <= K.ended
      <3>1. t \in Ends(H) /\ t \in Born(H)
        BY <1>2, <1>4
      <3>2. H.task[t].finishedAt \in Nat /\ H.task[t].finishedAt <= H.now /\ H.task[t].order <= H.ended
        BY <1>1, <3>1 DEF Ordered, Stages
      <3>3. H.task[t].order \in Int
        <4>1. H.task[t] \in Task
          BY <1>1, <3>1 DEF Telemetry, NoTask, Ends
        <4>2. QED
          BY <4>1 DEF Task
      <3>4. K.task[t].finishedAt = H.task[t].finishedAt /\ K.task[t].order = H.task[t].order
            /\ K.now >= H.now /\ K.ended >= H.ended
        BY <3>1 DEF Alike
      <3>5. QED
        BY <1>5, <3>2, <3>3, <3>4
    <2>2. QED
      BY <1>1, <1>2, <2>1 DEF Ordered, Stages
  <1>7. Family(K)
    <2>1. ASSUME NEW t \in TaskId, NEW p \in Parents(K, t)
          PROVE  Follows(K, t, p)
      <3>1. Follows(H, t, p) /\ t \in Born(H) /\ p \in Born(H)
        BY <1>1, <1>3 DEF Ordered, Family, Parents, Follows
      <3>2. QED
        BY <1>2, <3>1 DEF Follows, Alike
    <2>2. QED
      BY <2>1 DEF Family
  <1>8. \A t \in TaskId : Above(K)[t] = Above(H)[t]
    <2> DEFINE S == TaskId
    <2>1. \A t \in TaskId : Parents(H, t) \subseteq TaskId /\ Parents(K, t) \subseteq TaskId
      BY <1>1, <1>3, ParentsIs
    <2>2. S \in SUBSET TaskId /\ \A t \in S : Parents(K, t) = Parents(H, t) /\ Parents(H, t) \subseteq S
      BY <1>3, <2>1
    <2> HIDE DEF S
    <2>3. \A t \in S : Above(K)[t] = Above(H)[t]
      BY <1>1, <2>1, <2>2, SameAbove
    <2>4. QED
      BY <2>3 DEF S
  <1>9. \A t \in TaskId : Below(K, t) = Below(H, t)
    BY <1>2, <1>8 DEF Below, Stands
  <1>10. Roots(K) = Roots(H)
    BY <1>2, <1>8 DEF Roots, Kept
  <1>11. \A t \in Born(H) : Fresh(K, t) => Fresh(H, t)
    <2>1. ASSUME NEW t \in Born(H), Fresh(K, t)
          PROVE  Fresh(H, t)
      <3>1. H.task[t].finishedAt \in Int /\ K.task[t].finishedAt = H.task[t].finishedAt
        <4>1. H.task[t] \in Task
          BY <1>1 DEF Telemetry, NoTask, Born
        <4>2. QED
          BY <4>1 DEF Task, Alike
      <3>2. K.now >= H.now /\ Ttl \in Int
        BY TelemetryAssumption DEF Alike
      <3>3. QED
        BY <1>5, <2>1, <3>1, <3>2 DEF Fresh
    <2>2. QED
      BY <2>1
  <1>12. ASSUME NEW t \in Runs(K), NEW u \in Below(K, t)
         PROVE  u \in Kept(K)
    BY <1>1, <1>2, <1>9 DEF Whole, Runs
  <1>13. ASSUME NEW r \in Roots(K), NEW x \in Roots(K),
                K.task[r].session = K.task[x].session, K.task[x].order < K.task[r].order,
                NEW u \in Below(K, r), Fresh(K, u)
         PROVE  u \in Kept(K)
    <2>1. r \in Roots(H) /\ x \in Roots(H) /\ r \in Born(H) /\ x \in Born(H) /\ r \in TaskId
      BY <1>4, <1>10 DEF Roots, Kept
    <2>2. u \in Below(H, r) /\ u \in Born(H)
      BY <1>4, <1>9, <2>1 DEF Below
    <2>3. H.task[r].session = H.task[x].session /\ H.task[x].order < H.task[r].order
      BY <1>13, <2>1 DEF Alike
    <2>4. QED
      BY <1>1, <1>2, <1>11, <1>13, <2>1, <2>2, <2>3 DEF Whole
  <1>14. QED
    BY <1>6, <1>7, <1>12, <1>13 DEF Trees, Ordered, Whole, Alike

\* A subtask starts below a running task of its session.
LEMMA StartKeepsTrees ==
    ASSUME NEW H, Trees(H), NEW t \in TaskId, t \notin Born(H),
           \A u \in 1 .. t - 1 : u \in Born(H), NEW s \in Session,
           NEW q \in {0} \cup (Runs(H) \cap Of(H, s))
    PROVE  /\ Trees(Started(H, t, s, q)) /\ Moves(H, Started(H, t, s, q), t)
           /\ t \in Kept(Started(H, t, s, q)) /\ Started(H, t, s, q).task[t].session = s
  <1> DEFINE K == Started(H, t, s, q)
             row == [status |-> "running", kept |-> TRUE, session |-> s, parent |-> q,
                     version |-> 0, finishedAt |-> Never, order |-> 0]
  <1>1. Ordered(H) /\ Whole(H) /\ H \in Telemetry
    BY DEF Trees, Ordered
  <1>2. q \in 0 .. MaxTask /\ MaxTask \in Nat /\ t \in Nat /\ t # 0
    BY TelemetryAssumption DEF Runs, TaskId
  <1>3. row \in Task
    BY <1>2 DEF Task, Never
  <1> DEFINE F == [H.task EXCEPT ![t] = row]
  <1>4. K = [H EXCEPT !.task = F]
    BY <1>1 DEF Started, Telemetry
  <1>5. /\ row.status = "running" /\ row.kept = TRUE /\ row.session = s /\ row.parent = q
    OBVIOUS
  <1> HIDE DEF row, K
  <1>6. /\ F \in [TaskId -> Task \cup NoTask] /\ F[t] = row
        /\ \A u \in TaskId \ {t} : F[u] = H.task[u]
    BY <1>1, <1>3 DEF Telemetry
  <1> HIDE DEF F
  <1>7. /\ K \in Telemetry /\ K.task[t] = row /\ \A u \in TaskId \ {t} : K.task[u] = H.task[u]
        /\ K.now = H.now /\ K.ended = H.ended /\ K.cursor = H.cursor /\ K.revision = H.revision
    BY <1>1, <1>4, <1>6 DEF Telemetry
  <1>8. /\ Born(K) = Born(H) \cup {t} /\ Runs(K) = Runs(H) \cup {t} /\ Stands(K) = Stands(H) \cup {t}
        /\ Kept(K) = Kept(H) \cup {t} /\ Ends(K) = Ends(H)
    <2>1. t \notin Runs(H) /\ t \notin Ends(H) /\ t \notin Stands(H) /\ t \notin Kept(H)
      BY <1>1 DEF Runs, Ends, Stands, Born, Ordered, Stages
    <2>2. Born(K) = Born(H) \cup {t}
      BY <1>5, <1>7 DEF Born
    <2>3. Runs(K) = Runs(H) \cup {t}
      BY <1>5, <1>7 DEF Runs
    <2>4. Stands(K) = Stands(H) \cup {t}
      BY <1>5, <1>7 DEF Stands
    <2>5. Kept(K) = Kept(H) \cup {t}
      BY <1>5, <1>7 DEF Kept
    <2>6. Ends(K) = Ends(H)
      BY <1>5, <1>7, <2>1 DEF Ends
    <2>7. QED
      BY <2>2, <2>3, <2>4, <2>5, <2>6
  <1>9. \A u \in TaskId \ {t} : Parents(K, u) = Parents(H, u) /\ t \notin Parents(H, u)
    <2>1. \A u \in TaskId : \A p \in Parents(H, u) : p \in Born(H)
      BY <1>1, ParentsIs
    <2>2. QED
      BY <1>7, <1>8, <2>1 DEF Parents
  <1>10. Parents(K, t) = {q} \ {0}
    BY <1>5, <1>7, <1>8 DEF Parents
  <1>11. q # 0 => /\ q \in Born(H) /\ q # t /\ q < t /\ q \in Runs(H) /\ q \in Stands(H) /\ q \in Kept(H)
                  /\ H.task[q].session = s /\ q \notin Ends(H) /\ q \in TaskId
    <2>1. SUFFICES ASSUME q # 0 PROVE
                  /\ q \in Born(H) /\ q # t /\ q < t /\ q \in Runs(H) /\ q \in Stands(H) /\ q \in Kept(H)
                  /\ H.task[q].session = s /\ q \notin Ends(H) /\ q \in TaskId
      OBVIOUS
    <2>2. q \in Runs(H) /\ q \in Of(H, s)
      BY <2>1
    <2>3. q \in Born(H) /\ q \in TaskId /\ q \in Stands(H) /\ q \notin Ends(H)
      BY <2>2 DEF Runs, Born, Stands, Ends
    <2>4. ~(t < q)
      BY <1>1, <2>3 DEF Ordered, Stages
    <2>5. q \in Nat /\ q # t
      BY <1>2, <2>3
    <2>6. QED
      BY <1>2, <2>2, <2>3, <2>4, <2>5 DEF Of
  <1>12. Stages(K)
    <2>1. \A u \in Ends(K) : u \in TaskId \ {t}
      BY <1>8 DEF Ends, Born
    <2>2. ASSUME NEW u \in TaskId, NEW v \in Born(K), u < v
          PROVE  u \in Born(K)
      <3>1. CASE v = t
        BY <1>2, <1>8, <2>2, <3>1 DEF TaskId
      <3>2. CASE v \in Born(H)
        BY <1>1, <1>8, <2>2, <3>2 DEF Ordered, Stages
      <3>3. QED
        BY <1>8, <3>1, <3>2
    <2>3. QED
      BY <1>1, <1>7, <1>8, <2>1, <2>2 DEF Ordered, Stages
  <1>13. ASSUME NEW u \in TaskId, NEW p \in Parents(K, u)
         PROVE  Follows(K, u, p)
    <2>1. CASE u = t
      BY <1>5, <1>7, <1>8, <1>10, <1>11, <2>1 DEF Follows
    <2>2. CASE u # t
      <3>1. p \in Parents(H, u) /\ p # t
        BY <1>9, <2>2
      <3>2. Follows(H, u, p) /\ p \in TaskId
        BY <1>1, <3>1, ParentsIs DEF Ordered, Family
      <3>3. QED
        BY <1>7, <1>8, <2>2, <3>1, <3>2 DEF Follows
    <2>3. QED
      BY <2>1, <2>2
  <1>14. Ordered(K)
    BY <1>7, <1>12, <1>13 DEF Ordered, Family
  <1>15. \A u \in TaskId \ {t} : Above(K)[u] = Above(H)[u] /\ t \notin Above(K)[u]
    <2> DEFINE S == TaskId \ {t}
    <2>1. \A u \in TaskId : Parents(K, u) \subseteq TaskId /\ Parents(H, u) \subseteq TaskId
      BY <1>1, <1>14, ParentsIs
    <2>2. S \in SUBSET TaskId /\ \A u \in S : Parents(K, u) = Parents(H, u) /\ Parents(H, u) \subseteq S
      BY <1>9, <2>1
    <2> HIDE DEF S
    <2>3. \A u \in S : Above(K)[u] = Above(H)[u]
      BY <1>1, <2>1, <2>2, SameAbove
    <2>4. \A u \in TaskId : Above(H)[u] \subseteq Born(H)
      BY <1>1, AncestorsAre
    <2>5. QED
      BY <2>3, <2>4 DEF S
  <1>16. ASSUME NEW r \in TaskId
         PROVE  Below(K, r) \subseteq Below(H, r) \cup {t}
    BY <1>8, <1>15 DEF Below, Stands
  <1>17. ASSUME NEW r \in Runs(K), NEW u \in Below(K, r)
         PROVE  u \in Kept(K)
    <2>1. u \in TaskId /\ r \in TaskId /\ r \in Above(K)[u]
      BY DEF Below, Stands, Runs
    <2>2. CASE u # t
      <3>1. r # t
        BY <1>15, <2>1, <2>2
      <3>2. r \in Runs(H) /\ u \in Below(H, r)
        BY <1>8, <1>16, <2>1, <2>2, <3>1
      <3>3. QED
        BY <1>1, <1>8, <3>2 DEF Whole
    <2>3. QED
      BY <1>8, <2>2
  <1>18. ASSUME NEW r \in Roots(K), NEW x \in Roots(K),
                K.task[r].session = K.task[x].session, K.task[x].order < K.task[r].order,
                NEW u \in Below(K, r), Fresh(K, u)
         PROVE  u \in Kept(K)
    <2>1. r \in Ends(K) /\ x \in Ends(K) /\ r # t /\ x # t /\ r \in TaskId /\ x \in TaskId
      BY <1>8 DEF Roots, Ends, Born
    <2>2. r \in Roots(H) /\ x \in Roots(H)
      BY <1>8, <1>15, <2>1 DEF Roots
    <2>3. SUFFICES ASSUME u # t PROVE u \in Kept(H)
      BY <1>8
    <2>4. u \in Below(H, r) /\ u \in TaskId
      BY <1>16, <2>1, <2>3 DEF Below, Stands
    <2>5. Fresh(H, u)
      BY <1>7, <1>18, <2>3, <2>4 DEF Fresh
    <2>6. H.task[r].session = H.task[x].session /\ H.task[x].order < H.task[r].order
      BY <1>7, <1>18, <2>1
    <2>7. QED
      BY <1>1, <2>2, <2>4, <2>5, <2>6 DEF Whole
  <1>20. Moves(H, K, t)
    <2>1. \A u \in Born(H) : u # t /\ u \in TaskId /\ H.task[u].version \in Nat
      <3>1. ASSUME NEW u \in Born(H)
            PROVE  u # t /\ u \in TaskId /\ H.task[u].version \in Nat
        <4>1. H.task[u] \in Task
          BY <1>1 DEF Telemetry, NoTask, Born
        <4>2. QED
          BY <4>1 DEF Born, Task
      <3>2. QED
        BY <3>1
    <2>2. \A u \in Born(H) : u \notin Runs(H) => u \notin Runs(K)
      BY <1>8, <2>1
    <2>3. QED
      BY <1>7, <1>8, <2>1, <2>2 DEF Moves
  <1>21. t \in Kept(K) /\ K.task[t].session = s
    BY <1>5, <1>7, <1>8
  <1>22. QED
    BY <1>14, <1>17, <1>18, <1>20, <1>21 DEF Trees, Whole, K

\* A task ends after its subtasks, and takes the place of its kept descendants along.
LEMMA FinishKeepsTrees ==
    ASSUME NEW H, Trees(H), NEW t \in Runs(H), \A u \in Runs(H) : t \notin Above(H)[u]
    PROVE  /\ Trees(Finished(H, t)) /\ Moves(H, Finished(H, t), t)
           /\ Kept(Finished(H, t)) = Kept(H)
  <1> DEFINE K == Finished(H, t)
             order == H.ended + 1
             moved == {u \in Ids(H, "ended") : t \in Above(H)[u]}
             F == [u \in TaskId |->
                      IF u = t THEN [H.task[u] EXCEPT !.status = "ended", !.finishedAt = H.now,
                                                      !.order = order]
                      ELSE IF u \in moved THEN [H.task[u] EXCEPT !.order = order]
                      ELSE H.task[u]]
  <1>1. Ordered(H) /\ Whole(H) /\ H \in Telemetry
    BY DEF Trees, Ordered
  <1>2. K = [H EXCEPT !.ended = order, !.task = F]
    BY <1>1 DEF Finished, Telemetry
  <1>3. H.now \in Nat /\ H.ended \in Nat /\ order \in Nat /\ order > H.ended
    BY <1>1 DEF Telemetry
  <1>4. t \in TaskId /\ t \in Born(H) /\ t \in Kept(H) /\ t \notin Ends(H) /\ t \in Stands(H)
    BY <1>1 DEF Runs, Born, Kept, Ends, Stands, Ordered, Stages
  <1>5. moved = {u \in Ends(H) \cap Kept(H) : t \in Above(H)[u]} /\ t \notin moved
    BY <1>4 DEF Ids, Ends, Kept
  <1> HIDE DEF K, order, moved
  <1>6. \A u \in Born(H) : H.task[u] \in Task
    BY <1>1 DEF Telemetry, NoTask, Born
  <1>7. ASSUME NEW u \in TaskId
        PROVE  /\ F[u] \in Task \cup NoTask
               /\ u # t => F[u].status = H.task[u].status
               /\ u = t => F[u].status = "ended" /\ F[u].finishedAt = H.now /\ F[u].order = order
               /\ F[u].kept = H.task[u].kept
               /\ u \in Born(H) =>
                     /\ F[u].session = H.task[u].session
                     /\ F[u].parent = H.task[u].parent
                     /\ F[u].version = H.task[u].version
                     /\ u # t => F[u].finishedAt = H.task[u].finishedAt
                     /\ u \in moved => F[u].order = order
                     /\ u # t /\ u \notin moved => F[u].order = H.task[u].order
    <2>1. CASE u = t
      <3>1. F[u] = [H.task[u] EXCEPT !.status = "ended", !.finishedAt = H.now, !.order = order]
        BY <2>1
      <3>2. H.task[u] \in Task
        BY <1>4, <1>6, <2>1
      <3> HIDE DEF F
      <3> DEFINE y == H.task[u]  z == F[u]  n == H.now
      <3>3. z = [y EXCEPT !.status = "ended", !.finishedAt = n, !.order = order]
            /\ y \in Task /\ n \in Nat /\ order \in Nat
        BY <1>3, <3>1, <3>2
      <3> HIDE DEF y, z, n
      <3> DEFINE a == [y EXCEPT !.status = "ended"]
                 b == [a EXCEPT !.finishedAt = n]
      <3>4. a \in Task /\ a.status = "ended"
            /\ a.kept = y.kept /\ a.session = y.session /\ a.parent = y.parent /\ a.version = y.version
        BY <3>3 DEF Task
      <3>8. z = [b EXCEPT !.order = order]
        BY <3>3
      <3> HIDE DEF a
      <3>5. b \in Task /\ b.status = "ended" /\ b.finishedAt = n
            /\ b.kept = y.kept /\ b.session = y.session /\ b.parent = y.parent /\ b.version = y.version
        BY <3>3, <3>4 DEF Task
      <3> HIDE DEF b
      <3>6. z \in Task /\ z.status = "ended" /\ z.finishedAt = n /\ z.order = order
            /\ z.kept = y.kept /\ z.session = y.session /\ z.parent = y.parent /\ z.version = y.version
        BY <3>3, <3>5, <3>8 DEF Task
      <3>7. QED
        BY <1>5, <2>1, <3>6 DEF y, z, n
    <2>2. CASE u # t /\ u \in moved
      <3>1. F[u] = [H.task[u] EXCEPT !.order = order]
        BY <2>2
      <3>2. H.task[u] \in Task
        BY <1>5, <1>6, <2>2 DEF Ends, Born
      <3> HIDE DEF F
      <3>3. QED
        BY <1>3, <2>2, <3>1, <3>2 DEF Task
    <2>3. CASE u # t /\ u \notin moved
      <3>1. F[u] = H.task[u]
        BY <2>3
      <3>2. H.task[u] \in Task \cup NoTask
        BY <1>1 DEF Telemetry
      <3> HIDE DEF F
      <3>3. QED
        BY <2>3, <3>1, <3>2
    <2>4. QED
      BY <2>1, <2>2, <2>3
  <1>8. F \in [TaskId -> Task \cup NoTask]
    BY <1>7
  <1> HIDE DEF F
  <1>9. /\ K \in Telemetry /\ K.task = F /\ K.now = H.now /\ K.ended = order
        /\ K.cursor = H.cursor /\ K.revision = H.revision
    BY <1>1, <1>2, <1>3, <1>8 DEF Telemetry
  <1>10. /\ Born(K) = Born(H) /\ Runs(K) = Runs(H) \ {t} /\ Stands(K) = Stands(H)
         /\ Kept(K) = Kept(H) /\ Ends(K) = Ends(H) \cup {t}
    <2>1. Born(K) = Born(H)
      BY <1>4, <1>7, <1>9 DEF Born
    <2>2. Runs(K) = Runs(H) \ {t}
      BY <1>7, <1>9 DEF Runs
    <2>3. Stands(K) = Stands(H)
      BY <1>4, <1>7, <1>9 DEF Stands
    <2>4. Kept(K) = Kept(H)
      BY <1>7, <1>9 DEF Kept
    <2>5. Ends(K) = Ends(H) \cup {t}
      BY <1>4, <1>7, <1>9 DEF Ends
    <2>6. QED
      BY <2>1, <2>2, <2>3, <2>4, <2>5
  <1>11. \A u \in TaskId : Parents(K, u) = Parents(H, u)
    BY <1>7, <1>9, <1>10 DEF Parents
  <1>12. \A u \in Ends(H) : u \in Born(H) /\ u # t /\ u \in TaskId
    BY <1>4 DEF Ends, Born
  <1>13. Stages(K)
    <2>1. ASSUME NEW u \in Ends(K)
          PROVE  /\ K.task[u].finishedAt \in Nat /\ K.task[u].finishedAt <= K.now
                 /\ K.task[u].order <= K.ended
      <3>1. CASE u = t
        BY <1>3, <1>4, <1>7, <1>9, <3>1
      <3>2. CASE u \in Ends(H)
        <4>1. u \in Born(H) /\ u # t /\ u \in TaskId
          BY <1>12, <3>2
        <4>2. H.task[u].finishedAt \in Nat /\ H.task[u].finishedAt <= H.now /\ H.task[u].order <= H.ended
          BY <1>1, <3>2 DEF Ordered, Stages
        <4>3. H.task[u].order \in Nat
          BY <1>6, <4>1 DEF Task
        <4>4. K.task[u].order = order \/ K.task[u].order = H.task[u].order
          BY <1>7, <1>9, <4>1
        <4>5. K.task[u].finishedAt = H.task[u].finishedAt
          BY <1>7, <1>9, <4>1
        <4>6. QED
          BY <1>3, <1>9, <4>2, <4>3, <4>4, <4>5
      <3>3. QED
        BY <1>10, <3>1, <3>2
    <2>2. QED
      BY <1>1, <1>10, <2>1 DEF Ordered, Stages
  <1>14. ASSUME NEW u \in TaskId, NEW p \in Parents(K, u)
         PROVE  Follows(K, u, p)
    <2>1. p \in Parents(H, u) /\ Follows(H, u, p) /\ u \in Born(H) /\ p \in Born(H) /\ p \in TaskId
      BY <1>1, <1>11, ParentsIs DEF Ordered, Family, Parents
    <2>2. Above(H)[u] = {p} \cup Above(H)[p]
      BY <1>1, <2>1, OneAbove
    <2>3. K.task[p].session = K.task[u].session
      BY <1>7, <1>9, <2>1 DEF Follows
    <2>4. u \in Runs(K) => p \in Runs(K)
      <3>1. u \in Runs(H) => t # p
        BY <2>2
      <3>2. QED
        BY <1>10, <2>1, <3>1 DEF Follows
    <2>5. ASSUME u \in Kept(K), p \in Ends(K)
          PROVE  K.task[u].order = K.task[p].order /\ K.task[u].finishedAt <= K.task[p].finishedAt
      <3>1. u \in Kept(H) /\ p \in Kept(H)
        BY <1>10, <2>1, <2>5 DEF Follows
      <3>2. u \in Ends(H)
        <4>1. u \in Runs(H) \/ u \in Ends(H)
          BY <1>1, <3>1 DEF Ordered, Stages, Stands, Runs, Ends
        <4>2. u \in Runs(H) => p \in Runs(H) /\ p # t
          BY <2>1, <2>2 DEF Follows
        <4>3. p \notin Runs(H) \/ p = t
          BY <1>10, <2>5 DEF Runs, Ends
        <4>4. QED
          BY <4>1, <4>2, <4>3
      <3>3. H.task[u].finishedAt \in Nat /\ H.task[u].finishedAt <= H.now /\ u # t
        BY <1>1, <1>12, <3>2 DEF Ordered, Stages
      <3>4. CASE p = t
        <4>1. u \in moved
          BY <1>5, <2>2, <3>1, <3>2, <3>4
        <4>2. K.task[u].order = order /\ K.task[p].order = order
              /\ K.task[u].finishedAt = H.task[u].finishedAt /\ K.task[p].finishedAt = H.now
          BY <1>7, <1>9, <2>1, <3>3, <3>4, <4>1
        <4>3. QED
          BY <3>3, <4>2
      <3>5. CASE p # t
        <4>1. p \in Ends(H)
          BY <1>10, <2>5, <3>5
        <4>2. H.task[u].order = H.task[p].order /\ H.task[u].finishedAt <= H.task[p].finishedAt
          BY <2>1, <3>1, <4>1 DEF Follows
        <4>3. u \in moved <=> p \in moved
          BY <1>5, <2>2, <3>1, <3>2, <3>5, <4>1
        <4>4. K.task[u].order = K.task[p].order
          BY <1>7, <1>9, <2>1, <3>3, <3>5, <4>2, <4>3
        <4>5. K.task[u].finishedAt = H.task[u].finishedAt /\ K.task[p].finishedAt = H.task[p].finishedAt
          BY <1>7, <1>9, <2>1, <3>3, <3>5
        <4>6. QED
          BY <4>2, <4>4, <4>5
      <3>6. QED
        BY <3>4, <3>5
    <2>6. QED
      BY <1>10, <2>1, <2>3, <2>4, <2>5 DEF Follows
  <1>15. Ordered(K)
    BY <1>9, <1>13, <1>14 DEF Ordered, Family
  <1>16. \A u \in TaskId : Above(K)[u] = Above(H)[u]
    <2> DEFINE S == TaskId
    <2>1. \A u \in TaskId : Parents(H, u) \subseteq TaskId /\ Parents(K, u) \subseteq TaskId
      BY <1>1, <1>11, ParentsIs
    <2>2. S \in SUBSET TaskId /\ \A u \in S : Parents(K, u) = Parents(H, u) /\ Parents(H, u) \subseteq S
      BY <1>11, <2>1
    <2> HIDE DEF S
    <2>3. \A u \in S : Above(K)[u] = Above(H)[u]
      BY <1>1, <2>1, <2>2, SameAbove
    <2>4. QED
      BY <2>3 DEF S
  <1>17. \A r \in TaskId : Below(K, r) = Below(H, r)
    BY <1>10, <1>16 DEF Below, Stands
  <1>18. ASSUME NEW r \in Runs(K), NEW u \in Below(K, r)
         PROVE  u \in Kept(K)
    <2>1. r \in Runs(H) /\ r \in TaskId
      BY <1>10 DEF Runs
    <2>2. QED
      BY <1>1, <1>10, <1>17, <2>1 DEF Whole
  <1>19. ASSUME NEW r \in Roots(K), NEW x \in Roots(K),
                K.task[r].session = K.task[x].session, K.task[x].order < K.task[r].order,
                NEW u \in Below(K, r), Fresh(K, u)
         PROVE  u \in Kept(K)
    <2>1. /\ r \in TaskId /\ x \in TaskId /\ r \in Kept(H) /\ x \in Kept(H)
          /\ Above(H)[r] = {} /\ Above(H)[x] = {}
      BY <1>10, <1>16 DEF Roots, Kept
    <2>2. r \in Born(H) /\ x \in Born(H)
      BY <1>1, <2>1 DEF Ordered, Stages, Stands, Born
    <2>3. u \in Below(H, r) /\ u \in TaskId /\ u \in Stands(H) /\ u \in Born(H) /\ r \in Above(H)[u]
      BY <1>17, <2>1 DEF Below, Stands, Born
    <2>4. CASE r = t
      BY <1>1, <1>10, <2>3, <2>4 DEF Whole
    <2>5. CASE r # t
      <3>1. r \in Ends(H) /\ r \in Roots(H) /\ r \notin moved
        BY <1>5, <1>10, <2>1, <2>5 DEF Roots
      <3>2. K.task[r].order = H.task[r].order /\ H.task[r].order <= H.ended /\ H.task[r].order \in Nat
        <4>1. H.task[r] \in Task
          BY <1>6, <2>2
        <4>2. QED
          BY <1>1, <1>7, <1>9, <2>1, <2>2, <2>5, <3>1, <4>1 DEF Ordered, Stages, Task
      <3>3. x # t
        <4>1. SUFFICES ASSUME x = t PROVE FALSE
          OBVIOUS
        <4>2. K.task[x].order = order
          BY <1>7, <1>9, <2>1, <4>1
        <4>3. QED
          BY <1>3, <1>19, <3>2, <4>2
      <3>4. x \in Ends(H) /\ x \in Roots(H) /\ x \notin moved
        BY <1>5, <1>10, <2>1, <3>3 DEF Roots
      <3>5. K.task[x].order = H.task[x].order /\ H.task[r].session = H.task[x].session
        BY <1>7, <1>9, <1>19, <2>1, <2>2, <3>3, <3>4
      <3>6. u # t
        <4>1. SUFFICES ASSUME u = t PROVE FALSE
          OBVIOUS
        <4>2. r \in Runs(H)
          BY <1>1, <2>3, <4>1, AncestorsAre
        <4>3. QED
          BY <3>1, <4>2 DEF Runs, Ends
      <3>7. Fresh(H, u)
        <4>1. K.task[u].finishedAt = H.task[u].finishedAt
          BY <1>7, <1>9, <2>3, <3>6
        <4>2. QED
          BY <1>9, <1>19, <4>1 DEF Fresh
      <3>8. QED
        BY <1>1, <1>10, <1>19, <2>3, <3>1, <3>2, <3>4, <3>5, <3>7 DEF Whole
    <2>6. QED
      BY <2>4, <2>5
  <1>21. Moves(H, K, t)
    <2>1. \A u \in Born(H) : u \in TaskId /\ H.task[u].version \in Nat
      BY <1>6 DEF Born, Task
    <2>2. \A u \in TaskId \ {t} :
             K.task[u].status = H.task[u].status /\ K.task[u].kept = H.task[u].kept
      BY <1>7, <1>9
    <2>3. \A u \in Born(H) :
             /\ K.task[u].session = H.task[u].session
             /\ K.task[u].version = H.task[u].version
      BY <1>7, <1>9, <2>1
    <2>4. QED
      BY <1>9, <1>10, <2>1, <2>2, <2>3 DEF Moves
  <1>22. QED
    BY <1>10, <1>15, <1>18, <1>19, <1>21 DEF Trees, Whole, K

\* An update of a task
LEMMA UpdateKeepsTrees ==
    ASSUME NEW H, Trees(H), NEW t \in Kept(H)
    PROVE  /\ Trees(Updated(H, t)) /\ Moves(H, Updated(H, t), t)
           /\ Kept(Updated(H, t)) = Kept(H)
  <1> DEFINE K == Updated(H, t)
             y == H.task[t]
             v == y.version + 1
             x == [y EXCEPT !.version = v]
             F == [H.task EXCEPT ![t] = x]
  <1>1. Ordered(H) /\ H \in Telemetry /\ t \in TaskId /\ t \in Born(H)
    BY DEF Trees, Ordered, Stages, Kept, Stands, Born
  <1>2. K = [H EXCEPT !.task = F]
    BY <1>1 DEF Updated, Telemetry
  <1>3. \A u \in Born(H) : H.task[u] \in Task /\ u \in TaskId
    BY <1>1 DEF Telemetry, NoTask, Born
  <1>4. y \in Task
    BY <1>1, <1>3
  <1> HIDE DEF K, y
  <1>5. v \in Nat /\ y.version \in Nat /\ v >= y.version
    BY <1>4 DEF Task
  <1> HIDE DEF v
  <1>6. /\ x \in Task /\ x.status = y.status /\ x.kept = y.kept /\ x.session = y.session
        /\ x.parent = y.parent /\ x.finishedAt = y.finishedAt /\ x.order = y.order
        /\ x.version = v
    BY <1>4, <1>5 DEF Task
  <1> HIDE DEF x
  <1>7. F \in [TaskId -> Task \cup NoTask] /\ F[t] = x /\ \A u \in TaskId \ {t} : F[u] = H.task[u]
    BY <1>1, <1>6 DEF Telemetry
  <1> HIDE DEF F
  <1>8. /\ K \in Telemetry /\ K.task[t] = x /\ \A u \in TaskId \ {t} : K.task[u] = H.task[u]
        /\ K.now = H.now /\ K.ended = H.ended /\ K.cursor = H.cursor /\ K.revision = H.revision
    BY <1>1, <1>2, <1>7 DEF Telemetry
  <1>9. \A u \in TaskId :
           /\ K.task[u].status = H.task[u].status /\ K.task[u].kept = H.task[u].kept
           /\ u \in Born(H) =>
                 /\ K.task[u].session = H.task[u].session
                 /\ K.task[u].parent = H.task[u].parent
                 /\ K.task[u].finishedAt = H.task[u].finishedAt
                 /\ K.task[u].order = H.task[u].order
                 /\ u # t => K.task[u].version = H.task[u].version
    BY <1>6, <1>8 DEF y
  <1>10. Alike(H, K)
    <2>1. H.now \in Nat /\ H.ended \in Nat
      BY <1>1 DEF Telemetry
    <2>2. QED
      BY <1>3, <1>8, <1>9, <2>1 DEF Alike
  <1>11. Moves(H, K, t)
    <2>1. Born(K) = Born(H) /\ Runs(K) = Runs(H)
      BY <1>9 DEF Born, Runs
    <2>2. \A u \in Born(H) : K.task[u].version >= H.task[u].version
      <3>1. \A u \in Born(H) : H.task[u].version \in Nat
        BY <1>3 DEF Task
      <3>2. K.task[t].version >= H.task[t].version
        BY <1>5, <1>6, <1>8 DEF y
      <3>3. QED
        BY <1>3, <1>9, <3>1, <3>2
    <2>3. QED
      BY <1>3, <1>8, <1>9, <2>1, <2>2 DEF Moves
  <1>12. Kept(K) = Kept(H)
    BY <1>9 DEF Kept
  <1>13. QED
    BY <1>10, <1>11, <1>12, AlikeKeepsTrees DEF K


-----------------------------------------------------------------------------
(* Folds from the left.                                                    *)

\* A nonempty set of positions has a last one.
LEMMA LastOf ==
    ASSUME NEW k \in Nat, NEW s \in SUBSET (1 .. k), s # {}
    PROVE  Max(s) \in s /\ \A y \in s : Max(s) >= y
  <1> DEFINE B == {j \in Nat : \A y \in s : y <= j}
  <1>1. k \in B
    OBVIOUS
  <1>2. B \in SUBSET Nat /\ B # {}
    BY <1>1
  <1> HIDE DEF B
  <1>3. PICK m \in B : \A j \in B : m <= j
    BY <1>2, SmallestNumber
  <1> USE DEF B
  <1>4. m \in s
    <2>1. SUFFICES ASSUME m \notin s PROVE FALSE
      OBVIOUS
    <2>2. PICK y \in s : TRUE
      OBVIOUS
    <2>3. m >= 1 /\ m - 1 \in Nat
      BY <1>3, <2>2
    <2>4. \A z \in s : z <= m - 1
      BY <1>3, <2>1
    <2>5. m - 1 \in B
      BY <2>3, <2>4
    <2>6. QED
      BY <1>3, <2>5
  <1>5. \E x \in s : \A y \in s : x >= y
    BY <1>3, <1>4
  <1>6. QED
    BY <1>5 DEF Max

\* The last position of an initial segment.
LEMMA LastOfPrefix ==
    ASSUME NEW k \in Nat \ {0}
    PROVE  Max(1 .. k) = k /\ (1 .. k) \ {k} = 1 .. (k - 1)
  <1>1. k \in 1 .. k
    OBVIOUS
  <1>2. Max(1 .. k) \in 1 .. k /\ \A y \in 1 .. k : Max(1 .. k) >= y
    BY <1>1, LastOf
  <1>3. QED
    BY <1>1, <1>2

\* What a fold computes over the positions in S, when each step is in a table.
Steps(step, base, S, g) ==
    g = [s \in SUBSET S |-> IF s = {} THEN base
                            ELSE step[<<Max(s), g[s \ {Max(s)}]>>]]

\* Such a fold exists, and yields values of the table.
LEMMA StepsExist ==
    ASSUME NEW n \in Nat, NEW V, NEW base \in V, NEW step \in [(1 .. n) \X V -> V]
    PROVE  \E g \in [SUBSET (1 .. n) -> V] : Steps(step, base, 1 .. n, g)
  <1> DEFINE Exists(k) == \E g \in [SUBSET (1 .. k) -> V] : Steps(step, base, 1 .. k, g)
             B == {k \in 0 .. n : ~Exists(k)}
  <1>0. SUFFICES Exists(n)
    OBVIOUS
  <1> HIDE DEF Exists
  <1>1. SUFFICES ASSUME B # {} PROVE FALSE
    BY n \in 0 .. n
  <1>2. B \in SUBSET Nat
    OBVIOUS
  <1> HIDE DEF B
  <1>3. PICK m \in B : \A k \in B : m <= k
    BY <1>1, <1>2, SmallestNumber
  <1> USE DEF B
  <1>4. CASE m = 0
    <2> DEFINE g == [s \in SUBSET (1 .. 0) |-> base]
    <2>1. 1 .. 0 = {}
      OBVIOUS
    <2>2. g \in [SUBSET (1 .. 0) -> V] /\ \A s \in SUBSET (1 .. 0) : s = {} /\ g[s] = base
      BY <2>1
    <2>3. Steps(step, base, 1 .. 0, g)
      BY <2>2 DEF Steps
    <2>4. Exists(0)
      BY <2>2, <2>3 DEF Exists
    <2>5. QED
      BY <1>3, <1>4, <2>4
  <1>5. CASE m # 0
    <2>1. m \in 1 .. n /\ m - 1 \in 0 .. n
      BY <1>3, <1>5
    <2>0. Exists(m - 1)
      BY <1>3, <2>1
    <2>2. PICK g \in [SUBSET (1 .. (m - 1)) -> V] : Steps(step, base, 1 .. (m - 1), g)
      BY <2>0 DEF Exists
    <2> DEFINE h == [s \in SUBSET (1 .. m) |->
                        IF m \in s THEN step[<<m, g[s \ {m}]>>] ELSE g[s]]
    <2>3. \A s \in SUBSET (1 .. m) : s \ {m} \in SUBSET (1 .. (m - 1))
      BY <2>1
    <2>4. h \in [SUBSET (1 .. m) -> V]
      <3>1. ASSUME NEW s \in SUBSET (1 .. m)
            PROVE  h[s] \in V
        <4>1. CASE m \in s
          <5>1. <<m, g[s \ {m}]>> \in (1 .. n) \X V
            BY <2>1, <2>2, <2>3
          <5>2. QED
            BY <4>1, <5>1
        <4>2. CASE m \notin s
          <5>1. s \in SUBSET (1 .. (m - 1))
            BY <2>3, <4>2
          <5>2. QED
            BY <4>2, <5>1, <2>2
        <4>3. QED
          BY <4>1, <4>2
      <3>2. QED
        BY <3>1
    <2>5. ASSUME NEW s \in SUBSET (1 .. m)
          PROVE  h[s] = IF s = {} THEN base ELSE step[<<Max(s), h[s \ {Max(s)}]>>]
      <3>1. CASE s = {}
        <4>1. s \in SUBSET (1 .. (m - 1)) /\ m \notin s
          BY <3>1
        <4>2. g[s] = base
          BY <2>2, <3>1, <4>1 DEF Steps
        <4>3. QED
          BY <3>1, <4>1, <4>2
      <3>2. CASE s # {} /\ m \in s
        <4>1. m \in Nat
          BY <2>1
        <4>2. Max(s) \in s /\ Max(s) >= m
          BY <3>2, <4>1, LastOf
        <4>6. Max(s) \in 1 .. m
          BY <4>2
        <4>3. Max(s) = m
          BY <4>2, <4>6, <2>1
        <4>4. h[s \ {m}] = g[s \ {m}]
          BY <2>3
        <4>5. QED
          BY <3>2, <4>3, <4>4
      <3>3. CASE s # {} /\ m \notin s
        <4>1. s \in SUBSET (1 .. (m - 1))
          BY <2>3, <3>3
        <4>2. g[s] = step[<<Max(s), g[s \ {Max(s)}]>>]
          BY <2>2, <3>3, <4>1 DEF Steps
        <4>3. h[s] = g[s] /\ h[s \ {Max(s)}] = g[s \ {Max(s)}]
          BY <3>3
        <4>4. QED
          BY <3>3, <4>2, <4>3
      <3>4. QED
        BY <3>1, <3>2, <3>3
    <2> HIDE DEF h
    <2>6. h = [s \in SUBSET (1 .. m) |-> h[s]]
      BY <2>4
    <2>7. Steps(step, base, 1 .. m, h)
      BY <2>5, <2>6 DEF Steps
    <2>8. Exists(m)
      BY <2>4, <2>7 DEF Exists
    <2>9. QED
      BY <1>3, <2>8
  <1>6. QED
    BY <1>4, <1>5

-----------------------------------------------------------------------------
(* Revisions.                                                              *)

\* The recursion of Published over sets of positions
Publishes(H, order, D, g) ==
    g = [s \in SUBSET D |-> IF s = {} THEN H
                            ELSE NextRevision(g[s \ {Max(s)}], order[Max(s)])]

\* The fold, by definition.
LEMMA PublishedDef ==
    ASSUME NEW H, NEW order
    PROVE  Published(H, order) = (CHOOSE g : Publishes(H, order, DOMAIN order, g))[DOMAIN order]
  BY DEF Published, FoldLeft, MapThenFoldSet, Publishes

\* nextTelemetryRevision
LEMMA NextRevisionIs ==
    ASSUME NEW H \in Telemetry, NEW s \in Session
    PROVE  LET N == NextRevision(H, s)
           IN  /\ N \in Telemetry
               /\ N.task = H.task /\ N.now = H.now /\ N.ended = H.ended
               /\ N.cursor = H.cursor + 1 /\ N.revision[s] = H.cursor + 1
               /\ \A z \in Session \ {s} : N.revision[z] = H.revision[z]
  <1> DEFINE c == H.cursor + 1
             R == [H.revision EXCEPT ![s] = c]
  <1>1. c \in Nat /\ H.revision \in [Session -> Nat]
    BY DEF Telemetry
  <1>2. NextRevision(H, s) = [H EXCEPT !.cursor = c, !.revision = R]
    BY DEF NextRevision, Telemetry
  <1>3. R \in [Session -> Nat] /\ R[s] = c /\ \A z \in Session \ {s} : R[z] = H.revision[z]
    BY <1>1
  <1> HIDE DEF c, R
  <1>4. QED
    BY <1>1, <1>2, <1>3 DEF Telemetry, c

\* h has the values between the revisions of the fold.
Between(h, H, n, order) ==
    /\ h[0] = H
    /\ \A k \in 1 .. n : h[k] = NextRevision(h[k - 1], order[k])
    /\ h[n] = Published(H, order)

\* The fold gives one revision after the other.
LEMMA PublishedInOrder ==
    ASSUME NEW H \in Telemetry, NEW n \in Nat, NEW order \in [1 .. n -> Session]
    PROVE  \E h \in [0 .. n -> Telemetry] : Between(h, H, n, order)
  <1> DEFINE V == Telemetry
             step == [x \in (1 .. n) \X V |-> NextRevision(x[2], order[x[1]])]
  <1>1. step \in [(1 .. n) \X V -> V]
    BY NextRevisionIs
  <1>2. \A k \in 1 .. n : \A L \in V : step[<<k, L>>] = NextRevision(L, order[k])
    OBVIOUS
  <1> HIDE DEF step
  <1>3. PICK f \in [SUBSET (1 .. n) -> V] : Steps(step, H, 1 .. n, f)
    BY <1>1, StepsExist
  <1>4. Publishes(H, order, 1 .. n, f)
    <2>1. f = [s \in SUBSET (1 .. n) |-> f[s]]
      BY <1>3
    <2>2. ASSUME NEW s \in SUBSET (1 .. n)
          PROVE  f[s] = IF s = {} THEN H ELSE NextRevision(f[s \ {Max(s)}], order[Max(s)])
      <3>1. CASE s = {}
        BY <3>1, <1>3 DEF Steps
      <3>2. CASE s # {}
        <4>1. Max(s) \in 1 .. n /\ f[s \ {Max(s)}] \in V
          BY <3>2, LastOf, <1>3
        <4>2. f[s] = step[<<Max(s), f[s \ {Max(s)}]>>]
          BY <3>2, <1>3 DEF Steps
        <4>3. QED
          BY <3>2, <4>1, <4>2, <1>2
      <3>3. QED
        BY <3>1, <3>2
    <2>3. QED
      BY <2>1, <2>2 DEF Publishes
  <1>5. PICK g : Publishes(H, order, 1 .. n, g) /\ Published(H, order) = g[1 .. n]
    <2>1. DOMAIN order = 1 .. n
      OBVIOUS
    <2>2. Publishes(H, order, 1 .. n, CHOOSE g : Publishes(H, order, 1 .. n, g))
      BY <1>4
    <2>3. QED
      BY <2>1, <2>2, PublishedDef
  <1> DEFINE h == [k \in 0 .. n |-> g[1 .. k]]
  <1>6. h[0] = H
    <2>1. 1 .. 0 = {} /\ g[{}] = H
      BY <1>5 DEF Publishes
    <2>2. QED
      BY <2>1
  <1>7. ASSUME NEW k \in 1 .. n
        PROVE  h[k] = NextRevision(h[k - 1], order[k])
    <2>1. Max(1 .. k) = k /\ (1 .. k) \ {k} = 1 .. (k - 1)
      BY LastOfPrefix
    <2>0. k \in 1 .. k /\ \A j \in 1 .. k : j \in 1 .. n
      OBVIOUS
    <2>2. 1 .. k \in SUBSET (1 .. n) /\ 1 .. k # {}
      BY <2>0
    <2>3. g[1 .. k] = NextRevision(g[1 .. (k - 1)], order[k])
      BY <2>1, <2>2, <1>5 DEF Publishes
    <2>4. QED
      BY <2>3
  <1>8. \A k \in 0 .. n : h[k] \in V
    <2> DEFINE B == {k \in 0 .. n : h[k] \notin V}
    <2>1. SUFFICES ASSUME B # {} PROVE FALSE
      OBVIOUS
    <2>2. B \in SUBSET Nat
      OBVIOUS
    <2> HIDE DEF h, V
    <2>3. PICK m \in B : \A k \in B : m <= k
      <3> HIDE DEF B
      <3>1. QED
        BY <2>1, <2>2, SmallestNumber
    <2>4. m # 0
      BY <2>3, <1>6 DEF V
    <2>5. m \in 1 .. n /\ m - 1 \in 0 .. n /\ m - 1 \notin B
      BY <2>3, <2>4
    <2>6. h[m - 1] \in Telemetry /\ order[m] \in Session
      BY <2>5 DEF V
    <2>7. h[m] \in Telemetry
      BY <2>5, <2>6, <1>7, NextRevisionIs
    <2>8. QED
      BY <2>3, <2>7 DEF V
  <1>9. h[n] = Published(H, order)
    BY <1>5
  <1>10. h \in [0 .. n -> Telemetry]
    BY <1>8
  <1> HIDE DEF h
  <1>11. QED
    BY <1>6, <1>7, <1>9, <1>10 DEF Between

\* N has what H has, and new revisions of the sessions in S.
Renumbered(H, N, S) ==
    /\ N \in Telemetry
    /\ N.task = H.task /\ N.now = H.now /\ N.ended = H.ended
    /\ N.cursor >= H.cursor
    /\ \A s \in S : N.revision[s] > H.cursor /\ N.revision[s] <= N.cursor
    /\ \A s \in Session \ S : N.revision[s] = H.revision[s]

\* The fold over the changed sessions, one session further.
LEMMA OneMore ==
    ASSUME NEW H \in Telemetry, NEW S \in SUBSET Session, NEW N, Renumbered(H, N, S),
           NEW s \in Session
    PROVE  Renumbered(H, NextRevision(N, s), S \cup {s})
  <1> DEFINE M == NextRevision(N, s)
  <1>1. /\ M \in Telemetry
        /\ M.task = N.task /\ M.now = N.now /\ M.ended = N.ended
        /\ M.cursor = N.cursor + 1 /\ M.revision[s] = N.cursor + 1
        /\ \A z \in Session \ {s} : M.revision[z] = N.revision[z]
    BY NextRevisionIs DEF Renumbered
  <1> HIDE DEF M
  <1>2. N.cursor \in Nat /\ H.cursor \in Nat /\ N.revision \in [Session -> Nat]
    BY DEF Renumbered, Telemetry
  <1>3. \A z \in S \cup {s} : M.revision[z] > H.cursor /\ M.revision[z] <= M.cursor
    <2>1. ASSUME NEW z \in S \cup {s}
          PROVE  M.revision[z] > H.cursor /\ M.revision[z] <= M.cursor
      <3>1. CASE z = s
        BY <1>1, <1>2, <3>1 DEF Renumbered
      <3>2. CASE z # s
        <4>1. z \in S /\ M.revision[z] = N.revision[z] /\ N.revision[z] \in Nat
          BY <1>1, <1>2, <3>2
        <4>2. QED
          BY <1>1, <1>2, <4>1 DEF Renumbered
      <3>3. QED
        BY <3>1, <3>2
    <2>2. QED
      BY <2>1
  <1>4. QED
    BY <1>1, <1>2, <1>3 DEF Renumbered, M

\* All the sessions of a turn are published, whatever their order.
LEMMA PublishedIs ==
    ASSUME NEW H \in Telemetry, NEW S \in SUBSET Session, IsFiniteSet(S),
           NEW order \in SetToSeqs(S)
    PROVE  Renumbered(H, Published(H, order), S)
  <1> DEFINE n == Cardinality(S)
  <1>1. n \in Nat /\ order \in [1 .. n -> S] /\ \A i, j \in 1 .. n : i # j => order[i] # order[j]
    BY FS_CardinalityType DEF SetToSeqs
  <1>2. \A s \in S : \E j \in 1 .. n : order[j] = s
    <2>1. IsFiniteSet(1 .. n) /\ Cardinality(1 .. n) = n
      <3>1. 1 \in Int /\ n \in Int
        BY <1>1
      <3> HIDE DEF n
      <3>2. IsFiniteSet(1 .. n) /\ Cardinality(1 .. n) = IF 1 > n THEN 0 ELSE n - 1 + 1
        BY ONLY <3>1, FS_Interval
      <3>3. QED
        BY <1>1, <3>2
    <2>2. order \in Injection(1 .. n, S)
      BY <1>1 DEF Injection, IsInjective
    <2>3. order \in Surjection(1 .. n, S)
      <3> DEFINE D == 1 .. n
      <3>1. order \in Injection(D, S) /\ Cardinality(D) = Cardinality(S)
        BY <2>1, <2>2
      <3> HIDE DEF D
      <3>2. order \in Surjection(D, S)
        BY <3>1, FS_Injection
      <3>3. QED
        BY <3>2 DEF D
    <2>4. QED
      BY <2>3 DEF Surjection
  <1>3. order \in [1 .. n -> Session]
    BY <1>1
  <1> HIDE DEF n
  <1>4. PICK h \in [0 .. n -> Telemetry] : Between(h, H, n, order)
    BY <1>1, <1>3, PublishedInOrder
  <1> DEFINE Upto(k) == {order[j] : j \in 1 .. k}
             B == {k \in 0 .. n : ~Renumbered(H, h[k], Upto(k))}
  <1>5. B = {}
    <2>1. SUFFICES ASSUME B # {} PROVE FALSE
      OBVIOUS
    <2>2. B \in SUBSET Nat
      BY <1>1
    <2>3. PICK m \in B : \A k \in B : m <= k
      <3> HIDE DEF B
      <3>1. QED
        BY <2>1, <2>2, SmallestNumber
    <2>4. Renumbered(H, H, {})
      BY DEF Renumbered, Telemetry
    <2>5. Upto(0) = {}
      OBVIOUS
    <2>6. m # 0
      BY <1>4, <2>3, <2>4, <2>5 DEF Between
    <2>7. m \in 1 .. n /\ m - 1 \in 0 .. n /\ m - 1 \notin B
      BY <1>1, <2>3, <2>6
    <2>8. Upto(m) = Upto(m - 1) \cup {order[m]}
      <3>1. \A j : j \in 1 .. m <=> j \in 1 .. (m - 1) \/ j = m
        BY <1>1, <2>7
      <3>2. QED
        BY <3>1
    <2>9. Upto(m - 1) \in SUBSET Session /\ order[m] \in Session
      BY <1>1, <1>3, <2>7
    <2>10. Renumbered(H, h[m - 1], Upto(m - 1))
      BY <2>7
    <2>11. h[m] = NextRevision(h[m - 1], order[m])
      BY <1>4, <2>7 DEF Between
    <2> DEFINE U == Upto(m - 1)  N == h[m - 1]  s == order[m]
    <2>12. U \in SUBSET Session /\ s \in Session /\ Renumbered(H, N, U)
      BY <2>9, <2>10
    <2> HIDE DEF U, N, s, Upto
    <2>13. Renumbered(H, NextRevision(N, s), U \cup {s})
      BY <2>12, OneMore
    <2>14. Renumbered(H, h[m], Upto(m))
      BY <2>8, <2>11, <2>13 DEF U, N, s
    <2>15. QED
      BY <2>3, <2>14
  <1>6. Upto(n) = S
    BY <1>1, <1>2
  <1>7. Renumbered(H, h[n], Upto(n))
    <2>1. n \in 0 .. n
      BY <1>1
    <2>2. n \notin B
      BY <1>5
    <2> HIDE DEF Upto
    <2>3. QED
      BY <2>1, <2>2
  <1> HIDE DEF Upto
  <1>8. QED
    BY <1>4, <1>6, <1>7 DEF Between

-----------------------------------------------------------------------------
(* What the host's steps say of its sessions.                              *)

\* What a snapshot of a session lists
Rows(H, s) == Snapshot(H, s).tasks

\* Nothing of the session s differs.
Same(H, K, s) == Of(K, s) = Of(H, s) /\ Rows(K, s) = Rows(H, s)

\* Tasks go on from H to K.
Onward(H, K) ==
    \A u \in Born(H) :
        /\ u \in Born(K)
        /\ K.task[u].version >= H.task[u].version
        /\ u \notin Runs(H) => u \notin Runs(K)

\* A row of every task of the session
LEMMA RowsAre ==
    ASSUME NEW H, NEW s
    PROVE  Rows(H, s) =
             {[id |-> t, status |-> H.task[t].status, version |-> H.task[t].version] : t \in Of(H, s)}
  BY DEF Rows, Snapshot

\* Sessions with the same tasks have the same rows.
LEMMA SameRows ==
    ASSUME NEW H, NEW K, NEW s, Of(K, s) = Of(H, s),
           \A u \in Of(H, s) :
              K.task[u].status = H.task[u].status /\ K.task[u].version = H.task[u].version
    PROVE  Same(H, K, s)
  BY RowsAre DEF Same

\* A mutation of t concerns its session alone.
LEMMA MovesTell ==
    ASSUME NEW H, Ordered(H), NEW K, Ordered(K), NEW t \in TaskId, Moves(H, K, t),
           t \in Kept(K), NEW s, K.task[t].session = s
    PROVE  Onward(H, K) /\ \A z \in Session \ {s} : Same(H, K, z)
  <1>1. Onward(H, K)
    BY DEF Moves, Onward
  <1>2. ASSUME NEW z \in Session \ {s}
        PROVE  Same(H, K, z)
    <2>1. \A u \in TaskId : u \in Kept(H) => u \in Born(H)
      BY DEF Ordered, Stages, Stands, Born
    <2>2. \A u \in TaskId \ {t} : u \in Kept(K) <=> u \in Kept(H)
      BY DEF Moves, Kept
    <2>3. \A u \in TaskId : u \in Kept(H) => K.task[u].session = H.task[u].session
      BY <2>1 DEF Moves
    <2>4. t \notin Of(H, z) /\ t \notin Of(K, z)
      BY <2>3 DEF Of
    <2>5. Of(K, z) = Of(H, z)
      <3>1. Kept(K) \subseteq TaskId /\ Kept(H) \subseteq TaskId
        BY DEF Kept
      <3>2. QED
        BY <2>2, <2>3, <2>4, <3>1 DEF Of
    <2>6. \A u \in Of(H, z) : u \in Born(H) \ {t} /\ u \in TaskId
      BY <2>1, <2>4 DEF Of, Kept
    <2>7. QED
      BY <2>5, <2>6, SameRows DEF Moves
  <1>3. QED
    BY <1>1, <1>2

\* The sessions of some tasks are finitely many.
LEMMA AffectedAre ==
    ASSUME NEW H, Ordered(H), NEW P
    PROVE  /\ Affected(H, P) \in SUBSET Session
           /\ IsFiniteSet(Affected(H, P))
  <1> DEFINE D == Kept(H) \ Kept(P)
             f == [t \in D |-> H.task[t].session]
  <1>1. \A t \in D : H.task[t].session \in Session
    <2>1. \A t \in D : H.task[t] \in Task
      BY DEF Ordered, Telemetry, NoTask, Kept
    <2>2. QED
      BY <2>1 DEF Task
  <1>2. IsFiniteSet(D)
    <2>1. IsFiniteSet(TaskId)
      <3>1. 1 \in Int /\ MaxTask \in Int
        BY TelemetryAssumption
      <3>2. QED
        BY <3>1, FS_Interval DEF TaskId
    <2>2. D \in SUBSET TaskId
      BY DEF Kept
    <2> HIDE DEF D
    <2>3. QED
      BY <2>1, <2>2, FS_Subset
  <1>3. f \in Surjection(D, Affected(H, P))
    BY DEF Surjection, Affected
  <1> HIDE DEF D, f
  <1>4. IsFiniteSet(Affected(H, P))
    BY <1>2, <1>3, FS_Surjection
  <1>5. QED
    BY <1>1, <1>4 DEF Affected, D

\* A prune concerns the sessions it takes tasks from.
LEMMA PruneTells ==
    ASSUME NEW H, Ordered(H), NEW P, Thinned(H, P)
    PROVE  /\ P.cursor = H.cursor /\ P.revision = H.revision
           /\ Onward(H, P)
           /\ \A z \in Session \ Affected(H, P) : Same(H, P, z)
  <1>0. H \in Telemetry
    BY DEF Ordered
  <1>1. /\ Born(P) = Born(H) /\ Runs(P) = Runs(H)
        /\ \A t \in Born(H) :
              /\ P.task[t].session = H.task[t].session
              /\ P.task[t].version = H.task[t].version
    BY <1>0, ThinnedIs
  <1>2. \A t \in Born(H) : H.task[t].version \in Nat
    <2>1. \A t \in Born(H) : H.task[t] \in Task
      BY <1>0 DEF Telemetry, NoTask, Born
    <2>2. QED
      BY <2>1 DEF Task
  <1>3. Onward(H, P)
    BY <1>1, <1>2 DEF Onward
  <1>4. ASSUME NEW z \in Session \ Affected(H, P)
        PROVE  Same(H, P, z)
    <2>1. Kept(H) \subseteq Born(H) /\ Kept(P) \subseteq Kept(H) /\ Kept(H) \subseteq TaskId
      BY DEF Ordered, Stages, Stands, Born, Thinned, Kept
    <2>2. \A t \in Kept(H) \ Kept(P) : H.task[t].session # z
      BY DEF Affected
    <2>3. Of(P, z) = Of(H, z)
      BY <1>1, <2>1, <2>2 DEF Of
    <2>4. \A t \in TaskId : P.task[t].status = H.task[t].status
      <3>1. ASSUME NEW t \in TaskId
            PROVE  P.task[t].status = H.task[t].status
        <4> DEFINE k == t \in Kept(P)
                   x == P.task[t]
        <4>1. k \in BOOLEAN /\ x = [H.task[t] EXCEPT !.kept = k] /\ (k => H.task[t].kept)
          BY DEF Thinned, Kept
        <4> HIDE DEF k, x
        <4>2. x.status = H.task[t].status
          BY <1>0, <4>1, ThinnedTask
        <4>3. QED
          BY <4>2 DEF x
      <3>2. QED
        BY <3>1
    <2>5. \A t \in Of(H, z) : t \in Born(H) /\ t \in TaskId
      BY <2>1 DEF Of
    <2>6. QED
      BY <1>1, <2>3, <2>4, <2>5, SameRows
  <1>5. QED
    BY <1>3, <1>4 DEF Thinned

-----------------------------------------------------------------------------
(* Turns of the host's event loop.                                         *)

Woken(publish) == {c \in Watches : SessionOf[c.viewer] \in publish}

\* A turn publishes the sessions in `publish' of H, as N has them, and collects.
Turned(H, publish, keep, N, turn) ==
    /\ Renumbered(H, N, publish)
    /\ turn.host \in Telemetry
    /\ turn.host.task = H.task /\ turn.host.now = H.now /\ turn.host.ended = H.ended
    /\ turn.host.cursor = N.cursor
    /\ \A s \in Session :
          \/ turn.host.revision[s] = N.revision[s]
          \/ /\ turn.host.revision[s] = 0 /\ Of(H, s) = {}
             /\ s \notin Watched(Watches \ Woken(publish)) \cup keep
    /\ \A s \in Session :
          Of(H, s) = {} /\ s \notin Watched(Watches) \cup keep => turn.host.revision[s] = 0
    /\ turn.calls = (calls \ Woken(publish))
                      \cup {Answered(c, Snapshot(N, SessionOf[c.viewer])) : c \in Woken(publish)}

\* publishTelemetryRetention and publishTelemetryMutation
LEMMA TurnsAre ==
    ASSUME NEW H \in Telemetry, NEW publish \in SUBSET Session, IsFiniteSet(publish),
           NEW keep, NEW turn \in Turns(H, publish, keep)
    PROVE  \E N : Turned(H, publish, keep, N, turn)
  <1> DEFINE W == Watched(Watches \ Woken(publish))
  <1>1. PICK order \in SetToSeqs(publish), spared \in SUBSET Watched(Woken(publish)) :
           /\ turn.host = Collected(Published(H, order), W, keep \cup spared)
           /\ turn.calls = (calls \ Woken(publish))
                \cup {Answered(c, Snapshot(Published(H, order), SessionOf[c.viewer])) :
                         c \in Woken(publish)}
    <2>1. PICK order \in SetToSeqs(publish), spared \in SUBSET Watched(Woken(publish)) :
             turn = [host |-> Collected(Published(H, order), W, keep \cup spared),
                     calls |-> (calls \ Woken(publish))
                        \cup {Answered(c, Snapshot(Published(H, order), SessionOf[c.viewer])) :
                                 c \in Woken(publish)}]
      <3> DEFINE woken == {c \in Watches : SessionOf[c.viewer] \in publish}
      <3>1. PICK order \in SetToSeqs(publish), spared \in SUBSET Watched(woken) :
               turn = [host |-> Collected(Published(H, order), Watched(Watches \ woken), keep \cup spared),
                       calls |-> (calls \ woken)
                          \cup {Answered(c, Snapshot(Published(H, order), SessionOf[c.viewer])) :
                                   c \in woken}]
        <4> DEFINE T(order, spared) ==
                     [host |-> Collected(Published(H, order), Watched(Watches \ woken), keep \cup spared),
                       calls |-> (calls \ woken)
                          \cup {Answered(c, Snapshot(Published(H, order), SessionOf[c.viewer])) :
                                   c \in woken}]
        <4>1. Turns(H, publish, keep) =
                {T(order, spared) : order \in SetToSeqs(publish), spared \in SUBSET Watched(woken)}
          BY DEF Turns
        <4> HIDE DEF woken, T
        <4>2. PICK order \in SetToSeqs(publish), spared \in SUBSET Watched(woken) :
                turn = T(order, spared)
          BY <4>1
        <4>3. QED
          BY <4>2 DEF T
      <3>2. woken = Woken(publish)
        BY DEF Woken
      <3> HIDE DEF woken
      <3>3. QED
        BY <3>1, <3>2
    <2>2. QED
      BY <2>1
  <1> DEFINE N == Published(H, order)
             A == keep \cup spared
             R == [s \in Session |->
                     IF Of(N, s) = {} /\ s \notin W \cup A THEN 0 ELSE N.revision[s]]
  <1>2. Renumbered(H, N, publish)
    BY PublishedIs
  <1>3. turn.host = [N EXCEPT !.revision = R]
    BY <1>1 DEF Collected
  <1>4. \A s \in Session : Of(N, s) = Of(H, s)
    BY <1>2 DEF Renumbered, Of, Kept
  <1>5. W \subseteq Watched(Watches) /\ spared \subseteq Watched(Watches)
    BY DEF Woken, Watched
  <1>6. N \in Telemetry
    BY <1>2 DEF Renumbered
  <1> HIDE DEF N, W
  <1>7. /\ R \in [Session -> Nat]
        /\ \A s \in Session : R[s] = N.revision[s]
                              \/ (R[s] = 0 /\ Of(H, s) = {} /\ s \notin W \cup keep)
        /\ \A s \in Session : Of(H, s) = {} /\ s \notin W \cup A => R[s] = 0
    <2>1. ASSUME NEW s \in Session
          PROVE  /\ R[s] \in Nat
                 /\ R[s] = N.revision[s] \/ (R[s] = 0 /\ Of(H, s) = {} /\ s \notin W \cup keep)
                 /\ Of(H, s) = {} /\ s \notin W \cup A => R[s] = 0
      <3>1. N.revision[s] \in Nat
        BY <1>6 DEF Telemetry
      <3>2. Of(N, s) = Of(H, s)
        BY <1>4
      <3>3. R[s] = IF Of(H, s) = {} /\ s \notin W \cup A THEN 0 ELSE N.revision[s]
        BY <3>2
      <3> HIDE DEF R
      <3>4. CASE Of(H, s) = {} /\ s \notin W \cup A
        BY <3>3, <3>4
      <3>5. CASE ~(Of(H, s) = {} /\ s \notin W \cup A)
        BY <3>1, <3>3, <3>5
      <3>6. QED
        BY <3>4, <3>5
    <2>2. QED
      BY <2>1
  <1> HIDE DEF R
  <1>8. /\ turn.host \in Telemetry /\ turn.host.revision = R
        /\ turn.host.task = N.task /\ turn.host.now = N.now /\ turn.host.ended = N.ended
        /\ turn.host.cursor = N.cursor
    BY <1>3, <1>6, <1>7 DEF Telemetry
  <1>9. /\ turn.host.task = H.task /\ turn.host.now = H.now /\ turn.host.ended = H.ended
    BY <1>2, <1>8 DEF Renumbered
  <1>10. \A s \in Session :
           Of(H, s) = {} /\ s \notin Watched(Watches) \cup keep => turn.host.revision[s] = 0
    BY <1>5, <1>7, <1>8
  <1>11. turn.calls = (calls \ Woken(publish))
                      \cup {Answered(c, Snapshot(N, SessionOf[c.viewer])) : c \in Woken(publish)}
    BY <1>1 DEF N
  <1>12. \A s \in Session :
          \/ turn.host.revision[s] = N.revision[s]
          \/ /\ turn.host.revision[s] = 0 /\ Of(H, s) = {}
             /\ s \notin Watched(Watches \ Woken(publish)) \cup keep
    BY <1>7, <1>8 DEF W
  <1>13. Turned(H, publish, keep, N, turn)
    BY <1>2, <1>8, <1>9, <1>10, <1>11, <1>12 DEF Turned
  <1>14. QED
    BY <1>13

\* A turn leaves the trees alone.
LEMMA TurnKeepsTrees ==
    ASSUME NEW H, Trees(H), NEW publish, NEW keep, NEW N, NEW turn,
           Turned(H, publish, keep, N, turn)
    PROVE  Trees(turn.host)
  <1>1. H \in Telemetry
    BY DEF Trees, Ordered
  <1>2. H.now \in Nat /\ H.ended \in Nat
    BY <1>1 DEF Telemetry
  <1>3. Alike(H, turn.host)
    BY <1>2 DEF Turned, Alike
  <1>4. QED
    BY <1>3, AlikeKeepsTrees

-----------------------------------------------------------------------------
(* What the host does in a turn.                                           *)

\* M is the telemetry after the turn's mutations and prune: a session that is
\* not published lists what it did, or nothing any more with nobody waiting.
Tells(M, publish, keep) ==
    /\ Trees(M) /\ M.cursor = host.cursor /\ M.revision = host.revision
    /\ Onward(host, M)
    /\ publish \in SUBSET Session /\ IsFiniteSet(publish)
    /\ \A z \in Session :
          \/ z \in publish
          \/ Same(host, M, z)
          \/ Of(M, z) = {} /\ z \notin Watched(Watches) \cup keep

\* A turn of the host, with its replies
Turning(keep, turn) ==
    \E M, publish, N : Tells(M, publish, keep) /\ Turned(M, publish, keep, N, turn)

\* Versions are numbers.
LEMMA Versions ==
    ASSUME NEW H, Ordered(H)
    PROVE  \A u \in Born(H) : H.task[u].version \in Nat /\ u \in TaskId
  <1>1. \A t \in Born(H) : H.task[t] \in Task
    BY DEF Ordered, Telemetry, NoTask, Born
  <1>2. QED
    BY <1>1 DEF Task, Born

\* Going on is transitive.
LEMMA OnwardOn ==
    ASSUME NEW H, Ordered(H), NEW K, Ordered(K), NEW M, Ordered(M), Onward(H, K), Onward(K, M)
    PROVE  Onward(H, M)
  <1>1. ASSUME NEW u \in Born(H)
        PROVE  /\ u \in Born(M) /\ M.task[u].version >= H.task[u].version
               /\ u \notin Runs(H) => u \notin Runs(M)
    <2>1. u \in Born(K) /\ u \in Born(M)
      BY DEF Onward
    <2>2. H.task[u].version \in Nat /\ K.task[u].version \in Nat /\ M.task[u].version \in Nat
      BY <2>1, Versions
    <2>3. K.task[u].version >= H.task[u].version /\ M.task[u].version >= K.task[u].version
      BY <2>1 DEF Onward
    <2>4. M.task[u].version >= H.task[u].version
      BY <2>2, <2>3
    <2>5. QED
      BY <2>1, <2>4 DEF Onward
  <1>2. QED
    BY <1>1 DEF Onward

\* A telemetry goes on from itself.
LEMMA OnwardStill ==
    ASSUME NEW H, Ordered(H)
    PROVE  Onward(H, H)
  <1>1. \A u \in Born(H) : H.task[u].version >= H.task[u].version
    BY Versions
  <1>2. QED
    BY <1>1 DEF Onward

\* Where nothing is removed, no session is affected.
LEMMA AffectedNone ==
    ASSUME NEW H
    PROVE  Affected(H, H) = {}
  BY DEF Affected

\* The sessions a turn publishes are some of the affected ones.
LEMMA SurvivorsAre ==
    ASSUME NEW H, Ordered(H), NEW P, NEW preserve
    PROVE  /\ Survivors(H, P, preserve) \in SUBSET Session
           /\ IsFiniteSet(Survivors(H, P, preserve))
           /\ \A z \in Affected(H, P) \ Survivors(H, P, preserve) :
                 Of(P, z) = {} /\ z \notin Watched(Watches) \cup preserve
  <1>1. Survivors(H, P, preserve) \in SUBSET Affected(H, P)
    BY DEF Survivors
  <1>2. IsFiniteSet(Survivors(H, P, preserve))
    BY <1>1, AffectedAre, FS_Subset
  <1>3. QED
    BY <1>1, <1>2, AffectedAre DEF Survivors

\* A prune with nothing else, as a reader makes it
LEMMA ReadsTurn ==
    ASSUME Trees(host), NEW preserve, NEW turn \in Reads(preserve)
    PROVE  Turning(preserve, turn)
  <1> DEFINE P == Pruned(host)
             publish == Survivors(host, P, preserve)
  <1>1. Ordered(host)
    BY DEF Trees
  <1>2. Trees(P) /\ Thinned(host, P)
    BY <1>1, PruneKeepsOrder, PruneKeepsTrees
  <1>3. turn \in Turns(P, publish, preserve)
    BY DEF Reads
  <1> HIDE DEF P
  <1>4. /\ publish \in SUBSET Session /\ IsFiniteSet(publish)
        /\ \A z \in Affected(host, P) \ publish :
              Of(P, z) = {} /\ z \notin Watched(Watches) \cup preserve
    BY <1>1, SurvivorsAre
  <1> HIDE DEF publish
  <1>5. Tells(P, publish, preserve)
    BY <1>1, <1>2, <1>4, PruneTells DEF Tells
  <1>6. P \in Telemetry
    BY <1>2 DEF Thinned
  <1>7. \E N : Turned(P, publish, preserve, N, turn)
    BY <1>3, <1>4, <1>6, TurnsAre
  <1>8. QED
    BY <1>5, <1>7 DEF Turning

\* A mutation of a task of session s, and the prune that follows it
LEMMA MutationTells ==
    ASSUME Trees(host), NEW H, Trees(H), NEW t \in TaskId, Moves(host, H, t), t \in Kept(H),
           NEW s \in Session, H.task[t].session = s,
           NEW P, Trees(P), P = H \/ Thinned(H, P),
           NEW keep, NEW publish, publish = {s} \cup Survivors(H, P, {}),
           keep = {s} \/ P = H
    PROVE  Tells(P, publish, keep)
  <1>1. Ordered(host) /\ Ordered(H) /\ Ordered(P)
    BY DEF Trees
  <1>2. Onward(host, H) /\ \A z \in Session \ {s} : Same(host, H, z)
    BY <1>1, MovesTell
  <1>3. /\ P.cursor = H.cursor /\ P.revision = H.revision
        /\ Onward(H, P)
        /\ \A z \in Session \ Affected(H, P) : Same(H, P, z)
    <2>1. CASE P = H
      BY <1>1, <2>1, OnwardStill DEF Same
    <2>2. CASE Thinned(H, P)
      BY <1>1, <2>2, PruneTells
    <2>3. QED
      BY <2>1, <2>2
  <1>4. /\ Survivors(H, P, {}) \in SUBSET Session /\ IsFiniteSet(Survivors(H, P, {}))
        /\ \A z \in Affected(H, P) \ Survivors(H, P, {}) :
              Of(P, z) = {} /\ z \notin Watched(Watches)
    BY <1>1, SurvivorsAre
  <1>5. publish \in SUBSET Session /\ IsFiniteSet(publish)
    <2>1. publish = Survivors(H, P, {}) \cup {s}
      OBVIOUS
    <2>2. QED
      BY <1>4, <2>1, FS_AddElement
  <1>6. Onward(host, P)
    BY <1>1, <1>2, <1>3, OnwardOn
  <1>7. ASSUME NEW z \in Session, z \notin publish
        PROVE  Same(host, P, z) \/ (Of(P, z) = {} /\ z \notin Watched(Watches) \cup keep)
    <2>1. z # s /\ z \notin Survivors(H, P, {})
      BY <1>7
    <2>2. CASE z \notin Affected(H, P)
      <3>1. Same(H, P, z) /\ Same(host, H, z)
        BY <1>2, <1>3, <2>1, <2>2
      <3>2. QED
        BY <3>1 DEF Same
    <2>3. CASE z \in Affected(H, P)
      <3>1. P # H
        BY <2>3, AffectedNone
      <3>2. keep = {s}
        BY <3>1
      <3>3. QED
        BY <1>4, <2>1, <2>3, <3>2
    <2>4. QED
      BY <2>2, <2>3
  <1>9. P.cursor = host.cursor /\ P.revision = host.revision
    BY <1>3 DEF Moves
  <1>10. QED
    BY <1>5, <1>6, <1>7, <1>9 DEF Tells

\* A started task, after the prune of a due or watched telemetry
LEMMA StartTells ==
    ASSUME Trees(host), NEW H, H = host \/ H = Pruned(host),
           NEW t \in TaskId, t \notin Born(host), \A u \in 1 .. t - 1 : u \in Born(host),
           NEW s \in Session, NEW parent \in {0} \cup (Ids(host, "running") \cap Of(host, s)),
           NEW keep, keep = {s} \/ H = host,
           NEW publish, publish = Survivors(host, H, {}) \cup {s}
    PROVE  Tells(Started(H, t, s, parent), publish, keep)
  <1> DEFINE M == Started(H, t, s, parent)
  <1>1. Ordered(host) /\ Trees(H) /\ (H = host \/ Thinned(host, H)) /\ Ordered(H)
    <2>1. Trees(H) /\ (H = host \/ Thinned(host, H))
      BY PruneKeepsOrder, PruneKeepsTrees DEF Trees
    <2>2. QED
      BY <2>1 DEF Trees
  <1>2. /\ H.cursor = host.cursor /\ H.revision = host.revision
        /\ Onward(host, H)
        /\ \A z \in Session \ Affected(host, H) : Same(host, H, z)
    <2>1. CASE H = host
      BY <1>1, <2>1, OnwardStill DEF Same
    <2>2. CASE Thinned(host, H)
      BY <1>1, <2>2, PruneTells
    <2>3. QED
      BY <1>1, <2>1, <2>2
  <1>3. /\ Born(H) = Born(host) /\ Runs(H) = Runs(host)
        /\ \A u \in Born(host) : H.task[u].session = host.task[u].session
    BY <1>1, ThinnedIs DEF Ordered
  <1>4. parent \in {0} \cup (Runs(H) \cap Of(H, s))
    <2>1. CASE parent = 0
      BY <2>1
    <2>2. CASE parent \in Ids(host, "running") \cap Of(host, s)
      <3>1. parent \in Runs(host) /\ host.task[parent].session = s /\ parent \in Born(host)
        BY <2>2 DEF Ids, Runs, Of, Born
      <3>2. parent \in Kept(H)
        BY <1>1, <1>3, <3>1 DEF Ordered, Stages
      <3>3. QED
        BY <1>3, <3>1, <3>2 DEF Of
    <2>3. QED
      BY <2>1, <2>2
  <1>5. /\ Trees(M) /\ Moves(H, M, t) /\ t \in Kept(M) /\ M.task[t].session = s
    BY <1>1, <1>3, <1>4, StartKeepsTrees
  <1> HIDE DEF M
  <1>6. Ordered(M)
    BY <1>5 DEF Trees
  <1>7. Onward(H, M) /\ \A z \in Session \ {s} : Same(H, M, z)
    BY <1>1, <1>5, <1>6, MovesTell
  <1>8. Onward(host, M)
    BY <1>1, <1>2, <1>6, <1>7, OnwardOn
  <1>9. /\ Survivors(host, H, {}) \in SUBSET Session /\ IsFiniteSet(Survivors(host, H, {}))
        /\ \A z \in Affected(host, H) \ Survivors(host, H, {}) :
              Of(H, z) = {} /\ z \notin Watched(Watches)
    BY <1>1, SurvivorsAre
  <1>10. publish \in SUBSET Session /\ IsFiniteSet(publish)
    BY <1>9, FS_AddElement
  <1>11. ASSUME NEW z \in Session, z \notin publish
         PROVE  Same(host, M, z) \/ (Of(M, z) = {} /\ z \notin Watched(Watches) \cup keep)
    <2>1. z # s /\ z \notin Survivors(host, H, {}) /\ Same(H, M, z)
      BY <1>7, <1>11
    <2>2. CASE z \notin Affected(host, H)
      BY <1>2, <2>1, <2>2 DEF Same
    <2>3. CASE z \in Affected(host, H)
      <3>1. keep = {s}
        BY <2>3, AffectedNone
      <3>2. QED
        BY <1>9, <2>1, <2>3, <3>1 DEF Same
    <2>4. QED
      BY <2>2, <2>3
  <1>12. M.cursor = host.cursor /\ M.revision = host.revision
    BY <1>2, <1>5 DEF Moves
  <1>13. QED
    BY <1>5, <1>8, <1>10, <1>11, <1>12 DEF Tells, M

\* Mutates is a turn, if its telemetry tells what was mutated.
LEMMA MutatesTurns ==
    ASSUME NEW M, NEW publish, NEW keep, Tells(M, publish, keep), Mutates(M, publish, keep)
    PROVE  \E turn : Turning(keep, turn) /\ host' = turn.host /\ calls' = turn.calls
  <1>1. PICK turn \in Turns(M, publish, keep) : host' = turn.host /\ calls' = turn.calls
    BY DEF Mutates
  <1>2. M \in Telemetry /\ publish \in SUBSET Session /\ IsFiniteSet(publish)
    BY DEF Tells, Trees, Ordered
  <1>3. \E N : Turned(M, publish, keep, N, turn)
    BY <1>2, TurnsAre
  <1>4. QED
    BY <1>1, <1>3 DEF Turning

\* The host's mutations
LEMMA HostTurns ==
    ASSUME Trees(host), StartTask \/ UpdateTask \/ FinishTask
    PROVE  /\ \E keep, turn : Turning(keep, turn) /\ host' = turn.host /\ calls' = turn.calls
           /\ viewer' = viewer
  <1>1. CASE StartTask
    <2>0. PICK t \in TaskId : \E s \in Home[t] :
             /\ host.task[t].status = "unborn" /\ \A u \in 1 .. t - 1 : host.task[u].status # "unborn"
             /\ \E parent \in {0} \cup (Ids(host, "running") \cap Of(host, s)) :
                   LET due == host.pruneAt # Never /\ host.now >= host.pruneAt
                       reads == due \/ s \in Watched(Watches)
                       H == IF reads THEN Pruned(host) ELSE host
                       others == Survivors(host, H, {})
                   IN  Mutates(Started(H, t, s, parent), others \cup {s},
                               IF reads THEN {s} ELSE Session)
      BY <1>1 DEF StartTask
    <2>1. PICK s \in Home[t] :
             /\ host.task[t].status = "unborn" /\ \A u \in 1 .. t - 1 : host.task[u].status # "unborn"
             /\ \E parent \in {0} \cup (Ids(host, "running") \cap Of(host, s)) :
                   LET due == host.pruneAt # Never /\ host.now >= host.pruneAt
                       reads == due \/ s \in Watched(Watches)
                       H == IF reads THEN Pruned(host) ELSE host
                       others == Survivors(host, H, {})
                   IN  Mutates(Started(H, t, s, parent), others \cup {s},
                               IF reads THEN {s} ELSE Session)
      BY <2>0
    <2>2. PICK parent \in {0} \cup (Ids(host, "running") \cap Of(host, s)) :
             LET due == host.pruneAt # Never /\ host.now >= host.pruneAt
                 reads == due \/ s \in Watched(Watches)
                 H == IF reads THEN Pruned(host) ELSE host
                 others == Survivors(host, H, {})
             IN  Mutates(Started(H, t, s, parent), others \cup {s}, IF reads THEN {s} ELSE Session)
      BY <2>1
    <2> DEFINE due == host.pruneAt # Never /\ host.now >= host.pruneAt
               reads == due \/ s \in Watched(Watches)
               H == IF reads THEN Pruned(host) ELSE host
               keep == IF reads THEN {s} ELSE Session
               publish == Survivors(host, H, {}) \cup {s}
    <2>3. Mutates(Started(H, t, s, parent), publish, keep)
      BY <2>2
    <2>4. (H = host \/ H = Pruned(host)) /\ (keep = {s} \/ H = host)
      OBVIOUS
    <2> HIDE DEF reads, H, keep
    <2>5. s \in Session /\ t \in TaskId /\ t \notin Born(host) /\ \A u \in 1 .. t - 1 : u \in Born(host)
      <3>1. \A u \in 1 .. t - 1 : u \in TaskId
        BY TelemetryAssumption DEF TaskId
      <3>2. QED
        BY <2>1, <3>1, DashboardAssumption DEF Born
    <2>6. Tells(Started(H, t, s, parent), publish, keep)
      BY <2>4, <2>5, StartTells
    <2> HIDE DEF publish
    <2>7. QED
      BY <2>3, <2>6, MutatesTurns DEF Mutates
  <1>2. CASE UpdateTask
    <2>1. PICK t \in Kept(host) :
            LET s == host.task[t].session
                reads == s \in Watched(Watches)
                H == Updated(host, t)
                P == IF reads THEN Pruned(H) ELSE H
            IN  Mutates(P, {s} \cup Survivors(H, P, {}), IF reads THEN {s} ELSE Session)
      BY <1>2 DEF UpdateTask
    <2> DEFINE s == host.task[t].session
               reads == s \in Watched(Watches)
               H == Updated(host, t)
               P == IF reads THEN Pruned(H) ELSE H
               keep == IF reads THEN {s} ELSE Session
               publish == {s} \cup Survivors(H, P, {})
    <2>2. Mutates(P, publish, keep)
      BY <2>1
    <2>3. (P = H \/ P = Pruned(H)) /\ (keep = {s} \/ P = H)
      OBVIOUS
    <2>4. Trees(H) /\ Moves(host, H, t) /\ Kept(H) = Kept(host)
      BY UpdateKeepsTrees
    <2> HIDE DEF reads, H, P, keep
    <2>5. Trees(P) /\ (P = H \/ Thinned(H, P))
      BY <2>3, <2>4, PruneKeepsOrder, PruneKeepsTrees DEF Trees
    <2>6. t \in TaskId /\ t \in Kept(H) /\ s \in Session /\ H.task[t].session = s
      <3>1. t \in TaskId /\ t \in Born(host) /\ host.task[t] \in Task
        BY DEF Trees, Ordered, Stages, Kept, Stands, Born, Telemetry, NoTask
      <3>2. QED
        BY <2>4, <3>1 DEF Moves, Task
    <2>7. Tells(P, publish, keep)
      BY <2>3, <2>4, <2>5, <2>6, MutationTells
    <2> HIDE DEF publish
    <2>8. QED
      BY <2>2, <2>7, MutatesTurns DEF Mutates
  <1>3. CASE FinishTask
    <2>1. PICK t \in Ids(host, "running") :
            LET H == Finished(host, t)
                P == Pruned(H)
                s == host.task[t].session
            IN  /\ \A u \in Ids(host, "running") : t \notin Above(host)[u]
                /\ Mutates(P, {s} \cup Survivors(H, P, {}), {s})
      BY <1>3 DEF FinishTask
    <2> DEFINE s == host.task[t].session
               H == Finished(host, t)
               P == Pruned(H)
               keep == {s}
               publish == {s} \cup Survivors(H, P, {})
    <2>2. Mutates(P, publish, keep)
      BY <2>1
    <2>3. t \in Runs(host) /\ \A u \in Runs(host) : t \notin Above(host)[u]
      <3>1. Ids(host, "running") = Runs(host)
        BY DEF Trees, Ordered, Stages, Ids, Runs, Kept
      <3>2. QED
        BY <2>1, <3>1
    <2>4. Trees(H) /\ Moves(host, H, t) /\ Kept(H) = Kept(host)
      BY <2>3, FinishKeepsTrees
    <2>5. P = Pruned(H)
      OBVIOUS
    <2> HIDE DEF H, P
    <2>6. Trees(P) /\ Thinned(H, P)
      BY <2>4, <2>5, PruneKeepsOrder, PruneKeepsTrees DEF Trees
    <2>7. t \in TaskId /\ t \in Kept(H) /\ s \in Session /\ H.task[t].session = s
      <3>1. t \in TaskId /\ t \in Born(host) /\ host.task[t] \in Task /\ t \in Kept(host)
        BY <2>3 DEF Trees, Ordered, Stages, Kept, Runs, Born, Telemetry, NoTask
      <3>2. QED
        BY <2>4, <3>1 DEF Moves, Task
    <2>8. Tells(P, publish, keep)
      BY <2>4, <2>6, <2>7, MutationTells
    <2> HIDE DEF publish
    <2>9. QED
      BY <2>2, <2>8, MutatesTurns DEF Mutates
  <1>4. QED
    BY <1>1, <1>2, <1>3

-----------------------------------------------------------------------------
(* The invariant of the calls under way and of the browser's sources.      *)

Row == [id : TaskId, status : {"running", "ended"}, version : Nat]
Shot == [revision : Nat, tasks : SUBSET Row]

Kind == {"snapshot", "watch"}
Asked == [viewer : Viewer, generation : Nat, kind : Kind, after : Nat, at : {"sent", "waiting"}]
Replied == [viewer : Viewer, generation : Nat, kind : Kind, at : {"answered"}, snapshot : Shot]
Lost == [viewer : Viewer, generation : Nat, kind : Kind, at : {"failed"}]
Source == [run : {"none", "called", "retrying"}, generation : Nat, snapshot : Shot]

\* A session without a revision has no tasks.
Numbers(H) ==
    \A s \in Session : H.revision[s] <= H.cursor /\ (H.revision[s] = 0 => Of(H, s) = {})

\* S is of this process: its revision, if it is still the session's, tells its tasks.
Cached(H, S, s) ==
    /\ S.revision <= H.cursor
    /\ S.revision = H.revision[s] => S.tasks = Rows(H, s)
    /\ S.revision = 0 => S.tasks = {}

\* S lists tasks of H, each once and no further than H has it.
Past(H, S) ==
    /\ \A x \in S.tasks :
          /\ x.id \in Born(H)
          /\ x.version <= H.task[x.id].version
          /\ x.status = "ended" => x.id \notin Runs(H)
    /\ \A x, y \in S.tasks : x.id = y.id => x = y

\* S is no further than T.
Since(S, T) ==
    \A x \in S.tasks, y \in T.tasks :
        x.id = y.id => x.version <= y.version /\ (x.status = "ended" => y.status = "ended")

\* The call c is of the source's present run.
Live(V, c) == V[c.viewer].run # "none" /\ V[c.viewer].generation = c.generation

Fits(H, V, c) ==
    LET s == SessionOf[c.viewer]
        S == V[c.viewer].snapshot
    IN  /\ c \in Asked \cup Replied \cup Lost
        /\ c.generation <= V[c.viewer].generation
        /\ c.at = "waiting" => c.kind = "watch" /\ c.after = H.revision[s]
        /\ c.at = "answered" => Cached(H, c.snapshot, s) /\ Past(H, c.snapshot)
        /\ c.at = "answered" /\ Live(V, c) => Since(S, c.snapshot)
        /\ Live(V, c) /\ c.kind = "watch" /\ c.at # "failed" => Cached(H, S, s)
        /\ Live(V, c) /\ c.kind = "watch" /\ c.at \in {"sent", "waiting"} => c.after = S.revision

\* A source has one call in a run, and none while it waits to retry.
Single(V, C) ==
    /\ \A v \in Viewer : V[v].run = "retrying" =>
          \A c \in C : ~(c.viewer = v /\ c.generation = V[v].generation)
    /\ \A c, d \in C : c.viewer = d.viewer /\ c.generation = d.generation => c = d

Views(H, V, C) ==
    /\ V \in [Viewer -> Source]
    /\ \A v \in Viewer : Past(H, V[v].snapshot)
    /\ Single(V, C)
    /\ \A c \in C : Fits(H, V, c)

DashboardInv == Trees(host) /\ Numbers(host) /\ Views(host, viewer, calls)

\* The host goes from H to K: what told a session's tasks still does.
Keeps(H, K) ==
    \A S \in Shot :
        /\ \A s \in Session : Cached(H, S, s) => Cached(K, S, s)
        /\ Past(H, S) => Past(K, S)

\* The parts of a reply
LEMMA AnsweredIs ==
    ASSUME NEW c \in Asked, NEW S \in Shot
    PROVE  LET x == Answered(c, S)
           IN  /\ x \in Replied /\ x.viewer = c.viewer /\ x.generation = c.generation
               /\ x.kind = c.kind /\ x.at = "answered" /\ x.snapshot = S
  BY DEF Answered, Asked, Replied

\* The parts of a failed call
LEMMA RefusedIs ==
    ASSUME NEW c \in Asked \cup Replied \cup Lost
    PROVE  LET x == Refused(c)
           IN  /\ x \in Lost /\ x.viewer = c.viewer /\ x.generation = c.generation
               /\ x.kind = c.kind /\ x.at = "failed"
  <1>1. c.viewer \in Viewer /\ c.generation \in Nat /\ c.kind \in Kind
    BY DEF Asked, Replied, Lost
  <1>2. QED
    BY <1>1 DEF Refused, Lost

\* The parts of a new call
LEMMA CallIs ==
    ASSUME NEW v \in Viewer, NEW g \in Nat, NEW kind \in Kind, NEW after \in Nat
    PROVE  LET x == Call(v, g, kind, after)
           IN  /\ x \in Asked /\ x.viewer = v /\ x.generation = g
               /\ x.kind = kind /\ x.at = "sent" /\ x.after = after
  BY DEF Call, Asked

\* The kinds of calls by where they are
LEMMA CallsAre ==
    ASSUME NEW c \in Asked \cup Replied \cup Lost
    PROVE  /\ c.viewer \in Viewer /\ c.generation \in Nat /\ c.kind \in Kind
           /\ c.at \in {"sent", "waiting", "answered", "failed"}
           /\ c.at \in {"sent", "waiting"} => c \in Asked /\ c.after \in Nat
           /\ c.at = "answered" => c \in Replied /\ c.snapshot \in Shot
  BY DEF Asked, Replied, Lost

\* The tasks alone make the rows.
LEMMA SameTask ==
    ASSUME NEW H, NEW K, K.task = H.task
    PROVE  /\ Born(K) = Born(H) /\ Runs(K) = Runs(H) /\ Kept(K) = Kept(H)
           /\ \A s : Of(K, s) = Of(H, s) /\ Rows(K, s) = Rows(H, s)
  BY DEF Born, Runs, Kept, Of, Rows, Snapshot

\* What a snapshot says
LEMMA SnapshotIs ==
    ASSUME NEW K, Ordered(K), NEW X, X \in Telemetry, X.task = K.task, NEW s \in Session
    PROVE  /\ Snapshot(X, s) \in Shot
           /\ Snapshot(X, s).revision = X.revision[s]
           /\ Snapshot(X, s).tasks = Rows(K, s)
           /\ Past(K, Snapshot(X, s))
           /\ \A S \in Shot : Past(K, S) => Since(S, Snapshot(X, s))
  <1> DEFINE Z == Snapshot(X, s)
  <1>1. /\ Z.revision = X.revision[s] /\ Z.tasks = Rows(K, s)
        /\ Z = [revision |-> X.revision[s], tasks |-> Rows(K, s)]
    BY SameTask DEF Snapshot, Rows
  <1> HIDE DEF Z
  <1>2. ASSUME NEW y \in Rows(K, s)
        PROVE  /\ y.id \in TaskId /\ y.id \in Born(K) /\ y \in Row
               /\ y.status = K.task[y.id].status /\ y.version = K.task[y.id].version
               /\ y = [id |-> y.id, status |-> y.status, version |-> y.version]
    <2>1. PICK t \in Of(K, s) :
             y = [id |-> t, status |-> K.task[t].status, version |-> K.task[t].version]
      BY RowsAre
    <2>2. t \in TaskId /\ t \in Born(K) /\ K.task[t].status \in {"running", "ended"}
      BY DEF Of, Kept, Ordered, Stages, Stands, Born
    <2>3. K.task[t].version \in Nat
      BY <2>2, Versions
    <2>4. QED
      BY <2>1, <2>2, <2>3 DEF Row
  <1>3. Z \in Shot
    <2>1. X.revision[s] \in Nat
      BY DEF Telemetry
    <2>2. Rows(K, s) \in SUBSET Row
      BY <1>2
    <2>3. QED
      BY <1>1, <2>1, <2>2 DEF Shot
  <1>4. Past(K, Z)
    <2>1. ASSUME NEW x \in Rows(K, s)
          PROVE  /\ x.id \in Born(K) /\ x.version <= K.task[x.id].version
                 /\ x.status = "ended" => x.id \notin Runs(K)
      <3>1. K.task[x.id].version \in Nat
        BY <1>2, Versions
      <3>2. QED
        BY <1>2, <3>1 DEF Runs
    <2>2. \A x, y \in Rows(K, s) : x.id = y.id => x = y
      BY <1>2
    <2>3. QED
      BY <1>1, <2>1, <2>2 DEF Past
  <1>5. ASSUME NEW S \in Shot, Past(K, S)
        PROVE  Since(S, Z)
    <2>1. ASSUME NEW x \in S.tasks, NEW y \in Rows(K, s), x.id = y.id
          PROVE  x.version <= y.version /\ (x.status = "ended" => y.status = "ended")
      <3>1. x.version <= K.task[x.id].version /\ (x.status = "ended" => x.id \notin Runs(K))
        BY <1>5 DEF Past
      <3>2. y.version = K.task[x.id].version /\ y.status = K.task[x.id].status
            /\ y.id \in TaskId /\ y.status \in {"running", "ended"}
        BY <1>2, <2>1 DEF Row
      <3>3. y.status = "running" => x.id \in Runs(K)
        BY <2>1, <3>2 DEF Runs
      <3>4. QED
        BY <3>1, <3>2, <3>3
    <2>2. QED
      BY <1>1, <2>1 DEF Since
  <1>6. QED
    BY <1>1, <1>3, <1>4, <1>5 DEF Z

\* Tasks that go on leave a snapshot behind.
LEMMA PastOn ==
    ASSUME NEW H, Ordered(H), NEW K, Ordered(K), Onward(H, K), NEW S \in Shot, Past(H, S)
    PROVE  Past(K, S)
  <1>1. ASSUME NEW x \in S.tasks
        PROVE  /\ x.id \in Born(K) /\ x.version <= K.task[x.id].version
               /\ x.status = "ended" => x.id \notin Runs(K)
    <2>1. /\ x.id \in Born(H) /\ x.version <= H.task[x.id].version
          /\ x.status = "ended" => x.id \notin Runs(H)
      BY DEF Past
    <2>2. /\ x.id \in Born(K) /\ K.task[x.id].version >= H.task[x.id].version
          /\ x.id \notin Runs(H) => x.id \notin Runs(K)
      BY <2>1 DEF Onward
    <2>3. x.version \in Nat /\ H.task[x.id].version \in Nat /\ K.task[x.id].version \in Nat
      BY <2>1, <2>2, Versions DEF Shot, Row
    <2>4. QED
      BY <2>1, <2>2, <2>3
  <1>2. QED
    BY <1>1 DEF Past

-----------------------------------------------------------------------------
(* Calls and sources, one by one.                                          *)

\* At most one call of a run stays at most one.
LEMMA SingleOn ==
    ASSUME NEW V, NEW C, Single(V, C), NEW f, NEW D,
           \A x \in D : \E c \in C : x = f[c],
           \A c \in C : f[c].viewer = c.viewer /\ f[c].generation = c.generation
    PROVE  Single(V, D)
  BY DEF Single

\* A call of a source that has not changed, when the host goes on
LEMMA FitsOn ==
    ASSUME NEW H, NEW K, Keeps(H, K), NEW V \in [Viewer -> Source], NEW c, Fits(H, V, c),
           c.at = "waiting" => K.revision[SessionOf[c.viewer]] = H.revision[SessionOf[c.viewer]]
    PROVE  Fits(K, V, c)
  <1> DEFINE s == SessionOf[c.viewer]
             S == V[c.viewer].snapshot
  <1>1. c \in Asked \cup Replied \cup Lost
    BY DEF Fits
  <1>2. s \in Session /\ S \in Shot
    BY <1>1, CallsAre, DashboardAssumption DEF Source
  <1>3. c.at = "answered" => c.snapshot \in Shot
    BY <1>1, CallsAre
  <1>4. Cached(H, S, s) => Cached(K, S, s)
    BY <1>2 DEF Keeps
  <1>5. c.at = "answered" =>
           /\ Cached(H, c.snapshot, s) => Cached(K, c.snapshot, s)
           /\ Past(H, c.snapshot) => Past(K, c.snapshot)
    BY <1>2, <1>3 DEF Keeps
  <1>6. QED
    BY <1>1, <1>4, <1>5 DEF Fits

\* A reply to a call, when the host goes on
LEMMA ReplyFits ==
    ASSUME NEW H, NEW K, Keeps(H, K), NEW V \in [Viewer -> Source], NEW c \in Asked, Fits(H, V, c),
           NEW S \in Shot, Cached(K, S, SessionOf[c.viewer]), Past(K, S),
           Since(V[c.viewer].snapshot, S)
    PROVE  Fits(K, V, Answered(c, S))
  <1> DEFINE x == Answered(c, S)
             s == SessionOf[c.viewer]
             Z == V[c.viewer].snapshot
  <1>1. /\ x \in Replied /\ x.viewer = c.viewer /\ x.generation = c.generation
        /\ x.kind = c.kind /\ x.at = "answered" /\ x.snapshot = S
    BY AnsweredIs
  <1> HIDE DEF x
  <1>2. c.viewer \in Viewer /\ s \in Session /\ Z \in Shot /\ c.at # "failed"
    BY CallsAre, DashboardAssumption DEF Source, Asked
  <1>3. Live(V, x) <=> Live(V, c)
    BY <1>1 DEF Live
  <1>4. Live(V, c) /\ c.kind = "watch" => Cached(K, Z, s)
    BY <1>2 DEF Fits, Keeps
  <1>5. c.generation <= V[c.viewer].generation
    BY DEF Fits
  <1>6. QED
    BY <1>1, <1>3, <1>4, <1>5 DEF Fits, x

\* A call that failed
LEMMA FailureFits ==
    ASSUME NEW H, NEW K, NEW V, NEW c, Fits(H, V, c)
    PROVE  /\ Fits(K, V, Refused(c))
           /\ Refused(c).viewer = c.viewer /\ Refused(c).generation = c.generation
  <1> DEFINE x == Refused(c)
  <1>1. c \in Asked \cup Replied \cup Lost /\ c.generation <= V[c.viewer].generation
    BY DEF Fits
  <1>2. /\ x \in Lost /\ x.viewer = c.viewer /\ x.generation = c.generation
        /\ x.kind = c.kind /\ x.at = "failed"
    BY <1>1, RefusedIs
  <1> HIDE DEF x
  <1>3. QED
    BY <1>1, <1>2 DEF Fits, x

\* A call of another source
LEMMA FitsApart ==
    ASSUME NEW H, NEW V, NEW W, NEW c, Fits(H, V, c), W[c.viewer] = V[c.viewer]
    PROVE  Fits(H, W, c)
  BY DEF Fits, Live

\* A call of an earlier run
LEMMA FitsLate ==
    ASSUME NEW H, NEW V, NEW W, NEW c, Fits(H, V, c), ~Live(W, c),
           c.generation <= W[c.viewer].generation
    PROVE  Fits(H, W, c)
  BY DEF Fits

-----------------------------------------------------------------------------
(* The turns of the host keep the invariant.                               *)

\* The sessions' revisions after a turn
LEMMA TurnNumbers ==
    ASSUME Numbers(host), NEW M, NEW publish, NEW keep, NEW N, NEW turn,
           Tells(M, publish, keep), Turned(M, publish, keep, N, turn), Trees(host)
    PROVE  /\ Numbers(turn.host) /\ Trees(turn.host) /\ Onward(host, turn.host)
           /\ Keeps(host, turn.host)
           /\ N.task = turn.host.task /\ N \in Telemetry
           /\ \A s \in publish : N.revision[s] # 0
           /\ N.cursor = turn.host.cursor
           /\ \A s \in Session : N.revision[s] <= N.cursor
  <1> DEFINE K == turn.host
  <1>1. /\ Trees(M) /\ M.cursor = host.cursor /\ M.revision = host.revision
        /\ Onward(host, M) /\ publish \in SUBSET Session
    BY DEF Tells
  <1>2. /\ K \in Telemetry /\ K.task = M.task /\ K.cursor = N.cursor
    BY DEF Turned
  <1>3. /\ N \in Telemetry /\ N.task = M.task /\ N.cursor >= host.cursor
        /\ \A s \in publish : N.revision[s] > host.cursor /\ N.revision[s] <= N.cursor
        /\ \A s \in Session \ publish : N.revision[s] = host.revision[s]
    BY <1>1 DEF Turned, Renumbered
  <1>4. Trees(K)
    BY <1>1, TurnKeepsTrees
  <1>5. /\ host.cursor \in Nat /\ N.cursor \in Nat /\ host.revision \in [Session -> Nat]
        /\ N.revision \in [Session -> Nat]
    BY <1>3 DEF Trees, Ordered, Telemetry
  <1>6. /\ Born(K) = Born(M) /\ Runs(K) = Runs(M)
        /\ \A s : Of(K, s) = Of(M, s) /\ Rows(K, s) = Rows(M, s)
    BY <1>2, SameTask
  <1>7. \A s \in Session :
          \/ K.revision[s] = N.revision[s]
          \/ K.revision[s] = 0 /\ Of(K, s) = {}
    BY <1>6 DEF Turned
  <1>8. \A s \in Session :
           Of(K, s) = {} /\ s \notin Watched(Watches) \cup keep => K.revision[s] = 0
    BY <1>6 DEF Turned
  <1>9. \A s \in Session :
          \/ s \in publish
          \/ Of(K, s) = Of(host, s) /\ Rows(K, s) = Rows(host, s)
          \/ Of(K, s) = {} /\ s \notin Watched(Watches) \cup keep
    BY <1>6 DEF Tells, Same
  <1> HIDE DEF K
  <1>10. \A s \in Session : N.revision[s] <= N.cursor
    <2>1. ASSUME NEW s \in Session
          PROVE  N.revision[s] <= N.cursor
      <3>1. host.revision[s] <= host.cursor /\ host.revision[s] \in Nat
        BY <1>5 DEF Numbers
      <3>2. CASE s \in publish
        BY <1>3, <3>2
      <3>3. CASE s \notin publish
        BY <1>3, <1>5, <3>1, <3>3
      <3>4. QED
        BY <3>2, <3>3
    <2>2. QED
      BY <2>1
  <1>11. Numbers(K)
    <2>1. ASSUME NEW s \in Session
          PROVE  K.revision[s] <= K.cursor /\ (K.revision[s] = 0 => Of(K, s) = {})
      <3>1. CASE K.revision[s] = 0 /\ Of(K, s) = {}
        BY <1>2, <1>5, <3>1
      <3>2. CASE K.revision[s] = N.revision[s] /\ s \in publish
        <4>1. N.revision[s] > host.cursor
          BY <1>3, <3>2
        <4>2. N.revision[s] # 0
          BY <1>5, <4>1
        <4>3. QED
          BY <1>2, <1>10, <3>2, <4>2
      <3>3. CASE K.revision[s] = N.revision[s] /\ s \notin publish
        <4>1. host.revision[s] = 0 => Of(host, s) = {}
          BY DEF Numbers
        <4>2. QED
          BY <1>2, <1>3, <1>9, <1>10, <3>3, <4>1
      <3>4. QED
        BY <1>7, <3>1, <3>2, <3>3
    <2>2. QED
      BY <2>1 DEF Numbers
  <1>12. Onward(host, K)
    BY <1>1, <1>2, <1>6 DEF Onward
  <1>13. ASSUME NEW S \in Shot, NEW s \in Session, Cached(host, S, s)
         PROVE  Cached(K, S, s)
    <2>1. /\ S.revision \in Nat /\ S.revision <= host.cursor
          /\ S.revision = host.revision[s] => S.tasks = Rows(host, s)
          /\ S.revision = 0 => S.tasks = {}
      BY <1>13 DEF Cached, Shot
    <2>2. S.revision <= K.cursor
      BY <1>2, <1>3, <1>5, <2>1
    <2>3. Of(K, s) = {} => Rows(K, s) = {}
      BY RowsAre
    <2>4. ASSUME S.revision = K.revision[s]
          PROVE  S.tasks = Rows(K, s)
      <3>1. CASE K.revision[s] = 0 /\ Of(K, s) = {}
        BY <2>1, <2>3, <2>4, <3>1
      <3>2. CASE K.revision[s] = N.revision[s] /\ s \in publish
        <4>1. N.revision[s] > host.cursor /\ N.revision[s] \in Nat
          BY <1>3, <1>5, <3>2
        <4>2. FALSE
          BY <1>5, <2>1, <2>4, <3>2, <4>1
        <4>3. QED
          BY <4>2
      <3>3. CASE K.revision[s] = N.revision[s] /\ s \notin publish /\ Rows(K, s) = Rows(host, s)
        BY <1>3, <2>1, <2>4, <3>3
      <3>4. CASE Of(K, s) = {} /\ s \notin Watched(Watches) \cup keep
        BY <1>8, <2>1, <2>3, <2>4, <3>4
      <3>5. QED
        BY <1>7, <1>9, <3>1, <3>2, <3>3, <3>4
    <2>5. QED
      BY <2>1, <2>2, <2>4 DEF Cached
  <1>14. Ordered(host) /\ Ordered(K)
    BY <1>4 DEF Trees, K
  <1>15. Keeps(host, K)
    BY <1>12, <1>13, <1>14, PastOn DEF Keeps
  <1>16. \A s \in publish : N.revision[s] # 0
    <2>1. ASSUME NEW s \in publish
          PROVE  N.revision[s] # 0
      <3>1. N.revision[s] > host.cursor /\ N.revision[s] \in Nat
        BY <1>1, <1>3, <1>5
      <3>2. QED
        BY <1>5, <3>1
    <2>2. QED
      BY <2>1
  <1>17. N.task = K.task /\ N.cursor = K.cursor
    BY <1>2, <1>3
  <1>18. QED
    BY <1>3, <1>4, <1>10, <1>11, <1>12, <1>15, <1>16, <1>17 DEF K

\* What a turn does to the calls, and which of them it leaves
LEMMA TurnKeepsViews ==
    ASSUME Trees(host), Numbers(host), Views(host, viewer, calls),
           NEW keep, NEW turn, Turning(keep, turn)
    PROVE  /\ Trees(turn.host) /\ Numbers(turn.host) /\ Views(turn.host, viewer, turn.calls)
           /\ \A c \in calls :
                 \/ c \in turn.calls
                 \/ /\ c.at = "waiting"
                    /\ SessionOf[c.viewer] \in keep =>
                          Answered(c, Snapshot(turn.host, SessionOf[c.viewer])) \in turn.calls
  <1> DEFINE K == turn.host
  <1>1. PICK M, publish, N : Tells(M, publish, keep) /\ Turned(M, publish, keep, N, turn)
    BY DEF Turning
  <1>2. /\ Numbers(K) /\ Trees(K) /\ Onward(host, K) /\ Keeps(host, K)
        /\ N.task = K.task /\ N \in Telemetry
        /\ \A s \in publish : N.revision[s] # 0
        /\ N.cursor = K.cursor
        /\ \A s \in Session : N.revision[s] <= N.cursor
    BY <1>1, TurnNumbers
  <1>3. turn.calls = (calls \ Woken(publish))
                      \cup {Answered(c, Snapshot(N, SessionOf[c.viewer])) : c \in Woken(publish)}
    BY <1>1 DEF Turned
  <1>4. K \in Telemetry /\ Ordered(K) /\ Ordered(host)
    BY <1>2 DEF Trees, Ordered
  <1>5. \A s \in Session : Of(K, s) = {} \/ K.revision[s] = N.revision[s]
    <2>1. \A s : Of(K, s) = Of(M, s)
      BY <1>1, SameTask DEF Turned
    <2>2. QED
      BY <1>1, <2>1 DEF Turned
  <1>6. \A s \in Session :
           K.revision[s] # N.revision[s] => s \notin Watched(Watches \ Woken(publish)) \cup keep
    BY <1>1 DEF Turned
  <1>7. \A s \in Session \ publish : N.revision[s] = host.revision[s]
    BY <1>1 DEF Turned, Renumbered, Tells
  <1> HIDE DEF K
  <1>8. /\ viewer \in [Viewer -> Source]
        /\ \A v \in Viewer : Past(host, viewer[v].snapshot)
        /\ Single(viewer, calls)
        /\ \A c \in calls : Fits(host, viewer, c)
    BY DEF Views
  <1>9. \A c \in calls : c \in Asked \cup Replied \cup Lost /\ c.viewer \in Viewer
                         /\ SessionOf[c.viewer] \in Session
    <2>1. ASSUME NEW c \in calls
          PROVE  c \in Asked \cup Replied \cup Lost /\ c.viewer \in Viewer
                 /\ SessionOf[c.viewer] \in Session
      <3>1. c \in Asked \cup Replied \cup Lost
        BY <1>8 DEF Fits
      <3>2. QED
        BY <3>1, CallsAre, DashboardAssumption
    <2>2. QED
      BY <2>1
  <1>10. \A v \in Viewer : viewer[v].snapshot \in Shot /\ Past(K, viewer[v].snapshot)
    BY <1>2, <1>8 DEF Keeps, Source
  <1> DEFINE Reply(c) == Answered(c, Snapshot(N, SessionOf[c.viewer]))
  <1>11. ASSUME NEW c \in Woken(publish)
         PROVE  /\ Fits(K, viewer, Reply(c)) /\ c \in calls /\ c \in Asked /\ c.at = "waiting"
                /\ Reply(c).viewer = c.viewer /\ Reply(c).generation = c.generation
    <2> DEFINE s == SessionOf[c.viewer]
               S == Snapshot(N, s)
    <2>1. c \in calls /\ c.at = "waiting" /\ s \in publish /\ s \in Session /\ c.viewer \in Viewer
      BY <1>9 DEF Woken, Watches
    <2>2. c \in Asked
      BY <1>9, <2>1, CallsAre
    <2>3. /\ S \in Shot /\ S.revision = N.revision[s] /\ S.tasks = Rows(K, s) /\ Past(K, S)
          /\ \A Z \in Shot : Past(K, Z) => Since(Z, S)
      BY <1>2, <1>4, <2>1, SnapshotIs
    <2> HIDE DEF S
    <2>4. Cached(K, S, s)
      BY <1>2, <2>1, <2>3 DEF Cached
    <2>5. Since(viewer[c.viewer].snapshot, S)
      BY <1>10, <2>1, <2>3
    <2>6. Fits(host, viewer, c)
      BY <1>8, <2>1
    <2>7. Fits(K, viewer, Answered(c, S))
      BY <1>2, <1>8, <2>2, <2>3, <2>4, <2>5, <2>6, ReplyFits
    <2>8. Answered(c, S).viewer = c.viewer /\ Answered(c, S).generation = c.generation
      BY <2>2, <2>3, AnsweredIs
    <2>9. QED
      BY <2>1, <2>2, <2>7, <2>8 DEF S
  <1>12. ASSUME NEW c \in calls \ Woken(publish)
         PROVE  Fits(K, viewer, c)
    <2>1. Fits(host, viewer, c) /\ SessionOf[c.viewer] \in Session
      BY <1>8, <1>9
    <2>2. ASSUME c.at = "waiting"
          PROVE  K.revision[SessionOf[c.viewer]] = host.revision[SessionOf[c.viewer]]
      <3>1. c \in Watches \ Woken(publish)
        BY <2>2 DEF Watches
      <3>2. SessionOf[c.viewer] \notin publish
        BY <3>1 DEF Woken
      <3>3. SessionOf[c.viewer] \in Watched(Watches \ Woken(publish))
        BY <3>1 DEF Watched
      <3>4. QED
        BY <1>6, <1>7, <2>1, <3>2, <3>3
    <2>3. QED
      BY <1>2, <1>8, <2>1, <2>2, FitsOn
  <1>13. \A x \in turn.calls : Fits(K, viewer, x)
    BY <1>3, <1>11, <1>12
  <1>14. Single(viewer, turn.calls)
    <2> DEFINE f == [c \in calls |-> IF c \in Woken(publish) THEN Reply(c) ELSE c]
    <2>0. Woken(publish) \subseteq calls
      BY <1>11
    <2>1. \A x \in turn.calls : \E c \in calls : x = f[c]
      <3>1. ASSUME NEW x \in turn.calls
            PROVE  \E c \in calls : x = f[c]
        <4>1. CASE x \in calls \ Woken(publish)
          BY <4>1
        <4>2. CASE x \notin calls \ Woken(publish)
          <5>1. PICK c \in Woken(publish) : x = Reply(c)
            BY <1>3, <4>2
          <5>2. c \in calls /\ x = f[c]
            BY <2>0, <5>1
          <5>3. QED
            BY <5>2
        <4>3. QED
          BY <4>1, <4>2
      <3>2. QED
        BY <3>1
    <2>2. \A c \in calls : f[c].viewer = c.viewer /\ f[c].generation = c.generation
      <3>1. ASSUME NEW c \in calls
            PROVE  f[c].viewer = c.viewer /\ f[c].generation = c.generation
        <4>1. CASE c \in Woken(publish)
          <5>1. Reply(c).viewer = c.viewer /\ Reply(c).generation = c.generation /\ f[c] = Reply(c)
            BY <1>11, <4>1
          <5> HIDE DEF f, Reply
          <5>2. QED
            BY <5>1
        <4>2. CASE c \notin Woken(publish)
          <5>1. f[c] = c
            BY <4>2
          <5> HIDE DEF f
          <5>2. QED
            BY <5>1
        <4>3. QED
          BY <4>1, <4>2
      <3>2. QED
        BY <3>1
    <2> HIDE DEF f
    <2>3. QED
      BY <1>8, <2>1, <2>2, SingleOn
  <1>15. Views(K, viewer, turn.calls)
    BY <1>8, <1>10, <1>13, <1>14 DEF Views
  <1>16. ASSUME NEW c \in calls, c \notin turn.calls
         PROVE  /\ c.at = "waiting"
                /\ SessionOf[c.viewer] \in keep =>
                      Answered(c, Snapshot(K, SessionOf[c.viewer])) \in turn.calls
    <2>1. c \in Woken(publish)
      BY <1>3, <1>16
    <2>2. c.at = "waiting" /\ Reply(c) \in turn.calls
      BY <1>3, <1>11, <2>1
    <2>3. ASSUME SessionOf[c.viewer] \in keep
          PROVE  Snapshot(K, SessionOf[c.viewer]) = Snapshot(N, SessionOf[c.viewer])
      <3>1. K.revision[SessionOf[c.viewer]] = N.revision[SessionOf[c.viewer]]
        BY <1>6, <1>9, <2>3
      <3>2. QED
        BY <1>2, <3>1 DEF Snapshot, Of, Kept
    <2>4. QED
      BY <2>2, <2>3
  <1>17. QED
    BY <1>2, <1>15, <1>16 DEF K

\* Fewer calls
LEMMA FewerKeep ==
    ASSUME NEW H, NEW V, NEW C, Views(H, V, C), NEW D \in SUBSET C
    PROVE  Views(H, V, D)
  BY DEF Views, Single

\* A call in another one's place
LEMMA ReplaceKeeps ==
    ASSUME NEW H, NEW V, NEW C, Views(H, V, C), NEW c \in C, NEW x, Fits(H, V, x),
           x.viewer = c.viewer, x.generation = c.generation
    PROVE  Views(H, V, (C \ {c}) \cup {x})
  <1> DEFINE f == [d \in C |-> IF d = c THEN x ELSE d]
             D == (C \ {c}) \cup {x}
  <1>1. \A d \in D : \E e \in C : d = f[e]
    <2>1. ASSUME NEW d \in D
          PROVE  \E e \in C : d = f[e]
      <3>1. CASE d = x
        <4>1. x = f[c]
          OBVIOUS
        <4>2. QED
          BY <3>1, <4>1
      <3>2. CASE d # x
        <4>1. d \in C /\ d # c
          BY <3>2
        <4>2. d = f[d]
          BY <4>1
        <4>3. QED
          BY <4>1, <4>2
      <3>3. QED
        BY <3>1, <3>2
    <2>2. QED
      BY <2>1
  <1>2. \A d \in C : f[d].viewer = d.viewer /\ f[d].generation = d.generation
    <2>1. f[c] = x /\ \A d \in C : d # c => f[d] = d
      OBVIOUS
    <2> HIDE DEF f
    <2>2. QED
      BY <2>1
  <1>3. \A d \in D : Fits(H, V, d)
    BY DEF Views
  <1> HIDE DEF f, D
  <1>4. Single(V, D)
    BY <1>1, <1>2, SingleOn DEF Views
  <1>5. QED
    BY <1>3, <1>4 DEF Views, D

\* The calls of the invariant
LEMMA CallFacts ==
    ASSUME NEW H, NEW V, NEW C, Views(H, V, C), NEW c \in C
    PROVE  /\ Fits(H, V, c) /\ c \in Asked \cup Replied \cup Lost
           /\ c.viewer \in Viewer /\ SessionOf[c.viewer] \in Session
           /\ V[c.viewer] \in Source /\ V[c.viewer].snapshot \in Shot
           /\ Past(H, V[c.viewer].snapshot)
  <1>1. Fits(H, V, c) /\ c \in Asked \cup Replied \cup Lost
    BY DEF Views, Fits
  <1>2. c.viewer \in Viewer
    BY <1>1, CallsAre
  <1>3. QED
    BY <1>1, <1>2, DashboardAssumption DEF Views, Source

\* The answer to a call with what the host has
LEMMA AnswerFits ==
    ASSUME NEW K, Trees(K), Numbers(K), NEW V \in [Viewer -> Source], NEW c \in Asked, Fits(K, V, c),
           Past(K, V[c.viewer].snapshot)
    PROVE  LET x == Answered(c, Snapshot(K, SessionOf[c.viewer]))
           IN  Fits(K, V, x) /\ x.viewer = c.viewer /\ x.generation = c.generation
  <1> DEFINE s == SessionOf[c.viewer]
             S == Snapshot(K, s)
  <1>1. K \in Telemetry /\ Ordered(K) /\ c.viewer \in Viewer /\ s \in Session
    BY DashboardAssumption DEF Trees, Ordered, Asked
  <1>2. /\ S \in Shot /\ S.revision = K.revision[s] /\ S.tasks = Rows(K, s) /\ Past(K, S)
        /\ \A Z \in Shot : Past(K, Z) => Since(Z, S)
    BY <1>1, SnapshotIs
  <1> HIDE DEF S
  <1>3. Of(K, s) = {} => Rows(K, s) = {}
    BY RowsAre
  <1>4. Cached(K, S, s)
    BY <1>1, <1>2, <1>3 DEF Cached, Numbers
  <1>5. V[c.viewer].snapshot \in Shot
    BY <1>1 DEF Source
  <1>6. Since(V[c.viewer].snapshot, S)
    BY <1>2, <1>5
  <1>7. Keeps(K, K)
    BY DEF Keeps
  <1>8. Fits(K, V, Answered(c, S))
    BY <1>2, <1>4, <1>6, <1>7, ReplyFits
  <1>9. Answered(c, S).viewer = c.viewer /\ Answered(c, S).generation = c.generation
    BY <1>2, AnsweredIs
  <1>10. QED
    BY <1>8, <1>9 DEF S

\* The host's mutations keep the invariant.
LEMMA HostKeeps ==
    ASSUME DashboardInv, StartTask \/ UpdateTask \/ FinishTask
    PROVE  DashboardInv'
  <1>1. PICK keep, turn : Turning(keep, turn) /\ host' = turn.host /\ calls' = turn.calls
    BY HostTurns DEF DashboardInv
  <1>2. viewer' = viewer
    BY HostTurns DEF DashboardInv
  <1>3. Trees(turn.host) /\ Numbers(turn.host) /\ Views(turn.host, viewer, turn.calls)
    BY <1>1, TurnKeepsViews DEF DashboardInv
  <1>4. QED
    BY <1>1, <1>2, <1>3 DEF DashboardInv

\* snapshot's RPC
LEMMA AnswerSnapshotKeeps ==
    ASSUME DashboardInv, NEW v \in Viewer, AnswerSnapshot(v)
    PROVE  DashboardInv'
  <1>1. PICK c \in CallsOf(v) :
          /\ c.at = "sent" /\ c.kind = "snapshot"
          /\ \E turn \in Reads({}) :
                /\ host' = turn.host
                /\ calls' = (turn.calls \ {c})
                               \cup {Answered(c, Snapshot(turn.host, SessionOf[v]))}
    BY DEF AnswerSnapshot
  <1>2. PICK turn \in Reads({}) :
                /\ host' = turn.host
                /\ calls' = (turn.calls \ {c})
                               \cup {Answered(c, Snapshot(turn.host, SessionOf[v]))}
    BY <1>1
  <1> DEFINE K == turn.host  C == turn.calls
             x == Answered(c, Snapshot(K, SessionOf[c.viewer]))
  <1>3. Turning({}, turn)
    BY ReadsTurn DEF DashboardInv
  <1>4. c \in calls /\ c.viewer = v
    BY DEF CallsOf
  <1>5. /\ Trees(K) /\ Numbers(K) /\ Views(K, viewer, C) /\ c \in C
    BY <1>1, <1>3, <1>4, TurnKeepsViews DEF DashboardInv
  <1> HIDE DEF K, C
  <1>6. c \in Asked /\ viewer \in [Viewer -> Source]
    BY <1>1, <1>5, CallFacts, CallsAre DEF Views
  <1>7. Fits(K, viewer, x) /\ x.viewer = c.viewer /\ x.generation = c.generation
    BY <1>5, <1>6, CallFacts, AnswerFits
  <1> HIDE DEF x
  <1>8. Views(K, viewer, (C \ {c}) \cup {x})
    BY <1>5, <1>7, ReplaceKeeps
  <1>9. host' = K /\ calls' = (C \ {c}) \cup {x} /\ viewer' = viewer
    BY <1>2, <1>4 DEF AnswerSnapshot, K, C, x
  <1>10. QED
    BY <1>5, <1>8, <1>9 DEF DashboardInv

\* watchDispatcherTelemetry, up to its promise
LEMMA AnswerWatchKeeps ==
    ASSUME DashboardInv, NEW v \in Viewer, AnswerWatch(v)
    PROVE  DashboardInv'
  <1>1. PICK c \in CallsOf(v) :
          LET s == SessionOf[c.viewer]
              replies(turn) ==
                  IF turn.host.revision[s] # c.after THEN Answered(c, Snapshot(turn.host, s))
                  ELSE IF Cardinality({d \in turn.calls : d.at = "waiting"}) < MaxWatches
                  THEN [c EXCEPT !.at = "waiting"]
                  ELSE Refused(c)
          IN  /\ c.at = "sent" /\ c.kind = "watch"
              /\ \E turn \in Reads({s}) :
                    /\ host' = turn.host
                    /\ calls' = (turn.calls \ {c}) \cup {replies(turn)}
    BY DEF AnswerWatch
  <1> DEFINE s == SessionOf[c.viewer]
             waits == [c EXCEPT !.at = "waiting"]
             replies(turn) ==
                  IF turn.host.revision[s] # c.after THEN Answered(c, Snapshot(turn.host, s))
                  ELSE IF Cardinality({d \in turn.calls : d.at = "waiting"}) < MaxWatches
                  THEN waits ELSE Refused(c)
  <1>2. PICK turn \in Reads({s}) :
                    /\ host' = turn.host
                    /\ calls' = (turn.calls \ {c}) \cup {replies(turn)}
    BY <1>1
  <1> DEFINE K == turn.host  C == turn.calls  x == replies(turn)
  <1>3. Turning({s}, turn)
    BY ReadsTurn DEF DashboardInv
  <1>4. c \in calls /\ c.viewer = v
    BY DEF CallsOf
  <1>5. /\ Trees(K) /\ Numbers(K) /\ Views(K, viewer, C) /\ c \in C
    BY <1>1, <1>3, <1>4, TurnKeepsViews DEF DashboardInv
  <1>11. x = Answered(c, Snapshot(K, s)) \/ (K.revision[s] = c.after /\ x = waits) \/ x = Refused(c)
    OBVIOUS
  <1> HIDE DEF K, C, x
  <1>6. c \in Asked /\ viewer \in [Viewer -> Source] /\ Fits(K, viewer, c)
        /\ Past(K, viewer[c.viewer].snapshot)
    BY <1>1, <1>5, CallFacts, CallsAre DEF Views
  <1>7. Fits(K, viewer, x) /\ x.viewer = c.viewer /\ x.generation = c.generation
    <2>1. CASE x = Answered(c, Snapshot(K, s))
      BY <1>5, <1>6, <2>1, AnswerFits
    <2>2. CASE K.revision[s] = c.after /\ x = waits
      <3>1. /\ waits \in Asked /\ waits.at = "waiting" /\ waits.viewer = c.viewer
            /\ waits.generation = c.generation /\ waits.kind = c.kind /\ waits.after = c.after
        BY <1>6 DEF Asked
      <3> HIDE DEF waits
      <3>2. Live(viewer, waits) <=> Live(viewer, c)
        BY <3>1 DEF Live
      <3>3. Fits(K, viewer, waits)
        BY <1>1, <1>6, <2>2, <3>1, <3>2 DEF Fits
      <3>4. QED
        BY <2>2, <3>1, <3>3
    <2>3. CASE x = Refused(c)
      BY <1>6, <2>3, FailureFits
    <2>4. QED
      BY <1>11, <2>1, <2>2, <2>3
  <1>8. Views(K, viewer, (C \ {c}) \cup {x})
    BY <1>5, <1>7, ReplaceKeeps
  <1>9. host' = K /\ calls' = (C \ {c}) \cup {x} /\ viewer' = viewer
    BY <1>2 DEF AnswerWatch, K, C, x
  <1>10. QED
    BY <1>5, <1>8, <1>9 DEF DashboardInv

\* A watch's timer
LEMMA WatchTimeoutKeeps ==
    ASSUME DashboardInv, NEW v \in Viewer, WatchTimeout(v)
    PROVE  DashboardInv'
  <1>1. PICK c \in Watches \cap CallsOf(v) :
          LET s == SessionOf[c.viewer]
          IN  \E turn \in Reads({s}) :
                  /\ host' = turn.host
                  /\ calls' = (turn.calls \ {c}) \cup {Answered(c, Snapshot(turn.host, s))}
    BY DEF WatchTimeout
  <1> DEFINE s == SessionOf[c.viewer]
  <1>2. PICK turn \in Reads({s}) :
                  /\ host' = turn.host
                  /\ calls' = (turn.calls \ {c}) \cup {Answered(c, Snapshot(turn.host, s))}
    BY <1>1
  <1> DEFINE K == turn.host  C == turn.calls
             x == Answered(c, Snapshot(K, s))
  <1>3. Turning({s}, turn)
    BY ReadsTurn DEF DashboardInv
  <1>4. c \in calls /\ c.at = "waiting"
    BY DEF Watches
  <1>5. /\ Trees(K) /\ Numbers(K) /\ Views(K, viewer, C) /\ (c \in C \/ x \in C)
    BY <1>3, <1>4, TurnKeepsViews DEF DashboardInv
  <1> HIDE DEF K, C
  <1>6. c \in Asked /\ viewer \in [Viewer -> Source]
    BY <1>4, CallFacts, CallsAre DEF Views, DashboardInv
  <1>7. Views(K, viewer, (C \ {c}) \cup {x})
    <2>1. CASE x \in C
      <3>1. (C \ {c}) \cup {x} \in SUBSET C
        BY <2>1
      <3>2. QED
        BY ONLY <1>5, <3>1, FewerKeep
    <2>2. CASE c \in C
      <3>1. Fits(K, viewer, x) /\ x.viewer = c.viewer /\ x.generation = c.generation
        BY <1>5, <1>6, <2>2, CallFacts, AnswerFits
      <3> HIDE DEF x
      <3>2. QED
        BY <1>5, <2>2, <3>1, ReplaceKeeps
    <2>3. QED
      BY <1>5, <2>1, <2>2
  <1>8. host' = K /\ calls' = (C \ {c}) \cup {x} /\ viewer' = viewer
    BY <1>2 DEF WatchTimeout, K, C
  <1>9. QED
    BY <1>5, <1>7, <1>8 DEF DashboardInv

-----------------------------------------------------------------------------
(* The browser keeps the invariant.                                        *)

\* A stopped source's signal
LEMMA AbortKeeps ==
    ASSUME DashboardInv, NEW v \in Viewer, Abort(v)
    PROVE  DashboardInv'
  <1>1. calls' \in SUBSET calls /\ host' = host /\ viewer' = viewer
    BY DEF Abort
  <1>2. QED
    BY <1>1, FewerKeep DEF DashboardInv

\* W is V with another source v.
Changed(V, W, v, run, g, S) ==
    /\ W \in [Viewer -> Source]
    /\ \A w \in Viewer \ {v} : W[w] = V[w]
    /\ W[v].run = run /\ W[v].generation = g /\ W[v].snapshot = S

\* The calls in D are of other runs, and E has at most the one call of v's run.
Left(H, W, v, run, g, D, E) ==
    /\ \A c \in D : c.viewer = v => run = "none" \/ c.generation # g
    /\ E = {} \/ (run = "called" /\ \E x : E = {x} /\ Fits(H, W, x) /\ x.viewer = v
                                        /\ x.generation = g)

\* A source of which only the calls of another run are left, and one new call
LEMMA RunKeeps ==
    ASSUME NEW H, NEW V, NEW C, Views(H, V, C), NEW v \in Viewer,
           NEW W, NEW run, NEW g, NEW S, Changed(V, W, v, run, g, S),
           Past(H, S), g >= V[v].generation,
           NEW D \in SUBSET C, NEW E, Left(H, W, v, run, g, D, E)
    PROVE  Views(H, W, D \cup E)
  <1>0. /\ W \in [Viewer -> Source] /\ \A w \in Viewer \ {v} : W[w] = V[w]
        /\ W[v].run = run /\ W[v].generation = g /\ W[v].snapshot = S
    BY DEF Changed
  <1>6. /\ \A c \in D : c.viewer = v => run = "none" \/ c.generation # g
        /\ E = {} \/ (run = "called" /\ \E x : E = {x} /\ Fits(H, W, x) /\ x.viewer = v
                                            /\ x.generation = g)
    BY DEF Left
  <1>1. ASSUME NEW c \in D
        PROVE  Fits(H, W, c)
    <2>1. Fits(H, V, c) /\ c.viewer \in Viewer /\ c.generation <= V[c.viewer].generation
          /\ c.generation \in Nat
      BY CallFacts, CallsAre DEF Fits
    <2>2. CASE c.viewer # v
      BY <1>0, <2>1, <2>2, FitsApart
    <2>3. CASE c.viewer = v
      <3>1. ~Live(W, c)
        BY <1>0, <1>6, <2>3 DEF Live
      <3>2. V[v].generation \in Nat /\ W[v].generation \in Nat
        BY <1>0 DEF Views, Source
      <3>3. c.generation <= W[c.viewer].generation
        BY <1>0, <2>1, <2>3, <3>2
      <3>4. QED
        BY <2>1, <3>1, <3>3, FitsLate
    <2>4. QED
      BY <2>2, <2>3
  <1>2. \A c \in D \cup E : Fits(H, W, c)
    BY <1>1, <1>6
  <1>3. \A w \in Viewer : Past(H, W[w].snapshot)
    BY <1>0 DEF Views
  <1>4. Single(W, D \cup E)
    <2>1. ASSUME NEW w \in Viewer, W[w].run = "retrying", NEW c \in D \cup E,
                 c.viewer = w, c.generation = W[w].generation
          PROVE  FALSE
      <3>1. CASE w = v
        BY <1>0, <1>6, <2>1, <3>1
      <3>2. CASE w # v
        <4>1. c \in C /\ W[w] = V[w]
          BY <1>0, <1>6, <2>1, <3>2
        <4>2. QED
          BY <2>1, <4>1 DEF Views, Single
      <3>3. QED
        BY <3>1, <3>2
    <2>2. ASSUME NEW c \in D \cup E, NEW d \in D \cup E,
                 c.viewer = d.viewer, c.generation = d.generation
          PROVE  c = d
      <3>1. CASE c \in D /\ d \in D
        BY <1>0, <1>6, <2>2, <3>1 DEF Views, Single
      <3>2. CASE c \in E /\ d \in E
        BY <1>6, <3>2
      <3>3. CASE c \in E /\ d \in D
        BY <1>0, <1>6, <2>2, <3>3
      <3>4. CASE c \in D /\ d \in E
        BY <1>0, <1>6, <2>2, <3>4
      <3>5. QED
        BY <3>1, <3>2, <3>3, <3>4
    <2>3. QED
      BY <2>1, <2>2 DEF Single
  <1>5. QED
    BY <1>0, <1>2, <1>3, <1>4 DEF Views

\* A run's end
LEMMA RunEnds ==
    ASSUME NEW H, NEW V, NEW C, Views(H, V, C), NEW v \in Viewer,
           NEW W, NEW run, NEW g, g = V[v].generation, NEW S, Changed(V, W, v, run, g, S),
           Past(H, S),
           NEW D \in SUBSET C, Left(H, W, v, run, g, D, {})
    PROVE  Views(H, W, D)
  <1>1. g \in Nat
    BY DEF Views, Source
  <1>2. g >= V[v].generation
    BY <1>1
  <1> DEFINE E == {}
  <1>0. Left(H, W, v, run, g, D, E)
    OBVIOUS
  <1> HIDE DEF E
  <1>3. Views(H, W, D \cup E)
    BY <1>0, <1>2, RunKeeps
  <1>4. D \cup E = D
    BY DEF E
  <1>5. QED
    BY <1>3, <1>4

\* A run's next call
LEMMA RunGoesOn ==
    ASSUME NEW H, NEW V, NEW C, Views(H, V, C), NEW v \in Viewer,
           NEW W, NEW g, NEW S, Changed(V, W, v, "called", g, S),
           Past(H, S), g >= V[v].generation,
           NEW D \in SUBSET C,
           \A c \in D : c.viewer = v => c.generation # g,
           NEW x, Fits(H, W, x), x.viewer = v, x.generation = g
    PROVE  Views(H, W, D \cup {x})
  <1> DEFINE E == {x}
             run == "called"
  <1>1. Left(H, W, v, run, g, D, E) /\ Changed(V, W, v, run, g, S)
    BY DEF Left
  <1> HIDE DEF E, run
  <1>3. Views(H, W, D \cup E)
    BY <1>1, RunKeeps
  <1>4. QED
    BY <1>3 DEF E


\* A stop, or a retry's end or begin
LEMMA RunIs ==
    ASSUME NEW V \in [Viewer -> Source], NEW v \in Viewer, NEW run \in {"none", "called", "retrying"}
    PROVE  Changed(V, [V EXCEPT ![v].run = run], v, run, V[v].generation, V[v].snapshot)
  <1> DEFINE y == V[v]
             z == [y EXCEPT !.run = run]
             W == [V EXCEPT ![v] = z]
  <1>1. y \in Source /\ [V EXCEPT ![v].run = run] = W
    OBVIOUS
  <1> HIDE DEF y
  <1>2. z \in Source /\ z.run = run /\ z.generation = y.generation /\ z.snapshot = y.snapshot
    BY <1>1 DEF Source
  <1> HIDE DEF z
  <1>3. Changed(V, W, v, run, y.generation, y.snapshot)
    BY <1>2 DEF Changed
  <1>4. QED
    BY <1>1, <1>3 DEF y

\* A start
LEMMA StartIs ==
    ASSUME NEW V \in [Viewer -> Source], NEW v \in Viewer, NEW g \in Nat
    PROVE  Changed(V, [V EXCEPT ![v].run = "called", ![v].generation = g], v, "called", g,
                   V[v].snapshot)
  <1> DEFINE y == V[v]
             x == [y EXCEPT !.run = "called"]
             z == [x EXCEPT !.generation = g]
             U == [V EXCEPT ![v] = x]
             W == [V EXCEPT ![v] = z]
  <1>1. y \in Source /\ [V EXCEPT ![v].run = "called", ![v].generation = g] = W
    <2>1. U[v] = x /\ [V EXCEPT ![v].run = "called", ![v].generation = g]
                      = [U EXCEPT ![v] = [U[v] EXCEPT !.generation = g]]
      OBVIOUS
    <2>2. [U EXCEPT ![v] = z] = W
      OBVIOUS
    <2>3. QED
      BY <2>1, <2>2
  <1> HIDE DEF y
  <1>2. x \in Source /\ x.run = "called" /\ x.snapshot = y.snapshot
    BY <1>1 DEF Source
  <1> HIDE DEF x
  <1>3. z \in Source /\ z.run = "called" /\ z.generation = g /\ z.snapshot = y.snapshot
    BY <1>2 DEF Source
  <1> HIDE DEF z
  <1>4. Changed(V, W, v, "called", g, y.snapshot)
    BY <1>3 DEF Changed
  <1>5. QED
    BY <1>1, <1>4 DEF y

\* Something else shown
LEMMA ShownIs ==
    ASSUME NEW V \in [Viewer -> Source], NEW v \in Viewer, NEW S \in Shot
    PROVE  Changed(V, [V EXCEPT ![v].snapshot = S], v, V[v].run, V[v].generation, S)
  <1> DEFINE y == V[v]
             z == [y EXCEPT !.snapshot = S]
             W == [V EXCEPT ![v] = z]
  <1>1. y \in Source /\ [V EXCEPT ![v].snapshot = S] = W
    OBVIOUS
  <1> HIDE DEF y
  <1>2. z \in Source /\ z.run = y.run /\ z.generation = y.generation /\ z.snapshot = S
    BY <1>1 DEF Source
  <1> HIDE DEF z
  <1>3. Changed(V, W, v, y.run, y.generation, S)
    BY <1>2 DEF Changed
  <1>4. QED
    BY <1>1, <1>3 DEF y

\* Nothing shown
LEMMA NothingIs ==
    Nothing \in Shot /\ \A H : Past(H, Nothing)
  BY DEF Nothing, Shot, Past

\* What the invariant says of a source
LEMMA SourceFacts ==
    ASSUME DashboardInv, NEW v \in Viewer
    PROVE  /\ viewer \in [Viewer -> Source]
           /\ viewer[v].run \in {"none", "called", "retrying"}
           /\ viewer[v].generation \in Nat /\ viewer[v].snapshot \in Shot
           /\ Past(host, viewer[v].snapshot)
  BY DEF DashboardInv, Views, Source

\* start
LEMMA SubscribeKeeps ==
    ASSUME DashboardInv, NEW v \in Viewer, Subscribe(v)
    PROVE  DashboardInv'
  <1> DEFINE g == viewer[v].generation + 1
             S == viewer[v].snapshot
             x == Call(v, g, "snapshot", 0)
             W == viewer'
  <1>1. /\ W = [viewer EXCEPT ![v].run = "called", ![v].generation = g]
        /\ calls' = calls \cup {x} /\ host' = host
    BY DEF Subscribe
  <1>2. /\ viewer \in [Viewer -> Source] /\ viewer[v].generation \in Nat /\ S \in Shot
        /\ Past(host, S) /\ g \in Nat /\ g > viewer[v].generation
    BY SourceFacts
  <1> HIDE DEF g, S, W
  <1>3. Changed(viewer, W, v, "called", g, S)
    <2>1. Changed(viewer, [viewer EXCEPT ![v].run = "called", ![v].generation = g], v, "called", g, S)
      BY <1>2, StartIs DEF S
    <2>2. QED
      BY <1>1, <2>1
  <1>4. /\ x \in Asked /\ x.viewer = v /\ x.generation = g
        /\ x.kind = "snapshot" /\ x.at = "sent"
    BY <1>2, CallIs DEF Kind
  <1> HIDE DEF x
  <1>5. Fits(host, W, x)
    BY <1>2, <1>3, <1>4 DEF Fits, Changed
  <1>6. \A c \in calls : c.viewer = v => c.generation # g
    <2>1. ASSUME NEW c \in calls, c.viewer = v
          PROVE  c.generation # g
      <3>1. c.generation \in Nat /\ c.generation <= viewer[v].generation
        BY <2>1, CallFacts, CallsAre DEF DashboardInv, Fits
      <3>2. QED
        BY <1>2, <3>1
    <2>2. QED
      BY <2>1
  <1>7. g >= viewer[v].generation /\ Views(host, viewer, calls)
    BY <1>2 DEF DashboardInv
  <1>8. Views(host, W, calls \cup {x})
    BY <1>2, <1>3, <1>4, <1>5, <1>6, <1>7, RunGoesOn
  <1>9. QED
    BY <1>1, <1>8 DEF DashboardInv, W

\* stop
LEMMA UnsubscribeKeeps ==
    ASSUME DashboardInv, NEW v \in Viewer, Unsubscribe(v)
    PROVE  DashboardInv'
  <1> DEFINE g == viewer[v].generation
             S == viewer[v].snapshot
             W == viewer'
  <1>1. W = [viewer EXCEPT ![v].run = "none"] /\ calls' = calls /\ host' = host
    BY DEF Unsubscribe
  <1>2. viewer \in [Viewer -> Source] /\ g \in Nat /\ S \in Shot /\ Past(host, S)
    BY SourceFacts
  <1> HIDE DEF W
  <1>3. Changed(viewer, [viewer EXCEPT ![v].run = "none"], v, "none", g, S)
    BY <1>2, RunIs
  <1>4. Changed(viewer, W, v, "none", g, S) /\ Views(host, viewer, calls)
    BY <1>1, <1>3 DEF DashboardInv
  <1>7. Left(host, W, v, "none", g, calls, {})
    BY DEF Left
  <1> HIDE DEF g
  <1>5. Views(host, W, calls)
    BY <1>2, <1>4, <1>7, RunEnds DEF g
  <1>6. QED
    BY <1>1, <1>5 DEF DashboardInv, W

\* evictIdle
LEMMA EvictIdleKeeps ==
    ASSUME DashboardInv, NEW v \in Viewer, EvictIdle(v)
    PROVE  DashboardInv'
  <1> DEFINE g == viewer[v].generation
             W == viewer'
  <1>1. /\ W = [viewer EXCEPT ![v].snapshot = Nothing] /\ calls' = calls /\ host' = host
        /\ viewer[v].run = "none"
    BY DEF EvictIdle
  <1>2. viewer \in [Viewer -> Source] /\ g \in Nat /\ Nothing \in Shot /\ Past(host, Nothing)
    BY SourceFacts, NothingIs
  <1> HIDE DEF W
  <1>3. Changed(viewer, [viewer EXCEPT ![v].snapshot = Nothing], v, viewer[v].run, g, Nothing)
    BY <1>2, ShownIs
  <1>4. Changed(viewer, W, v, "none", g, Nothing) /\ Views(host, viewer, calls)
    BY <1>1, <1>3 DEF DashboardInv
  <1>7. Left(host, W, v, "none", g, calls, {})
    BY DEF Left
  <1> HIDE DEF g
  <1>5. Views(host, W, calls)
    BY <1>2, <1>4, <1>7, RunEnds DEF g
  <1>6. QED
    BY <1>1, <1>5 DEF DashboardInv, W

\* waitToRetry's timer
LEMMA RetryKeeps ==
    ASSUME DashboardInv, NEW v \in Viewer, Retry(v)
    PROVE  DashboardInv'
  <1> DEFINE g == viewer[v].generation
             S == viewer[v].snapshot
             x == Call(v, g, "snapshot", 0)
             W == viewer'
  <1>1. /\ W = [viewer EXCEPT ![v].run = "called"]
        /\ calls' = calls \cup {x} /\ host' = host /\ viewer[v].run = "retrying"
    BY DEF Retry
  <1>2. viewer \in [Viewer -> Source] /\ g \in Nat /\ S \in Shot /\ Past(host, S)
    BY SourceFacts
  <1> HIDE DEF W
  <1>3. Changed(viewer, W, v, "called", g, S)
    <2>1. Changed(viewer, [viewer EXCEPT ![v].run = "called"], v, "called", g, S)
      BY <1>2, RunIs
    <2>2. QED
      BY <1>1, <2>1
  <1>4. /\ x \in Asked /\ x.viewer = v /\ x.generation = g
        /\ x.kind = "snapshot" /\ x.at = "sent"
    BY <1>2, CallIs DEF Kind
  <1> HIDE DEF x
  <1>0. g >= g
    BY <1>2
  <1>5. Fits(host, W, x)
    BY <1>0, <1>2, <1>3, <1>4 DEF Fits, Changed
  <1>6. \A c \in calls : c.viewer = v => c.generation # g
    BY <1>1 DEF DashboardInv, Views, Single
  <1>7. Views(host, viewer, calls)
    BY DEF DashboardInv
  <1>8. Views(host, W, calls \cup {x})
    BY <1>0, <1>2, <1>3, <1>4, <1>5, <1>6, <1>7, RunGoesOn
  <1>9. QED
    BY <1>1, <1>8 DEF DashboardInv, W

\* What a source of this run does with an answer
LEMMA AcceptedIs ==
    ASSUME DashboardInv, NEW c \in calls, Active(c), c.at = "answered"
    PROVE  LET v == c.viewer
               S == Accepted(v, c).snapshot
           IN  /\ v \in Viewer /\ S \in Shot /\ Past(host, S)
               /\ Since(viewer[v].snapshot, S)
               /\ viewer[v].run = "called"
               /\ \A W \in [Viewer -> Source] :
                     /\ W[v].snapshot = S /\ W[v].generation = viewer[v].generation
                     /\ W[v].run # "none"
                     => Fits(host, W, Accepted(v, c).next)
               /\ Accepted(v, c).next.viewer = v
               /\ Accepted(v, c).next.generation = c.generation
               /\ c.generation = viewer[v].generation
               /\ \A d \in calls \ {c} : d.viewer = v => d.generation # c.generation
  <1> DEFINE v == c.viewer
             s == SessionOf[v]
             shown == viewer[v].snapshot
             T == c.snapshot
             A == Accepted(v, c)
             S == A.snapshot
             g == c.generation
  <1>1. /\ Fits(host, viewer, c) /\ c \in Asked \cup Replied \cup Lost
        /\ v \in Viewer /\ s \in Session /\ shown \in Shot /\ Past(host, shown)
    BY CallFacts DEF DashboardInv
  <1>2. c \in Replied /\ T \in Shot /\ g \in Nat /\ c.kind \in Kind
    BY <1>1, CallsAre
  <1>3. Live(viewer, c) /\ g = viewer[v].generation /\ viewer[v].run # "none"
    BY DEF Active, Live
  <1>4. /\ Cached(host, T, s) /\ Past(host, T) /\ Since(shown, T)
        /\ c.kind = "watch" => Cached(host, shown, s)
    BY <1>1, <1>3 DEF Fits
  <1>5. viewer[v].run = "called" /\ \A d \in calls \ {c} : d.viewer = v => d.generation # g
    <2>1. Single(viewer, calls) /\ viewer \in [Viewer -> Source]
      BY DEF DashboardInv, Views
    <2>2. viewer[v].run \in {"none", "called", "retrying"}
      BY <1>1, <2>1 DEF Source
    <2>3. QED
      BY <1>1, <1>3, <2>1, <2>2 DEF Single
  <1>6. Since(shown, shown)
    BY <1>1 DEF Past, Since, Shot, Row
  <1>7. \/ c.kind = "watch" /\ A = [snapshot |-> shown, next |-> Call(v, g, "snapshot", 0)]
        \/ \E Z \in {shown, T} : /\ Z = T \/ c.kind = "watch"
                                 /\ A = [snapshot |-> Z, next |-> Call(v, g, "watch", Z.revision)]
    <2>1. CASE c.kind = "watch" /\ c.snapshot.revision < shown.revision
      BY <2>1 DEF Accepted
    <2>2. CASE ~(c.kind = "watch" /\ c.snapshot.revision < shown.revision)
      <3> DEFINE Z == IF c.kind = "snapshot" \/ c.snapshot.revision > shown.revision THEN T ELSE shown
      <3>1. A = [snapshot |-> Z, next |-> Call(v, g, "watch", Z.revision)]
        BY <2>2 DEF Accepted
      <3>2. Z \in {shown, T} /\ (Z = T \/ c.kind = "watch")
        BY <1>2 DEF Kind
      <3> HIDE DEF Z, A
      <3>3. QED
        BY <3>1, <3>2
    <2>3. QED
      BY <2>1, <2>2
  <1> HIDE DEF A
  <1>8. S \in Shot /\ Past(host, S) /\ Since(shown, S)
    BY <1>1, <1>2, <1>4, <1>6, <1>7
  <1>9. A.next.viewer = v /\ A.next.generation = g
    BY <1>7 DEF Call
  <1>10. ASSUME NEW W \in [Viewer -> Source], W[v].snapshot = S, W[v].generation = viewer[v].generation
         PROVE  Fits(host, W, A.next)
    <2>1. CASE c.kind = "watch" /\ A = [snapshot |-> shown, next |-> Call(v, g, "snapshot", 0)]
      <3> DEFINE x == Call(v, g, "snapshot", 0)
      <3>1. /\ x \in Asked /\ x.viewer = v /\ x.generation = g
            /\ x.kind = "snapshot" /\ x.at = "sent"
        BY <1>1, <1>2, CallIs DEF Kind
      <3>2. A.next = x
        BY <2>1
      <3> HIDE DEF x
      <3>3. QED
        BY <1>2, <1>3, <1>10, <3>1, <3>2 DEF Fits
    <2>2. CASE \E Z \in {shown, T} : /\ Z = T \/ c.kind = "watch"
                                     /\ A = [snapshot |-> Z, next |-> Call(v, g, "watch", Z.revision)]
      <3>1. PICK Z \in {shown, T} : /\ Z = T \/ c.kind = "watch"
                                    /\ A = [snapshot |-> Z, next |-> Call(v, g, "watch", Z.revision)]
        BY <2>2
      <3> DEFINE r == Z.revision
                 x == Call(v, g, "watch", r)
      <3>2. Z \in Shot /\ r \in Nat /\ Cached(host, Z, s)
        BY <1>1, <1>2, <1>4, <3>1 DEF Shot
      <3> HIDE DEF r
      <3>3. /\ x \in Asked /\ x.viewer = v /\ x.generation = g
            /\ x.kind = "watch" /\ x.at = "sent" /\ x.after = r
        BY <1>1, <1>2, <3>2, CallIs DEF Kind
      <3>4. A.next = x /\ S = Z
        BY <3>1 DEF r
      <3> HIDE DEF x
      <3>5. QED
        BY <1>2, <1>3, <1>10, <3>2, <3>3, <3>4 DEF Fits, r
    <2>3. QED
      BY <1>7, <2>1, <2>2
  <1>11. QED
    BY <1>1, <1>3, <1>5, <1>8, <1>9, <1>10 DEF A

\* A call returns to `run'.
LEMMA ReceiveKeeps ==
    ASSUME DashboardInv, NEW v \in Viewer, Receive(v)
    PROVE  /\ DashboardInv'
           /\ \A w \in Viewer :
                 viewer'[w].snapshot = viewer[w].snapshot
                 \/ Since(viewer[w].snapshot, viewer'[w].snapshot)
  <1>1. PICK c \in {d \in CallsOf(v) : d.at \in {"answered", "failed"}} :
          \/ /\ ~Active(c)
             /\ calls' = calls \ {c} /\ UNCHANGED viewer
          \/ /\ Active(c) /\ c.at = "failed"
             /\ calls' = calls \ {c}
             /\ viewer' = [viewer EXCEPT ![v].run = "retrying"]
          \/ /\ Active(c) /\ c.at = "answered"
             /\ calls' = (calls \ {c}) \cup {Accepted(v, c).next}
             /\ viewer' = [viewer EXCEPT ![v].snapshot = Accepted(v, c).snapshot]
    BY DEF Receive
  <1>2. host' = host
    BY DEF Receive
  <1>3. c \in calls /\ c.viewer = v
    BY DEF CallsOf
  <1> DEFINE D == calls \ {c}
             g == viewer[v].generation
             W == viewer'
  <1>4. /\ viewer \in [Viewer -> Source] /\ g \in Nat /\ viewer[v].snapshot \in Shot
        /\ Past(host, viewer[v].snapshot) /\ D \in SUBSET calls
        /\ viewer[v].run \in {"none", "called", "retrying"}
    BY SourceFacts
  <1>5. Views(host, viewer, calls) /\ Trees(host) /\ Numbers(host)
    BY DEF DashboardInv
  <1>6. CASE ~Active(c) /\ calls' = D /\ viewer' = viewer
    <2>1. Views(host, viewer, D)
      BY ONLY <1>4, <1>5, FewerKeep
    <2>2. QED
      BY <1>2, <1>5, <1>6, <2>1 DEF DashboardInv
  <1>7. CASE Active(c) /\ c.at = "failed" /\ calls' = D
             /\ viewer' = [viewer EXCEPT ![v].run = "retrying"]
    <2> DEFINE S == viewer[v].snapshot
    <2> HIDE DEF W
    <2>0. W = [viewer EXCEPT ![v].run = "retrying"]
      BY <1>7 DEF W
    <2>1. Changed(viewer, [viewer EXCEPT ![v].run = "retrying"], v, "retrying", g, S)
      BY <1>4, RunIs
    <2>2. \A d \in D : d.viewer = v => d.generation # g
      <3>1. c.generation = g
        BY <1>3, <1>7 DEF Active
      <3>2. QED
        BY <1>3, <1>5, <3>1 DEF Views, Single
    <2>3. Changed(viewer, W, v, "retrying", g, S)
      BY <2>0, <2>1
    <2>8. Left(host, W, v, "retrying", g, D, {})
      BY <2>2 DEF Left
    <2>4. Views(host, W, D)
      BY <1>4, <1>5, <2>3, <2>8, RunEnds
    <2>6. \A w \in Viewer : W[w].snapshot = viewer[w].snapshot
      BY <2>3 DEF Changed
    <2>7. QED
      BY <1>2, <1>5, <1>7, <2>4, <2>6 DEF DashboardInv, W
  <1>8. CASE Active(c) /\ c.at = "answered"
             /\ calls' = D \cup {Accepted(v, c).next}
             /\ viewer' = [viewer EXCEPT ![v].snapshot = Accepted(v, c).snapshot]
    <2> DEFINE S == Accepted(v, c).snapshot
               x == Accepted(v, c).next
    <2>1. /\ S \in Shot /\ Past(host, S)
          /\ Since(viewer[v].snapshot, S)
          /\ viewer[v].run = "called"
          /\ \A U \in [Viewer -> Source] :
                /\ U[v].snapshot = S /\ U[v].generation = viewer[v].generation
                /\ U[v].run # "none"
                => Fits(host, U, x)
          /\ x.viewer = v /\ x.generation = c.generation /\ c.generation = viewer[v].generation
          /\ \A d \in calls \ {c} : d.viewer = v => d.generation # c.generation
      BY <1>3, <1>8, AcceptedIs
    <2> HIDE DEF S, x, W
    <2>2. W = [viewer EXCEPT ![v].snapshot = S]
      BY <1>8 DEF W, S
    <2>3. Changed(viewer, [viewer EXCEPT ![v].snapshot = S], v, viewer[v].run, g, S)
      BY <1>4, <2>1, ShownIs
    <2>4. Changed(viewer, W, v, "called", g, S)
      BY <2>1, <2>2, <2>3
    <2>5. Fits(host, W, x)
      BY <2>1, <2>4 DEF Changed
    <2>6. g >= viewer[v].generation /\ \A d \in D : d.viewer = v => d.generation # g
      BY <1>4, <2>1
    <2>7. Views(host, W, D \cup {x})
      BY <1>4, <1>5, <2>1, <2>4, <2>5, <2>6, RunGoesOn
    <2>8. \A w \in Viewer : \/ W[w].snapshot = viewer[w].snapshot
                           \/ Since(viewer[w].snapshot, W[w].snapshot)
      BY <2>1, <2>4 DEF Changed
    <2>9. QED
      BY <1>2, <1>5, <1>8, <2>7, <2>8 DEF DashboardInv, W, x
  <1>9. QED
    BY <1>1, <1>6, <1>7, <1>8

-----------------------------------------------------------------------------
(* The environment keeps the invariant.                                    *)

\* Whatever calls fail, if what a source shows is still of the host's past
LEMMA FailuresKeep ==
    ASSUME NEW H, NEW K, NEW V, NEW C, Views(H, V, C), NEW B \in SUBSET C,
           \A v \in Viewer : Past(H, V[v].snapshot) => Past(K, V[v].snapshot),
           K = H \/ B = C
    PROVE  Views(K, V, {IF c \in B THEN Refused(c) ELSE c : c \in C})
  <1> DEFINE f == [c \in C |-> IF c \in B THEN Refused(c) ELSE c]
             D == {IF c \in B THEN Refused(c) ELSE c : c \in C}
  <1>1. ASSUME NEW c \in C
        PROVE  Fits(K, V, f[c]) /\ f[c].viewer = c.viewer /\ f[c].generation = c.generation
    <2>1. Fits(H, V, c)
      BY DEF Views
    <2>2. CASE c \in B
      <3>1. f[c] = Refused(c)
        BY <2>2
      <3> HIDE DEF f
      <3>2. QED
        BY <2>1, <3>1, FailureFits
    <2>3. CASE c \notin B
      <3>1. f[c] = c /\ K = H
        BY <2>3
      <3> HIDE DEF f
      <3>2. QED
        BY <2>1, <3>1
    <2>4. QED
      BY <2>2, <2>3
  <1>2. \A x \in D : \E c \in C : x = f[c]
    OBVIOUS
  <1> HIDE DEF f, D
  <1>3. Single(V, D)
    BY <1>1, <1>2, SingleOn DEF Views
  <1>4. \A x \in D : Fits(K, V, x)
    BY <1>1, <1>2
  <1>5. QED
    BY <1>3, <1>4 DEF Views, D

\* A connection is lost.
LEMMA DisconnectKeeps ==
    ASSUME DashboardInv, NEW v \in Viewer, Disconnect(v)
    PROVE  DashboardInv'
  <1> DEFINE B == {c \in calls : c.viewer = v}
  <1>1. calls' = {IF c.viewer = v THEN Refused(c) ELSE c : c \in calls}
        /\ host' = host /\ viewer' = viewer
    BY DEF Disconnect
  <1>2. calls' = {IF c \in B THEN Refused(c) ELSE c : c \in calls}
    BY <1>1
  <1>3. B \in SUBSET calls
    OBVIOUS
  <1> HIDE DEF B
  <1>4. Views(host, viewer, {IF c \in B THEN Refused(c) ELSE c : c \in calls})
    BY <1>3, FailuresKeep DEF DashboardInv
  <1>5. QED
    BY <1>1, <1>2, <1>4 DEF DashboardInv

\* A telemetry without tasks has whole trees.
LEMMA EmptyTrees ==
    ASSUME NEW K \in Telemetry, Kept(K) = {}, Stands(K) = {},
           \A t \in Born(K), u \in TaskId : u < t => u \in Born(K),
           \A t \in TaskId : \A p \in Parents(K, t) :
              p \in Born(K) /\ p < t /\ K.task[p].session = K.task[t].session
    PROVE  Trees(K)
  <1>1. Runs(K) = {} /\ Ends(K) = {}
    BY DEF Runs, Ends, Stands
  <1>2. Stages(K)
    BY <1>1 DEF Stages
  <1>3. Family(K)
    BY <1>1 DEF Family, Follows
  <1>4. Whole(K)
    BY <1>1 DEF Whole, Roots
  <1>5. QED
    BY <1>2, <1>3, <1>4 DEF Trees, Ordered

\* A new process has no tasks, and remembers that there were some.
LEMMA RestartKeeps ==
    ASSUME DashboardInv, Restart
    PROVE  DashboardInv'
  <1> DEFINE F == [t \in TaskId |-> IF host.task[t].status = "unborn" THEN Unborn
                                    ELSE [host.task[t] EXCEPT !.status = "gone", !.kept = FALSE]]
             R == [s \in Session |-> 0]
             n == host.now
             K == [now |-> n, task |-> F, revision |-> R, cursor |-> 0, ended |-> 0,
                   pruneAt |-> Never]
  <1>1. host' = K /\ calls' = {Refused(c) : c \in calls} /\ viewer' = viewer
    BY DEF Restart, NewState
  <1>2. Trees(host) /\ Ordered(host) /\ host \in Telemetry /\ n \in Nat
    BY DEF DashboardInv, Trees, Ordered, Telemetry
  <1>3. ASSUME NEW t \in TaskId
        PROVE  /\ F[t] \in Task \cup NoTask /\ F[t].kept = FALSE
               /\ t \notin Born(host) => F[t].status = "unborn"
               /\ t \in Born(host) =>
                     /\ F[t].status = "gone" /\ F[t].session = host.task[t].session
                     /\ F[t].parent = host.task[t].parent /\ F[t].version = host.task[t].version
    <2>1. CASE t \notin Born(host)
      <3>1. F[t] = Unborn
        BY <2>1 DEF Born
      <3> HIDE DEF F
      <3>2. QED
        BY <2>1, <3>1 DEF Unborn, NoTask
    <2>2. CASE t \in Born(host)
      <3> DEFINE y == host.task[t]
                 a == [y EXCEPT !.status = "gone"]
                 b == [a EXCEPT !.kept = FALSE]
      <3>1. F[t] = b
        BY <2>2 DEF Born
      <3>2. y \in Task
        BY <1>2, <2>2 DEF Telemetry, NoTask, Born
      <3> HIDE DEF F, y
      <3>3. a \in Task /\ a.status = "gone" /\ a.session = y.session /\ a.parent = y.parent
            /\ a.version = y.version
        BY <3>2 DEF Task
      <3> HIDE DEF a
      <3>4. b \in Task /\ b.status = "gone" /\ b.session = y.session /\ b.parent = y.parent
            /\ b.version = y.version /\ b.kept = FALSE
        BY <3>3 DEF Task
      <3> HIDE DEF b
      <3>5. QED
        BY <2>2, <3>1, <3>4 DEF y
    <2>3. QED
      BY <2>1, <2>2
  <1>4. F \in [TaskId -> Task \cup NoTask]
    BY <1>3
  <1>5. R \in [Session -> Nat] /\ \A s \in Session : R[s] = 0
    OBVIOUS
  <1> HIDE DEF F, R, n
  <1>6. /\ K \in Telemetry /\ K.task = F /\ K.cursor = 0 /\ K.revision = R
    BY <1>2, <1>4, <1>5 DEF Telemetry, Never
  <1> HIDE DEF K
  <1>7. Born(K) = Born(host) /\ Kept(K) = {} /\ Stands(K) = {} /\ Runs(K) = {}
    BY <1>3, <1>6 DEF Born, Kept, Stands, Runs
  <1>8. \A t \in Born(host) : t \in TaskId /\ K.task[t].version >= host.task[t].version
    <2>1. \A t \in Born(host) : t \in TaskId /\ host.task[t].version \in Nat
      BY <1>2, Versions
    <2>2. \A t \in Born(host) : K.task[t].version = host.task[t].version
      BY <1>3, <1>6, <2>1
    <2>3. QED
      BY <2>1, <2>2
  <1>9. Trees(K)
    <2>1. \A t \in TaskId : Parents(K, t) = Parents(host, t)
      BY <1>3, <1>6, <1>7 DEF Parents
    <2>2. ASSUME NEW t \in TaskId, NEW p \in Parents(K, t)
          PROVE  p \in Born(K) /\ p < t /\ K.task[p].session = K.task[t].session
      <3>1. Follows(host, t, p) /\ t \in Born(host)
        BY <1>2, <2>1 DEF Ordered, Family, Parents
      <3>2. p \in Born(host) /\ p < t /\ host.task[p].session = host.task[t].session
        BY <3>1 DEF Follows
      <3>3. QED
        BY <1>3, <1>6, <1>7, <1>8, <3>1, <3>2
    <2>3. \A t \in Born(K), u \in TaskId : u < t => u \in Born(K)
      BY <1>2, <1>7 DEF Ordered, Stages
    <2>4. QED
      BY <1>6, <1>7, <2>2, <2>3, EmptyTrees
  <1>10. Numbers(K)
    BY <1>5, <1>6, <1>7 DEF Numbers, Of
  <1>11. Onward(host, K) /\ Ordered(K)
    BY <1>7, <1>8, <1>9 DEF Onward, Trees
  <1>12. \A v \in Viewer : Past(host, viewer[v].snapshot) => Past(K, viewer[v].snapshot)
    BY <1>2, <1>11, SourceFacts, PastOn
  <1>13. Views(K, viewer, {IF c \in calls THEN Refused(c) ELSE c : c \in calls})
    BY <1>12, FailuresKeep DEF DashboardInv
  <1>14. {IF c \in calls THEN Refused(c) ELSE c : c \in calls} = {Refused(c) : c \in calls}
    OBVIOUS
  <1>15. QED
    BY <1>1, <1>9, <1>10, <1>13, <1>14 DEF DashboardInv

\* Time passes.
LEMMA TickKeeps ==
    ASSUME DashboardInv, Tick
    PROVE  DashboardInv'
  <1> DEFINE n == host.now + 1
             K == [host EXCEPT !.now = n]
  <1>1. host' = K /\ viewer' = viewer /\ calls' = calls
    BY DEF Tick
  <1>2. /\ Trees(host) /\ Ordered(host) /\ host \in Telemetry /\ n \in Nat /\ n >= host.now
        /\ host.ended \in Nat /\ Numbers(host) /\ Views(host, viewer, calls)
    BY DEF DashboardInv, Trees, Ordered, Telemetry
  <1> HIDE DEF n
  <1>3. /\ K \in Telemetry /\ K.task = host.task /\ K.cursor = host.cursor /\ K.now = n
        /\ K.revision = host.revision /\ K.ended = host.ended
    BY <1>2 DEF Telemetry
  <1> HIDE DEF K
  <1>4. Alike(host, K)
    BY <1>2, <1>3 DEF Alike
  <1>5. Trees(K)
    BY <1>2, <1>4, AlikeKeepsTrees
  <1>6. /\ Born(K) = Born(host) /\ Runs(K) = Runs(host)
        /\ \A s : Of(K, s) = Of(host, s) /\ Rows(K, s) = Rows(host, s)
    BY <1>3, SameTask
  <1>7. Numbers(K)
    BY <1>2, <1>3, <1>6 DEF Numbers
  <1>8. Keeps(host, K)
    BY <1>3, <1>6 DEF Keeps, Cached, Past
  <1>9. \A v \in Viewer : Past(K, viewer[v].snapshot)
    BY <1>8, SourceFacts DEF Keeps
  <1>10. \A c \in calls : Fits(K, viewer, c)
    BY <1>2, <1>3, <1>8, FitsOn DEF Views
  <1>11. Views(K, viewer, calls)
    BY <1>2, <1>9, <1>10 DEF Views
  <1>12. QED
    BY <1>1, <1>5, <1>7, <1>11 DEF DashboardInv

-----------------------------------------------------------------------------
(* The theorems.                                                           *)

\* Before anything happened
LEMMA InitDashboardInv == Init => DashboardInv
  <1> SUFFICES ASSUME Init PROVE DashboardInv
    OBVIOUS
  <1> DEFINE F == [t \in TaskId |-> Unborn]
             R == [s \in Session |-> 0]
  <1>1. host = [now |-> 0, task |-> F, revision |-> R, cursor |-> 0, ended |-> 0, pruneAt |-> Never]
    BY DEF Init, NewState
  <1>2. /\ F \in [TaskId -> Task \cup NoTask]
        /\ \A t \in TaskId : F[t].status = "unborn" /\ F[t].kept = FALSE
    BY DEF Unborn, NoTask
  <1>3. R \in [Session -> Nat] /\ \A s \in Session : R[s] = 0
    OBVIOUS
  <1> HIDE DEF F, R
  <1>4. /\ host \in Telemetry /\ host.task = F /\ host.revision = R /\ host.cursor = 0
    BY <1>1, <1>2, <1>3 DEF Telemetry, Never
  <1>5. Born(host) = {} /\ Kept(host) = {} /\ Stands(host) = {}
    BY <1>2, <1>4 DEF Born, Kept, Stands
  <1>6. Trees(host)
    BY <1>4, <1>5, EmptyTrees DEF Parents
  <1>7. Numbers(host)
    BY <1>3, <1>4, <1>5 DEF Numbers, Of
  <1>8. /\ viewer \in [Viewer -> Source]
        /\ \A v \in Viewer : viewer[v].snapshot = Nothing /\ viewer[v].run = "none"
    <2>1. viewer = [v \in Viewer |-> [run |-> "none", generation |-> 0, snapshot |-> Nothing]]
      BY DEF Init
    <2> DEFINE z == [run |-> "none", generation |-> 0, snapshot |-> Nothing]
    <2>2. z \in Source /\ z.snapshot = Nothing /\ z.run = "none"
      BY NothingIs DEF Source
    <2> HIDE DEF z
    <2>3. viewer = [v \in Viewer |-> z]
      BY <2>1 DEF z
    <2>4. QED
      BY <2>2, <2>3
  <1>9. Views(host, viewer, calls)
    BY <1>8, NothingIs DEF Init, Views, Single
  <1>10. QED
    BY <1>6, <1>7, <1>9 DEF DashboardInv

\* Nothing changes.
LEMMA StutterKeeps ==
    ASSUME DashboardInv, UNCHANGED vars
    PROVE  DashboardInv'
  BY DEF DashboardInv, vars

\* Each step keeps the invariant.
LEMMA NextDashboardInv == DashboardInv /\ [Next]_vars => DashboardInv'
  <1> SUFFICES ASSUME DashboardInv, [Next]_vars PROVE DashboardInv'
    OBVIOUS
  <1>1. CASE StartTask \/ UpdateTask \/ FinishTask
    BY <1>1, HostKeeps
  <1>2. ASSUME NEW v \in Viewer, Progress(v)
        PROVE  DashboardInv'
    BY <1>2, ReceiveKeeps, RetryKeeps, AbortKeeps, AnswerSnapshotKeeps, AnswerWatchKeeps,
       WatchTimeoutKeeps DEF Progress
  <1>3. ASSUME NEW v \in Viewer, Subscribe(v) \/ Unsubscribe(v) \/ EvictIdle(v) \/ Disconnect(v)
        PROVE  DashboardInv'
    BY <1>3, SubscribeKeeps, UnsubscribeKeeps, EvictIdleKeeps, DisconnectKeeps
  <1>4. CASE Restart
    BY <1>4, RestartKeeps
  <1>5. CASE Tick
    BY <1>5, TickKeeps
  <1>6. CASE UNCHANGED vars
    BY <1>6, StutterKeeps
  <1>7. QED
    BY <1>1, <1>2, <1>3, <1>4, <1>5, <1>6 DEF Next

\* Telemetry, calls and sources are of their types, and whole, numbered and
\* no further than the host: the inductive invariant of the dashboard.
THEOREM DashboardInvHolds == Spec => []DashboardInv
  <1>1. QED
    BY InitDashboardInv, NextDashboardInv, PTL DEF Spec

\* What is kept of trees
LEMMA WholeTrees == DashboardInv => TreesStayWhole
  <1> SUFFICES ASSUME DashboardInv PROVE TreesStayWhole
    OBVIOUS
  <1>1. Ordered(host) /\ Whole(host)
    BY DEF DashboardInv, Trees
  <1>2. \A t : Below(host, t) =
           {u \in TaskId : host.task[u].status \in {"running", "ended"} /\ t \in Above(host)[u]}
    BY DEF Below, Stands
  <1>3. Ids(host, "running") = Runs(host)
    BY <1>1 DEF Ids, Runs, Kept, Ordered, Stages
  <1>4. Roots(host) = {t \in Ids(host, "ended") : Above(host)[t] = {}}
    BY DEF Roots, Ids, Kept, Ends
  <1>5. ASSUME NEW s \in Session, NEW t \in TopLevel(host, s)
        PROVE  host.task[t].parent = 0
    <2>1. SUFFICES ASSUME host.task[t].parent # 0 PROVE FALSE
      OBVIOUS
    <2> DEFINE p == host.task[t].parent
    <2>2. t \in Kept(host) /\ t \in TaskId /\ host.task[t].session = s /\ p \notin Of(host, s)
      BY DEF TopLevel, Of, Kept
    <2>3. t \in Born(host)
      BY <1>1, <2>2 DEF Ordered, Stages, Stands, Born
    <2>4. p \in Parents(host, t)
      BY <2>1, <2>3 DEF Parents
    <2>5. Follows(host, t, p)
      BY <1>1, <2>2, <2>4 DEF Ordered, Family
    <2>6. p \in Of(host, s)
      BY <2>2, <2>5 DEF Follows, Of
    <2>7. QED
      BY <2>2, <2>6
  <1>6. QED
    BY <1>1, <1>2, <1>3, <1>4, <1>5 DEF TreesStayWhole, Whole

\* Who waits sees the present.
LEMMA SleepersSee == DashboardInv => NobodySleepsOverAChange
  <1> SUFFICES ASSUME DashboardInv, NEW c \in Watches, Active(c)
               PROVE  Shows(c.viewer)
    BY DEF NobodySleepsOverAChange
  <1> DEFINE s == SessionOf[c.viewer]
             S == viewer[c.viewer].snapshot
  <1>1. c \in calls /\ c.at = "waiting" /\ Live(viewer, c)
    BY DEF Watches, Active, Live
  <1>2. Fits(host, viewer, c)
    BY <1>1, CallFacts DEF DashboardInv
  <1>3. /\ c.kind = "watch" /\ c.after = host.revision[s] /\ c.after = S.revision
        /\ Cached(host, S, s)
    BY <1>1, <1>2 DEF Fits
  <1>4. S.tasks = Rows(host, s)
    BY <1>3 DEF Cached
  <1>5. QED
    BY <1>4 DEF Shows, Rows

\* No step takes back what a source shows.
LEMMA StepsGoOn ==
    DashboardInv /\ [Next]_vars =>
        \A v \in Viewer :
            viewer'[v].snapshot = viewer[v].snapshot
            \/ viewer'[v].snapshot.tasks = {}
            \/ Since(viewer[v].snapshot, viewer'[v].snapshot)
  <1> DEFINE On == \A v \in Viewer :
                     viewer'[v].snapshot = viewer[v].snapshot
                     \/ viewer'[v].snapshot.tasks = {}
                     \/ Since(viewer[v].snapshot, viewer'[v].snapshot)
  <1> SUFFICES ASSUME DashboardInv, [Next]_vars PROVE On
    OBVIOUS
  <1>1. CASE viewer' = viewer
    BY <1>1
  <1>2. ASSUME NEW v \in Viewer, Subscribe(v) \/ Unsubscribe(v) \/ Retry(v)
        PROVE  On
    <2>1. /\ viewer \in [Viewer -> Source] /\ viewer[v].generation + 1 \in Nat
          /\ viewer[v].snapshot \in Shot
      BY SourceFacts
    <2>2. \A run \in {"none", "called", "retrying"}, g \in Nat :
             Changed(viewer, viewer', v, run, g, viewer[v].snapshot) => On
      BY DEF Changed
    <2> HIDE DEF On
    <2>3. CASE Subscribe(v)
      <3> DEFINE g == viewer[v].generation + 1
      <3>1. viewer' = [viewer EXCEPT ![v].run = "called", ![v].generation = g] /\ g \in Nat
        BY <2>1, <2>3 DEF Subscribe
      <3> HIDE DEF g
      <3>2. Changed(viewer, viewer', v, "called", g, viewer[v].snapshot)
        BY <2>1, <3>1, StartIs
      <3>3. QED
        BY <2>2, <3>1, <3>2
    <2>4. CASE Unsubscribe(v) \/ Retry(v)
      <3>1. PICK run \in {"none", "called"} : viewer' = [viewer EXCEPT ![v].run = run]
        BY <2>4 DEF Unsubscribe, Retry
      <3>2. Changed(viewer, viewer', v, run, viewer[v].generation, viewer[v].snapshot)
        BY <2>1, <3>1, RunIs
      <3>3. viewer[v].generation \in Nat
        BY SourceFacts
      <3>4. QED
        BY <2>2, <3>2, <3>3
    <2>5. QED
      BY <1>2, <2>3, <2>4
  <1>4. ASSUME NEW v \in Viewer, EvictIdle(v)
        PROVE  On
    <2>1. viewer' = [viewer EXCEPT ![v].snapshot = Nothing]
      BY <1>4 DEF EvictIdle
    <2>2. Changed(viewer, viewer', v, viewer[v].run, viewer[v].generation, Nothing)
      BY <2>1, SourceFacts, NothingIs, ShownIs
    <2>3. Nothing.tasks = {}
      BY DEF Nothing
    <2>4. QED
      BY <2>2, <2>3 DEF Changed
  <1>5. ASSUME NEW v \in Viewer, Receive(v) PROVE On
    BY <1>5, ReceiveKeeps
  <1>6. CASE StartTask \/ UpdateTask \/ FinishTask
    <2>1. viewer' = viewer
      BY <1>6, HostTurns DEF DashboardInv
    <2>2. QED
      BY <1>1, <2>1
  <1>7. QED
    BY <1>1, <1>2, <1>4, <1>5, <1>6
       DEF Next, Progress, Abort, AnswerSnapshot, AnswerWatch, WatchTimeout, Disconnect, Restart,
           Tick, vars

\* Whatever is pruned, updated, finished or restarted, the trees a page lists
\* are whole, for any number of tasks and any limits of retention.
THEOREM TreesAreWhole == Spec => []TreesStayWhole
  <1>1. QED
    BY DashboardInvHolds, WholeTrees, PTL

\* Whatever calls wait, fail or are answered late, a source whose watch waits
\* shows what the host has, for any number of sessions and viewers.
THEOREM SleepersMissNothing == Spec => []NobodySleepsOverAChange
  <1>1. QED
    BY DashboardInvHolds, SleepersSee, PTL

\* What a source shows of a task never goes back, restarts included.
THEOREM PagesNeverGoBack == Spec => TasksNeverGoBack
  <1> DEFINE A == \A v \in Viewer :
                    \A old \in viewer[v].snapshot.tasks, new \in viewer'[v].snapshot.tasks :
                       old.id = new.id =>
                          /\ old.version <= new.version
                          /\ old.status = "ended" => new.status = "ended"
  <1>1. DashboardInv /\ [Next]_vars => A
    <2> SUFFICES ASSUME DashboardInv, [Next]_vars, NEW v \in Viewer
                 PROVE  \A old \in viewer[v].snapshot.tasks, new \in viewer'[v].snapshot.tasks :
                           old.id = new.id =>
                              /\ old.version <= new.version
                              /\ old.status = "ended" => new.status = "ended"
      OBVIOUS
    <2>1. \/ viewer'[v].snapshot = viewer[v].snapshot
          \/ viewer'[v].snapshot.tasks = {}
          \/ Since(viewer[v].snapshot, viewer'[v].snapshot)
      BY StepsGoOn
    <2>2. Past(host, viewer[v].snapshot) /\ viewer[v].snapshot \in Shot
      BY SourceFacts
    <2>3. Since(viewer[v].snapshot, viewer[v].snapshot)
      BY <2>2 DEF Past, Since, Shot, Row
    <2>4. QED
      BY <2>1, <2>3 DEF Since
  <1>2. DashboardInv /\ [Next]_vars => [A]_vars
    BY <1>1
  <1>3. Spec => [][A]_vars
    BY <1>2, DashboardInvHolds, PTL DEF Spec
  <1>4. QED
    BY <1>3 DEF TasksNeverGoBack

-----------------------------------------------------------------------------
(* The settings tab.                                                       *)

\* A reply of the host, a save and a load under way, and the tab's state
Reply == {Tab!Pending, Tab!Failed, Tab!Conflict} \cup {Tab!Ok(s) : s \in Tab!Snapshot}
SaveCall == [value : Tab!Policy, seen : Tab!Snapshot, reply : Reply, orphan : BOOLEAN]
LoadCall == [preserve : BOOLEAN, reply : Reply \ {Tab!Conflict}]

TabView == [phase : Tab!Phase, mounted : BOOLEAN, dirty : BOOLEAN, saving : BOOLEAN,
            conflicted : BOOLEAN]

SettingsTypeOK ==
    /\ settings \in Tab!Snapshot
    /\ snap \in Tab!Snapshot \cup {None}
    /\ draft \in Tab!Policy \cup {None}
    /\ view \in TabView
    /\ load \in LoadCall \cup {None}
    /\ saves \in [1 .. MaxSaves -> SaveCall \cup {None}]

\* s is what the running process holds or held, and by its revision which.
Current(s) ==
    /\ s.process = settings.process
    /\ s.revision <= settings.revision
    /\ s.revision = settings.revision => s = settings

AnswersCurrent(r) == r.is = "ok" => Current(r.snapshot)

CurrentInv ==
    /\ snap # None => Current(snap)
    /\ load # None => AnswersCurrent(load.reply)
    /\ \A i \in 1 .. MaxSaves : saves[i] # None =>
          Current(saves[i].seen) /\ AnswersCurrent(saves[i].reply)

TabInv == SettingsTypeOK /\ CurrentInv

-----------------------------------------------------------------------------
\* The host's replies are told apart, and a good one carries a snapshot.
LEMMA ReplyFacts ==
    /\ {Tab!Pending, Tab!Failed} \subseteq Reply \ {Tab!Conflict} /\ Tab!Conflict \in Reply
    /\ \A s \in Tab!Snapshot :
          Tab!Ok(s) \in Reply \ {Tab!Conflict} /\ Tab!Ok(s).is = "ok" /\ Tab!Ok(s).snapshot = s
    /\ Tab!Pending.is # "ok" /\ Tab!Failed.is # "ok" /\ Tab!Conflict.is # "ok"
    /\ \A r \in Reply : r.is = "ok" => r.snapshot \in Tab!Snapshot
    /\ \A r \in Reply \ {Tab!Conflict} : r \notin {Tab!Pending, Tab!Failed} => r.is = "ok"
<1>1. Tab!Pending.is = "pending" /\ Tab!Failed.is = "failed" /\ Tab!Conflict.is = "conflict"
  BY DEF Tab!Pending, Tab!Failed, Tab!Conflict
<1>2. \A s : Tab!Ok(s).is = "ok" /\ Tab!Ok(s).snapshot = s
  BY DEF Tab!Ok
<1>3. \A s : Tab!Ok(s) # Tab!Conflict
  BY <1>1, <1>2
<1>4. Tab!Pending # Tab!Conflict /\ Tab!Failed # Tab!Conflict
  BY <1>1
<1>5. \A r \in Reply : \/ r \in {Tab!Pending, Tab!Failed, Tab!Conflict}
                      \/ \E s \in Tab!Snapshot : r = Tab!Ok(s)
  BY DEF Reply
<1>6. /\ {Tab!Pending, Tab!Failed, Tab!Conflict} \subseteq Reply
      /\ \A s \in Tab!Snapshot : Tab!Ok(s) \in Reply
  BY DEF Reply
<1> QED
  BY <1>1, <1>2, <1>3, <1>4, <1>5, <1>6

\* No settings are loaded at first.
LEMMA TabInitInv ==
    ASSUME MaxRevision \in Nat, MaxRestarts \in Nat
    PROVE  Tab!Init => TabInv
<1> SUFFICES ASSUME Tab!Init PROVE TabInv
  OBVIOUS
<1>1. settings \in Tab!Snapshot
  BY DEF Tab!Init, Tab!Snapshot, Tab!Policy
<1>2. SettingsTypeOK
  BY <1>1 DEF Tab!Init, SettingsTypeOK, TabView, Tab!Phase
<1>3. CurrentInv
  BY DEF Tab!Init, CurrentInv
<1> QED
  BY <1>2, <1>3 DEF TabInv

-----------------------------------------------------------------------------
\* What a turn of the browser keeps: the host stays, what it holds is current.
LEMMA LoadOK ==
    ASSUME NEW preserve \in BOOLEAN, Tab!Load(preserve)
    PROVE  load' \in LoadCall /\ load'.reply = Tab!Pending
<1>1. Tab!Pending \in Reply \ {Tab!Conflict}
  BY ReplyFacts
<1> QED
  BY <1>1 DEF Tab!Load, LoadCall

\* An accepted snapshot is current, and the draft is the user's or its own.
LEMMA AcceptOK ==
    ASSUME SettingsTypeOK, NEW s \in Tab!Snapshot, Current(s), settings' = settings,
           NEW preserve \in BOOLEAN, NEW conflicted \in BOOLEAN,
           Tab!Accept(s, preserve, conflicted)
    PROVE  /\ snap' \in Tab!Snapshot /\ Current(snap)'
           /\ draft' \in Tab!Policy \cup {None}
           /\ view' \in TabView
<1>1. snap' \in Tab!Snapshot /\ snap' = s
  BY DEF Tab!Accept
<1>2. Current(snap)'
  BY <1>1 DEF Current
<1>3. s.value \in Tab!Policy
  BY DEF Tab!Snapshot
<1>4. draft' \in Tab!Policy \cup {None}
  BY <1>3 DEF Tab!Accept, SettingsTypeOK
<1> DEFINE dirty == preserve /\ draft # None /\ draft # s.value
<1>5. dirty \in BOOLEAN
  OBVIOUS
<1>6. view' = [view EXCEPT !.phase = "ready", !.saving = FALSE, !.conflicted = conflicted,
                          !.dirty = dirty]
  BY Zenon DEF Tab!Accept
<1> HIDE DEF dirty
<1>7. view' \in TabView
  BY <1>5, <1>6 DEF SettingsTypeOK, TabView, Tab!Phase
<1> QED
  BY <1>1, <1>2, <1>4, <1>7

\* A step of the host keeps what is current unless it restarts.
LEMMA StoredKeepsCurrent ==
    ASSUME settings \in Tab!Snapshot, NEW v \in Tab!Policy, settings.revision < MaxRevision,
           settings' = [settings EXCEPT !.value = v, !.revision = @ + 1],
           MaxRevision \in Nat, MaxRestarts \in Nat
    PROVE  /\ settings' \in Tab!Snapshot
           /\ \A s \in Tab!Snapshot : Current(s) => Current(s)'
           /\ Current(settings)'
<1> DEFINE next == settings.revision + 1
<1>1. /\ settings.revision \in 0 .. MaxRevision /\ settings.process \in 0 .. MaxRestarts
      /\ next \in 0 .. MaxRevision /\ next = settings.revision + 1
  BY DEF Tab!Snapshot
<1>2. settings' = [settings EXCEPT !.value = v, !.revision = next]
  OBVIOUS
<1> HIDE DEF next
<1>3. settings.revision \in Nat /\ settings.revision \in 0 .. MaxRevision
  BY <1>1
<1>4. settings'.revision = next /\ settings'.process = settings.process
  BY <1>2 DEF Tab!Snapshot
<1>5. settings' \in Tab!Snapshot
  BY <1>1, <1>2 DEF Tab!Snapshot
<1>6. /\ settings'.revision = settings.revision + 1 /\ settings'.process = settings.process
      /\ settings' \in Tab!Snapshot /\ settings.revision \in Nat
  BY <1>1, <1>3, <1>4, <1>5
<1>7. \A s \in Tab!Snapshot : s.revision \in 0 .. MaxRevision
  BY DEF Tab!Snapshot
<1>8. \A s \in Tab!Snapshot : Current(s) => Current(s)'
  <2> SUFFICES ASSUME NEW s \in Tab!Snapshot, Current(s)
               PROVE  s.process = settings'.process /\ s.revision < settings'.revision
    BY <1>6, <1>7 DEF Current
  <2> QED
    BY <1>6, <1>7 DEF Current
<1>9. Current(settings)'
  BY <1>6 DEF Current
<1> QED
  BY <1>6, <1>8, <1>9

\* A reconnect drops the snapshot and supersedes every load.
LEMMA RefreshOK ==
    ASSUME TabInv, Tab!Refresh
    PROVE  /\ snap' = None /\ draft' = draft /\ view' \in TabView
           /\ load' \in LoadCall /\ load'.reply = Tab!Pending
<1> DEFINE keeps == view.dirty /\ draft # None
<1>1. keeps \in BOOLEAN
  OBVIOUS
<1>2. /\ snap' = None /\ draft' = draft /\ Tab!Load(keeps)
      /\ view' = [view EXCEPT !.phase = "loading", !.saving = FALSE, !.conflicted = keeps]
  BY Zenon DEF Tab!Refresh
<1> HIDE DEF keeps
<1>3. view' \in TabView
  BY <1>1, <1>2 DEF TabInv, SettingsTypeOK, TabView, Tab!Phase
<1> QED
  BY <1>1, <1>2, <1>3, LoadOK

\* The form changes the draft and nothing else.
LEMMA ChangeKeepsInv ==
    ASSUME TabInv, NEW d \in Tab!Policy, Tab!Change(d)
    PROVE  TabInv'
<1>1. (d # snap.value) \in BOOLEAN
  OBVIOUS
<1>2. view' \in TabView
  BY <1>1 DEF Tab!Change, TabInv, SettingsTypeOK, TabView
<1>3. SettingsTypeOK'
  BY <1>2 DEF Tab!Change, TabInv, SettingsTypeOK
<1>4. CurrentInv'
  BY DEF Tab!Change, TabInv, CurrentInv, Current, AnswersCurrent
<1> QED
  BY <1>3, <1>4 DEF TabInv

-----------------------------------------------------------------------------
\* Each operation of the tab, the host or another editor keeps the invariant.
LEMMA TabNextInv ==
    ASSUME MaxRevision \in Nat, MaxRestarts \in Nat, TabInv, [Tab!Next]_(Tab!vars)
    PROVE  TabInv'
<1> USE ReplyFacts
<1>1. ASSUME UNCHANGED Tab!vars PROVE TabInv'
  BY <1>1 DEF Tab!vars, TabInv, SettingsTypeOK, CurrentInv, Current, AnswersCurrent
<1>2. ASSUME Tab!Mount PROVE TabInv'
  <2>1. view' \in TabView
    BY <1>2 DEF Tab!Mount, TabInv, SettingsTypeOK, TabView, Tab!Phase
  <2>2. load' \in LoadCall \cup {None} /\ (load' = load \/ load'.reply = Tab!Pending)
    BY <1>2, LoadOK DEF Tab!Mount, TabInv, SettingsTypeOK
  <2>3. SettingsTypeOK'
    BY <1>2, <2>1, <2>2 DEF Tab!Mount, TabInv, SettingsTypeOK
  <2>4. CurrentInv'
    BY <1>2, <2>2 DEF Tab!Mount, TabInv, CurrentInv, Current, AnswersCurrent
  <2> QED
    BY <2>3, <2>4 DEF TabInv
<1>3. ASSUME Tab!Unmount PROVE TabInv'
  <2>1. view' \in TabView
    BY <1>3 DEF Tab!Unmount, TabInv, SettingsTypeOK, TabView
  <2>2. SettingsTypeOK'
    BY <1>3, <2>1 DEF Tab!Unmount, TabInv, SettingsTypeOK
  <2>3. CurrentInv'
    BY <1>3 DEF Tab!Unmount, TabInv, CurrentInv, Current, AnswersCurrent
  <2> QED
    BY <2>2, <2>3 DEF TabInv
<1>4. ASSUME Tab!Retry PROVE TabInv'
  <2>1. view' \in TabView
    BY <1>4 DEF Tab!Retry, TabInv, SettingsTypeOK, TabView, Tab!Phase
  <2>2. load' \in LoadCall /\ load'.reply = Tab!Pending
    BY <1>4, LoadOK DEF Tab!Retry
  <2>3. SettingsTypeOK'
    BY <1>4, <2>1, <2>2 DEF Tab!Retry, TabInv, SettingsTypeOK
  <2>4. CurrentInv'
    BY <1>4, <2>2 DEF Tab!Retry, TabInv, CurrentInv, Current, AnswersCurrent
  <2> QED
    BY <2>3, <2>4 DEF TabInv
<1>5. ASSUME Tab!Loaded PROVE TabInv'
  <2>1. CASE /\ load.reply # Tab!Failed
             /\ Tab!Accept(load.reply.snapshot, load.preserve, load.preserve)
    <3>1. /\ load.reply \in Reply /\ load.reply.is = "ok" /\ load.preserve \in BOOLEAN
          /\ load.reply.snapshot \in Tab!Snapshot /\ Current(load.reply.snapshot)
          /\ settings' = settings /\ saves' = saves /\ load' = None
      BY <1>5, <2>1 DEF Tab!Loaded, TabInv, SettingsTypeOK, LoadCall, CurrentInv, AnswersCurrent
    <3>2. /\ snap' \in Tab!Snapshot /\ Current(snap)'
          /\ draft' \in Tab!Policy \cup {None} /\ view' \in TabView
      BY <2>1, <3>1, AcceptOK DEF TabInv
    <3>3. SettingsTypeOK'
      BY <3>1, <3>2 DEF TabInv, SettingsTypeOK
    <3>4. CurrentInv'
      BY <3>1, <3>2 DEF TabInv, CurrentInv, Current, AnswersCurrent
    <3> QED
      BY <3>3, <3>4 DEF TabInv
  <2>2. CASE load.reply = Tab!Failed /\ UNCHANGED <<snap, draft>>
    <3>1. \E phase \in {"error", "unavailable"} : view' = [view EXCEPT !.phase = phase]
      BY <1>5, <2>2 DEF Tab!Loaded, Tab!Accept
    <3>2. view' \in TabView
      BY <3>1 DEF TabInv, SettingsTypeOK, TabView, Tab!Phase
    <3>3. SettingsTypeOK'
      BY <1>5, <2>2, <3>2 DEF Tab!Loaded, TabInv, SettingsTypeOK
    <3>4. CurrentInv'
      BY <1>5, <2>2 DEF Tab!Loaded, TabInv, CurrentInv, Current, AnswersCurrent
    <3> QED
      BY <3>3, <3>4 DEF TabInv
  <2> QED
    BY <1>5, <2>1, <2>2 DEF Tab!Loaded
<1>6. ASSUME Tab!Reconnect PROVE TabInv'
  <2>1. /\ snap' = None /\ draft' = draft /\ view' \in TabView /\ settings' = settings
        /\ load' \in LoadCall /\ load'.reply = Tab!Pending
    BY <1>6, RefreshOK DEF Tab!Reconnect
  <2>2. \A i \in 1 .. MaxSaves :
           \/ saves[i] = None /\ saves'[i] = None
           \/ /\ saves[i] # None /\ saves[i] \in SaveCall /\ saves'[i] \in SaveCall
              /\ saves'[i].seen = saves[i].seen /\ saves'[i].reply = saves[i].reply
    BY <1>6 DEF Tab!Reconnect, TabInv, SettingsTypeOK, SaveCall
  <2>3. saves' \in [1 .. MaxSaves -> SaveCall \cup {None}]
    BY <1>6, <2>2 DEF Tab!Reconnect
  <2>4. SettingsTypeOK'
    BY <2>1, <2>3 DEF TabInv, SettingsTypeOK
  <2>5. ASSUME NEW i \in 1 .. MaxSaves, saves'[i] # None
        PROVE  (Current(saves[i].seen) /\ AnswersCurrent(saves[i].reply))'
    <3>1. Current(saves[i].seen) /\ AnswersCurrent(saves[i].reply)
      BY <2>2, <2>5 DEF TabInv, CurrentInv
    <3> QED
      BY <2>1, <2>2, <2>5, <3>1 DEF Current, AnswersCurrent
  <2>6. AnswersCurrent(load.reply)'
    BY <2>1 DEF AnswersCurrent
  <2>7. CurrentInv'
    BY <2>1, <2>5, <2>6 DEF CurrentInv
  <2> QED
    BY <2>4, <2>7 DEF TabInv
<1>7. ASSUME Tab!Restart PROVE TabInv'
  <2>1. /\ snap' = None /\ draft' = draft /\ view' \in TabView
        /\ load' \in LoadCall /\ load'.reply = Tab!Pending
    BY <1>7, RefreshOK DEF Tab!Restart
  <2>2. saves' = [i \in 1 .. MaxSaves |-> None]
    BY <1>7 DEF Tab!Restart
  <2>3. settings' \in Tab!Snapshot
    <3> DEFINE next == settings.process + 1
    <3>1. settings \in Tab!Snapshot /\ next \in 0 .. MaxRestarts /\ 0 \in 0 .. MaxRevision
      BY <1>7 DEF Tab!Restart, TabInv, SettingsTypeOK, Tab!Snapshot
    <3>2. settings' = [settings EXCEPT !.process = next, !.revision = 0]
      BY <1>7 DEF Tab!Restart
    <3> HIDE DEF next
    <3> QED
      BY <3>1, <3>2 DEF Tab!Snapshot
  <2>4. SettingsTypeOK'
    BY <2>1, <2>2, <2>3 DEF TabInv, SettingsTypeOK
  <2>5. CurrentInv'
    BY <2>1, <2>2 DEF CurrentInv, AnswersCurrent
  <2> QED
    BY <2>4, <2>5 DEF TabInv
<1>8. ASSUME Tab!EditDraft PROVE TabInv'
  <2>1. draft \in Tab!Policy
    BY <1>8 DEF Tab!EditDraft, Tab!Change, Tab!Form, TabInv, SettingsTypeOK
  <2>2. PICK e \in Edit : Tab!Change(IF e \in draft THEN draft \ {e} ELSE draft \cup {e})
    BY <1>8 DEF Tab!EditDraft
  <2>3. (IF e \in draft THEN draft \ {e} ELSE draft \cup {e}) \in Tab!Policy
    BY <2>1 DEF Tab!Policy
  <2> QED
    BY <2>2, <2>3, ChangeKeepsInv
<1>9. ASSUME Tab!Discard PROVE TabInv'
  <2>1. snap.value \in Tab!Policy /\ Tab!Change(snap.value)
    BY <1>9 DEF Tab!Discard, Tab!Change, Tab!Form, TabInv, SettingsTypeOK, Tab!Snapshot
  <2> QED
    BY <2>1, ChangeKeepsInv
<1>10. ASSUME Tab!Reset PROVE TabInv'
  <2>1. {} \in Tab!Policy /\ Tab!Change({})
    BY <1>10 DEF Tab!Reset, Tab!Policy
  <2> QED
    BY <2>1, ChangeKeepsInv
<1>11. ASSUME Tab!Save PROVE TabInv'
  <2>1. PICK i \in 1 .. MaxSaves :
           saves' = [saves EXCEPT ![i] = [value |-> draft, seen |-> snap, reply |-> Tab!Pending,
                                          orphan |-> FALSE]]
    BY <1>11 DEF Tab!Save
  <2>2. /\ draft \in Tab!Policy /\ snap \in Tab!Snapshot /\ Current(snap)
        /\ UNCHANGED <<settings, snap, draft, load>>
    BY <1>11 DEF Tab!Save, Tab!Form, TabInv, SettingsTypeOK, CurrentInv
  <2>3. [value |-> draft, seen |-> snap, reply |-> Tab!Pending, orphan |-> FALSE] \in SaveCall
    BY <2>2 DEF SaveCall
  <2>4. view' \in TabView
    BY <1>11 DEF Tab!Save, TabInv, SettingsTypeOK, TabView
  <2>5. SettingsTypeOK'
    BY <2>1, <2>2, <2>3, <2>4 DEF TabInv, SettingsTypeOK
  <2>6. CurrentInv'
    BY <2>1, <2>2 DEF TabInv, SettingsTypeOK, CurrentInv, Current, AnswersCurrent
  <2> QED
    BY <2>5, <2>6 DEF TabInv
<1>12. ASSUME Tab!AnswerLoad PROVE TabInv'
  <2>1. settings \in Tab!Snapshot /\ Current(settings) /\ load \in LoadCall
    BY <1>12 DEF Tab!AnswerLoad, TabInv, SettingsTypeOK, Current, Tab!Snapshot
  <2>2. PICK r \in {Tab!Ok(settings), Tab!Failed} : load' = [load EXCEPT !.reply = r]
    BY <1>12 DEF Tab!AnswerLoad
  <2>3. r \in Reply \ {Tab!Conflict} /\ AnswersCurrent(r)
    BY <2>1, <2>2 DEF AnswersCurrent
  <2>4. load' \in LoadCall /\ load'.reply = r
    BY <2>1, <2>2, <2>3 DEF LoadCall
  <2>5. SettingsTypeOK'
    BY <1>12, <2>4 DEF Tab!AnswerLoad, TabInv, SettingsTypeOK
  <2>6. CurrentInv'
    BY <1>12, <2>3, <2>4 DEF Tab!AnswerLoad, TabInv, CurrentInv, Current, AnswersCurrent
  <2> QED
    BY <2>5, <2>6 DEF TabInv
<1>13. ASSUME Tab!EditElsewhere PROVE TabInv'
  <2>1. PICK v \in Tab!Policy : settings' = [settings EXCEPT !.value = v, !.revision = @ + 1]
    BY <1>13 DEF Tab!EditElsewhere
  <2>2. settings' \in Tab!Snapshot /\ \A s \in Tab!Snapshot : Current(s) => Current(s)'
    BY <1>13, <2>1, StoredKeepsCurrent DEF Tab!EditElsewhere, TabInv, SettingsTypeOK
  <2>3. SettingsTypeOK'
    BY <1>13, <2>2 DEF Tab!EditElsewhere, TabInv, SettingsTypeOK
  <2>4. CurrentInv'
    BY <1>13, <2>2 DEF Tab!EditElsewhere, TabInv, SettingsTypeOK, LoadCall, SaveCall, CurrentInv,
                       AnswersCurrent
  <2> QED
    BY <2>3, <2>4 DEF TabInv
<1>14. ASSUME NEW i \in 1 .. MaxSaves, Tab!Saved(i) PROVE TabInv'
  <2>1. /\ saves[i] \in SaveCall /\ saves' = [saves EXCEPT ![i] = None] /\ settings' = settings
        /\ AnswersCurrent(saves[i].reply)
    BY <1>14 DEF Tab!Saved, TabInv, SettingsTypeOK, CurrentInv
  <2>2. /\ saves' \in [1 .. MaxSaves -> SaveCall \cup {None}]
        /\ \A j \in 1 .. MaxSaves : saves'[j] # None => saves'[j] = saves[j]
    BY <2>1 DEF TabInv, SettingsTypeOK
  <2>3. ASSUME snap' \in Tab!Snapshot \cup {None}, snap' # None => Current(snap)',
               draft' \in Tab!Policy \cup {None}, view' \in TabView, load' \in LoadCall \cup {None},
               load' = load \/ load'.reply = Tab!Pending
        PROVE  TabInv'
    <3>1. SettingsTypeOK'
      BY <2>1, <2>2, <2>3 DEF TabInv, SettingsTypeOK
    <3>2. CurrentInv'
      BY <2>1, <2>2, <2>3 DEF TabInv, CurrentInv, Current, AnswersCurrent
    <3> QED
      BY <3>1, <3>2 DEF TabInv
  <2>4. CASE UNCHANGED <<snap, draft, view, load>>
    BY <2>1, <2>3, <2>4 DEF TabInv, SettingsTypeOK, CurrentInv, Current
  <2>5. CASE /\ view' = [view EXCEPT !.saving = FALSE, !.conflicted = TRUE]
             /\ Tab!Load(TRUE) /\ UNCHANGED <<snap, draft>>
    <3>1. view' \in TabView
      BY <2>5 DEF TabInv, SettingsTypeOK, TabView
    <3>2. load' \in LoadCall /\ load'.reply = Tab!Pending
      BY <2>5, LoadOK
    <3> QED
      BY <2>1, <2>3, <2>5, <3>1, <3>2 DEF TabInv, SettingsTypeOK, CurrentInv, Current
  <2>6. CASE /\ \E phase \in {view.phase, "unavailable"} :
                   view' = [view EXCEPT !.saving = FALSE, !.phase = phase]
             /\ UNCHANGED <<snap, draft, load>>
    <3>1. view' \in TabView
      BY <2>6 DEF TabInv, SettingsTypeOK, TabView, Tab!Phase
    <3> QED
      BY <2>1, <2>3, <2>6, <3>1 DEF TabInv, SettingsTypeOK, CurrentInv, Current
  <2>7. CASE /\ saves[i].reply.is = "ok"
             /\ Tab!Accept(saves[i].reply.snapshot, FALSE, FALSE) /\ UNCHANGED load
    <3>1. saves[i].reply.snapshot \in Tab!Snapshot /\ Current(saves[i].reply.snapshot)
      BY <2>1, <2>7 DEF SaveCall, AnswersCurrent
    <3>2. /\ snap' \in Tab!Snapshot /\ Current(snap)'
          /\ draft' \in Tab!Policy \cup {None} /\ view' \in TabView
      BY <2>1, <2>7, <3>1, AcceptOK DEF TabInv
    <3> QED
      BY <2>3, <2>7, <3>2 DEF TabInv, SettingsTypeOK
  <2> QED
    BY <1>14, <2>4, <2>5, <2>6, <2>7 DEF Tab!Saved
<1>15. ASSUME NEW i \in 1 .. MaxSaves, Tab!CommitSave(i) PROVE TabInv'
  <2>1. /\ saves[i] # None /\ saves[i] \in SaveCall /\ saves[i].reply = Tab!Pending
        /\ UNCHANGED <<snap, draft, view, load>>
    BY <1>15 DEF Tab!CommitSave, TabInv, SettingsTypeOK
  <2>2. ASSUME NEW r \in Reply, saves' = [saves EXCEPT ![i].reply = r], AnswersCurrent(r)',
               settings' \in Tab!Snapshot, \A s \in Tab!Snapshot : Current(s) => Current(s)'
        PROVE  TabInv'
    <3>1. \A j \in 1 .. MaxSaves :
             \/ j # i /\ saves'[j] = saves[j]
             \/ /\ j = i /\ saves'[j] \in SaveCall
                /\ saves'[j].seen = saves[j].seen /\ saves'[j].reply = r
      BY <2>1, <2>2 DEF SaveCall, TabInv, SettingsTypeOK
    <3>2. SettingsTypeOK'
      BY <2>1, <2>2, <3>1 DEF TabInv, SettingsTypeOK
    <3>3. snap' # None => Current(snap)'
      BY <2>1, <2>2 DEF TabInv, SettingsTypeOK, CurrentInv, Current
    <3>4. load' # None => AnswersCurrent(load.reply)'
      BY <2>1, <2>2 DEF TabInv, SettingsTypeOK, LoadCall, CurrentInv, AnswersCurrent, Current
    <3>5. ASSUME NEW j \in 1 .. MaxSaves, saves'[j] # None
          PROVE  (Current(saves[j].seen) /\ AnswersCurrent(saves[j].reply))'
      <4>1. /\ saves[j] \in SaveCall /\ Current(saves[j].seen) /\ AnswersCurrent(saves[j].reply)
            /\ saves'[j].seen = saves[j].seen
        BY <2>1, <3>1, <3>5 DEF TabInv, SettingsTypeOK, CurrentInv
      <4>2. Current(saves[j].seen)'
        BY <2>2, <4>1 DEF SaveCall, Current
      <4>3. AnswersCurrent(saves[j].reply)'
        BY <2>2, <3>1, <4>1 DEF SaveCall, AnswersCurrent, Current
      <4> QED
        BY <4>2, <4>3
    <3>6. CurrentInv'
      BY <3>3, <3>4, <3>5 DEF CurrentInv
    <3> QED
      BY <3>2, <3>6 DEF TabInv
  <2>3. ASSUME NEW r \in {Tab!Conflict, Tab!Failed}, saves' = [saves EXCEPT ![i].reply = r],
               settings' = settings
        PROVE  TabInv'
    <3>1. r \in Reply /\ AnswersCurrent(r)'
      BY <2>3 DEF AnswersCurrent
    <3>2. settings' \in Tab!Snapshot /\ \A s \in Tab!Snapshot : Current(s) => Current(s)'
      BY <2>3 DEF TabInv, SettingsTypeOK, Current
    <3> QED
      BY <2>2, <2>3, <3>1, <3>2
  <2>4. ASSUME NEW stored, stored = [settings EXCEPT !.value = saves[i].value, !.revision = @ + 1],
               settings' = stored, NEW r \in {Tab!Ok(stored), Tab!Failed},
               saves' = [saves EXCEPT ![i].reply = r]
        PROVE  TabInv'
    <3>1. /\ saves[i].value \in Tab!Policy /\ settings \in Tab!Snapshot
          /\ settings.revision < MaxRevision
      BY <1>15, <2>1 DEF SaveCall, Tab!CommitSave, TabInv, SettingsTypeOK
    <3>2. /\ settings' \in Tab!Snapshot /\ Current(settings)'
          /\ \A s \in Tab!Snapshot : Current(s) => Current(s)'
      BY <2>4, <3>1, StoredKeepsCurrent
    <3>3. r \in Reply /\ AnswersCurrent(r)'
      BY <2>4, <3>2 DEF AnswersCurrent
    <3> QED
      BY <2>2, <2>4, <3>2, <3>3
  <2> QED
    BY <1>15, <2>3, <2>4 DEF Tab!CommitSave
<1> QED
  BY <1>1, <1>2, <1>3, <1>4, <1>5, <1>6, <1>7, <1>8, <1>9, <1>10, <1>11, <1>12, <1>13,
     <1>14, <1>15 DEF Tab!Next

-----------------------------------------------------------------------------
\* Every snapshot, draft, load and save keeps its type, and all the browser
\* holds is of the process that runs.
THEOREM BrowserIsCurrent ==
    ASSUME MaxRevision \in Nat, MaxRestarts \in Nat
    PROVE  Tab!Spec => []TabInv
<1>1. Tab!Init => TabInv
  BY TabInitInv
<1>2. TabInv /\ [Tab!Next]_(Tab!vars) => TabInv'
  BY TabNextInv
<1> QED
  BY <1>1, <1>2, PTL DEF Tab!Spec

\* What a save replaces is what its user was looking at: the revision it
\* carries, compared by settings.replace, names one value because no save
\* outlives the process whose revision it carries.
THEOREM SavesReplaceWhatWasSeen ==
    ASSUME MaxRevision \in Nat, MaxRestarts \in Nat
    PROVE  Tab!Spec => NothingUnseenIsOverwritten
<1> DEFINE Seen ==
       \A i \in 1 .. MaxSaves :
          /\ saves[i] # None /\ saves'[i] # None /\ saves[i].reply = Tab!Pending
          /\ settings' # settings
          /\ saves'[i].reply # Tab!Pending
          => settings = saves[i].seen
<1>1. ASSUME TabInv, Tab!Next PROVE Seen
  <2> SUFFICES ASSUME NEW i \in 1 .. MaxSaves,
                      saves[i] # None, saves'[i] # None, saves[i].reply = Tab!Pending,
                      settings' # settings, saves'[i].reply # Tab!Pending
               PROVE  settings = saves[i].seen
    OBVIOUS
  <2>1. saves[i] \in SaveCall /\ Current(saves[i].seen)
    BY <1>1 DEF TabInv, SettingsTypeOK, CurrentInv
  <2>2. saves' # saves
    OBVIOUS
  <2>3. ~Tab!Restart
    BY DEF Tab!Restart
  <2>4. PICK j \in 1 .. MaxSaves : Tab!CommitSave(j) /\ saves[j].seen.revision = settings.revision
    BY <1>1, <2>2, <2>3
       DEF Tab!Next, Tab!Mount, Tab!Unmount, Tab!Retry, Tab!Loaded, Tab!Reconnect, Tab!EditDraft,
           Tab!Discard, Tab!Reset, Tab!Change, Tab!Save, Tab!AnswerLoad, Tab!EditElsewhere,
           Tab!Saved, Tab!CommitSave
  <2>5. i = j
    BY <1>1, <2>1, <2>4 DEF Tab!CommitSave, TabInv, SettingsTypeOK
  <2> QED
    BY <2>1, <2>4, <2>5 DEF Current
<1>2. TabInv /\ [Tab!Next]_(Tab!vars) => [Seen]_(Tab!vars)
  BY <1>1
<1>3. Tab!Spec => []TabInv
  BY BrowserIsCurrent
<1>4. Tab!Spec => [][Seen]_(Tab!vars)
  BY <1>2, <1>3, PTL DEF Tab!Spec
<1> QED
  BY <1>4 DEF NothingUnseenIsOverwritten, Tab!NothingUnseenIsOverwritten

-----------------------------------------------------------------------------
\* A behaviour of the two pages is one of each: what is proved of a page on
\* its own holds of both.
THEOREM PagesKeepApart == PagesSpec => Spec /\ Tab!Spec
<1>1. PagesInit => Init /\ Tab!Init
  BY DEF PagesInit
<1>2. [PagesNext]_<<vars, tab, page>> => [Next]_vars
  BY DEF PagesNext, tab
<1>3. [PagesNext]_<<vars, tab, page>> => [Tab!Next]_(Tab!vars)
  BY DEF PagesNext, tab, Tab!vars
<1> QED
  BY <1>1, <1>2, <1>3, PTL DEF PagesSpec, Spec, Tab!Spec
=============================================================================
