------------------------ MODULE OrchestrationProofs -------------------------
(***************************************************************************)
(* Proofs about the grant ledger and about the tree of pipelines over it,  *)
(* for any finite set of tokens, any limits and allocations and any depths *)
(* that fail fast.                                                         *)
(*                                                                         *)
(* The first part is about the ledger alone: its slots, its tree of        *)
(* authority, its line of waiting callers and the conservation of its      *)
(* budgets.  The invariant is stated in parts, each a predicate of the     *)
(* value the ledger holds, so that one lemma per operation of Grants       *)
(* serves every action that is a composition of operations.  The budgets   *)
(* are sums over a finite set.  Facts about sums are proved here from the  *)
(* definition of the fold, by the argument of the smallest set that is an  *)
(* exception.                                                              *)
(*                                                                         *)
(* The second part is about the pipelines: that grants close cleanly, that *)
(* a model runs only in a slot, that plans change only at quiescent        *)
(* boundaries, and that the pipelines keep what the ledger promises.  Its  *)
(* invariant relates the place of every pipeline with its grant and with   *)
(* the line of calls that await admission.  It is a predicate of the       *)
(* values L of ledger, q of pc and bad of failed, since a turn passes      *)
(* through values that no state shows: an outcome is taken, then children  *)
(* are reserved, then they call waitForStart one after the other.          *)
(***************************************************************************)
EXTENDS Orchestration, GrantLedger, FiniteSetTheorems, SequenceTheorems, WellFoundedInduction, TLAPS

(***************************************************************************)
(* The ledger of grants.                                                   *)
(***************************************************************************)


-----------------------------------------------------------------------------
(* The inductive invariant.                                                *)

Published == {"active", "revoked", "settled"}
Over      == {"settled", "refunded", "dropped"}

Call == [op : {"start", "resume"}, token : Token, aborted : BOOLEAN]

Ledger == [node      : [Node -> Grant],
           budget    : [Node -> Budget],
           cancelled : BOOLEAN,
           active    : Nat,
           waiters   : Seq(Call),
           woken     : Seq(Call),
           permits   : Nat]

\* A token that was issued hangs below its parent, and `above' is the chain
\* of its ancestors: each is the parent of the token or of the next one.
Hangs(n, u) ==
    /\ n[u].parent \in Node
    /\ n[u].above = n[n[u].parent].above \cup {n[u].parent}
    /\ u \notin n[u].above
    /\ n[u].depth <= n[u].ceiling
    /\ n[u].ceiling <= n[n[u].parent].ceiling
    /\ n[u].expiresAt <= n[n[u].parent].expiresAt

RootInv(n) ==
    /\ n[Root].status \in Published
    /\ n[Root].parent = None
    /\ n[Root].above = {}
    /\ ~n[Root].running

TreeInv(n) ==
    /\ RootInv(n)
    /\ \A u \in Token : IF n[u].status = "unissued" THEN n[u] = Unissued ELSE Hangs(n, u)
    /\ \A u \in Node : \A v \in n[u].above :
          /\ n[v].status \in Published
          /\ n[v].above \subseteq n[u].above
          /\ n[u].parent = v \/ \E w \in n[u].above : n[w].parent = v
    /\ \A u \in Node : n[u].running => n[u].status \in {"active", "revoked"}

AuthorityInv(n, cancelled) ==
    \A u \in Node : n[u].status \in {"active", "reserved"} =>
        /\ ~cancelled
        /\ \A v \in n[u].above : n[v].status = "active"

JoinInv(n) ==
    \A u \in Node : \A t \in n[u].above :
        n[t].status = "settled" => n[u].status \in Over

Running(n) == {t \in Node : n[t].running}

\* The counters are exact.
Counted(L) ==
    /\ L.active = Cardinality(Running(L.node))
    /\ L.permits = Len(L.woken)

\* The limit is kept, and who waits, waits for somebody.
Admits(L) ==
    /\ L.active + L.permits <= MaxConcurrentNodes
    /\ L.waiters # <<>> => L.active + L.permits > 0

\* The line: first the calls w that were woken, then the calls q that wait.
Calls == {"start", "resume"} \X Token
Key(c) == <<c.op, c.token>>

InLine(w, q, line) ==
    /\ line \in Seq(Calls)
    /\ Len(line) = Len(w) + Len(q)
    /\ \A i \in 1 .. Len(w) : line[i] = Key(w[i])
    /\ \A i \in 1 .. Len(q) : line[Len(w) + i] = Key(q[i])

\* The sum of f over S.
Total(f, S) == MapThenSumSet(LAMBDA x : f[x], S)

NodesHeld(n, b) ==
    [t \in Node |-> b[t].nodes + (IF n[t].status \in Published THEN 1 ELSE 0)]
RunsHeld(b) == [t \in Node |-> b[t].runs]

Kept(n, t) == {u \in Token : n[u].parent = t /\ n[u].status # "refunded"}

SlotsPaid(n, b) ==
    \A t \in Node : /\ b[t].slots <= MaxChildrenPerNode
                    /\ b[t].slots = Cardinality(Kept(n, t))

BudgetInv(n, b, used) ==
    /\ Total(NodesHeld(n, b), Node) = MaxTaskNodes
    /\ Total(RunsHeld(b), Node) + used = MaxTotalModelRuns
    /\ SlotsPaid(n, b)
    /\ \A u \in Token :
          /\ n[u].status = "unissued" => b[u] = [nodes |-> 0, runs |-> 0, slots |-> 0]
          /\ n[u].status = "reserved" => b[u].nodes >= 1

Good(L) ==
    /\ L \in Ledger
    /\ TreeInv(L.node)
    /\ AuthorityInv(L.node, L.cancelled)
    /\ JoinInv(L.node)

\* All of it but the limit, which a call's continuation may find used up.
Sound(L, line, used) ==
    /\ Good(L)
    /\ Counted(L)
    /\ InLine(L.woken, L.waiters, line)
    /\ BudgetInv(L.node, L.budget, used)

IInv ==
    /\ Sound(ledger, arrival, spent)
    /\ Admits(ledger)
    /\ clock \in Nat /\ spent \in Nat

-----------------------------------------------------------------------------
(* Sums over finite sets.                                                  *)

Pick(s) == CHOOSE x \in s : TRUE

\* The recursion a fold runs over the subsets of S, with partial sums g.
Sums(f, S, g) ==
    g = [s \in SUBSET S |-> IF s = {} THEN 0 ELSE f[Pick(s)] + g[s \ {Pick(s)}]]

\* Among sets of subsets of a finite set there is a smallest one.
LEMMA SmallestSubset ==
    ASSUME NEW S, IsFiniteSet(S), NEW B \in SUBSET (SUBSET S), B # {}
    PROVE  \E m \in B : \A n \in B : n \subseteq m => n = m
  <1>1. IsWellFoundedOn(StrictSubsetOrdering(S), SUBSET S)
    BY FS_StrictSubsetOrderingWellFounded, FS_FiniteSubsetsOfFinite
  <1>2. PICK m \in B : \A n \in B : ~(<<n, m>> \in StrictSubsetOrdering(S))
    BY <1>1, WFMin
  <1>3. QED
    BY <1>2 DEF StrictSubsetOrdering

\* A sum is what the recursion leaves at the whole set.
LEMMA TotalDef ==
    ASSUME NEW f, NEW S
    PROVE  Total(f, S) = (CHOOSE g : Sums(f, S, g))[S]
  BY DEF Total, MapThenSumSet, MapThenFoldSet, Sums, Pick

\* Two recursions agree wherever both are defined.
LEMMA SumsUnique ==
    ASSUME NEW f, NEW S, IsFiniteSet(S), NEW g, NEW h, NEW T, T \subseteq S, Sums(f, S, g), Sums(f, T, h)
    PROVE  \A s \in SUBSET T : g[s] = h[s]
  <1> DEFINE B == {s \in SUBSET T : g[s] # h[s]}
  <1>1. SUFFICES ASSUME B # {} PROVE FALSE
    OBVIOUS
  <1>0. B \in SUBSET (SUBSET S)
    OBVIOUS
  <1> HIDE DEF B
  <1>2. PICK m \in B : \A n \in B : n \subseteq m => n = m
    BY <1>0, <1>1, SmallestSubset
  <1> USE DEF B
  <1>3. CASE m = {}
    BY <1>3, <1>2 DEF Sums
  <1>4. CASE m # {}
    <2>1. Pick(m) \in m
      BY <1>4 DEF Pick
    <2>2. g[m \ {Pick(m)}] = h[m \ {Pick(m)}]
      BY <2>1, <1>2
    <2>3. QED
      BY <2>2, <1>2, <1>4 DEF Sums
  <1>5. QED
    BY <1>3, <1>4

\* The recursion has a solution over every finite set.
LEMMA SumsExist ==
    ASSUME NEW f, NEW S, IsFiniteSet(S)
    PROVE  \E g : Sums(f, S, g)
  <1> DEFINE B == {s \in SUBSET S : ~ \E g : Sums(f, s, g)}
  <1>1. SUFFICES ASSUME B # {} PROVE FALSE
    OBVIOUS
  <1>0. B \in SUBSET (SUBSET S)
    OBVIOUS
  <1> HIDE DEF B
  <1>2. PICK m \in B : \A n \in B : n \subseteq m => n = m
    BY <1>0, <1>1, SmallestSubset
  <1> USE DEF B
  <1> DEFINE G(s) == CHOOSE g : Sums(f, s, g)
  <1> DEFINE H == [s \in SUBSET m |-> IF s = {} THEN 0 ELSE f[Pick(s)] + G(s \ {Pick(s)})[s \ {Pick(s)}]]
  <1>3. ASSUME NEW s \in SUBSET m, s # m
        PROVE  Sums(f, s, G(s))
    BY <1>3, <1>2
  <1>4. \A s \in SUBSET m : s # {} => Pick(s) \in s
    BY DEF Pick
  <1>5. ASSUME NEW s \in SUBSET m, s # {}
        PROVE  H[s \ {Pick(s)}] = G(s \ {Pick(s)})[s \ {Pick(s)}]
    <2> DEFINE t == s \ {Pick(s)}
    <2>1. t \in SUBSET m /\ t # m
      BY <1>5, <1>4
    <2>2. Sums(f, t, G(t))
      BY <2>1, <1>3
    <2> HIDE DEF G
    <2>3. CASE t = {}
      <3>1. G(t)[t] = 0
        BY <2>2, <2>3 DEF Sums
      <3>2. QED
        BY <3>1, <2>3
    <2>4. CASE t # {}
      <3> DEFINE u == t \ {Pick(t)}
      <3>1. Pick(t) \in t /\ u \subseteq t /\ u # m /\ u \in SUBSET m
        BY <2>4, <2>1, <1>4
      <3>2. Sums(f, u, G(u))
        BY <3>1, <1>3
      <3>3. IsFiniteSet(t)
        BY FS_Subset
      <3> HIDE DEF t, u
      <3>4. G(t)[u] = G(u)[u]
        BY <3>1, <3>2, <3>3, <2>2, SumsUnique
      <3> USE DEF t, u
      <3>5. G(t)[t] = f[Pick(t)] + G(t)[u]
        BY <2>2, <2>4 DEF Sums
      <3>6. H[t] = f[Pick(t)] + G(u)[u]
        BY <2>1, <2>4
      <3>7. QED
        BY <3>4, <3>5, <3>6
    <2>5. QED
      BY <2>3, <2>4
  <1>6. Sums(f, m, H)
    <2> HIDE DEF G
    <2>1. H = [s \in SUBSET m |-> IF s = {} THEN 0 ELSE f[Pick(s)] + H[s \ {Pick(s)}]]
      BY <1>5
    <2>2. QED
      BY <2>1 DEF Sums
  <1>7. QED
    BY <1>6, <1>2

\* So the sum is given by a solution of the recursion.
LEMMA TotalIsSum ==
    ASSUME NEW f, NEW S, IsFiniteSet(S)
    PROVE  \E g : Sums(f, S, g) /\ Total(f, S) = g[S]
  <1>1. Sums(f, S, CHOOSE g : Sums(f, S, g))
    BY SumsExist
  <1>2. QED
    BY <1>1, TotalDef

\* The empty sum.
LEMMA TotalEmpty ==
    ASSUME NEW f
    PROVE  Total(f, {}) = 0
  <1>1. PICK g : Sums(f, {}, g) /\ Total(f, {}) = g[{}]
    BY TotalIsSum, FS_EmptySet
  <1>2. QED
    BY <1>1 DEF Sums

\* A sum, and the element the fold takes first.
LEMMA TotalPick ==
    ASSUME NEW f, NEW S, IsFiniteSet(S), S # {}
    PROVE  /\ Pick(S) \in S
           /\ Total(f, S) = f[Pick(S)] + Total(f, S \ {Pick(S)})
  <1> DEFINE T == S \ {Pick(S)}
  <1>1. Pick(S) \in S
    BY DEF Pick
  <1>2. IsFiniteSet(T) /\ T \subseteq S
    BY FS_Subset
  <1>3. PICK g : Sums(f, S, g) /\ Total(f, S) = g[S]
    BY TotalIsSum
  <1>4. PICK h : Sums(f, T, h) /\ Total(f, T) = h[T]
    BY <1>2, TotalIsSum
  <1>5. g[T] = h[T]
    BY <1>2, <1>3, <1>4, SumsUnique
  <1>6. g[S] = f[Pick(S)] + g[T]
    BY <1>3 DEF Sums
  <1>7. QED
    BY <1>1, <1>3, <1>4, <1>5, <1>6

\* Sums of integers are integers.
LEMMA TotalInt ==
    ASSUME NEW S, IsFiniteSet(S), NEW f, \A x \in S : f[x] \in Int
    PROVE  Total(f, S) \in Int
  <1> DEFINE B == {s \in SUBSET S : Total(f, s) \notin Int}
  <1>1. SUFFICES ASSUME B # {} PROVE FALSE
    OBVIOUS
  <1>0. B \in SUBSET (SUBSET S)
    OBVIOUS
  <1> HIDE DEF B
  <1>2. PICK m \in B : \A n \in B : n \subseteq m => n = m
    BY <1>0, <1>1, SmallestSubset
  <1> USE DEF B
  <1>3. IsFiniteSet(m) /\ m # {}
    <2>1. m \in SUBSET S /\ Total(f, m) \notin Int
      BY <1>2
    <2>2. m # {}
      BY <2>1, TotalEmpty
    <2>3. QED
      BY <2>1, <2>2, FS_Subset
  <1>4. Pick(m) \in m /\ Total(f, m) = f[Pick(m)] + Total(f, m \ {Pick(m)})
    BY <1>3, TotalPick
  <1>5. QED
    BY <1>2, <1>4

\* The order in which the fold takes the elements does not matter.
LEMMA TotalTakeOut ==
    ASSUME NEW S, IsFiniteSet(S), NEW f, \A x \in S : f[x] \in Int, NEW a \in S
    PROVE  Total(f, S) = f[a] + Total(f, S \ {a})
  <1> DEFINE B == {s \in SUBSET S : \E x \in s : Total(f, s) # f[x] + Total(f, s \ {x})}
  <1>1. SUFFICES ASSUME B # {} PROVE FALSE
    OBVIOUS
  <1>0. B \in SUBSET (SUBSET S)
    OBVIOUS
  <1> HIDE DEF B
  <1>2. PICK m \in B : \A n \in B : n \subseteq m => n = m
    BY <1>0, <1>1, SmallestSubset
  <1> USE DEF B
  <1>3. PICK x \in m : Total(f, m) # f[x] + Total(f, m \ {x})
    BY <1>2
  <1>4. IsFiniteSet(m) /\ m # {} /\ m \subseteq S
    BY <1>2, <1>3, FS_Subset
  <1> DEFINE y == Pick(m)
  <1>5. y \in m /\ Total(f, m) = f[y] + Total(f, m \ {y})
    BY <1>4, TotalPick
  <1>6. x # y
    BY <1>3, <1>5
  <1>7. Total(f, m \ {y}) = f[x] + Total(f, (m \ {y}) \ {x})
    BY <1>2, <1>5, <1>6
  <1>8. Total(f, m \ {x}) = f[y] + Total(f, (m \ {x}) \ {y})
    BY <1>2, <1>5, <1>6
  <1>9. (m \ {y}) \ {x} = (m \ {x}) \ {y}
    OBVIOUS
  <1>10. IsFiniteSet((m \ {y}) \ {x})
    BY <1>4, FS_Subset
  <1>11. Total(f, (m \ {y}) \ {x}) \in Int /\ f[x] \in Int /\ f[y] \in Int
    BY <1>4, <1>5, <1>10, TotalInt
  <1>12. Total(f, (m \ {y}) \ {x}) = Total(f, (m \ {x}) \ {y})
    BY <1>9
  <1> HIDE DEF y, B
  <1>13. QED
    BY <1>3, <1>5, <1>7, <1>8, <1>11, <1>12

\* Any solution of the recursion gives the sum.
LEMMA SumsDecide ==
    ASSUME NEW f, NEW S, IsFiniteSet(S), NEW g, Sums(f, S, g)
    PROVE  Total(f, S) = g[S]
  <1>1. PICK h : Sums(f, S, h) /\ Total(f, S) = h[S]
    BY TotalIsSum
  <1>2. QED
    BY <1>1, SumsUnique

\* Equal summands, equal sums.
LEMMA TotalSame ==
    ASSUME NEW S, IsFiniteSet(S), NEW f, NEW h, \A x \in S : f[x] = h[x]
    PROVE  Total(f, S) = Total(h, S)
  <1>1. PICK g : Sums(f, S, g) /\ Total(f, S) = g[S]
    BY TotalIsSum
  <1>2. \A s \in SUBSET S : s # {} => f[Pick(s)] = h[Pick(s)]
    BY DEF Pick
  <1>3. Sums(h, S, g)
    BY <1>1, <1>2 DEF Sums
  <1>4. QED
    BY <1>1, <1>3, SumsDecide

\* A sum of zeros.
LEMMA TotalZero ==
    ASSUME NEW S, IsFiniteSet(S), NEW f, \A x \in S : f[x] = 0
    PROVE  Total(f, S) = 0
  <1> DEFINE g == [s \in SUBSET S |-> 0]
  <1>1. \A s \in SUBSET S : s # {} => f[Pick(s)] = 0
    BY DEF Pick
  <1>2. Sums(f, S, g)
    BY <1>1 DEF Sums
  <1>3. QED
    BY <1>2, SumsDecide

\* One summand changed.
LEMMA TotalChanged ==
    ASSUME NEW S, IsFiniteSet(S), NEW f, NEW h, NEW a \in S,
           \A x \in S : f[x] \in Int /\ h[x] \in Int,
           \A x \in S \ {a} : f[x] = h[x]
    PROVE  Total(h, S) = Total(f, S) - f[a] + h[a]
  <1>1. IsFiniteSet(S \ {a})
    BY FS_Subset
  <1>2. Total(f, S \ {a}) = Total(h, S \ {a})
    BY <1>1, TotalSame
  <1>3. Total(f, S \ {a}) \in Int
    BY <1>1, TotalInt
  <1>4. Total(f, S) = f[a] + Total(f, S \ {a}) /\ Total(h, S) = h[a] + Total(h, S \ {a})
    BY TotalTakeOut
  <1>5. f[a] \in Int /\ h[a] \in Int
    OBVIOUS
  <1>6. QED
    BY <1>2, <1>3, <1>4, <1>5

\* A sum in two parts.
LEMMA TotalSplit ==
    ASSUME NEW S, IsFiniteSet(S), NEW f, \A x \in S : f[x] \in Int, NEW D \in SUBSET S
    PROVE  Total(f, S) = Total(f, D) + Total(f, S \ D)
  <1> DEFINE B == {d \in SUBSET D : Total(f, (S \ D) \cup d) # Total(f, d) + Total(f, S \ D)}
  <1>1. ASSUME B # {} PROVE FALSE
    <2>0. B \in SUBSET (SUBSET D) /\ IsFiniteSet(D)
      BY FS_Subset
    <2> HIDE DEF B
    <2>1. PICK m \in B : \A n \in B : n \subseteq m => n = m
      BY <1>1, <2>0, SmallestSubset
    <2> USE DEF B
    <2> DEFINE R == S \ D
               y == Pick(m)
    <2>2. m \in SUBSET D /\ Total(f, R \cup m) # Total(f, m) + Total(f, R)
      BY <2>1
    <2>3. IsFiniteSet(m) /\ IsFiniteSet(R \cup m) /\ IsFiniteSet(R)
      BY <2>2, FS_Subset
    <2>4. Total(f, R) \in Int
      BY <2>3, TotalInt
    <2>5. m # {}
      <3>1. ASSUME m = {} PROVE FALSE
        <4>1. R \cup m = R /\ Total(f, m) = 0
          BY <3>1, TotalEmpty
        <4> HIDE DEF R, B
        <4>2. Total(f, R \cup m) = Total(f, R)
          BY <4>1
        <4>3. QED
          BY <2>2, <2>4, <4>1, <4>2
      <3>2. QED
        BY <3>1
    <2>6. y \in m /\ Total(f, m) = f[y] + Total(f, m \ {y})
      BY <2>3, <2>5, TotalPick
    <2>7. Total(f, R \cup m) = f[y] + Total(f, (R \cup m) \ {y})
      BY <2>2, <2>3, <2>6, TotalTakeOut
    <2>8. (R \cup m) \ {y} = R \cup (m \ {y})
      BY <2>2, <2>6
    <2>9. Total(f, R \cup (m \ {y})) = Total(f, m \ {y}) + Total(f, R)
      <3>1. m \ {y} \in SUBSET D
        BY <2>2
      <3> HIDE DEF B, y
      <3>2. m \ {y} \notin B
        BY <2>1, <2>6
      <3> USE DEF B
      <3> HIDE DEF y
      <3>3. QED
        BY <3>1, <3>2
    <2>10. Total(f, m \ {y}) \in Int /\ f[y] \in Int
      <3>1. IsFiniteSet(m \ {y})
        BY <2>3, FS_Subset
      <3>2. QED
        BY <3>1, <2>2, <2>6, TotalInt
    <2>11. Total(f, R \cup m) = f[y] + Total(f, R \cup (m \ {y}))
      BY <2>7, <2>8
    <2> HIDE DEF R, y, B
    <2>12. QED
      BY <2>2, <2>4, <2>6, <2>9, <2>10, <2>11
  <1>2. D \notin B /\ (S \ D) \cup D = S
    BY <1>1
  <1>3. QED
    BY <1>2
\* What a reservation asks for, as sums.
LEMMA NodesTotal ==
    ASSUME NEW ask, IsFiniteSet(DOMAIN ask)
    PROVE  Nodes(ask) = Total([u \in DOMAIN ask |-> ask[u].nodes], (DOMAIN ask))
  <1> DEFINE f    == [u \in DOMAIN ask |-> ask[u].nodes]
             P(g) == g = [s \in SUBSET (DOMAIN ask) |->
                             IF s = {} THEN 0 ELSE ask[Pick(s)].nodes + g[s \ {Pick(s)}]]
  <1>1. Nodes(ask) = (CHOOSE g : P(g))[(DOMAIN ask)]
    BY DEF Nodes, MapThenSumSet, MapThenFoldSet, Pick
  <1>2. \A s \in SUBSET (DOMAIN ask) : s # {} => f[Pick(s)] = ask[Pick(s)].nodes
    BY DEF Pick
  <1>3. ASSUME NEW g PROVE P(g) <=> Sums(f, (DOMAIN ask), g)
    BY <1>2 DEF Sums
  <1> HIDE DEF P, f
  <1>4. \E g : P(g)
    BY <1>3, SumsExist
  <1>5. P(CHOOSE g : P(g))
    BY <1>4
  <1>6. Total(f, (DOMAIN ask)) = (CHOOSE g : P(g))[(DOMAIN ask)]
    BY <1>3, <1>5, SumsDecide
  <1>7. QED
    BY <1>1, <1>6 DEF f

\* The same for model runs.
LEMMA RunsTotal ==
    ASSUME NEW ask, IsFiniteSet(DOMAIN ask)
    PROVE  Runs(ask) = Total([u \in DOMAIN ask |-> ask[u].runs], (DOMAIN ask))
  <1> DEFINE f    == [u \in DOMAIN ask |-> ask[u].runs]
             P(g) == g = [s \in SUBSET (DOMAIN ask) |->
                             IF s = {} THEN 0 ELSE ask[Pick(s)].runs + g[s \ {Pick(s)}]]
  <1>1. Runs(ask) = (CHOOSE g : P(g))[(DOMAIN ask)]
    BY DEF Runs, MapThenSumSet, MapThenFoldSet, Pick
  <1>2. \A s \in SUBSET (DOMAIN ask) : s # {} => f[Pick(s)] = ask[Pick(s)].runs
    BY DEF Pick
  <1>3. ASSUME NEW g PROVE P(g) <=> Sums(f, (DOMAIN ask), g)
    BY <1>2 DEF Sums
  <1> HIDE DEF P, f
  <1>4. \E g : P(g)
    BY <1>3, SumsExist
  <1>5. P(CHOOSE g : P(g))
    BY <1>4
  <1>6. Total(f, (DOMAIN ask)) = (CHOOSE g : P(g))[(DOMAIN ask)]
    BY <1>3, <1>5, SumsDecide
  <1>7. QED
    BY <1>1, <1>6 DEF f

-----------------------------------------------------------------------------
(* What each operation leaves in the fields of the ledger.                 *)

\* There are finitely many nodes: the tokens and the root.
LEMMA RootIsNode == Root \in Node /\ Token \subseteq Node /\ IsFiniteSet(Node)
  <1>1. IsFiniteSet(Token \cup {Root})
    BY LedgerAssumption, FS_AddElement
  <1>2. QED
    BY <1>1 DEF Node

\* Notifying moves the head of the queue to the woken calls, with a permit.
LEMMA NotifiedIs ==
    ASSUME NEW L \in Ledger
    PROVE  LET K == Notified(L) IN
           /\ K \in Ledger
           /\ K.node = L.node /\ K.budget = L.budget /\ K.cancelled = L.cancelled
           /\ K.active = L.active
           /\ L.waiters = <<>> => K = L
           /\ L.waiters # <<>> => /\ K.waiters = Tail(L.waiters)
                                  /\ K.woken = Append(L.woken, Head(L.waiters))
                                  /\ K.permits = L.permits + 1
  <1>1. CASE L.waiters = <<>>
    BY <1>1 DEF Notified
  <1>2. CASE L.waiters # <<>>
    <2>1. /\ L.waiters \in Seq(Call) /\ L.woken \in Seq(Call) /\ L.permits \in Nat
      BY DEF Ledger
    <2>2. Head(L.waiters) \in Call /\ Tail(L.waiters) \in Seq(Call)
      BY <1>2, <2>1, HeadTailProperties
    <2>3. Append(L.woken, Head(L.waiters)) \in Seq(Call)
      BY <2>1, <2>2, AppendProperties
    <2>4. Notified(L) = [L EXCEPT !.woken   = Append(L.woken, Head(L.waiters)),
                                  !.waiters = Tail(L.waiters),
                                  !.permits = L.permits + 1]
      BY <1>2 DEF Notified
    <2> DEFINE W == Append(L.woken, Head(L.waiters))
               T == Tail(L.waiters)
    <2>5. W \in Seq(Call) /\ T \in Seq(Call)
      BY <2>2, <2>3
    <2> DEFINE p == L.permits + 1
    <2>6. p \in Nat
      BY <2>1
    <2> HIDE DEF W, T, p
    <2>7. LET K == [L EXCEPT !.woken = W, !.waiters = T, !.permits = p] IN
          /\ K \in Ledger
          /\ K.node = L.node /\ K.budget = L.budget /\ K.cancelled = L.cancelled
          /\ K.active = L.active
          /\ K.waiters = T /\ K.woken = W /\ K.permits = p
      BY <2>5, <2>6 DEF Ledger
    <2> USE DEF W, T, p
    <2>8. QED
      BY <1>2, <2>4, <2>7
  <1>3. QED
    BY <1>1, <1>2

\* A call that finds no slot goes to the end of the queue.
LEMMA QueuedIs ==
    ASSUME NEW L \in Ledger, NEW q \in Call
    PROVE  LET K == Queued(L, q) IN
           /\ K \in Ledger
           /\ K.node = L.node /\ K.budget = L.budget /\ K.cancelled = L.cancelled
           /\ K.active = L.active /\ K.permits = L.permits /\ K.woken = L.woken
           /\ K.waiters = Append(L.waiters, q)
  <1>1. Append(L.waiters, q) \in Seq(Call)
    BY AppendProperties DEF Ledger
  <1>2. QED
    BY <1>1 DEF Queued, Ledger

\* A slot given up, before the queue is notified.
Idled(L, t) == [L EXCEPT !.node[t].running = FALSE, !.active = @ - 1]

\* A node that gives up its slot stops running, and one slot fewer is taken.
LEMMA IdledIs ==
    ASSUME NEW L \in Ledger, NEW t \in Node, L.active > 0
    PROVE  LET K == Idled(L, t) IN
           /\ K \in Ledger
           /\ K.node = [L.node EXCEPT ![t] = [L.node[t] EXCEPT !.running = FALSE]]
           /\ K.budget = L.budget /\ K.cancelled = L.cancelled
           /\ K.active = L.active - 1
           /\ K.waiters = L.waiters /\ K.woken = L.woken /\ K.permits = L.permits
  <1> DEFINE N == [L.node EXCEPT ![t] = [L.node[t] EXCEPT !.running = FALSE]]
  <1>1. L.node[t] \in Grant
    BY DEF Ledger
  <1>2. [L.node[t] EXCEPT !.running = FALSE] \in Grant
    BY <1>1 DEF Grant
  <1>3. N \in [Node -> Grant]
    BY <1>2 DEF Ledger
  <1> DEFINE a == L.active - 1
  <1>a. a \in Nat
    BY DEF Ledger
  <1>4. Idled(L, t) = [L EXCEPT !.node = N, !.active = L.active - 1]
    BY DEF Idled
  <1> HIDE DEF N, a
  <1>5. LET K == [L EXCEPT !.node = N, !.active = a] IN
        /\ K \in Ledger
        /\ K.node = N /\ K.budget = L.budget /\ K.cancelled = L.cancelled
        /\ K.active = a
        /\ K.waiters = L.waiters /\ K.woken = L.woken /\ K.permits = L.permits
    BY <1>3, <1>a DEF Ledger
  <1> USE DEF N, a
  <1>6. QED
    BY <1>4, <1>5

\* What is left to a grant that takes a slot.
Paying(L, op, t) ==
    [L.budget[t] EXCEPT !.nodes = IF op = "start" THEN L.budget[t].nodes - 1
                                  ELSE L.budget[t].nodes]

\* The grant and the budget of a call that takes a slot.
TakenFrom(L, K, op, t) ==
    /\ K.node[t] = [L.node[t] EXCEPT !.status = "active", !.running = TRUE]
    /\ K.budget[t] = Paying(L, op, t)
    /\ \A u \in Node : u # t => K.node[u] = L.node[u] /\ K.budget[u] = L.budget[u]

\* A call that finds a slot runs its token, and a start also spends a node.
LEMMA SlotTakenIs ==
    ASSUME NEW L \in Ledger, NEW t \in Token, NEW op,
           op = "start" => L.budget[t].nodes >= 1
    PROVE  LET K == SlotTaken(L, op, t) IN
           /\ K \in Ledger
           /\ TakenFrom(L, K, op, t)
           /\ K.cancelled = L.cancelled
           /\ K.active = L.active + 1
           /\ K.waiters = L.waiters /\ K.woken = L.woken /\ K.permits = L.permits
  <1> DEFINE N == [L.node EXCEPT
                     ![t] = [L.node[t] EXCEPT !.status = "active", !.running = TRUE]]
             B == [L.budget EXCEPT ![t] = Paying(L, op, t)]
  <1>1. t \in Node
    BY RootIsNode
  <1>2. L.node[t] \in Grant /\ L.budget[t] \in Budget
    BY <1>1 DEF Ledger
  <1>3. [L.node[t] EXCEPT !.status = "active", !.running = TRUE] \in Grant
    BY <1>2 DEF Grant, Status
  <1>4. Paying(L, op, t) \in Budget
    BY <1>2 DEF Budget, Paying
  <1>5. N \in [Node -> Grant] /\ B \in [Node -> Budget]
    BY <1>3, <1>4 DEF Ledger
  <1> DEFINE a == L.active + 1
  <1>a. a \in Nat
    BY DEF Ledger
  <1>6. SlotTaken(L, op, t) = [L EXCEPT !.node = N, !.budget = B, !.active = L.active + 1]
    BY DEF SlotTaken, Paying
  <1> HIDE DEF N, B, a
  <1>7. LET K == [L EXCEPT !.node = N, !.budget = B, !.active = a] IN
        /\ K \in Ledger
        /\ K.node = N /\ K.budget = B /\ K.cancelled = L.cancelled
        /\ K.active = a
        /\ K.waiters = L.waiters /\ K.woken = L.woken /\ K.permits = L.permits
    BY <1>5, <1>a DEF Ledger
  <1>8. /\ N[t] = [L.node[t] EXCEPT !.status = "active", !.running = TRUE]
        /\ B[t] = Paying(L, op, t)
        /\ \A u \in Node : u # t => N[u] = L.node[u] /\ B[u] = L.budget[u]
    BY <1>1 DEF N, B, Ledger
  <1> DEFINE K == [L EXCEPT !.node = N, !.budget = B, !.active = a]
  <1> HIDE DEF N, B, K
  <1>9. TakenFrom(L, K, op, t)
    <2>1. K.node = N /\ K.budget = B
      BY <1>7 DEF K
    <2>2. QED
      BY <1>8, <2>1 DEF TakenFrom
  <1>10. QED
    BY <1>6, <1>7, <1>9 DEF K, a

\* Grants of S that were active are revoked, reservations dropped.
WithdrawnFrom(L, K, S) ==
    \A u \in Node :
       /\ K.node[u] = [L.node[u] EXCEPT !.status = K.node[u].status]
       /\ K.node[u].status = L.node[u].status => K.node[u] = L.node[u]
       /\ K.node[u].status =
             IF u \in S /\ L.node[u].status = "active" THEN "revoked"
             ELSE IF u \in S /\ L.node[u].status = "reserved" THEN "dropped"
             ELSE L.node[u].status

\* A revocation withdraws the tokens of a forest and changes nothing else.
LEMMA WithdrawnIs ==
    ASSUME NEW L \in Ledger, NEW S
    PROVE  LET K == Withdrawn(L, S) IN
           /\ K \in Ledger
           /\ WithdrawnFrom(L, K, S)
           /\ K.budget = L.budget /\ K.cancelled = L.cancelled /\ K.active = L.active
           /\ K.waiters = L.waiters /\ K.woken = L.woken /\ K.permits = L.permits
  <1> DEFINE N == [u \in Node |->
        IF u \notin S THEN L.node[u]
        ELSE CASE L.node[u].status = "active"   -> [L.node[u] EXCEPT !.status = "revoked"]
               [] L.node[u].status = "reserved" -> [L.node[u] EXCEPT !.status = "dropped"]
               [] OTHER                         -> L.node[u]]
  <1>1. \A u \in Node :
           /\ N[u] \in Grant
           /\ N[u] = [L.node[u] EXCEPT !.status = N[u].status]
           /\ N[u].status = L.node[u].status => N[u] = L.node[u]
           /\ N[u].status = IF u \in S /\ L.node[u].status = "active" THEN "revoked"
                            ELSE IF u \in S /\ L.node[u].status = "reserved" THEN "dropped"
                            ELSE L.node[u].status
    BY DEF Ledger, Grant, Status
  <1>2. Withdrawn(L, S) = [L EXCEPT !.node = N]
    BY DEF Withdrawn
  <1>3. N \in [Node -> Grant]
    BY <1>1
  <1> DEFINE K == [L EXCEPT !.node = N]
  <1> HIDE DEF N
  <1>4. /\ K \in Ledger /\ K.node = N
        /\ K.budget = L.budget /\ K.cancelled = L.cancelled /\ K.active = L.active
        /\ K.waiters = L.waiters /\ K.woken = L.woken /\ K.permits = L.permits
    BY <1>3 DEF Ledger
  <1> HIDE DEF K
  <1>5. WithdrawnFrom(L, K, S)
    BY <1>1, <1>4 DEF WithdrawnFrom
  <1>6. QED
    BY <1>2, <1>4, <1>5 DEF K

\* A run charged to a node leaves its budget and no other.
LEMMA ChargedIs ==
    ASSUME NEW L \in Ledger, NEW t \in Node, NEW count \in Nat, count <= L.budget[t].runs
    PROVE  LET K == Charged(L, t, count) IN
           /\ K \in Ledger
           /\ K.budget = [L.budget EXCEPT
                 ![t] = [L.budget[t] EXCEPT !.runs = L.budget[t].runs - count]]
           /\ K.node = L.node /\ K.cancelled = L.cancelled /\ K.active = L.active
           /\ K.waiters = L.waiters /\ K.woken = L.woken /\ K.permits = L.permits
  <1> DEFINE B == [L.budget EXCEPT
                     ![t] = [L.budget[t] EXCEPT !.runs = L.budget[t].runs - count]]
  <1>1. L.budget[t] \in Budget
    BY DEF Ledger
  <1>2. [L.budget[t] EXCEPT !.runs = L.budget[t].runs - count] \in Budget
    BY <1>1 DEF Budget
  <1>3. B \in [Node -> Budget]
    BY <1>2 DEF Ledger
  <1>4. Charged(L, t, count) = [L EXCEPT !.budget = B]
    BY DEF Charged
  <1> HIDE DEF B
  <1>5. LET K == [L EXCEPT !.budget = B] IN
        /\ K \in Ledger /\ K.budget = B
        /\ K.node = L.node /\ K.cancelled = L.cancelled /\ K.active = L.active
        /\ K.waiters = L.waiters /\ K.woken = L.woken /\ K.permits = L.permits
    BY <1>3 DEF Ledger
  <1> USE DEF B
  <1>6. QED
    BY <1>4, <1>5

\* A refund closes the reservation and gives its credits to the parent.
RefundedFrom(L, K, t, p) ==
    /\ K.node[t] = [L.node[t] EXCEPT !.status = "refunded"]
    /\ \A u \in Node : u # t => K.node[u] = L.node[u]
    /\ \A u \in Node : u \notin {t, p} => K.budget[u] = L.budget[u]
    /\ K.budget[t].nodes = 0 /\ K.budget[t].runs = 0
    /\ K.budget[t].slots = L.budget[t].slots
    /\ K.budget[p].nodes = L.budget[p].nodes + L.budget[t].nodes
    /\ K.budget[p].runs = L.budget[p].runs + L.budget[t].runs
    /\ K.budget[p].slots = L.budget[p].slots - 1

\* A refund gives a reservation's nodes, runs and slot back to the parent.
LEMMA RefundedIs ==
    ASSUME NEW L \in Ledger, NEW t \in Node, NEW p \in Node, p = L.node[t].parent, p # t,
           L.budget[p].slots >= 1
    PROVE  LET K == Refunded(L, t) IN
           /\ K \in Ledger
           /\ RefundedFrom(L, K, t, p)
           /\ K.cancelled = L.cancelled /\ K.active = L.active
           /\ K.waiters = L.waiters /\ K.woken = L.woken /\ K.permits = L.permits
  <1> DEFINE N  == [L.node EXCEPT ![t] = [L.node[t] EXCEPT !.status = "refunded"]]
             bt == [L.budget[t] EXCEPT !.nodes = 0, !.runs = 0]
             bp == [L.budget[p] EXCEPT !.nodes = L.budget[p].nodes + L.budget[t].nodes,
                                       !.runs  = L.budget[p].runs + L.budget[t].runs,
                                       !.slots = L.budget[p].slots - 1]
             B  == [L.budget EXCEPT ![t] = bt, ![p] = bp]
  <1>1. L.node[t] \in Grant /\ L.budget[t] \in Budget /\ L.budget[p] \in Budget
    BY DEF Ledger
  <1>2. [L.node[t] EXCEPT !.status = "refunded"] \in Grant
    BY <1>1 DEF Grant, Status
  <1>3. N \in [Node -> Grant]
    BY <1>2 DEF Ledger
  <1>4. bt \in Budget /\ bp \in Budget
    <2> DEFINE a == L.budget[p].nodes + L.budget[t].nodes
               b == L.budget[p].runs + L.budget[t].runs
               c == L.budget[p].slots - 1
    <2>1. a \in Nat /\ b \in Nat /\ c \in Nat
      BY <1>1 DEF Budget
    <2>2. bt \in Budget
      BY <1>1 DEF Budget
    <2> HIDE DEF a, b, c
    <2>3. [L.budget[p] EXCEPT !.nodes = a, !.runs = b, !.slots = c] \in Budget
      BY <1>1, <2>1 DEF Budget
    <2> USE DEF a, b, c
    <2>4. QED
      BY <2>2, <2>3
  <1>5. B \in [Node -> Budget]
    BY <1>4 DEF Ledger
  <1>7. Refunded(L, t) =
           [L EXCEPT !.node = N,
                     !.budget = [L.budget EXCEPT
                         ![t] = [L.budget[t] EXCEPT !.nodes = 0, !.runs = 0],
                         ![p].nodes = L.budget[p].nodes + L.budget[t].nodes,
                         ![p].runs = L.budget[p].runs + L.budget[t].runs,
                         ![p].slots = L.budget[p].slots - 1]]
    BY DEF Refunded, Ledger
  <1>8. [L.budget EXCEPT
             ![t] = [L.budget[t] EXCEPT !.nodes = 0, !.runs = 0],
             ![p].nodes = L.budget[p].nodes + L.budget[t].nodes,
             ![p].runs = L.budget[p].runs + L.budget[t].runs,
             ![p].slots = L.budget[p].slots - 1] = B
    BY <1>1 DEF Ledger, Budget
  <1> HIDE DEF N, B
  <1>9. LET K == [L EXCEPT !.node = N, !.budget = B] IN
        /\ K \in Ledger
        /\ K.node = N /\ K.budget = B
        /\ K.cancelled = L.cancelled /\ K.active = L.active
        /\ K.waiters = L.waiters /\ K.woken = L.woken /\ K.permits = L.permits
    BY <1>3, <1>5 DEF Ledger
  <1> DEFINE K == [L EXCEPT !.node = N, !.budget = B]
  <1> HIDE DEF K
  <1>10. RefundedFrom(L, K, t, p)
    <2>1. K.node = N /\ K.budget = B
      BY <1>9 DEF K
    <2>2. /\ N[t] = [L.node[t] EXCEPT !.status = "refunded"]
          /\ \A u \in Node : u # t => N[u] = L.node[u]
      BY DEF N, Ledger
    <2>3. /\ B[t] = bt /\ B[p] = bp
          /\ \A u \in Node : u \notin {t, p} => B[u] = L.budget[u]
      BY DEF B, Ledger
    <2>4. bt.nodes = 0 /\ bt.runs = 0 /\ bt.slots = L.budget[t].slots
      BY <1>1 DEF Budget
    <2> DEFINE x == L.budget[p].nodes + L.budget[t].nodes
               y == L.budget[p].runs + L.budget[t].runs
               z == L.budget[p].slots - 1
    <2> HIDE DEF x, y, z
    <2>5. LET r == [L.budget[p] EXCEPT !.nodes = x, !.runs = y, !.slots = z] IN
          r.nodes = x /\ r.runs = y /\ r.slots = z
      BY <1>1 DEF Budget
    <2> USE DEF x, y, z
    <2>6. QED
      BY <2>1, <2>2, <2>3, <2>4, <2>5 DEF RefundedFrom
  <1> USE DEF N, B
  <1>11. QED
    BY <1>7, <1>8, <1>9, <1>10 DEF K

\* What a reservation issues.
Issued(L, p, ask, u) ==
    [status    |-> "reserved",
     parent    |-> p,
     above     |-> L.node[p].above \cup {p},
     depth     |-> L.node[p].depth + 1,
     ceiling   |-> L.node[p].depth + 1 + ask[u].depth,
     expiresAt |-> ask[u].expiresAt,
     running   |-> FALSE]

\* The grants and budgets a reservation leaves.
ReservedFrom(L, K, p, S, ask) ==
    /\ \A u \in S :
          /\ K.node[u] = Issued(L, p, ask, u)
          /\ K.budget[u] = [nodes |-> ask[u].nodes, runs |-> ask[u].runs, slots |-> 0]
    /\ \A u \in Node \ S :
          /\ K.node[u] = L.node[u]
          /\ u # p => K.budget[u] = L.budget[u]
    /\ K.budget[p] = [nodes |-> L.budget[p].nodes - Nodes(ask),
                      runs  |-> L.budget[p].runs - Runs(ask),
                      slots |-> L.budget[p].slots + Cardinality(S)]

\* A reservation moves what the children ask for from the parent to them.
LEMMA ReservedIs ==
    ASSUME NEW L \in Ledger, NEW p \in Node, NEW S \in SUBSET Token,
           NEW ask \in [S -> Allocations], NEW at, CanReserve(L, p, ask, at), p \notin S
    PROVE  LET K == Reserved(L, p, ask) IN
           /\ K \in Ledger
           /\ ReservedFrom(L, K, p, S, ask)
           /\ K.cancelled = L.cancelled /\ K.active = L.active
           /\ K.waiters = L.waiters /\ K.woken = L.woken /\ K.permits = L.permits
           /\ Nodes(ask) \in Int /\ Runs(ask) \in Int /\ Cardinality(S) \in Nat
           /\ IsFiniteSet(S)
  <1> DEFINE N == [u \in Node |-> IF u \in S THEN Issued(L, p, ask, u) ELSE L.node[u]]
             bp == [nodes |-> L.budget[p].nodes - Nodes(ask),
                    runs  |-> L.budget[p].runs - Runs(ask),
                    slots |-> L.budget[p].slots + Cardinality(S)]
             B == [u \in Node |->
                 IF u \in S THEN [nodes |-> ask[u].nodes, runs |-> ask[u].runs, slots |-> 0]
                 ELSE IF u = p THEN bp
                 ELSE L.budget[u]]
  <1>1. DOMAIN ask = S
    OBVIOUS
  <1>2. IsFiniteSet(S) /\ Cardinality(S) \in Nat
    BY LedgerAssumption, FS_Subset, FS_CardinalityType
  <1>3. \A u \in S : ask[u] \in [nodes : Nat, runs : Nat, depth : Nat, expiresAt : Nat]
    BY LedgerAssumption
  <1>4. Nodes(ask) \in Int
    <2> DEFINE f == [u \in S |-> ask[u].nodes]
    <2>1. \A u \in S : f[u] \in Int
      BY <1>3
    <2>2. Nodes(ask) = Total(f, S)
      BY <1>1, <1>2, NodesTotal
    <2> HIDE DEF f
    <2>3. QED
      BY <1>2, <2>1, <2>2, TotalInt
  <1>5. Runs(ask) \in Int
    <2> DEFINE f == [u \in S |-> ask[u].runs]
    <2>1. \A u \in S : f[u] \in Int
      BY <1>3
    <2>2. Runs(ask) = Total(f, S)
      BY <1>1, <1>2, RunsTotal
    <2> HIDE DEF f
    <2>3. QED
      BY <1>2, <2>1, <2>2, TotalInt
  <1>6. L.node[p] \in Grant /\ L.budget[p] \in Budget
    BY DEF Ledger
  <1>7. Nodes(ask) <= L.budget[p].nodes /\ Runs(ask) <= L.budget[p].runs
    BY DEF CanReserve
  <1>8. bp \in Budget
    BY <1>2, <1>4, <1>5, <1>6, <1>7 DEF Budget
  <1>9. \A u \in S : Issued(L, p, ask, u) \in Grant
    BY <1>3, <1>6 DEF Issued, Grant, Status
  <1>10. N \in [Node -> Grant]
    BY <1>9 DEF Ledger
  <1>11. B \in [Node -> Budget]
    BY <1>3, <1>8 DEF Ledger, Budget
  <1>12. Reserved(L, p, ask) = [L EXCEPT !.node = N, !.budget = B]
    BY <1>1 DEF Reserved, Issued
  <1> HIDE DEF N, B
  <1>13. LET K == [L EXCEPT !.node = N, !.budget = B] IN
        /\ K \in Ledger
        /\ K.node = N /\ K.budget = B
        /\ K.cancelled = L.cancelled /\ K.active = L.active
        /\ K.waiters = L.waiters /\ K.woken = L.woken /\ K.permits = L.permits
    BY <1>10, <1>11 DEF Ledger
  <1>14. /\ \A u \in S :
              /\ N[u] = Issued(L, p, ask, u)
              /\ B[u] = [nodes |-> ask[u].nodes, runs |-> ask[u].runs, slots |-> 0]
        /\ \A u \in Node \ S : N[u] = L.node[u] /\ (u # p => B[u] = L.budget[u])
        /\ B[p] = bp
    BY RootIsNode DEF N, B
  <1> DEFINE K == [L EXCEPT !.node = N, !.budget = B]
  <1> HIDE DEF N, B, K
  <1>15. ReservedFrom(L, K, p, S, ask)
    <2>1. K.node = N /\ K.budget = B
      BY <1>13 DEF K
    <2>2. QED
      BY <1>14, <2>1 DEF ReservedFrom
  <1>16. QED
    BY <1>2, <1>4, <1>5, <1>12, <1>13, <1>15 DEF K

\* A cancellation withdraws every token and rejects the queue.
LEMMA CancelledIs ==
    ASSUME NEW L \in Ledger
    PROVE  LET K == Cancelled(L) IN
           /\ K \in Ledger
           /\ WithdrawnFrom(L, K, Node)
           /\ K.cancelled = TRUE /\ K.waiters = <<>>
           /\ K.budget = L.budget /\ K.active = L.active
           /\ K.woken = L.woken /\ K.permits = L.permits
  <1> DEFINE W == Withdrawn(L, Node)
  <1>1. /\ W \in Ledger
        /\ WithdrawnFrom(L, W, Node)
        /\ W.budget = L.budget /\ W.active = L.active
        /\ W.woken = L.woken /\ W.permits = L.permits
    BY WithdrawnIs
  <1>2. Cancelled(L) = [W EXCEPT !.cancelled = TRUE, !.waiters = <<>>]
    BY DEF Cancelled
  <1> DEFINE e == <<>>
             y == TRUE
  <1>a. e \in Seq(Call) /\ y \in BOOLEAN
    OBVIOUS
  <1> HIDE DEF W, e, y
  <1>3. LET K == [W EXCEPT !.cancelled = y, !.waiters = e] IN
        /\ K \in Ledger /\ K.cancelled = y /\ K.waiters = e
        /\ K.node = W.node /\ K.budget = W.budget /\ K.active = W.active
        /\ K.woken = W.woken /\ K.permits = W.permits
    BY <1>1, <1>a DEF Ledger
  <1> DEFINE K == [W EXCEPT !.cancelled = y, !.waiters = e]
  <1> HIDE DEF K
  <1>4. WithdrawnFrom(L, K, Node)
    <2>1. K.node = W.node
      BY <1>3 DEF K
    <2>2. QED
      BY <1>1, <2>1 DEF WithdrawnFrom
  <1>5. QED
    BY <1>1, <1>2, <1>3, <1>4 DEF K, e, y

\* A grant settled, before the slot it may hold is given up.
LEMMA SettledIs ==
    ASSUME NEW L \in Ledger, NEW t \in Node
    PROVE  LET K == [L EXCEPT !.node[t].status = "settled"] IN
           /\ K \in Ledger
           /\ K.node = [L.node EXCEPT ![t] = [L.node[t] EXCEPT !.status = "settled"]]
           /\ K.budget = L.budget /\ K.cancelled = L.cancelled /\ K.active = L.active
           /\ K.waiters = L.waiters /\ K.woken = L.woken /\ K.permits = L.permits
  <1> DEFINE N == [L.node EXCEPT ![t] = [L.node[t] EXCEPT !.status = "settled"]]
  <1>1. L.node[t] \in Grant
    BY DEF Ledger
  <1>2. [L.node[t] EXCEPT !.status = "settled"] \in Grant
    BY <1>1 DEF Grant, Status
  <1>3. N \in [Node -> Grant]
    BY <1>2 DEF Ledger
  <1>4. [L EXCEPT !.node[t].status = "settled"] = [L EXCEPT !.node = N]
    OBVIOUS
  <1> HIDE DEF N
  <1>5. LET K == [L EXCEPT !.node = N] IN
        /\ K \in Ledger /\ K.node = N
        /\ K.budget = L.budget /\ K.cancelled = L.cancelled /\ K.active = L.active
        /\ K.waiters = L.waiters /\ K.woken = L.woken /\ K.permits = L.permits
    BY <1>3 DEF Ledger
  <1> USE DEF N
  <1>6. QED
    BY <1>4, <1>5

-----------------------------------------------------------------------------
(* The tree of authority.                                                  *)

Live == {"active", "reserved"}

\* What every operation but a reservation leaves of the tree.
Framed(n, m) ==
    /\ m \in [Node -> Grant]
    /\ \A u \in Node :
          /\ m[u].parent = n[u].parent /\ m[u].above = n[u].above
          /\ m[u].depth = n[u].depth /\ m[u].ceiling = n[u].ceiling
          /\ m[u].expiresAt = n[u].expiresAt
          /\ n[u].status = "unissued" => m[u] = n[u]
          /\ m[u].status = "unissued" => n[u].status = "unissued"
          /\ n[u].status \in Published => m[u].status \in Published
          /\ m[u].running => m[u].status \in {"active", "revoked"}
    /\ ~m[Root].running

\* An unchanged shape with legal changes of status is still a tree.
LEMMA FramedTree ==
    ASSUME NEW n \in [Node -> Grant], NEW m, TreeInv(n), Framed(n, m)
    PROVE  TreeInv(m)
  <1>1. \A u \in Node : n[u].above \subseteq Node
    BY DEF Grant
  <1>2. RootInv(m)
    BY RootIsNode DEF TreeInv, RootInv, Framed
  <1>3. \A u \in Token : IF m[u].status = "unissued" THEN m[u] = Unissued ELSE Hangs(m, u)
    <2> SUFFICES ASSUME NEW u \in Token
                 PROVE  IF m[u].status = "unissued" THEN m[u] = Unissued ELSE Hangs(m, u)
      OBVIOUS
    <2>1. u \in Node
      BY RootIsNode
    <2>2. CASE m[u].status = "unissued"
      BY <2>1, <2>2 DEF TreeInv, Framed
    <2>3. CASE m[u].status # "unissued"
      <3>1. Hangs(n, u)
        BY <2>1, <2>3 DEF TreeInv, Framed, Unissued
      <3>2. QED
        BY <2>1, <2>3, <3>1 DEF Framed, Hangs
    <2>4. QED
      BY <2>2, <2>3
  <1>4. ASSUME NEW u \in Node, NEW v \in m[u].above
        PROVE  /\ m[v].status \in Published
               /\ m[v].above \subseteq m[u].above
               /\ m[u].parent = v \/ \E w \in m[u].above : m[w].parent = v
    BY <1>1, <1>4 DEF TreeInv, Framed
  <1>5. \A u \in Node : m[u].running => m[u].status \in {"active", "revoked"}
    BY DEF Framed
  <1>6. QED
    BY <1>2, <1>3, <1>4, <1>5 DEF TreeInv

\* Nothing comes to life, and nothing ends above what lives on.
LEMMA FramedAuthority ==
    ASSUME NEW n, NEW m, NEW c, NEW d, Framed(n, m), AuthorityInv(n, c),
           \A u \in Node : m[u].status \in Live =>
               /\ n[u].status \in Live
               /\ ~d
               /\ \A v \in n[u].above : n[v].status = "active" => m[v].status = "active"
    PROVE  AuthorityInv(m, d)
  BY DEF AuthorityInv, Framed, Live

\* What is settled has nothing but what is over below it.
LEMMA FramedJoin ==
    ASSUME NEW n, NEW m, Framed(n, m), JoinInv(n),
           \A u \in Node : n[u].status \in Over => m[u].status \in Over,
           \A u \in Node : \A t \in n[u].above :
               m[t].status = "settled" /\ n[t].status # "settled" => m[u].status \in Over
    PROVE  JoinInv(m)
  BY DEF JoinInv, Framed

\* A slot taken by a call entitled to it.
LEMMA SlotTakenGood ==
    ASSUME NEW L, Good(L), NEW op \in {"start", "resume"}, NEW t \in Token, NEW at,
           Entitled(L, op, t, at), op = "start" => L.budget[t].nodes >= 1
    PROVE  /\ Good(SlotTaken(L, op, t))
           /\ ~L.node[t].running
           /\ op = "start" => L.node[t].status = "reserved"
           /\ op = "resume" => L.node[t].status = "active"
  <1> DEFINE K == SlotTaken(L, op, t)
  <1>1. /\ K \in Ledger
        /\ K.node[t] = [L.node[t] EXCEPT !.status = "active", !.running = TRUE]
        /\ \A u \in Node : u # t => K.node[u] = L.node[u]
        /\ K.cancelled = L.cancelled
    <2>1. L \in Ledger
      BY DEF Good
    <2>2. K \in Ledger /\ TakenFrom(L, K, op, t) /\ K.cancelled = L.cancelled
      BY <2>1, SlotTakenIs
    <2> HIDE DEF K
    <2>3. QED
      BY <2>2 DEF TakenFrom
  <1> HIDE DEF K
  <1>2. /\ t \in Node /\ t # Root /\ Root \in Node
        /\ L.node \in [Node -> Grant] /\ L.node[t] \in Grant
        /\ K.node \in [Node -> Grant]
    BY <1>1, RootIsNode, LedgerAssumption DEF Good, Ledger
  <1>3. /\ op = "start" => L.node[t].status = "reserved"
        /\ op = "resume" => L.node[t].status = "active"
    BY DEF Entitled, CanStart, CanResume, Authorized
  <1>4. ~L.node[t].running
    BY <1>2, <1>3 DEF Entitled, CanResume, Good, TreeInv
  <1>5. /\ K.node[t] = [L.node[t] EXCEPT !.status = "active", !.running = TRUE]
        /\ \A u \in Node : u # t => K.node[u] = L.node[u]
    BY <1>1, <1>2
  <1>6. /\ K.node[t].status = "active" /\ K.node[t].parent = L.node[t].parent
        /\ K.node[t].above = L.node[t].above /\ K.node[t].depth = L.node[t].depth
        /\ K.node[t].ceiling = L.node[t].ceiling /\ K.node[t].expiresAt = L.node[t].expiresAt
    BY <1>2, <1>5 DEF Grant
  <1>7. Framed(L.node, K.node)
    BY <1>2, <1>3, <1>5, <1>6 DEF Framed, Good, TreeInv, RootInv, Published
  <1>8. L.node[t].status \in Live /\ L.node[t].status \notin Over
    BY <1>3 DEF Live, Over
  <1>9. TreeInv(K.node)
    BY <1>2, <1>7, FramedTree DEF Good
  <1>10. AuthorityInv(K.node, K.cancelled)
    <2>1. \A u \in Node : K.node[u].status \in Live => L.node[u].status \in Live
      BY <1>5, <1>8
    <2>2. \A v \in Node : L.node[v].status = "active" => K.node[v].status = "active"
      BY <1>5, <1>6
    <2>3. \A u \in Node : L.node[u].above \subseteq Node
      BY <1>2 DEF Grant
    <2>4. \A u \in Node : L.node[u].status \in Live => ~L.cancelled
      BY DEF Good, AuthorityInv, Live
    <2>5. AuthorityInv(L.node, L.cancelled)
      BY DEF Good
    <2>6. \A u \in Node : K.node[u].status \in Live =>
             /\ L.node[u].status \in Live
             /\ ~K.cancelled
             /\ \A v \in L.node[u].above :
                   L.node[v].status = "active" => K.node[v].status = "active"
      BY <1>1, <2>1, <2>2, <2>3, <2>4
    <2>7. QED
      BY <1>7, <2>5, <2>6, FramedAuthority
  <1>11. JoinInv(K.node)
    <2>1. \A u \in Node : L.node[u].status \in Over => K.node[u].status \in Over
      BY <1>5, <1>8
    <2>2. \A v \in Node : K.node[v].status = "settled" => L.node[v].status = "settled"
      BY <1>5, <1>6
    <2>3. \A u \in Node : L.node[u].above \subseteq Node
      BY <1>2 DEF Grant
    <2>4. QED
      BY <1>7, <2>1, <2>2, <2>3, FramedJoin DEF Good
  <1>12. QED
    BY <1>1, <1>3, <1>4, <1>9, <1>10, <1>11 DEF Good, K

\* A slot given up.
LEMMA IdledGood ==
    ASSUME NEW L, Good(L), NEW t \in Node, L.node[t].running, L.active > 0
    PROVE  Good(Idled(L, t))
  <1> DEFINE K == Idled(L, t)
  <1>1. /\ K \in Ledger
        /\ K.node = [L.node EXCEPT ![t] = [L.node[t] EXCEPT !.running = FALSE]]
        /\ K.cancelled = L.cancelled
    BY IdledIs DEF Good
  <1> HIDE DEF K
  <1>2. /\ L.node \in [Node -> Grant] /\ L.node[t] \in Grant /\ K.node \in [Node -> Grant]
        /\ Root \in Node
    BY <1>1, RootIsNode DEF Good, Ledger
  <1>3. /\ K.node[t] = [L.node[t] EXCEPT !.running = FALSE]
        /\ \A u \in Node : u # t => K.node[u] = L.node[u]
    BY <1>1, <1>2
  <1>4. /\ K.node[t].status = L.node[t].status /\ K.node[t].parent = L.node[t].parent
        /\ K.node[t].above = L.node[t].above /\ K.node[t].depth = L.node[t].depth
        /\ K.node[t].ceiling = L.node[t].ceiling /\ K.node[t].expiresAt = L.node[t].expiresAt
        /\ ~K.node[t].running
    BY <1>2, <1>3 DEF Grant
  <1>5. L.node[t].status # "unissued"
    BY DEF Good, TreeInv
  <1>6. \A u \in Node : K.node[u].status = L.node[u].status
    BY <1>3, <1>4
  <1>7. Framed(L.node, K.node)
    BY <1>2, <1>3, <1>4, <1>5 DEF Framed, Good, TreeInv, RootInv
  <1>8. TreeInv(K.node)
    BY <1>2, <1>7, FramedTree DEF Good
  <1>9. \A u \in Node : L.node[u].above \subseteq Node
    BY <1>2 DEF Grant
  <1>10. AuthorityInv(K.node, K.cancelled)
    BY <1>1, <1>6, <1>7, <1>9 DEF Good, AuthorityInv, Framed
  <1>11. JoinInv(K.node)
    BY <1>6, <1>7, <1>9 DEF Good, JoinInv, Framed
  <1>12. QED
    BY <1>1, <1>8, <1>10, <1>11 DEF Good, K

\* The grant that settled; its slot is given up.
SettledFrom(L, K, t) ==
    /\ \A u \in Node : u # t => K.node[u] = L.node[u]
    /\ K.node[t].status = "settled" /\ K.node[t].parent = L.node[t].parent
    /\ K.node[t].above = L.node[t].above /\ K.node[t].depth = L.node[t].depth
    /\ K.node[t].ceiling = L.node[t].ceiling /\ K.node[t].expiresAt = L.node[t].expiresAt
    /\ ~K.node[t].running

\* Settling a node whose children are over keeps the tree, its authority and
\* its joins.
LEMMA SettledGood ==
    ASSUME NEW L, Good(L), NEW t \in Node, L.node[t].status \in {"active", "revoked"},
           Joined(L, t), NEW K \in Ledger, K.cancelled = L.cancelled, SettledFrom(L, K, t)
    PROVE  Good(K)
  <1> USE DEF SettledFrom
  <1>1. /\ L.node \in [Node -> Grant] /\ L.node[t] \in Grant /\ K.node \in [Node -> Grant]
        /\ Root \in Node
    BY RootIsNode DEF Good, Ledger
  <1>2. /\ K.node[t].status = "settled" /\ K.node[t].parent = L.node[t].parent
        /\ K.node[t].above = L.node[t].above /\ K.node[t].depth = L.node[t].depth
        /\ K.node[t].ceiling = L.node[t].ceiling /\ K.node[t].expiresAt = L.node[t].expiresAt
        /\ ~K.node[t].running
    OBVIOUS
  <1>3. Framed(L.node, K.node)
    BY <1>1, <1>2 DEF Framed, Good, TreeInv, RootInv, Published
  <1>4. TreeInv(K.node)
    BY <1>1, <1>3, FramedTree DEF Good
  <1>5. \A u \in Node : L.node[u].above \subseteq Node
    BY <1>1 DEF Grant
  <1>6. ASSUME NEW u \in Node, t \in L.node[u].above
        PROVE  L.node[u].status \in Over
    <2>1. u \in Token /\ Hangs(L.node, u)
      <3>1. u \in Token
        BY <1>6 DEF Good, TreeInv, RootInv, Node
      <3>2. L.node[u].status # "unissued"
        BY <1>6, <3>1 DEF Good, TreeInv, Unissued
      <3>3. QED
        BY <3>1, <3>2 DEF Good, TreeInv
    <2>2. CASE L.node[u].parent = t
      <3>1. L.node[u].status \notin {"active", "revoked", "reserved"}
        BY <2>1, <2>2 DEF Joined, Children
      <3>2. L.node[u].status # "unissued"
        BY <1>6, <2>1 DEF Good, TreeInv, Unissued
      <3>3. QED
        BY <1>1, <3>1, <3>2 DEF Grant, Status, Over
    <2>3. CASE \E w \in L.node[u].above : L.node[w].parent = t
      <3>1. PICK w \in L.node[u].above : L.node[w].parent = t
        BY <2>3
      <3>2. w \in Node /\ L.node[w].status \in Published
        BY <1>5, <3>1 DEF Good, TreeInv
      <3>3. w \in Token
        BY <3>1, <3>2, LedgerAssumption DEF Good, TreeInv, RootInv, Node
      <3>4. L.node[w].status = "settled"
        BY <3>1, <3>2, <3>3 DEF Joined, Children, Published
      <3>5. QED
        BY <3>1, <3>2, <3>4 DEF Good, JoinInv
    <2>4. QED
      BY <1>6, <2>2, <2>3 DEF Good, TreeInv
  <1>7. AuthorityInv(K.node, K.cancelled)
    <2>1. ASSUME NEW u \in Node, K.node[u].status \in Live
          PROVE  /\ L.node[u].status \in Live
                 /\ ~L.cancelled
                 /\ \A v \in L.node[u].above :
                       L.node[v].status = "active" => K.node[v].status = "active"
      <3>1. u # t /\ L.node[u].status \in Live
        BY <1>2, <2>1 DEF Live
      <3>2. t \notin L.node[u].above
        BY <1>6, <3>1 DEF Live, Over
      <3>3. ~L.cancelled
        BY <3>1 DEF Good, AuthorityInv, Live
      <3>4. QED
        BY <1>5, <3>1, <3>2, <3>3
    <2>2. QED
      BY <1>3, <2>1, FramedAuthority DEF Good
  <1>8. JoinInv(K.node)
    <2>1. \A u \in Node : L.node[u].status \in Over => K.node[u].status \in Over
      BY <1>2 DEF Over
    <2>2. ASSUME NEW u \in Node, NEW v \in L.node[u].above,
                 K.node[v].status = "settled", L.node[v].status # "settled"
          PROVE  K.node[u].status \in Over
      <3>1. v = t
        BY <1>5, <2>2
      <3>2. QED
        BY <1>6, <2>1, <3>1
    <2>3. QED
      BY <1>3, <2>1, <2>2, FramedJoin DEF Good
  <1>9. QED
    BY <1>4, <1>7, <1>8 DEF Good

\* Live tokens of S made over or revoked; what lives on has nothing of S above.
LEMMA WithdrawnGood ==
    ASSUME NEW L, Good(L), NEW S, NEW K \in Ledger,
           WithdrawnFrom(L, K, S),
           \A u \in Node : L.node[u].status \in Live /\ u \notin S =>
              L.node[u].above \cap S = {},
           K.cancelled = L.cancelled \/ Node \subseteq S
    PROVE  Good(K)
  <1> USE DEF WithdrawnFrom
  <1>1. /\ L.node \in [Node -> Grant] /\ K.node \in [Node -> Grant] /\ Root \in Node
    BY RootIsNode DEF Good, Ledger
  <1>2. ASSUME NEW u \in Node
        PROVE  /\ K.node[u].parent = L.node[u].parent
               /\ K.node[u].above = L.node[u].above /\ K.node[u].depth = L.node[u].depth
               /\ K.node[u].ceiling = L.node[u].ceiling
               /\ K.node[u].expiresAt = L.node[u].expiresAt
               /\ K.node[u].running = L.node[u].running
               /\ L.node[u].status = "unissued" => K.node[u] = L.node[u]
               /\ K.node[u].status = "unissued" => L.node[u].status = "unissued"
               /\ L.node[u].status \in Published => K.node[u].status \in Published
               /\ L.node[u].status \in {"active", "revoked"} =>
                     K.node[u].status \in {"active", "revoked"}
    <2>1. L.node[u] \in Grant
      BY <1>1
    <2>2. L.node[u].status = "unissued" => K.node[u] = L.node[u]
      OBVIOUS
    <2>3. QED
      BY <2>1, <2>2 DEF Grant, Published
  <1>3. Framed(L.node, K.node)
    BY <1>1, <1>2 DEF Framed, Good, TreeInv, RootInv
  <1>4. TreeInv(K.node)
    BY <1>1, <1>3, FramedTree DEF Good
  <1>5. \A u \in Node : L.node[u].above \subseteq Node
    BY <1>1 DEF Grant
  <1>6. AuthorityInv(K.node, K.cancelled)
    <2>1. ASSUME NEW u \in Node, K.node[u].status \in Live
          PROVE  /\ L.node[u].status \in Live
                 /\ ~K.cancelled
                 /\ \A v \in L.node[u].above :
                       L.node[v].status = "active" => K.node[v].status = "active"
      <3>1. u \notin S /\ L.node[u].status \in Live
        BY <2>1 DEF Live
      <3>2. ~K.cancelled
        BY <3>1 DEF Good, AuthorityInv, Live
      <3>3. QED
        BY <1>5, <3>1, <3>2
    <2>2. AuthorityInv(L.node, L.cancelled)
      BY DEF Good
    <2>3. QED
      BY <1>3, <2>1, <2>2, FramedAuthority
  <1>7. JoinInv(K.node)
    <2>1. \A u \in Node : L.node[u].status \in Over => K.node[u].status \in Over
      BY DEF Over
    <2>2. \A v \in Node : K.node[v].status = "settled" => L.node[v].status = "settled"
      OBVIOUS
    <2>3. JoinInv(L.node)
      BY DEF Good
    <2>4. QED
      BY <1>3, <1>5, <2>1, <2>2, <2>3, FramedJoin
  <1>8. QED
    BY <1>4, <1>6, <1>7 DEF Good

\* The forest of an active grant holds whatever lives below any of it.
LEMMA ForestClosed ==
    ASSUME NEW L, Good(L), NEW t \in Node, NEW u \in Node,
           L.node[u].status \in Live, u \notin Forest(L, t)
    PROVE  L.node[u].above \cap Forest(L, t) = {}
  <1> SUFFICES ASSUME NEW v \in L.node[u].above, v \in Forest(L, t) PROVE FALSE
    OBVIOUS
  <1>1. L.node[u].above \subseteq Node
    BY DEF Good, Ledger, Grant
  <1>2. t \in L.node[u].above
    BY <1>1 DEF Forest, Good, TreeInv
  <1>3. u \in Token
    BY <1>2 DEF Good, TreeInv, RootInv, Node
  <1>4. \A w \in L.node[u].above : L.node[w].status = "active"
    BY DEF Good, AuthorityInv, Live
  <1>5. QED
    BY <1>2, <1>3, <1>4 DEF Forest

\* A reservation refunded: it never had anything below it.
LEMMA RefundedGood ==
    ASSUME NEW L, Good(L), NEW t \in Token, L.node[t].status = "reserved",
           NEW K \in Ledger, K.cancelled = L.cancelled,
           \A u \in Node : u # t => K.node[u] = L.node[u],
           K.node[t] = [L.node[t] EXCEPT !.status = "refunded"]
    PROVE  Good(K)
  <1>1. /\ L.node \in [Node -> Grant] /\ K.node \in [Node -> Grant] /\ Root \in Node
        /\ t \in Node /\ t # Root /\ L.node[t] \in Grant
    BY RootIsNode, LedgerAssumption DEF Good, Ledger
  <1>2. /\ K.node[t] = [L.node[t] EXCEPT !.status = "refunded"]
        /\ \A u \in Node : u # t => K.node[u] = L.node[u]
    BY <1>1
  <1>3. /\ K.node[t].status = "refunded" /\ K.node[t].parent = L.node[t].parent
        /\ K.node[t].above = L.node[t].above /\ K.node[t].depth = L.node[t].depth
        /\ K.node[t].ceiling = L.node[t].ceiling /\ K.node[t].expiresAt = L.node[t].expiresAt
        /\ K.node[t].running = L.node[t].running
    BY <1>1, <1>2 DEF Grant
  <1>4. ~L.node[t].running
    BY <1>1 DEF Good, TreeInv
  <1>5. Framed(L.node, K.node)
    BY <1>1, <1>2, <1>3, <1>4 DEF Framed, Good, TreeInv, RootInv, Published
  <1>6. TreeInv(K.node)
    BY <1>1, <1>5, FramedTree DEF Good
  <1>7. \A u \in Node : L.node[u].above \subseteq Node
    BY <1>1 DEF Grant
  <1>8. AuthorityInv(K.node, K.cancelled)
    <2>1. ASSUME NEW u \in Node, K.node[u].status \in Live
          PROVE  /\ L.node[u].status \in Live
                 /\ ~K.cancelled
                 /\ \A v \in L.node[u].above :
                       L.node[v].status = "active" => K.node[v].status = "active"
      <3>1. u # t /\ L.node[u].status \in Live
        BY <1>2, <1>3, <2>1 DEF Live
      <3>2. ~K.cancelled
        BY <3>1 DEF Good, AuthorityInv, Live
      <3>3. QED
        BY <1>2, <1>7, <3>1, <3>2
    <2>2. AuthorityInv(L.node, L.cancelled)
      BY DEF Good
    <2>3. QED
      BY <1>5, <2>1, <2>2, FramedAuthority
  <1>9. JoinInv(K.node)
    <2>1. \A u \in Node : L.node[u].status \in Over => K.node[u].status \in Over
      BY <1>2, <1>3 DEF Over
    <2>2. \A v \in Node : K.node[v].status = "settled" => L.node[v].status = "settled"
      BY <1>2, <1>3
    <2>3. JoinInv(L.node)
      BY DEF Good
    <2>4. QED
      BY <1>5, <1>7, <2>1, <2>2, <2>3, FramedJoin
  <1>10. QED
    BY <1>6, <1>8, <1>9 DEF Good

\* New reservations hang below a grant whose authority is whole.
LEMMA ReservedGood ==
    ASSUME NEW L, Good(L), NEW p \in Node, NEW S \in SUBSET Token,
           NEW ask \in [S -> Allocations], NEW at \in Nat, CanReserve(L, p, ask, at)
    PROVE  Good(Reserved(L, p, ask)) /\ p \notin S
  <1> DEFINE K == Reserved(L, p, ask)
  <1>1. p \notin S
    BY DEF CanReserve, Authorized
  <1>2. /\ K \in Ledger
        /\ ReservedFrom(L, K, p, S, ask)
        /\ K.cancelled = L.cancelled
    <2>1. L \in Ledger
      BY DEF Good
    <2>2. QED
      BY <1>1, <2>1, ReservedIs
  <1> HIDE DEF K
  <1>3. /\ L.node \in [Node -> Grant] /\ K.node \in [Node -> Grant] /\ Root \in Node
        /\ S \subseteq Node /\ Root \notin S
    BY <1>2, RootIsNode, LedgerAssumption DEF Good, Ledger
  <1>4. \A u \in S : K.node[u] = Issued(L, p, ask, u) /\ L.node[u].status = "unissued"
    BY <1>2, <1>3 DEF CanReserve, ReservedFrom
  <1>4a. \A u \in S : /\ K.node[u].status = "reserved" /\ K.node[u].parent = p
                     /\ K.node[u].above = L.node[p].above \cup {p}
                     /\ ~K.node[u].running
    <2> SUFFICES ASSUME NEW u \in S
                 PROVE  /\ K.node[u].status = "reserved" /\ K.node[u].parent = p
                        /\ K.node[u].above = L.node[p].above \cup {p}
                        /\ ~K.node[u].running
      OBVIOUS
    <2> DEFINE r == K.node[u]
    <2>1. r = Issued(L, p, ask, u)
      BY <1>4
    <2> HIDE DEF r
    <2>2. /\ r.status = "reserved" /\ r.parent = p
          /\ r.above = L.node[p].above \cup {p} /\ ~r.running
      BY <2>1 DEF Issued
    <2>3. QED
      BY <2>2 DEF r
  <1>5. \A u \in Node \ S : K.node[u] = L.node[u]
    BY <1>2 DEF ReservedFrom
  <1>6. \A u \in Node : L.node[u].above \subseteq Node /\ L.node[u].above \cap S = {}
    BY <1>3, <1>4 DEF Grant, Good, TreeInv, Published
  <1>7. /\ L.node[p].status = "active" /\ ~L.cancelled
        /\ \A v \in L.node[p].above : L.node[v].status = "active"
        /\ L.node[p].depth < L.node[p].ceiling
    BY DEF CanReserve, Authorized
  <1>8. /\ L.node[p].depth \in Nat /\ L.node[p].ceiling \in Nat /\ L.node[p].expiresAt \in Nat
    BY <1>3 DEF Grant
  <1>9. K.node[p] = L.node[p]
    BY <1>1, <1>5
  <1>10. \A u \in S : Hangs(K.node, u)
    <2> SUFFICES ASSUME NEW u \in S PROVE Hangs(K.node, u)
      OBVIOUS
    <2>1. ask[u] \in [nodes : Nat, runs : Nat, depth : Nat, expiresAt : Nat]
      BY LedgerAssumption
    <2>2. /\ ask[u].depth <= L.node[p].ceiling - (L.node[p].depth + 1)
          /\ ask[u].expiresAt <= L.node[p].expiresAt
      BY DEF CanReserve
    <2>3. u \notin L.node[p].above \cup {p}
      BY <1>1, <1>6
    <2>4. K.node[u] = Issued(L, p, ask, u)
      BY <1>4
    <2>5. QED
      BY <1>8, <1>9, <2>1, <2>2, <2>3, <2>4 DEF Hangs, Issued
  <1>11. TreeInv(K.node)
    <2>1. RootInv(K.node)
      BY <1>3, <1>5 DEF Good, TreeInv, RootInv
    <2>2. ASSUME NEW u \in Token
          PROVE  IF K.node[u].status = "unissued" THEN K.node[u] = Unissued
                 ELSE Hangs(K.node, u)
      <3>1. u \in Node
        BY RootIsNode
      <3>2. CASE u \in S
        BY <1>4a, <1>10, <3>2
      <3>3. CASE u \notin S
        <4>1. K.node[u] = L.node[u]
          BY <1>5, <3>1, <3>3
        <4>2. CASE L.node[u].status = "unissued"
          BY <4>1, <4>2 DEF Good, TreeInv
        <4>3. CASE L.node[u].status # "unissued"
          <5>1. Hangs(L.node, u)
            BY <4>3 DEF Good, TreeInv
          <5>2. L.node[u].parent \in Node \ S
            BY <1>6, <3>1, <5>1 DEF Hangs
          <5>3. QED
            BY <1>5, <4>1, <4>3, <5>1, <5>2 DEF Hangs
        <4>4. QED
          BY <4>2, <4>3
      <3>4. QED
        BY <3>2, <3>3
    <2>3. ASSUME NEW u \in Node, NEW v \in K.node[u].above
          PROVE  /\ K.node[v].status \in Published
                 /\ K.node[v].above \subseteq K.node[u].above
                 /\ K.node[u].parent = v \/ \E w \in K.node[u].above : K.node[w].parent = v
      <3>1. CASE u \in S
        <4>1. K.node[u].above = L.node[p].above \cup {p} /\ K.node[u].parent = p
          BY <1>4a, <3>1
        <4>2. CASE v = p
          BY <1>7, <1>9, <4>1, <4>2 DEF Published
        <4>3. CASE v # p
          <5>1. v \in L.node[p].above /\ v \in Node \ S
            BY <1>6, <2>3, <4>1, <4>3
          <5>2. K.node[v] = L.node[v]
            BY <1>5, <5>1
          <5>3. /\ L.node[v].status \in Published
                /\ L.node[v].above \subseteq L.node[p].above
                /\ L.node[p].parent = v \/ \E w \in L.node[p].above : L.node[w].parent = v
            BY <5>1 DEF Good, TreeInv
          <5>4. \A w \in L.node[p].above : K.node[w] = L.node[w]
            BY <1>5, <1>6
          <5>5. QED
            BY <1>9, <4>1, <5>2, <5>3, <5>4
        <4>4. QED
          BY <4>2, <4>3
      <3>2. CASE u \notin S
        <4>1. K.node[u] = L.node[u] /\ v \in Node \ S
          BY <1>5, <1>6, <2>3, <3>2
        <4>2. \A w \in L.node[u].above : K.node[w] = L.node[w]
          BY <1>5, <1>6
        <4>3. QED
          BY <2>3, <4>1, <4>2 DEF Good, TreeInv
      <3>3. QED
        BY <3>1, <3>2
    <2>4. \A u \in Node : K.node[u].running => K.node[u].status \in {"active", "revoked"}
      BY <1>4a, <1>5 DEF Good, TreeInv
    <2>5. QED
      BY <2>1, <2>2, <2>3, <2>4 DEF TreeInv
  <1>12. AuthorityInv(K.node, K.cancelled)
    <2> SUFFICES ASSUME NEW u \in Node, K.node[u].status \in Live
                 PROVE  ~K.cancelled /\ \A v \in K.node[u].above : K.node[v].status = "active"
      BY DEF AuthorityInv, Live
    <2>1. CASE u \in S
      BY <1>2, <1>4a, <1>5, <1>6, <1>7, <1>9, <2>1
    <2>2. CASE u \notin S
      BY <1>2, <1>5, <1>6, <2>2 DEF Good, AuthorityInv, Live
    <2>3. QED
      BY <2>1, <2>2
  <1>13. JoinInv(K.node)
    <2> SUFFICES ASSUME NEW u \in Node, NEW v \in K.node[u].above, K.node[v].status = "settled"
                 PROVE  K.node[u].status \in Over
      BY DEF JoinInv
    <2>1. CASE u \in S
      BY <1>4a, <1>5, <1>6, <1>7, <1>9, <2>1
    <2>2. CASE u \notin S
      BY <1>5, <1>6, <2>2 DEF Good, JoinInv
    <2>3. QED
      BY <2>1, <2>2
  <1>14. QED
    BY <1>1, <1>2, <1>11, <1>12, <1>13 DEF Good, K

-----------------------------------------------------------------------------
(* Budgets.                                                                *)

\* Short forms for the hypotheses about summands.
Ints(f, S) == \A x \in S : f[x] \in Int
Alike(f, h, S) == \A x \in S : f[x] = h[x]

\* Two functions that differ at one place have totals that differ as they do
\* there.
LEMMA TotalOther ==
    ASSUME NEW S, IsFiniteSet(S), NEW f, NEW h, NEW a \in S,
           Ints(f, S), Ints(h, S), Alike(f, h, S \ {a})
    PROVE  /\ Total(h, S) = Total(f, S) - f[a] + h[a]
           /\ Total(h, S) \in Int /\ Total(f, S) \in Int
  BY TotalChanged, TotalInt DEF Ints, Alike

\* Two summands changed.
LEMMA TotalMoved ==
    ASSUME NEW S, IsFiniteSet(S), NEW f \in [S -> Int], NEW h,
           NEW a \in S, NEW b \in S, a # b,
           Ints(h, S), Alike(f, h, S \ {a, b})
    PROVE  /\ Total(h, S) = Total(f, S) - f[a] - f[b] + h[a] + h[b]
           /\ Total(f, S) \in Int
  <1> DEFINE g == [f EXCEPT ![a] = h[a]]
  <1>1. g[a] = h[a] /\ \A x \in S \ {a} : g[x] = f[x]
    OBVIOUS
  <1> HIDE DEF g
  <1>2. Ints(f, S) /\ Ints(g, S) /\ Alike(f, g, S \ {a}) /\ Alike(g, h, S \ {b})
    BY <1>1 DEF Ints, Alike
  <1>3. Total(g, S) = Total(f, S) - f[a] + g[a] /\ Total(f, S) \in Int
    BY <1>2, TotalOther
  <1>4. Total(h, S) = Total(g, S) - g[b] + h[b] /\ Total(g, S) \in Int /\ Total(h, S) \in Int
    <2>1. Ints(g, S) /\ Ints(h, S) /\ Alike(g, h, S \ {b}) /\ b \in S /\ IsFiniteSet(S)
      BY <1>2
    <2>2. QED
      BY ONLY <2>1, TotalOther
  <1>5. g[b] = f[b] /\ g[a] = h[a]
    BY <1>1
  <1>6. f[a] \in Int /\ f[b] \in Int /\ h[a] \in Int /\ h[b] \in Int
    BY DEF Ints
  <1>7. QED
    BY <1>3, <1>4, <1>5, <1>6

Itself(g) == IF g.status \in Published THEN 1 ELSE 0

\* The summands are integers.
LEMMA HeldIs ==
    ASSUME NEW n, NEW b \in [Node -> Budget]
    PROVE  /\ NodesHeld(n, b) \in [Node -> Int]
           /\ Ints(NodesHeld(n, b), Node)
           /\ \A u \in Node : /\ NodesHeld(n, b)[u] = b[u].nodes + Itself(n[u])
                              /\ b[u].nodes \in Nat /\ b[u].slots \in Nat
  BY DEF NodesHeld, Itself, Budget, Ints

\* The runs a node holds are its budget's.
LEMMA RunsHeldIs ==
    ASSUME NEW b \in [Node -> Budget]
    PROVE  /\ RunsHeld(b) \in [Node -> Int]
           /\ Ints(RunsHeld(b), Node)
           /\ \A u \in Node : RunsHeld(b)[u] = b[u].runs /\ b[u].runs \in Nat
  BY DEF RunsHeld, Budget, Ints

\* Nobody's holdings change, and nobody becomes or stops being a paid child.
SamePay(n, m, b, c) ==
    \A u \in Node :
       /\ c[u].nodes + Itself(m[u]) = b[u].nodes + Itself(n[u])
       /\ c[u].runs = b[u].runs /\ c[u].slots = b[u].slots
       /\ m[u].parent = n[u].parent
       /\ m[u].status = "refunded" <=> n[u].status = "refunded"
       /\ m[u].status = "unissued" => n[u].status = "unissued" /\ c[u] = b[u]
       /\ m[u].status = "reserved" => n[u].status = "reserved" /\ c[u] = b[u]

\* A step that moves no budget and pays for no child conserves the sums.
LEMMA SameBudget ==
    ASSUME NEW n, NEW m, NEW b \in [Node -> Budget], NEW c \in [Node -> Budget], NEW used,
           BudgetInv(n, b, used), SamePay(n, m, b, c)
    PROVE  BudgetInv(m, c, used)
  <1>1. Total(NodesHeld(m, c), Node) = Total(NodesHeld(n, b), Node)
    <2>1. \A u \in Node : NodesHeld(m, c)[u] = NodesHeld(n, b)[u]
      BY HeldIs DEF SamePay
    <2>2. QED
      BY <2>1, RootIsNode, TotalSame
  <1>2. Total(RunsHeld(c), Node) = Total(RunsHeld(b), Node)
    <2>1. \A u \in Node : RunsHeld(c)[u] = RunsHeld(b)[u]
      BY RunsHeldIs DEF SamePay
    <2>2. QED
      BY <2>1, RootIsNode, TotalSame
  <1>3. \A t \in Node : Kept(m, t) = Kept(n, t)
    BY RootIsNode DEF Kept, SamePay
  <1>4. SlotsPaid(m, c)
    BY <1>3 DEF SlotsPaid, BudgetInv, SamePay
  <1>5. QED
    BY <1>1, <1>2, <1>4, RootIsNode DEF BudgetInv, SamePay

\* Model runs spent are model runs no longer held.
LEMMA ChargedBudget ==
    ASSUME NEW n, NEW b \in [Node -> Budget], NEW c \in [Node -> Budget], NEW used \in Nat,
           NEW count \in Nat, NEW t \in Node, BudgetInv(n, b, used),
           n[t].status \notin {"unissued", "reserved"},
           \A u \in Node : u # t => c[u] = b[u],
           c[t] = [b[t] EXCEPT !.runs = b[t].runs - count]
    PROVE  BudgetInv(n, c, used + count)
  <1>1. c[t].nodes = b[t].nodes /\ c[t].slots = b[t].slots /\ c[t].runs = b[t].runs - count
    BY DEF Budget
  <1>2. Total(NodesHeld(n, c), Node) = Total(NodesHeld(n, b), Node)
    <2>0. \A u \in Node : c[u].nodes = b[u].nodes
      BY <1>1
    <2>1. \A u \in Node : NodesHeld(n, c)[u] = NodesHeld(n, b)[u]
      BY <2>0, HeldIs
    <2>2. QED
      BY <2>1, RootIsNode, TotalSame
  <1>3. /\ Total(RunsHeld(c), Node) = Total(RunsHeld(b), Node) - count
        /\ Total(RunsHeld(b), Node) \in Int
    <2> DEFINE f == RunsHeld(b)
               h == RunsHeld(c)
    <2>1. Ints(f, Node) /\ Ints(h, Node)
      BY RunsHeldIs
    <2>2. Alike(f, h, Node \ {t})
      BY RunsHeldIs DEF Alike
    <2>3. f[t] = b[t].runs /\ h[t] = b[t].runs - count /\ b[t].runs \in Nat
      BY <1>1, RunsHeldIs
    <2> HIDE DEF f, h
    <2>4. Total(h, Node) = Total(f, Node) - f[t] + h[t] /\ Total(f, Node) \in Int
      BY <2>1, <2>2, RootIsNode, TotalOther
    <2>5. QED
      BY <2>3, <2>4 DEF f, h
  <1>5. SlotsPaid(n, c)
    BY <1>1 DEF SlotsPaid, BudgetInv
  <1>6. QED
    BY <1>2, <1>3, <1>5, RootIsNode, LedgerAssumption DEF BudgetInv

\* A child that is not refunded is counted among its parent's.
LEMMA KeptCounted ==
    ASSUME NEW n, NEW b \in [Node -> Budget], NEW used, BudgetInv(n, b, used),
           NEW t \in Token, NEW p \in Node, n[t].parent = p, n[t].status # "refunded"
    PROVE  b[p].slots >= 1
  <1>1. t \in Kept(n, p) /\ Kept(n, p) \subseteq Token
    BY DEF Kept
  <1>2. IsFiniteSet(Kept(n, p)) /\ Kept(n, p) # {}
    BY <1>1, LedgerAssumption, FS_Subset
  <1>3. Cardinality(Kept(n, p)) \in Nat /\ Cardinality(Kept(n, p)) # 0
    BY <1>2, FS_CardinalityType, FS_EmptySet
  <1>4. QED
    BY <1>3 DEF BudgetInv, SlotsPaid

\* What a refund closes goes back to the parent, with the child's slot.
PaidBack(n, m, b, c, t, p) ==
    /\ n[t].parent = p /\ n[t].status = "reserved" /\ n[p].status = "active"
    /\ m[t].status = "refunded" /\ m[t].parent = p
    /\ \A u \in Node : u # t => m[u] = n[u]
    /\ \A u \in Node : u \notin {t, p} => c[u] = b[u]
    /\ c[t].nodes = 0 /\ c[t].runs = 0 /\ c[t].slots = b[t].slots
    /\ c[p].nodes = b[p].nodes + b[t].nodes /\ c[p].runs = b[p].runs + b[t].runs
    /\ c[p].slots = b[p].slots - 1

\* A refund conserves the sums: what the child held is the parent's again.
LEMMA RefundedBudget ==
    ASSUME NEW n, NEW m, NEW b \in [Node -> Budget], NEW c \in [Node -> Budget], NEW used,
           BudgetInv(n, b, used), NEW t \in Token, NEW p \in Node, p # t,
           PaidBack(n, m, b, c, t, p)
    PROVE  BudgetInv(m, c, used)
  <1> USE DEF PaidBack
  <1>1. t \in Node /\ IsFiniteSet(Node)
    BY RootIsNode
  <1>2. Total(NodesHeld(m, c), Node) = Total(NodesHeld(n, b), Node)
    <2> DEFINE f == NodesHeld(n, b)
               h == NodesHeld(m, c)
    <2>1. Ints(f, Node) /\ Ints(h, Node)
      BY HeldIs
    <2>2. Alike(f, h, Node \ {t, p})
      BY HeldIs DEF Alike
    <2>3. /\ f[t] = b[t].nodes /\ h[t] = 0
          /\ f[p] = b[p].nodes + 1 /\ h[p] = b[p].nodes + b[t].nodes + 1
          /\ b[t].nodes \in Nat /\ b[p].nodes \in Nat
      BY <1>1, HeldIs DEF Itself, Published
    <2>4. f \in [Node -> Int]
      BY HeldIs
    <2> HIDE DEF f, h
    <2>5. Total(h, Node) = Total(f, Node) - f[t] - f[p] + h[t] + h[p] /\ Total(f, Node) \in Int
      BY <1>1, <2>1, <2>2, <2>4, TotalMoved
    <2>6. QED
      BY <2>3, <2>5 DEF f, h
  <1>3. Total(RunsHeld(c), Node) = Total(RunsHeld(b), Node)
    <2> DEFINE f == RunsHeld(b)
               h == RunsHeld(c)
    <2>1. Ints(f, Node) /\ Ints(h, Node)
      BY RunsHeldIs
    <2>2. Alike(f, h, Node \ {t, p})
      BY RunsHeldIs DEF Alike
    <2>3. /\ f[t] = b[t].runs /\ h[t] = 0
          /\ f[p] = b[p].runs /\ h[p] = b[p].runs + b[t].runs
          /\ b[t].runs \in Nat /\ b[p].runs \in Nat
      BY <1>1, RunsHeldIs
    <2>4. f \in [Node -> Int]
      BY RunsHeldIs
    <2> HIDE DEF f, h
    <2>5. Total(h, Node) = Total(f, Node) - f[t] - f[p] + h[t] + h[p] /\ Total(f, Node) \in Int
      BY <1>1, <2>1, <2>2, <2>4, TotalMoved
    <2>6. QED
      BY <2>3, <2>5 DEF f, h
  <1>4. /\ Kept(m, p) = Kept(n, p) \ {t} /\ t \in Kept(n, p)
        /\ \A v \in Node : v # p => Kept(m, v) = Kept(n, v)
    BY <1>1, RootIsNode DEF Kept
  <1>5. Kept(n, p) \subseteq Token
    BY DEF Kept
  <1>6. IsFiniteSet(Kept(n, p))
    BY <1>5, LedgerAssumption, FS_Subset
  <1>7. Cardinality(Kept(m, p)) = Cardinality(Kept(n, p)) - 1
    BY <1>4, <1>6, FS_RemoveElement
  <1>8. SlotsPaid(m, c)
    <2> SUFFICES ASSUME NEW v \in Node
                 PROVE  /\ c[v].slots <= MaxChildrenPerNode
                        /\ c[v].slots = Cardinality(Kept(m, v))
      BY DEF SlotsPaid
    <2>1. b[v].slots <= MaxChildrenPerNode /\ b[v].slots = Cardinality(Kept(n, v))
      BY DEF BudgetInv, SlotsPaid
    <2>2. CASE v = p
      <3>1. b[p].slots \in Nat /\ MaxChildrenPerNode \in Int
        BY HeldIs, LedgerAssumption
      <3>2. QED
        BY <1>7, <2>1, <2>2, <3>1
    <2>3. CASE v # p
      BY <1>4, <2>1, <2>3
    <2>4. QED
      BY <2>2, <2>3
  <1>9. ASSUME NEW u \in Token
        PROVE  /\ m[u].status = "unissued" => c[u] = [nodes |-> 0, runs |-> 0, slots |-> 0]
               /\ m[u].status = "reserved" => c[u].nodes >= 1
    <2>1. u \in Node
      BY RootIsNode
    <2>2. CASE u = t
      BY <2>2
    <2>3. CASE u = p
      BY <2>1, <2>3
    <2>4. CASE u \notin {t, p}
      <3>1. m[u] = n[u] /\ c[u] = b[u]
        BY <2>1, <2>4
      <3>2. QED
        BY <3>1 DEF BudgetInv
    <2>5. QED
      BY <2>2, <2>3, <2>4
  <1>10. QED
    BY <1>2, <1>3, <1>8, <1>9 DEF BudgetInv

\* One summand shared out among others that were zero.
LEMMA TotalShared ==
    ASSUME NEW S, IsFiniteSet(S), NEW f, NEW h, Ints(f, S), Ints(h, S),
           NEW D \in SUBSET S, NEW a \in S \ D,
           Alike(f, h, (S \ D) \ {a}), \A x \in D : f[x] = 0,
           h[a] = f[a] - Total(h, D)
    PROVE  Total(h, S) = Total(f, S)
  <1> DEFINE R == S \ D
  <1>1. IsFiniteSet(D) /\ IsFiniteSet(R) /\ a \in R
    BY FS_Subset
  <1>2. Ints(f, R) /\ Ints(h, R) /\ Ints(h, D)
    BY DEF Ints
  <1>3. Total(f, S) = Total(f, D) + Total(f, R)
    BY TotalSplit DEF Ints
  <1>4. Total(h, S) = Total(h, D) + Total(h, R)
    BY TotalSplit DEF Ints
  <1>5. Total(f, D) = 0
    BY <1>1, TotalZero
  <1>6. Alike(f, h, R \ {a})
    OBVIOUS
  <1> HIDE DEF R
  <1>7. /\ Total(h, R) = Total(f, R) - f[a] + h[a]
        /\ Total(h, R) \in Int /\ Total(f, R) \in Int
    BY ONLY <1>1, <1>2, <1>6, TotalOther
  <1>8. Total(h, D) \in Int
    BY <1>1, <1>2, TotalInt DEF Ints
  <1>9. f[a] \in Int /\ h[a] \in Int
    BY DEF Ints
  <1>10. QED
    BY <1>3, <1>4, <1>5, <1>7, <1>8, <1>9

\* What a reservation gives the children, the parent no longer holds.
Shared(n, m, b, c, S, p, ask) ==
    /\ \A u \in S : /\ n[u] = Unissued
                    /\ m[u].status = "reserved" /\ m[u].parent = p
                    /\ c[u].nodes = ask[u].nodes /\ c[u].nodes >= 1
                    /\ c[u].runs = ask[u].runs /\ c[u].slots = 0
    /\ \A u \in Node \ S : m[u] = n[u] /\ (u # p => c[u] = b[u])
    /\ n[p].status = "active"
    /\ c[p].nodes = b[p].nodes - Nodes(ask) /\ c[p].runs = b[p].runs - Runs(ask)
    /\ c[p].slots = b[p].slots + Cardinality(S)
    /\ b[p].slots + Cardinality(S) <= MaxChildrenPerNode

\* A reservation conserves the sums: the children hold what the parent lost.
LEMMA ReservedBudget ==
    ASSUME NEW n, NEW m, NEW b \in [Node -> Budget], NEW c \in [Node -> Budget], NEW used,
           BudgetInv(n, b, used),
           NEW S \in SUBSET Token, NEW p \in Node, p \notin S, NEW ask \in [S -> Allocations],
           Shared(n, m, b, c, S, p, ask)
    PROVE  BudgetInv(m, c, used)
  <1> USE DEF Shared
  <1>1. /\ S \subseteq Node /\ IsFiniteSet(Node) /\ IsFiniteSet(Token) /\ IsFiniteSet(S)
        /\ DOMAIN ask = S /\ None \notin Node
    BY RootIsNode, LedgerAssumption, FS_Subset DEF Node
  <1>2. \A u \in S : n[u].status = "unissued" /\ n[u].parent = None
    BY DEF Unissued
  <1>3. \A u \in S : b[u].nodes = 0 /\ b[u].runs = 0 /\ b[u].slots = 0
    BY <1>2 DEF BudgetInv
  <1>4. Total(NodesHeld(m, c), Node) = Total(NodesHeld(n, b), Node)
    <2> DEFINE f == NodesHeld(n, b)
               h == NodesHeld(m, c)
               k == [u \in S |-> ask[u].nodes]
    <2>1. Ints(f, Node) /\ Ints(h, Node)
      BY HeldIs
    <2>2. Alike(f, h, (Node \ S) \ {p})
      BY HeldIs DEF Alike
    <2>3. \A u \in S : f[u] = 0
      BY <1>1, <1>2, <1>3, HeldIs DEF Itself, Published
    <2>4. \A u \in S : h[u] = k[u]
      <3>0. c \in [Node -> Budget] /\ S \subseteq Node
        BY <1>1
      <3>1. \A u \in S : h[u] = c[u].nodes + Itself(m[u]) /\ c[u].nodes \in Nat
        BY ONLY <3>0, HeldIs
      <3>2. \A u \in S : Itself(m[u]) = 0
        BY DEF Itself, Published
      <3> HIDE DEF h
      <3>3. QED
        BY <3>1, <3>2
    <2>5. Nodes(ask) = Total(k, S)
      BY <1>1, NodesTotal
    <2>6. h[p] = f[p] - Nodes(ask)
      <3>1. Total(k, S) \in Int
        <4>1. \A u \in S : k[u] \in Int
          BY LedgerAssumption
        <4> HIDE DEF k
        <4>2. QED
          BY <4>1, <1>1, TotalInt
      <3>2. Itself(n[p]) = 1 /\ Itself(m[p]) = 1
        BY DEF Itself, Published
      <3>3. f[p] = b[p].nodes + 1 /\ h[p] = c[p].nodes + 1 /\ b[p].nodes \in Nat
        <4>0. b \in [Node -> Budget]
          OBVIOUS
        <4>1. \A u \in Node : f[u] = b[u].nodes + Itself(n[u]) /\ b[u].nodes \in Nat
          BY ONLY <4>0, HeldIs
        <4>2. \A u \in Node : h[u] = c[u].nodes + Itself(m[u])
          BY HeldIs
        <4> HIDE DEF f, h
        <4>3. QED
          BY <3>2, <4>1, <4>2
      <3> HIDE DEF f, h, k
      <3>4. QED
        BY <2>5, <3>1, <3>3
    <2> HIDE DEF f, h, k
    <2>7. Total(h, S) = Total(k, S)
      BY <1>1, <2>4, TotalSame
    <2>8. h[p] = f[p] - Total(h, S) /\ p \in Node \ S /\ S \in SUBSET Node
      BY <1>1, <2>5, <2>6, <2>7
    <2>9. Total(h, Node) = Total(f, Node)
      BY ONLY <1>1, <2>1, <2>2, <2>3, <2>8, TotalShared
    <2>10. QED
      BY <2>9 DEF f, h
  <1>5. Total(RunsHeld(c), Node) = Total(RunsHeld(b), Node)
    <2> DEFINE f == RunsHeld(b)
               h == RunsHeld(c)
               k == [u \in S |-> ask[u].runs]
    <2>1. Ints(f, Node) /\ Ints(h, Node)
      BY RunsHeldIs
    <2>2. Alike(f, h, (Node \ S) \ {p})
      BY RunsHeldIs DEF Alike
    <2>3. \A u \in S : f[u] = 0
      BY <1>1, <1>3, RunsHeldIs
    <2>4. \A u \in S : h[u] = k[u]
      BY <1>1, RunsHeldIs
    <2>5. Runs(ask) = Total(k, S)
      BY <1>1, RunsTotal
    <2>6. h[p] = f[p] - Runs(ask)
      BY RunsHeldIs
    <2> HIDE DEF f, h, k
    <2>7. Total(h, S) = Total(k, S)
      BY <1>1, <2>4, TotalSame
    <2>8. h[p] = f[p] - Total(h, S) /\ p \in Node \ S /\ S \in SUBSET Node
      BY <1>1, <2>5, <2>6, <2>7
    <2>9. Total(h, Node) = Total(f, Node)
      BY ONLY <1>1, <2>1, <2>2, <2>3, <2>8, TotalShared
    <2>10. QED
      BY <2>9 DEF f, h
  <1>6. /\ Kept(m, p) = Kept(n, p) \cup S /\ Kept(n, p) \cap S = {}
        /\ \A v \in Node : v # p => Kept(m, v) = Kept(n, v)
    <2>1. \A u \in Token : u \notin S => m[u] = n[u]
      BY RootIsNode
    <2>2. QED
      BY <1>1, <1>2, <2>1 DEF Kept
  <1>7. Cardinality(Kept(m, p)) = Cardinality(Kept(n, p)) + Cardinality(S)
    <2>1. IsFiniteSet(Kept(n, p))
      <3>1. Kept(n, p) \subseteq Token
        BY DEF Kept
      <3>2. QED
        BY <1>1, <3>1, FS_Subset
    <2>2. Cardinality(Kept(n, p) \cup S) =
             Cardinality(Kept(n, p)) + Cardinality(S) - Cardinality(Kept(n, p) \cap S)
      BY <1>1, <2>1, FS_Union
    <2>3. Cardinality(Kept(n, p) \cap S) = 0
      BY <1>6, FS_EmptySet
    <2>4. Cardinality(Kept(n, p)) \in Nat /\ Cardinality(S) \in Nat
      BY <1>1, <2>1, FS_CardinalityType
    <2>5. QED
      BY <1>6, <2>2, <2>3, <2>4
  <1>8. SlotsPaid(m, c)
    <2> SUFFICES ASSUME NEW v \in Node
                 PROVE  /\ c[v].slots <= MaxChildrenPerNode
                        /\ c[v].slots = Cardinality(Kept(m, v))
      BY DEF SlotsPaid
    <2>1. b[v].slots <= MaxChildrenPerNode /\ b[v].slots = Cardinality(Kept(n, v))
      BY DEF BudgetInv, SlotsPaid
    <2>2. CASE v = p
      BY <1>7, <2>1, <2>2
    <2>3. CASE v # p
      <3>1. c[v].slots = b[v].slots
        BY <1>3, <2>3
      <3>2. QED
        BY <1>6, <2>1, <2>3, <3>1
    <2>4. QED
      BY <2>2, <2>3
  <1>9. ASSUME NEW u \in Token
        PROVE  /\ m[u].status = "unissued" => c[u] = [nodes |-> 0, runs |-> 0, slots |-> 0]
               /\ m[u].status = "reserved" => c[u].nodes >= 1
    <2>1. u \in Node
      BY RootIsNode
    <2>2. CASE u \in S
      BY <2>2
    <2>3. CASE u = p
      BY <2>1, <2>3
    <2>4. CASE u \notin S /\ u # p
      <3>1. m[u] = n[u] /\ c[u] = b[u]
        BY <2>1, <2>4
      <3>2. QED
        BY <3>1 DEF BudgetInv
    <2>5. QED
      BY <2>2, <2>3, <2>4
  <1>10. QED
    BY <1>4, <1>5, <1>8, <1>9 DEF BudgetInv

-----------------------------------------------------------------------------
(* The line of calls.                                                      *)

\* Sequences, read by their elements.
LEMMA LineIs ==
    ASSUME NEW w \in Seq(Call), NEW q \in Seq(Call), NEW line, InLine(w, q, line)
    PROVE  /\ line \in Seq(Calls)
           /\ Len(w) \in Nat /\ Len(q) \in Nat /\ Len(line) = Len(w) + Len(q)
           /\ \A i \in 1 .. Len(w) : line[i] = Key(w[i])
           /\ \A i \in 1 .. Len(q) : line[Len(w) + i] = Key(q[i])
  BY LenProperties DEF InLine

\* Removing an entry shifts those behind it by one place.
LEMMA RemovedIs ==
    ASSUME NEW X, NEW s \in Seq(X), NEW i \in 1 .. Len(s)
    PROVE  /\ RemoveAt(s, i) \in Seq(X)
           /\ Len(RemoveAt(s, i)) = Len(s) - 1
           /\ \A j \in 1 .. Len(s) - 1 : RemoveAt(s, i)[j] = IF j < i THEN s[j] ELSE s[j + 1]
  <1> DEFINE a == SubSeq(s, 1, i - 1)
             b == SubSeq(s, i + 1, Len(s))
  <1>1. Len(s) \in Nat
    BY LenProperties
  <1>2. /\ a \in Seq(X) /\ Len(a) = i - 1
        /\ \A j \in 1 .. i - 1 : a[j] = s[j]
    BY <1>1, ElementOfSeq, SubSeqProperties
  <1>3. /\ b \in Seq(X) /\ Len(b) = Len(s) - i
        /\ \A j \in 1 .. Len(s) - i : b[j] = s[i + j]
    <2>1. \A j \in i + 1 .. Len(s) : s[j] \in X
      BY <1>1, ElementOfSeq
    <2>2. /\ b \in Seq(X)
          /\ Len(b) = IF i + 1 <= Len(s) THEN Len(s) - (i + 1) + 1 ELSE 0
          /\ \A j \in 1 .. Len(s) - (i + 1) + 1 : b[j] = s[(i + 1) + j - 1]
      BY <1>1, <2>1, SubSeqProperties
    <2> HIDE DEF b
    <2>3. QED
      BY <1>1, <2>2
  <1>4. RemoveAt(s, i) = a \o b
    BY DEF RemoveAt
  <1> HIDE DEF a, b
  <1>5. /\ a \o b \in Seq(X) /\ Len(a \o b) = Len(a) + Len(b)
        /\ \A j \in 1 .. Len(a) + Len(b) :
              (a \o b)[j] = IF j <= Len(a) THEN a[j] ELSE b[j - Len(a)]
    BY <1>2, <1>3, ConcatProperties
  <1>6. ASSUME NEW j \in 1 .. Len(s) - 1
        PROVE  (a \o b)[j] = IF j < i THEN s[j] ELSE s[j + 1]
    <2>1. CASE j < i
      BY <1>1, <1>2, <1>3, <1>5, <2>1
    <2>2. CASE ~(j < i)
      <3>1. (a \o b)[j] = b[j - (i - 1)] /\ j - (i - 1) \in 1 .. Len(s) - i
        BY <1>1, <1>2, <1>3, <1>5, <2>2
      <3>2. b[j - (i - 1)] = s[i + (j - (i - 1))]
        BY <1>3, <3>1
      <3>3. i + (j - (i - 1)) = j + 1
        BY <1>1
      <3>4. QED
        BY <2>2, <3>1, <3>2, <3>3
    <2>3. QED
      BY <2>1, <2>2
  <1>7. QED
    BY <1>1, <1>2, <1>3, <1>4, <1>5, <1>6

\* Being woken does not move a call in the line.
LEMMA LineWoken ==
    ASSUME NEW w \in Seq(Call), NEW q \in Seq(Call), NEW line, InLine(w, q, line), q # <<>>
    PROVE  InLine(Append(w, Head(q)), Tail(q), line)
  <1>0. /\ line \in Seq(Calls)
        /\ Len(w) \in Nat /\ Len(q) \in Nat /\ Len(line) = Len(w) + Len(q)
        /\ \A j \in 1 .. Len(w) : line[j] = Key(w[j])
        /\ \A j \in 1 .. Len(q) : line[Len(w) + j] = Key(q[j])
    BY LineIs
  <1> DEFINE a == Append(w, Head(q))
             t == Tail(q)
  <1>1. /\ Len(t) = Len(q) - 1 /\ Head(q) \in Call /\ Head(q) = q[1]
        /\ \A i \in 1 .. Len(t) : t[i] = q[i + 1]
    BY HeadTailProperties
  <1>2. /\ Len(a) = Len(w) + 1 /\ a[Len(w) + 1] = q[1]
        /\ \A i \in 1 .. Len(w) : a[i] = w[i]
    BY <1>1, AppendProperties
  <1>3. Len(q) >= 1
    BY EmptySeq, <1>0
  <1> HIDE DEF a, t
  <1>4. Len(line) = Len(a) + Len(t)
    BY <1>1, <1>2, <1>0
  <1>5. ASSUME NEW i \in 1 .. Len(a) PROVE line[i] = Key(a[i])
    <2>1. CASE i <= Len(w)
      BY <1>2, <2>1, <1>0
    <2>2. CASE i = Len(w) + 1
      BY <1>2, <1>3, <2>2, <1>0
    <2>3. QED
      BY <1>2, <2>1, <2>2, <1>0
  <1>6. ASSUME NEW i \in 1 .. Len(t) PROVE line[Len(a) + i] = Key(t[i])
    <2>1. line[Len(w) + (i + 1)] = Key(q[i + 1])
      BY <1>1, <1>0
    <2>2. Len(w) + (i + 1) = Len(a) + i
      BY <1>2, <1>0
    <2>3. QED
      BY <1>1, <2>1, <2>2
  <1>7. line \in Seq(Calls)
    BY <1>0
  <1>8. InLine(a, t, line)
    BY <1>4, <1>5, <1>6, <1>7 DEF InLine
  <1>9. QED
    BY <1>8 DEF a, t

\* A new call stands at the end.
LEMMA LineJoined ==
    ASSUME NEW w \in Seq(Call), NEW q \in Seq(Call), NEW line, InLine(w, q, line),
           NEW c \in Call
    PROVE  InLine(w, Append(q, c), Append(line, Key(c)))
  <1>0. /\ line \in Seq(Calls)
        /\ Len(w) \in Nat /\ Len(q) \in Nat /\ Len(line) = Len(w) + Len(q)
        /\ \A j \in 1 .. Len(w) : line[j] = Key(w[j])
        /\ \A j \in 1 .. Len(q) : line[Len(w) + j] = Key(q[j])
    BY LineIs
  <1> DEFINE a == Append(q, c)
             l == Append(line, Key(c))
  <1>1. Key(c) \in Calls
    BY DEF Key, Calls, Call
  <1>2. /\ Len(a) = Len(q) + 1 /\ a[Len(q) + 1] = c
        /\ \A i \in 1 .. Len(q) : a[i] = q[i]
    BY AppendProperties
  <1>3. /\ l \in Seq(Calls) /\ Len(l) = Len(line) + 1 /\ l[Len(line) + 1] = Key(c)
        /\ \A i \in 1 .. Len(line) : l[i] = line[i]
    BY <1>1, <1>0, AppendProperties
  <1> HIDE DEF a, l
  <1>4. Len(l) = Len(w) + Len(a)
    BY <1>2, <1>3, <1>0
  <1>5. \A i \in 1 .. Len(w) : l[i] = Key(w[i])
    BY <1>3, <1>0
  <1>6. ASSUME NEW i \in 1 .. Len(a) PROVE l[Len(w) + i] = Key(a[i])
    <2>1. CASE i <= Len(q)
      BY <1>2, <1>3, <2>1, <1>0
    <2>2. CASE i = Len(q) + 1
      <3>1. Len(w) + i = Len(line) + 1
        BY <2>2, <1>0
      <3>2. QED
        BY <1>2, <1>3, <2>2, <3>1
    <2>3. QED
      BY <1>2, <2>1, <2>2, <1>0
  <1>7. InLine(w, a, l)
    BY <1>3, <1>4, <1>5, <1>6 DEF InLine
  <1>8. QED
    BY <1>7 DEF a, l

\* The call that continues is the first in the line, and leaves it.
LEMMA LineLeft ==
    ASSUME NEW w \in Seq(Call), NEW q \in Seq(Call), NEW line, InLine(w, q, line), w # <<>>
    PROVE  InLine(Tail(w), q, Tail(line)) /\ Head(line) = Key(Head(w))
  <1>0. /\ line \in Seq(Calls)
        /\ Len(w) \in Nat /\ Len(q) \in Nat /\ Len(line) = Len(w) + Len(q)
        /\ \A j \in 1 .. Len(w) : line[j] = Key(w[j])
        /\ \A j \in 1 .. Len(q) : line[Len(w) + j] = Key(q[j])
    BY LineIs
  <1> DEFINE a == Tail(w)
             l == Tail(line)
  <1>1. Len(w) >= 1
    BY EmptySeq, <1>0
  <1>2. /\ Len(a) = Len(w) - 1
        /\ \A i \in 1 .. Len(a) : a[i] = w[i + 1]
    BY HeadTailProperties
  <1>3. line # <<>>
    BY <1>1, <1>0, EmptySeq
  <1>4. /\ l \in Seq(Calls) /\ Len(l) = Len(line) - 1
        /\ \A i \in 1 .. Len(l) : l[i] = line[i + 1]
    BY <1>3, <1>0, HeadTailProperties
  <1>5. Head(line) = line[1] /\ Head(w) = w[1] /\ line[1] = Key(w[1])
    BY <1>1, <1>0
  <1> HIDE DEF a, l
  <1>6. Len(l) = Len(a) + Len(q)
    BY <1>2, <1>4, <1>0
  <1>7. ASSUME NEW i \in 1 .. Len(a) PROVE l[i] = Key(a[i])
    <2>1. i \in 1 .. Len(l) /\ i + 1 \in 1 .. Len(w)
      BY <1>2, <1>6, <1>0
    <2>2. l[i] = line[i + 1] /\ line[i + 1] = Key(w[i + 1]) /\ a[i] = w[i + 1]
      BY <1>2, <1>4, <2>1, <1>0
    <2>3. QED
      BY <2>2
  <1>8. ASSUME NEW i \in 1 .. Len(q) PROVE l[Len(a) + i] = Key(q[i])
    <2>1. line[Len(w) + i] = Key(q[i])
      BY <1>0
    <2>2. Len(w) + i = (Len(a) + i) + 1 /\ Len(a) + i \in 1 .. Len(l)
      BY <1>1, <1>2, <1>6, <1>0
    <2>3. QED
      BY <1>4, <2>1, <2>2
  <1>9. InLine(a, q, l)
    BY <1>4, <1>6, <1>7, <1>8 DEF InLine
  <1>10. QED
    BY <1>5, <1>9 DEF a, l

\* A waiting call that gives up leaves its place.
LEMMA LineAborted ==
    ASSUME NEW w \in Seq(Call), NEW q \in Seq(Call), NEW line, InLine(w, q, line),
           NEW i \in 1 .. Len(q)
    PROVE  /\ InLine(w, RemoveAt(q, i), RemoveAt(line, Len(w) + i))
           /\ RemoveAt(q, i) \in Seq(Call)
  <1>0. /\ line \in Seq(Calls)
        /\ Len(w) \in Nat /\ Len(q) \in Nat /\ Len(line) = Len(w) + Len(q)
        /\ \A j \in 1 .. Len(w) : line[j] = Key(w[j])
        /\ \A j \in 1 .. Len(q) : line[Len(w) + j] = Key(q[j])
    BY LineIs
  <1> DEFINE k == Len(w) + i
             a == RemoveAt(q, i)
             l == RemoveAt(line, k)
  <1>1. k \in 1 .. Len(line)
    BY <1>0
  <1>2. /\ a \in Seq(Call) /\ Len(a) = Len(q) - 1
        /\ \A j \in 1 .. Len(q) - 1 : a[j] = IF j < i THEN q[j] ELSE q[j + 1]
    BY RemovedIs
  <1>3. line \in Seq(Calls)
    BY <1>0
  <1> HIDE DEF k
  <1>4. /\ l \in Seq(Calls) /\ Len(l) = Len(line) - 1
        /\ \A j \in 1 .. Len(line) - 1 : l[j] = IF j < k THEN line[j] ELSE line[j + 1]
    BY <1>1, <1>3, RemovedIs
  <1> HIDE DEF a, l
  <1> USE DEF k
  <1>5. Len(l) = Len(w) + Len(a)
    BY <1>2, <1>4, <1>0
  <1>6. ASSUME NEW j \in 1 .. Len(w) PROVE l[j] = Key(w[j])
    <2>1. j < k /\ j \in 1 .. Len(line) - 1
      BY <1>0
    <2>2. l[j] = line[j]
      BY ONLY <1>4, <2>1
    <2>3. QED
      BY <1>0, <2>2
  <1>7. ASSUME NEW j \in 1 .. Len(a) PROVE l[Len(w) + j] = Key(a[j])
    <2>1. CASE j < i
      <3>1. l[Len(w) + j] = line[Len(w) + j]
        <4>1. Len(w) + j < k /\ Len(w) + j \in 1 .. Len(line) - 1
          BY <1>0, <1>2, <2>1
        <4>2. QED
          BY ONLY <1>4, <4>1
      <3>2. QED
        BY <1>2, <2>1, <3>1, <1>0
    <2>2. CASE ~(j < i)
      <3>1. l[Len(w) + j] = line[(Len(w) + j) + 1]
        BY <1>2, <1>4, <2>2, <1>0
      <3>2. line[Len(w) + (j + 1)] = Key(q[j + 1])
        BY <1>2, <1>0
      <3>3. (Len(w) + j) + 1 = Len(w) + (j + 1)
        BY <1>0
      <3>4. QED
        BY <1>2, <2>2, <3>1, <3>2, <3>3
    <2>3. QED
      BY <2>1, <2>2
  <1>8. InLine(w, a, l)
    BY <1>4, <1>5, <1>6, <1>7 DEF InLine
  <1>9. QED
    BY <1>2, <1>8 DEF a, l, k

\* Cancelling sends away the calls that wait.
LEMMA LineCut ==
    ASSUME NEW w \in Seq(Call), NEW q \in Seq(Call), NEW line, InLine(w, q, line)
    PROVE  InLine(w, <<>>, SubSeq(line, 1, Len(w)))
  <1>0. /\ line \in Seq(Calls)
        /\ Len(w) \in Nat /\ Len(q) \in Nat /\ Len(line) = Len(w) + Len(q)
        /\ \A j \in 1 .. Len(w) : line[j] = Key(w[j])
        /\ \A j \in 1 .. Len(q) : line[Len(w) + j] = Key(q[j])
    BY LineIs
  <1> DEFINE l == SubSeq(line, 1, Len(w))
  <1>1. \A j \in 1 .. Len(w) : line[j] \in Calls
    BY <1>0, ElementOfSeq
  <1>2. /\ l \in Seq(Calls)
        /\ Len(l) = IF 1 <= Len(w) THEN Len(w) - 1 + 1 ELSE 0
        /\ \A j \in 1 .. Len(w) - 1 + 1 : l[j] = line[1 + j - 1]
    BY <1>1, <1>0, SubSeqProperties
  <1> HIDE DEF l
  <1>3. Len(l) = Len(w) /\ \A j \in 1 .. Len(w) : l[j] = line[j]
    BY <1>2, <1>0
  <1>4. InLine(w, <<>>, l)
    BY <1>2, <1>3, <1>0 DEF InLine
  <1>5. QED
    BY <1>4 DEF l

\* A woken call that gives up keeps its place until it continues.
LEMMA LineMarked ==
    ASSUME NEW w \in Seq(Call), NEW q \in Seq(Call), NEW line, InLine(w, q, line),
           NEW i \in 1 .. Len(w)
    PROVE  LET v == [w EXCEPT ![i] = [w[i] EXCEPT !.aborted = TRUE]] IN
           /\ InLine(v, q, line) /\ v \in Seq(Call) /\ Len(v) = Len(w)
  <1>0. /\ line \in Seq(Calls)
        /\ Len(w) \in Nat /\ Len(q) \in Nat /\ Len(line) = Len(w) + Len(q)
        /\ \A j \in 1 .. Len(w) : line[j] = Key(w[j])
        /\ \A j \in 1 .. Len(q) : line[Len(w) + j] = Key(q[j])
    BY LineIs
  <1> DEFINE c == [w[i] EXCEPT !.aborted = TRUE]
             v == [w EXCEPT ![i] = c]
  <1>1. w[i] \in Call
    BY ElementOfSeq
  <1>2. c \in Call /\ Key(c) = Key(w[i])
    BY <1>1 DEF Call, Key
  <1> HIDE DEF c
  <1>3. /\ v \in Seq(Call) /\ Len(v) = Len(w)
        /\ \A j \in 1 .. Len(w) : v[j] = IF j = i THEN c ELSE w[j]
    BY <1>2, ExceptSeq
  <1> HIDE DEF v
  <1>4. InLine(v, q, line)
    BY <1>2, <1>3, <1>0 DEF InLine
  <1>5. QED
    BY <1>3, <1>4 DEF v, c

-----------------------------------------------------------------------------
(* The operations, on a ledger and the line of its calls.                  *)

\* What a sound ledger is, spelled out for the lemmas on operations.
LEMMA SoundIs ==
    ASSUME NEW L, NEW line, NEW used, Sound(L, line, used)
    PROVE  /\ L \in Ledger /\ Good(L)
           /\ L.node \in [Node -> Grant] /\ L.budget \in [Node -> Budget]
           /\ L.active \in Nat /\ L.permits \in Nat /\ MaxConcurrentNodes \in Nat \ {0}
           /\ L.waiters \in Seq(Call) /\ L.woken \in Seq(Call)
           /\ Counted(L) /\ InLine(L.woken, L.waiters, line)
           /\ BudgetInv(L.node, L.budget, used)
  BY LedgerAssumption DEF Sound, Good, Ledger

\* A slot promised to the call that waits longest, where one is free.
LEMMA NotifiedSound ==
    ASSUME NEW L, NEW line, NEW used, Sound(L, line, used),
           L.active + L.permits < MaxConcurrentNodes
    PROVE  LET K == Notified(L) IN
           /\ Sound(K, line, used) /\ Admits(K)
           /\ K.node = L.node
           /\ Len(K.waiters) <= Len(L.waiters)
  <1> DEFINE K == Notified(L)
  <1>0. /\ L \in Ledger /\ Good(L)
        /\ L.active \in Nat /\ L.permits \in Nat /\ MaxConcurrentNodes \in Nat \ {0}
        /\ L.waiters \in Seq(Call) /\ L.woken \in Seq(Call)
        /\ Counted(L) /\ InLine(L.woken, L.waiters, line)
        /\ BudgetInv(L.node, L.budget, used)
    BY SoundIs
  <1>1. CASE L.waiters = <<>>
    <2>1. Admits(L)
      BY <1>0, <1>1 DEF Admits
    <2>2. K = L
      BY <1>1 DEF Notified
    <2>3. Len(L.waiters) \in Nat
      BY <1>0, LenProperties
    <2>4. QED
      BY <2>1, <2>2, <2>3
  <1>2. CASE L.waiters # <<>>
    <2>1. /\ K \in Ledger
          /\ K.node = L.node /\ K.budget = L.budget /\ K.cancelled = L.cancelled
          /\ K.active = L.active
          /\ K.waiters = Tail(L.waiters)
          /\ K.woken = Append(L.woken, Head(L.waiters))
          /\ K.permits = L.permits + 1
      BY <1>0, <1>2, NotifiedIs
    <2> HIDE DEF K
    <2>2. Good(K)
      BY <1>0, <2>1 DEF Good
    <2>3. InLine(K.woken, K.waiters, line)
      BY <1>0, <1>2, <2>1, LineWoken
    <2>4. Len(K.woken) = Len(L.woken) + 1
      BY <1>0, <1>2, <2>1, HeadTailProperties, AppendProperties
    <2>5. Counted(K)
      BY <1>0, <2>1, <2>4 DEF Counted
    <2>6. Admits(K)
      BY <1>0, <2>1 DEF Admits
    <2>7. Len(K.waiters) <= Len(L.waiters)
      BY <1>0, <1>2, <2>1, HeadTailProperties, LenProperties
    <2>8. BudgetInv(K.node, K.budget, used)
      BY <1>0, <2>1
    <2>9. QED
      BY <2>1, <2>2, <2>3, <2>5, <2>6, <2>7, <2>8 DEF Sound, K
  <1>3. QED
    BY <1>1, <1>2

\* The running nodes can be counted.
LEMMA FiniteRunning ==
    ASSUME NEW n
    PROVE  IsFiniteSet(Running(n)) /\ Cardinality(Running(n)) \in Nat
  <1>1. Running(n) \subseteq Node
    BY DEF Running
  <1>2. QED
    BY <1>1, RootIsNode, FS_Subset, FS_CardinalityType

\* A slot given up is one runner less.
LEMMA IdledCounted ==
    ASSUME NEW n, NEW m, NEW t \in Node, n[t].running, ~m[t].running,
           \A u \in Node : u # t => m[u].running = n[u].running
    PROVE  /\ Cardinality(Running(m)) = Cardinality(Running(n)) - 1
           /\ Cardinality(Running(n)) > 0
  <1>1. Running(m) = Running(n) \ {t} /\ t \in Running(n)
    BY DEF Running
  <1>2. Cardinality(Running(n)) # 0
    BY <1>1, FiniteRunning, FS_EmptySet
  <1>3. Cardinality(Running(n) \ {t}) = Cardinality(Running(n)) - 1
    BY <1>1, FiniteRunning, FS_RemoveElement
  <1>4. Cardinality(Running(n)) \in Nat
    BY FiniteRunning
  <1>5. QED
    BY <1>1, <1>2, <1>3, <1>4

\* A slot taken is one runner more.
LEMMA TakenCounted ==
    ASSUME NEW n, NEW m, NEW t \in Node, ~n[t].running, m[t].running,
           \A u \in Node : u # t => m[u].running = n[u].running
    PROVE  Cardinality(Running(m)) = Cardinality(Running(n)) + 1
  <1>1. Running(m) = Running(n) \cup {t} /\ t \notin Running(n)
    BY DEF Running
  <1>2. QED
    BY <1>1, FiniteRunning, FS_AddElement

\* Nothing of the admission changes but what the counters do not count.
LEMMA SameCounted ==
    ASSUME NEW L, NEW K, Counted(L), Admits(L),
           \A u \in Node : K.node[u].running = L.node[u].running,
           K.active = L.active, K.permits = L.permits, K.woken = L.woken,
           K.waiters = L.waiters \/ K.waiters = <<>>
    PROVE  Counted(K) /\ Admits(K)
  <1>1. Running(K.node) = Running(L.node)
    BY DEF Running
  <1>2. QED
    BY <1>1 DEF Counted, Admits

\* t took the slot it was entitled to, and the rest of the tree is as before.
Took(n, m, t) ==
    /\ ~n[t].running /\ n[t].status \in Live
    /\ m[t].running /\ m[t].status = "active"
    /\ m[t].parent = n[t].parent /\ m[t].above = n[t].above
    /\ m[t].depth = n[t].depth /\ m[t].ceiling = n[t].ceiling
    /\ \A u \in Node : u # t => m[u] = n[u]

\* A slot is taken where one is free and not promised.
LEMMA TakenSound ==
    ASSUME NEW L, NEW line, NEW used, Sound(L, line, used),
           L.active + L.permits < MaxConcurrentNodes,
           NEW op \in {"start", "resume"}, NEW t \in Token, NEW at, Entitled(L, op, t, at)
    PROVE  LET K == SlotTaken(L, op, t) IN
           /\ Sound(K, line, used) /\ Admits(K)
           /\ K.waiters = L.waiters
           /\ \A u \in Node : u # t => K.node[u] = L.node[u]
           /\ Took(L.node, K.node, t)
  <1> DEFINE K == SlotTaken(L, op, t)
  <1>0. /\ L \in Ledger /\ Good(L)
        /\ L.node \in [Node -> Grant] /\ L.budget \in [Node -> Budget]
        /\ L.active \in Nat /\ L.permits \in Nat /\ MaxConcurrentNodes \in Nat \ {0}
        /\ Counted(L) /\ InLine(L.woken, L.waiters, line)
        /\ BudgetInv(L.node, L.budget, used)
        /\ t \in Node
    BY SoundIs, RootIsNode
  <1>1. op = "start" => L.budget[t].nodes >= 1
    BY <1>0 DEF Entitled, CanStart, BudgetInv
  <1>2. /\ Good(K) /\ ~L.node[t].running
        /\ op = "start" => L.node[t].status = "reserved"
        /\ op = "resume" => L.node[t].status = "active"
    BY <1>0, <1>1, SlotTakenGood
  <1>3. /\ K \in Ledger
        /\ K.node[t] = [L.node[t] EXCEPT !.status = "active", !.running = TRUE]
        /\ K.budget[t] = Paying(L, op, t)
        /\ \A u \in Node : u # t => K.node[u] = L.node[u] /\ K.budget[u] = L.budget[u]
        /\ K.active = L.active + 1
        /\ K.waiters = L.waiters /\ K.woken = L.woken /\ K.permits = L.permits
    <2>1. L \in Ledger
      BY <1>0
    <2>2. /\ K \in Ledger /\ TakenFrom(L, K, op, t) /\ K.active = L.active + 1
          /\ K.waiters = L.waiters /\ K.woken = L.woken /\ K.permits = L.permits
      BY <1>1, <2>1, SlotTakenIs
    <2> HIDE DEF K
    <2>3. QED
      BY <2>2 DEF TakenFrom
  <1> HIDE DEF K
  <1>4. K.budget \in [Node -> Budget]
    BY <1>3 DEF Ledger
  <1>5. L.node[t] \in Grant /\ L.budget[t] \in Budget
    BY <1>0
  <1>6. /\ K.node[t].status = "active" /\ K.node[t].running
        /\ K.node[t].parent = L.node[t].parent /\ K.node[t].above = L.node[t].above
        /\ K.node[t].depth = L.node[t].depth /\ K.node[t].ceiling = L.node[t].ceiling
    BY <1>3, <1>5 DEF Grant
  <1>7. /\ K.budget[t].runs = L.budget[t].runs /\ K.budget[t].slots = L.budget[t].slots
        /\ K.budget[t].nodes = IF op = "start" THEN L.budget[t].nodes - 1 ELSE L.budget[t].nodes
    BY <1>3, <1>5 DEF Budget, Paying
  <1>8. BudgetInv(K.node, K.budget, used)
    <2>1. K.budget[t].nodes + Itself(K.node[t]) = L.budget[t].nodes + Itself(L.node[t])
      BY <1>2, <1>5, <1>6, <1>7 DEF Itself, Published, Budget
    <2>2. SamePay(L.node, K.node, L.budget, K.budget)
      BY <1>2, <1>3, <1>6, <1>7, <2>1 DEF SamePay
    <2>3. QED
      BY ONLY <1>0, <1>4, <2>2, SameBudget
  <1>9. Counted(K)
    <2>1. Cardinality(Running(K.node)) = Cardinality(Running(L.node)) + 1
      <3>1. /\ t \in Node /\ ~L.node[t].running /\ K.node[t].running
            /\ \A u \in Node : u # t => K.node[u].running = L.node[u].running
        BY <1>0, <1>2, <1>3, <1>6
      <3>2. QED
        BY ONLY <3>1, TakenCounted
    <2>2. QED
      BY <1>0, <1>3, <2>1 DEF Counted
  <1>10. Admits(K)
    BY <1>0, <1>3 DEF Admits
  <1>11. InLine(K.woken, K.waiters, line)
    BY <1>0, <1>3
  <1>12. Took(L.node, K.node, t)
    BY <1>2, <1>3, <1>6 DEF Took, Live
  <1>13. QED
    BY <1>2, <1>3, <1>8, <1>9, <1>10, <1>11, <1>12 DEF Sound, K

\* A call that has to wait, where somebody will wake it.
LEMMA QueuedSound ==
    ASSUME NEW L, NEW line, NEW used, Sound(L, line, used), Admits(L), NEW c \in Call,
           L.waiters # <<>> \/ L.permits # 0 \/ ~HasRoom(L)
    PROVE  LET K == Queued(L, c) IN
           /\ Sound(K, Append(line, Key(c)), used) /\ Admits(K)
           /\ K.node = L.node
           /\ K.waiters # L.waiters
  <1> DEFINE K == Queued(L, c)
  <1>0. /\ L \in Ledger /\ Good(L)
        /\ L.active \in Nat /\ L.permits \in Nat /\ MaxConcurrentNodes \in Nat \ {0}
        /\ L.waiters \in Seq(Call) /\ L.woken \in Seq(Call)
        /\ Counted(L) /\ InLine(L.woken, L.waiters, line)
        /\ BudgetInv(L.node, L.budget, used)
    BY SoundIs
  <1>1. /\ K \in Ledger
        /\ K.node = L.node /\ K.budget = L.budget /\ K.cancelled = L.cancelled
        /\ K.active = L.active /\ K.permits = L.permits /\ K.woken = L.woken
        /\ K.waiters = Append(L.waiters, c)
    BY <1>0, QueuedIs
  <1> HIDE DEF K
  <1>2. Good(K)
    BY <1>0, <1>1 DEF Good
  <1>3. Counted(K)
    BY <1>0, <1>1 DEF Counted
  <1>4. L.active + L.permits > 0
    BY <1>0 DEF Admits, HasRoom
  <1>5. Admits(K)
    BY <1>1, <1>4 DEF Admits
  <1>6. InLine(K.woken, K.waiters, Append(line, Key(c)))
    BY <1>0, <1>1, LineJoined
  <1>7. K.waiters # L.waiters
    <2>1. Len(Append(L.waiters, c)) = Len(L.waiters) + 1 /\ Len(L.waiters) \in Nat
      BY <1>0, AppendProperties, LenProperties
    <2>2. QED
      BY <1>1, <2>1
  <1>8. QED
    BY <1>0, <1>1, <1>2, <1>3, <1>5, <1>6, <1>7 DEF Sound, K

\* A slot is taken only in the caller's turn.
InTurn(n, m, line) ==
    \A t \in Node : ~n[t].running /\ m[t].running => line = <<>> \/ Head(line)[2] = t

\* A reservation keeps the ledger sound and takes no slot.
LEMMA ReserveSound ==
    ASSUME NEW L, NEW line, NEW used, Sound(L, line, used), Admits(L),
           NEW p \in Node, NEW S \in SUBSET Token, NEW ask \in [S -> Allocations],
           NEW at \in Nat, CanReserve(L, p, ask, at)
    PROVE  LET K == Reserved(L, p, ask) IN
           Sound(K, line, used) /\ Admits(K) /\ InTurn(L.node, K.node, line)
  <1> DEFINE K == Reserved(L, p, ask)
  <1>0. /\ L \in Ledger /\ Good(L) /\ Counted(L) /\ InLine(L.woken, L.waiters, line)
        /\ L.node \in [Node -> Grant] /\ L.budget \in [Node -> Budget]
        /\ BudgetInv(L.node, L.budget, used)
        /\ S \subseteq Node /\ DOMAIN ask = S
    BY SoundIs, RootIsNode
  <1>1. Good(K) /\ p \notin S
    BY <1>0, ReservedGood
  <1>2. /\ K \in Ledger
        /\ ReservedFrom(L, K, p, S, ask)
        /\ K.active = L.active
        /\ K.waiters = L.waiters /\ K.woken = L.woken /\ K.permits = L.permits
    BY <1>0, <1>1, ReservedIs
  <1> HIDE DEF K
  <1>3. /\ \A u \in S : L.node[u].status = "unissued" /\ ask[u].nodes >= 1
        /\ L.node[p].status = "active"
        /\ L.budget[p].slots + Cardinality(S) <= MaxChildrenPerNode
    BY <1>0 DEF CanReserve, Authorized
  <1>4. \A u \in S : L.node[u] = Unissued
    BY <1>0, <1>3 DEF Good, TreeInv
  <1>5. /\ \A u \in S : K.node[u] = Issued(L, p, ask, u)
        /\ \A u \in Node \ S : K.node[u] = L.node[u]
    BY <1>2 DEF ReservedFrom
  <1>6. \A u \in S : /\ K.node[u].status = "reserved" /\ K.node[u].parent = p
                    /\ ~K.node[u].running
    <2> SUFFICES ASSUME NEW u \in S
                 PROVE  /\ K.node[u].status = "reserved" /\ K.node[u].parent = p
                        /\ ~K.node[u].running
      OBVIOUS
    <2> DEFINE r == K.node[u]
    <2>1. r = Issued(L, p, ask, u)
      BY <1>5
    <2> HIDE DEF r
    <2>2. r.status = "reserved" /\ r.parent = p /\ ~r.running
      BY <2>1 DEF Issued
    <2>3. QED
      BY <2>2 DEF r
  <1>7. /\ \A u \in S : /\ K.budget[u].nodes = ask[u].nodes
                       /\ K.budget[u].runs = ask[u].runs /\ K.budget[u].slots = 0
        /\ \A u \in Node \ S : u # p => K.budget[u] = L.budget[u]
        /\ K.budget[p].nodes = L.budget[p].nodes - Nodes(ask)
        /\ K.budget[p].runs = L.budget[p].runs - Runs(ask)
        /\ K.budget[p].slots = L.budget[p].slots + Cardinality(S)
    <2>1. ASSUME NEW u \in S
          PROVE  /\ K.budget[u].nodes = ask[u].nodes
                 /\ K.budget[u].runs = ask[u].runs /\ K.budget[u].slots = 0
      <3> DEFINE r == K.budget[u]
      <3>1. r = [nodes |-> ask[u].nodes, runs |-> ask[u].runs, slots |-> 0]
        BY <1>2, <2>1 DEF ReservedFrom
      <3> HIDE DEF r
      <3>2. r.nodes = ask[u].nodes /\ r.runs = ask[u].runs /\ r.slots = 0
        BY <3>1
      <3>3. QED
        BY <3>2 DEF r
    <2>2. /\ K.budget[p].nodes = L.budget[p].nodes - Nodes(ask)
          /\ K.budget[p].runs = L.budget[p].runs - Runs(ask)
          /\ K.budget[p].slots = L.budget[p].slots + Cardinality(S)
      <3> DEFINE r == K.budget[p]
      <3>1. r = [nodes |-> L.budget[p].nodes - Nodes(ask),
                 runs  |-> L.budget[p].runs - Runs(ask),
                 slots |-> L.budget[p].slots + Cardinality(S)]
        BY <1>2 DEF ReservedFrom
      <3> HIDE DEF r
      <3>2. /\ r.nodes = L.budget[p].nodes - Nodes(ask)
            /\ r.runs = L.budget[p].runs - Runs(ask)
            /\ r.slots = L.budget[p].slots + Cardinality(S)
        BY <3>1
      <3>3. QED
        BY <3>2 DEF r
    <2>3. \A u \in Node \ S : u # p => K.budget[u] = L.budget[u]
      BY <1>2 DEF ReservedFrom
    <2>4. QED
      BY <2>1, <2>2, <2>3
  <1>8. K.budget \in [Node -> Budget]
    BY <1>2 DEF Ledger
  <1>9. BudgetInv(K.node, K.budget, used)
    <2> DEFINE n == L.node
               m == K.node
               b == L.budget
               c == K.budget
    <2>1. /\ b \in [Node -> Budget] /\ c \in [Node -> Budget]
          /\ BudgetInv(n, b, used) /\ Shared(n, m, b, c, S, p, ask)
      BY <1>0, <1>3, <1>4, <1>5, <1>6, <1>7, <1>8 DEF Shared
    <2>2. S \in SUBSET Token /\ p \in Node /\ p \notin S /\ ask \in [S -> Allocations]
      BY <1>1
    <2> HIDE DEF n, m, b, c
    <2>3. BudgetInv(m, c, used)
      BY ONLY <2>1, <2>2, ReservedBudget
    <2>4. QED
      BY <2>3 DEF m, c
  <1>10. \A u \in Node : K.node[u].running = L.node[u].running
    <2>1. \A u \in S : ~L.node[u].running
      BY <1>4 DEF Unissued
    <2>2. \A u \in S : K.node[u].running \in BOOLEAN /\ L.node[u].running \in BOOLEAN
      BY <1>0, <1>2 DEF Ledger, Grant
    <2>3. QED
      BY <1>5, <1>6, <2>1, <2>2
  <1>11. Counted(K) /\ Admits(K)
    BY <1>0, <1>2, <1>10, SameCounted
  <1>12. InTurn(L.node, K.node, line)
    BY <1>10 DEF InTurn
  <1>13. InLine(K.woken, K.waiters, line)
    BY <1>0, <1>2
  <1>14. QED
    BY <1>1, <1>9, <1>11, <1>12, <1>13 DEF Sound, K

\* A refund keeps the ledger sound and takes no slot.
LEMMA RefundSound ==
    ASSUME NEW L, NEW line, NEW used, Sound(L, line, used), Admits(L),
           NEW t \in Token, NEW at, CanRefund(L, t, at)
    PROVE  LET K == Refunded(L, t) IN
           Sound(K, line, used) /\ Admits(K) /\ InTurn(L.node, K.node, line)
  <1> DEFINE K == Refunded(L, t)
             p == L.node[t].parent
  <1>0. /\ L \in Ledger /\ Good(L) /\ Counted(L) /\ InLine(L.woken, L.waiters, line)
        /\ L.node \in [Node -> Grant] /\ L.budget \in [Node -> Budget]
        /\ BudgetInv(L.node, L.budget, used)
        /\ t \in Node
    BY SoundIs, RootIsNode
  <1>1. L.node[t].status = "reserved" /\ L.node[p].status = "active"
    BY DEF CanRefund, Authorized
  <1>2. p \in Node /\ p # t
    <2>1. Hangs(L.node, t)
      BY <1>0, <1>1 DEF Good, TreeInv
    <2>2. QED
      BY <1>1, <2>1 DEF Hangs
  <1> HIDE DEF p
  <1>3. L.budget[p].slots >= 1
    <2>1. L.node[t].parent = p /\ L.node[t].status # "refunded"
      BY <1>1 DEF p
    <2>2. QED
      BY <1>0, <1>2, <2>1, KeptCounted
  <1>4. p = L.node[t].parent
    BY DEF p
  <1>5. /\ K \in Ledger
        /\ RefundedFrom(L, K, t, p)
        /\ K.cancelled = L.cancelled /\ K.active = L.active
        /\ K.waiters = L.waiters /\ K.woken = L.woken /\ K.permits = L.permits
    BY <1>0, <1>2, <1>3, <1>4, RefundedIs
  <1> HIDE DEF K
  <1>6. /\ K.node[t] = [L.node[t] EXCEPT !.status = "refunded"]
        /\ \A u \in Node : u # t => K.node[u] = L.node[u]
    BY <1>5 DEF RefundedFrom
  <1>7. /\ K.node[t].status = "refunded" /\ K.node[t].parent = L.node[t].parent
        /\ K.node[t].running = L.node[t].running
    BY <1>0, <1>6 DEF Grant
  <1>8. Good(K)
    BY <1>0, <1>1, <1>5, <1>6, RefundedGood
  <1>9. K.budget \in [Node -> Budget]
    BY <1>5 DEF Ledger
  <1>10. BudgetInv(K.node, K.budget, used)
    <2> DEFINE n == L.node
               m == K.node
               b == L.budget
               c == K.budget
    <2>1. /\ b \in [Node -> Budget] /\ c \in [Node -> Budget] /\ BudgetInv(n, b, used)
          /\ t \in Token /\ p \in Node /\ p # t
          /\ PaidBack(n, m, b, c, t, p)
      BY <1>0, <1>1, <1>2, <1>4, <1>5, <1>7, <1>9 DEF PaidBack, RefundedFrom
    <2> HIDE DEF n, m, b, c
    <2>2. BudgetInv(m, c, used)
      BY ONLY <2>1, RefundedBudget
    <2>3. QED
      BY <2>2 DEF m, c
  <1>11. \A u \in Node : K.node[u].running = L.node[u].running
    BY <1>6, <1>7
  <1>12. Counted(K) /\ Admits(K)
    BY <1>0, <1>5, <1>11, SameCounted
  <1>13. InTurn(L.node, K.node, line)
    BY <1>11 DEF InTurn
  <1>14. InLine(K.woken, K.waiters, line)
    BY <1>0, <1>5
  <1>15. QED
    BY <1>8, <1>10, <1>12, <1>13, <1>14 DEF Sound, K

\* A charge keeps the ledger sound, for the runs spent so far and its own.
LEMMA ChargeSound ==
    ASSUME NEW L, NEW line, NEW used \in Nat, Sound(L, line, used), Admits(L),
           NEW t \in Node, NEW count \in Nat, count <= L.budget[t].runs,
           L.node[t].status = "active"
    PROVE  LET K == Charged(L, t, count) IN
           Sound(K, line, used + count) /\ Admits(K) /\ InTurn(L.node, K.node, line)
  <1> DEFINE K == Charged(L, t, count)
  <1>0. /\ L \in Ledger /\ Good(L) /\ Counted(L) /\ InLine(L.woken, L.waiters, line)
        /\ L.node \in [Node -> Grant] /\ L.budget \in [Node -> Budget]
        /\ BudgetInv(L.node, L.budget, used)
    BY SoundIs
  <1>1. /\ K \in Ledger
        /\ K.budget = [L.budget EXCEPT
              ![t] = [L.budget[t] EXCEPT !.runs = L.budget[t].runs - count]]
        /\ K.node = L.node /\ K.cancelled = L.cancelled /\ K.active = L.active
        /\ K.waiters = L.waiters /\ K.woken = L.woken /\ K.permits = L.permits
    BY <1>0, ChargedIs
  <1> HIDE DEF K
  <1>2. Good(K)
    BY <1>0, <1>1 DEF Good
  <1>3. /\ \A u \in Node : u # t => K.budget[u] = L.budget[u]
        /\ K.budget[t] = [L.budget[t] EXCEPT !.runs = L.budget[t].runs - count]
        /\ K.budget \in [Node -> Budget]
    BY <1>0, <1>1 DEF Ledger
  <1>4. BudgetInv(L.node, K.budget, used + count)
    BY <1>0, <1>3, ChargedBudget
  <1>5. Counted(K) /\ Admits(K)
    BY <1>0, <1>1, SameCounted
  <1>6. QED
    BY <1>0, <1>1, <1>2, <1>4, <1>5 DEF Sound, InTurn, K

\* Revoking and dropping changes nobody's credits and no slot.
LEMMA WithdrawnPays ==
    ASSUME NEW L \in Ledger, NEW K \in Ledger, NEW S, WithdrawnFrom(L, K, S),
           K.budget = L.budget
    PROVE  /\ SamePay(L.node, K.node, L.budget, K.budget)
           /\ \A u \in Node : K.node[u].running = L.node[u].running
  <1>1. ASSUME NEW u \in Node
        PROVE  /\ K.node[u].parent = L.node[u].parent
               /\ K.node[u].running = L.node[u].running
               /\ Itself(K.node[u]) = Itself(L.node[u])
    <2>1. L.node[u] \in Grant
      BY DEF Ledger
    <2>2. QED
      BY <2>1 DEF WithdrawnFrom, Grant, Itself, Published
  <1>2. SamePay(L.node, K.node, L.budget, K.budget)
    BY <1>1 DEF SamePay, WithdrawnFrom
  <1>3. QED
    BY <1>1, <1>2

\* A revocation keeps the ledger sound and takes no slot.
LEMMA RevokeSound ==
    ASSUME NEW L, NEW line, NEW used, Sound(L, line, used), Admits(L), NEW t \in Node
    PROVE  LET K == Withdrawn(L, Forest(L, t)) IN
           Sound(K, line, used) /\ Admits(K) /\ InTurn(L.node, K.node, line)
  <1> DEFINE S == Forest(L, t)
             K == Withdrawn(L, S)
  <1>0. /\ L \in Ledger /\ Good(L) /\ Counted(L) /\ InLine(L.woken, L.waiters, line)
        /\ L.budget \in [Node -> Budget] /\ BudgetInv(L.node, L.budget, used)
    BY SoundIs
  <1>1. \A u \in Node : L.node[u].status \in Live /\ u \notin S => L.node[u].above \cap S = {}
    BY <1>0, ForestClosed
  <1> HIDE DEF S
  <1>2. /\ K \in Ledger
        /\ WithdrawnFrom(L, K, S)
        /\ K.budget = L.budget /\ K.cancelled = L.cancelled /\ K.active = L.active
        /\ K.waiters = L.waiters /\ K.woken = L.woken /\ K.permits = L.permits
    BY <1>0, WithdrawnIs
  <1> HIDE DEF K
  <1>3. Good(K)
    BY <1>0, <1>1, <1>2, WithdrawnGood
  <1>4. /\ SamePay(L.node, K.node, L.budget, K.budget)
        /\ \A u \in Node : K.node[u].running = L.node[u].running
    BY <1>0, <1>2, WithdrawnPays
  <1>5. K.budget \in [Node -> Budget]
    BY <1>2 DEF Ledger
  <1>6. BudgetInv(K.node, K.budget, used)
    BY ONLY <1>0, <1>4, <1>5, SameBudget
  <1>7. Counted(K) /\ Admits(K)
    BY <1>0, <1>2, <1>4, SameCounted
  <1>8. InTurn(L.node, K.node, line)
    BY <1>4 DEF InTurn
  <1>9. InLine(K.woken, K.waiters, line)
    BY <1>0, <1>2
  <1>10. QED
    BY <1>3, <1>6, <1>7, <1>8, <1>9 DEF Sound, K, S

\* A cancellation keeps the ledger sound, for the line of the woken calls.
LEMMA CancelSound ==
    ASSUME NEW L, NEW line, NEW used, Sound(L, line, used), Admits(L)
    PROVE  LET K == Cancelled(L) IN
           /\ Sound(K, SubSeq(line, 1, Len(L.woken)), used) /\ Admits(K)
           /\ InTurn(L.node, K.node, line)
  <1> DEFINE K == Cancelled(L)
  <1>0. /\ L \in Ledger /\ Good(L) /\ Counted(L) /\ InLine(L.woken, L.waiters, line)
        /\ L.woken \in Seq(Call) /\ L.waiters \in Seq(Call)
        /\ L.budget \in [Node -> Budget] /\ BudgetInv(L.node, L.budget, used)
    BY SoundIs
  <1>1. \A u \in Node : L.node[u].status \in Live /\ u \notin Node => L.node[u].above \cap Node = {}
    OBVIOUS
  <1>2. /\ K \in Ledger
        /\ WithdrawnFrom(L, K, Node)
        /\ K.waiters = <<>>
        /\ K.budget = L.budget /\ K.active = L.active
        /\ K.woken = L.woken /\ K.permits = L.permits
    BY <1>0, CancelledIs
  <1> HIDE DEF K
  <1>3. Good(K)
    BY <1>0, <1>1, <1>2, WithdrawnGood
  <1>4. /\ SamePay(L.node, K.node, L.budget, K.budget)
        /\ \A u \in Node : K.node[u].running = L.node[u].running
    BY <1>0, <1>2, WithdrawnPays
  <1>5. K.budget \in [Node -> Budget]
    BY <1>2 DEF Ledger
  <1>6. BudgetInv(K.node, K.budget, used)
    BY ONLY <1>0, <1>4, <1>5, SameBudget
  <1>7. Counted(K) /\ Admits(K)
    BY <1>0, <1>2, <1>4, SameCounted
  <1>8. InTurn(L.node, K.node, line)
    BY <1>4 DEF InTurn
  <1>9. InLine(K.woken, K.waiters, SubSeq(line, 1, Len(L.woken)))
    BY <1>0, <1>2, LineCut
  <1>10. QED
    BY <1>3, <1>6, <1>7, <1>8, <1>9 DEF Sound, K

\* The slot that is given up is promised to the call that waits longest.
Freed(L, K, t) ==
    /\ L.node[t].running /\ ~K.node[t].running
    /\ \A u \in Node : u # t => K.node[u].running = L.node[u].running
    /\ K.active = L.active - 1 /\ K.permits = L.permits
    /\ K.woken = L.woken /\ K.waiters = L.waiters
    /\ K.budget = L.budget /\ SamePay(L.node, K.node, L.budget, K.budget)

\* Freeing a slot and notifying the queue keeps the ledger sound: the slot is
\* free or a woken call holds a permit for it.
LEMMA FreedSound ==
    ASSUME NEW L, NEW line, NEW used, Sound(L, line, used), Admits(L),
           NEW K, Good(K), NEW t \in Node, Freed(L, K, t)
    PROVE  /\ Sound(Notified(K), line, used) /\ Admits(Notified(K))
           /\ InTurn(L.node, Notified(K).node, line)
           /\ Notified(K).node = K.node
  <1> USE DEF Freed
  <1>0. /\ L \in Ledger /\ Counted(L) /\ InLine(L.woken, L.waiters, line)
        /\ L.active \in Nat /\ L.permits \in Nat /\ MaxConcurrentNodes \in Nat
        /\ L.budget \in [Node -> Budget] /\ BudgetInv(L.node, L.budget, used)
    BY SoundIs
  <1>1. /\ Cardinality(Running(K.node)) = Cardinality(Running(L.node)) - 1
        /\ Cardinality(Running(L.node)) > 0
    <2>1. /\ t \in Node /\ L.node[t].running /\ ~K.node[t].running
          /\ \A u \in Node : u # t => K.node[u].running = L.node[u].running
      OBVIOUS
    <2>2. QED
      BY ONLY <2>1, IdledCounted
  <1>2. Counted(K)
    BY <1>0, <1>1 DEF Counted
  <1>3. K.active + K.permits < MaxConcurrentNodes
    BY <1>0 DEF Admits
  <1>4. BudgetInv(K.node, K.budget, used)
    <2>1. K.budget \in [Node -> Budget] /\ SamePay(L.node, K.node, L.budget, K.budget)
      BY <1>0
    <2>2. QED
      BY ONLY <1>0, <2>1, SameBudget
  <1>5. InLine(K.woken, K.waiters, line)
    BY <1>0
  <1>6. Sound(K, line, used)
    BY <1>2, <1>4, <1>5 DEF Sound
  <1>7. Sound(Notified(K), line, used) /\ Admits(Notified(K)) /\ Notified(K).node = K.node
    BY ONLY <1>3, <1>6, NotifiedSound
  <1>8. InTurn(L.node, K.node, line)
    BY DEF InTurn
  <1>9. QED
    BY <1>7, <1>8

\* A node that joins its children gives up its slot and keeps the ledger sound.
LEMMA SuspendSound ==
    ASSUME NEW L, NEW line, NEW used, Sound(L, line, used), Admits(L),
           NEW t \in Node, L.node[t].running
    PROVE  LET K == SlotFreed(L, t) IN
           /\ Sound(K, line, used) /\ Admits(K) /\ InTurn(L.node, K.node, line)
           /\ K.node = [L.node EXCEPT ![t] = [L.node[t] EXCEPT !.running = FALSE]]
  <1> DEFINE K == Idled(L, t)
  <1>0. L \in Ledger /\ Good(L) /\ Counted(L) /\ L.node \in [Node -> Grant]
    BY SoundIs
  <1>1. L.active > 0
    <2>1. t \in Running(L.node)
      BY DEF Running
    <2>2. Cardinality(Running(L.node)) # 0 /\ Cardinality(Running(L.node)) \in Nat
      BY <2>1, FiniteRunning, FS_EmptySet
    <2>3. QED
      BY <1>0, <2>2 DEF Counted
  <1>2. /\ K \in Ledger
        /\ K.node = [L.node EXCEPT ![t] = [L.node[t] EXCEPT !.running = FALSE]]
        /\ K.budget = L.budget /\ K.active = L.active - 1
        /\ K.waiters = L.waiters /\ K.woken = L.woken /\ K.permits = L.permits
    BY <1>0, <1>1, IdledIs
  <1>3. Good(K)
    BY <1>0, <1>1, IdledGood
  <1>4. SlotFreed(L, t) = Notified(K)
    BY DEF SlotFreed, Idled
  <1> HIDE DEF K
  <1>5. /\ K.node[t].status = L.node[t].status /\ K.node[t].parent = L.node[t].parent
        /\ ~K.node[t].running
        /\ \A u \in Node : u # t => K.node[u] = L.node[u]
    BY <1>0, <1>2 DEF Grant
  <1>6. SamePay(L.node, K.node, L.budget, K.budget)
    BY <1>2, <1>5 DEF SamePay, Itself
  <1>7. QED
    <2>1. Freed(L, K, t)
      BY <1>2, <1>5, <1>6 DEF Freed
    <2>2. /\ Sound(Notified(K), line, used) /\ Admits(Notified(K))
          /\ InTurn(L.node, Notified(K).node, line) /\ Notified(K).node = K.node
      BY <1>3, <2>1, FreedSound
    <2>3. QED
      BY <1>2, <1>4, <2>2

\* Settling a node, with its slot if it has one, keeps the ledger sound.
LEMMA SettleSound ==
    ASSUME NEW L, NEW line, NEW used, Sound(L, line, used), Admits(L), NEW t \in Node,
           L.node[t].status \in {"active", "revoked"}, Joined(L, t)
    PROVE  LET K == Settled(L, t) IN
           /\ Sound(K, line, used) /\ Admits(K) /\ InTurn(L.node, K.node, line)
           /\ SettledFrom(L, K, t)
  <1> DEFINE M == [L EXCEPT !.node[t].status = "settled"]
  <1>0. /\ L \in Ledger /\ Good(L) /\ Counted(L) /\ InLine(L.woken, L.waiters, line)
        /\ L.node \in [Node -> Grant] /\ L.budget \in [Node -> Budget]
        /\ BudgetInv(L.node, L.budget, used)
    BY SoundIs
  <1>1. /\ M \in Ledger
        /\ M.node = [L.node EXCEPT ![t] = [L.node[t] EXCEPT !.status = "settled"]]
        /\ M.budget = L.budget /\ M.cancelled = L.cancelled /\ M.active = L.active
        /\ M.waiters = L.waiters /\ M.woken = L.woken /\ M.permits = L.permits
    BY <1>0, SettledIs
  <1>2. Settled(L, t) = IF L.node[t].running THEN Notified(Idled(M, t)) ELSE M
    BY DEF Settled, SlotFreed, Idled
  <1> HIDE DEF M
  <1>3. /\ M.node[t].status = "settled" /\ M.node[t].parent = L.node[t].parent
        /\ M.node[t].above = L.node[t].above /\ M.node[t].depth = L.node[t].depth
        /\ M.node[t].ceiling = L.node[t].ceiling /\ M.node[t].expiresAt = L.node[t].expiresAt
        /\ M.node[t].running = L.node[t].running
        /\ \A u \in Node : u # t => M.node[u] = L.node[u]
    BY <1>0, <1>1 DEF Grant
  <1>4. CASE ~L.node[t].running
    <2>1. Good(M)
      <3>1. SettledFrom(L, M, t)
        BY <1>3, <1>4 DEF SettledFrom
      <3>2. QED
        BY <1>0, <1>1, <3>1, SettledGood
    <2>2. SamePay(L.node, M.node, L.budget, M.budget)
      BY <1>1, <1>3 DEF SamePay, Itself, Published
    <2>3. BudgetInv(M.node, M.budget, used)
      <3>1. M.budget \in [Node -> Budget]
        BY <1>0, <1>1
      <3>2. QED
        BY ONLY <1>0, <2>2, <3>1, SameBudget
    <2>4. \A u \in Node : M.node[u].running = L.node[u].running
      BY <1>3
    <2>5. Counted(M) /\ Admits(M)
      BY <1>0, <1>1, <2>4, SameCounted
    <2>6. InTurn(L.node, M.node, line)
      BY <2>4 DEF InTurn
    <2>7. InLine(M.woken, M.waiters, line)
      BY <1>0, <1>1
    <2>8. Sound(M, line, used)
      BY <2>1, <2>3, <2>5, <2>7 DEF Sound
    <2>9. SettledFrom(L, M, t)
      BY <1>3, <1>4 DEF SettledFrom
    <2>10. QED
      BY <1>2, <1>4, <2>5, <2>6, <2>8, <2>9
  <1>5. CASE L.node[t].running
    <2> DEFINE K == Idled(M, t)
    <2>1. M.active > 0
      <3>1. t \in Running(L.node)
        BY <1>5 DEF Running
      <3>2. Cardinality(Running(L.node)) # 0 /\ Cardinality(Running(L.node)) \in Nat
        BY <3>1, FiniteRunning, FS_EmptySet
      <3>3. QED
        BY <1>0, <1>1, <3>2 DEF Counted
    <2>2. /\ K \in Ledger
          /\ K.node = [M.node EXCEPT ![t] = [M.node[t] EXCEPT !.running = FALSE]]
          /\ K.budget = M.budget /\ K.cancelled = M.cancelled /\ K.active = M.active - 1
          /\ K.waiters = M.waiters /\ K.woken = M.woken /\ K.permits = M.permits
      BY <1>1, <2>1, IdledIs
    <2> HIDE DEF K
    <2>3. M.node \in [Node -> Grant]
      BY <1>1 DEF Ledger
    <2>4. /\ K.node[t].status = "settled" /\ K.node[t].parent = L.node[t].parent
          /\ K.node[t].above = L.node[t].above /\ K.node[t].depth = L.node[t].depth
          /\ K.node[t].ceiling = L.node[t].ceiling
          /\ K.node[t].expiresAt = L.node[t].expiresAt
          /\ ~K.node[t].running
          /\ \A u \in Node : u # t => K.node[u] = L.node[u]
      BY <1>3, <2>2, <2>3 DEF Grant
    <2>5. Good(K)
      <3>1. SettledFrom(L, K, t) /\ K.cancelled = L.cancelled
        BY <1>1, <2>2, <2>4 DEF SettledFrom
      <3>2. QED
        BY <1>0, <2>2, <3>1, SettledGood
    <2>6. SamePay(L.node, K.node, L.budget, K.budget)
      BY <1>1, <2>2, <2>4 DEF SamePay, Itself, Published
    <2>7. /\ Sound(Notified(K), line, used) /\ Admits(Notified(K))
          /\ InTurn(L.node, Notified(K).node, line) /\ Notified(K).node = K.node
      <3>1. Freed(L, K, t)
        BY <1>1, <1>5, <2>2, <2>4, <2>6 DEF Freed
      <3>2. QED
        BY <2>5, <3>1, FreedSound
    <2>8. SettledFrom(L, Notified(K), t)
      BY <2>4, <2>7 DEF SettledFrom
    <2>9. QED
      BY <1>2, <1>5, <2>7, <2>8 DEF K
  <1>6. QED
    BY <1>4, <1>5

\* A call that enters takes a slot, waits in the line, or fails.
LEMMA EnterSound ==
    ASSUME NEW L, NEW line, NEW used, Sound(L, line, used), Admits(L),
           NEW op \in {"start", "resume"}, NEW t \in Token, NEW at
    PROVE  LET K == Entered(L, op, t, at) IN
           /\ Sound(K, IF K.waiters = L.waiters THEN line ELSE Append(line, <<op, t>>), used)
           /\ Admits(K) /\ InTurn(L.node, K.node, line)
           /\ K.node = L.node \/ (Took(L.node, K.node, t) /\ K.waiters = L.waiters)
  <1> DEFINE K == Entered(L, op, t, at)
             c == [op |-> op, token |-> t, aborted |-> FALSE]
             Goal == /\ Sound(K, IF K.waiters = L.waiters THEN line
                                 ELSE Append(line, <<op, t>>), used)
                     /\ Admits(K) /\ InTurn(L.node, K.node, line)
                     /\ K.node = L.node \/ (Took(L.node, K.node, t) /\ K.waiters = L.waiters)
  <1>0. /\ InLine(L.woken, L.waiters, line)
        /\ L.woken \in Seq(Call) /\ L.waiters \in Seq(Call) /\ Counted(L)
        /\ L.active \in Nat /\ L.permits \in Nat /\ MaxConcurrentNodes \in Nat
    BY SoundIs
  <1>1. c \in Call /\ Key(c) = <<op, t>>
    BY DEF Call, Key
  <1>2. InTurn(L.node, L.node, line)
    BY DEF InTurn
  <1>3. CASE K = L
    BY <1>2, <1>3
  <1>4. CASE /\ K = Queued(L, c)
             /\ L.waiters # <<>> \/ L.permits # 0 \/ ~HasRoom(L)
    <2>1. /\ Sound(Queued(L, c), Append(line, Key(c)), used) /\ Admits(Queued(L, c))
          /\ Queued(L, c).node = L.node /\ Queued(L, c).waiters # L.waiters
      BY <1>1, <1>4, QueuedSound
    <2> HIDE DEF K, c
    <2>2. QED
      BY <1>1, <1>2, <1>4, <2>1 DEF K
  <1>5. CASE K = SlotTaken(L, op, t) /\ Unclaimed(L) /\ HasRoom(L) /\ Entitled(L, op, t, at)
    <2>1. L.active + L.permits < MaxConcurrentNodes
      BY <1>0, <1>5 DEF Unclaimed, HasRoom
    <2>2. line = <<>>
      <3>1. Len(L.waiters) = 0 /\ Len(L.woken) = 0
        BY <1>0, <1>5 DEF Unclaimed, Counted
      <3>2. line \in Seq(Calls) /\ Len(line) = 0
        BY <1>0, <3>1 DEF InLine
      <3>3. QED
        BY <3>2, EmptySeq
    <2>3. /\ Sound(SlotTaken(L, op, t), line, used) /\ Admits(SlotTaken(L, op, t))
          /\ SlotTaken(L, op, t).waiters = L.waiters
          /\ Took(L.node, SlotTaken(L, op, t).node, t)
      BY <1>5, <2>1, TakenSound
    <2>4. InTurn(L.node, K.node, line)
      BY <2>2 DEF InTurn
    <2> HIDE DEF K
    <2>5. QED
      BY <1>5, <2>3, <2>4 DEF K
  <1>6. \/ K = L
        \/ K = Queued(L, c) /\ (L.waiters # <<>> \/ L.permits # 0 \/ ~HasRoom(L))
        \/ K = SlotTaken(L, op, t) /\ Unclaimed(L) /\ HasRoom(L) /\ Entitled(L, op, t, at)
    BY DEF Entered, Unclaimed
  <1>7. QED
    BY <1>3, <1>4, <1>5, <1>6

\* The queues replaced, and nothing else.
Requeued(L, K) ==
    /\ K.node = L.node /\ K.budget = L.budget /\ K.cancelled = L.cancelled
    /\ K.active = L.active

\* Only the queues and the line move.
LEMMA RequeuedSound ==
    ASSUME NEW L, NEW line, NEW used, Sound(L, line, used), NEW K \in Ledger, Requeued(L, K),
           K.permits = Len(K.woken), NEW line2, InLine(K.woken, K.waiters, line2)
    PROVE  Sound(K, line2, used)
  BY DEF Sound, Good, Counted, Requeued

\* The call that was woken first goes on: it takes the slot it was promised,
\* or passes the promise on.
LEMMA ContinueSound ==
    ASSUME NEW L, NEW line, NEW used, Sound(L, line, used), Admits(L), L.woken # <<>>, NEW at
    PROVE  LET K == Continued(L, at) IN
           /\ Sound(K, Tail(line), used) /\ Admits(K) /\ InTurn(L.node, K.node, line)
           /\ K.waiters # Append(L.waiters, Head(L.woken))
           /\ K.node = L.node \/ Took(L.node, K.node, Head(L.woken).token)
  <1> DEFINE q == Head(L.woken)
             M == [L EXCEPT !.woken = Tail(L.woken), !.permits = L.permits - 1]
             K == Continued(L, at)
  <1>0. /\ L \in Ledger /\ Counted(L) /\ InLine(L.woken, L.waiters, line)
        /\ L.active \in Nat /\ L.permits \in Nat /\ MaxConcurrentNodes \in Nat
        /\ L.woken \in Seq(Call) /\ L.waiters \in Seq(Call)
    BY SoundIs
  <1>1. /\ Tail(L.woken) \in Seq(Call) /\ Len(Tail(L.woken)) = Len(L.woken) - 1
        /\ q \in Call /\ L.permits >= 1
    BY <1>0, HeadTailProperties, EmptySeq DEF Counted
  <1>2. /\ M \in Ledger /\ Requeued(L, M) /\ M.waiters = L.waiters
        /\ M.woken = Tail(L.woken) /\ M.permits = L.permits - 1
    <2> DEFINE w == Tail(L.woken)
               x == L.permits - 1
    <2>1. w \in Seq(Call) /\ x \in Nat
      BY <1>0, <1>1
    <2> HIDE DEF w, x
    <2>2. LET N == [L EXCEPT !.woken = w, !.permits = x] IN
          /\ N \in Ledger /\ Requeued(L, N) /\ N.waiters = L.waiters
          /\ N.woken = w /\ N.permits = x
      BY <1>0, <2>1 DEF Ledger, Requeued
    <2> USE DEF w, x
    <2>3. QED
      BY <2>2
  <1>3. Continued(L, at) =
           IF \/ q.aborted
              \/ at >= M.node[q.token].expiresAt
              \/ ~Entitled(M, q.op, q.token, at)
           THEN Notified(M)
           ELSE IF HasRoom(M) THEN SlotTaken(M, q.op, q.token)
           ELSE Queued(M, q)
    <2>1. L.node[q.token].expiresAt = M.node[q.token].expiresAt
      BY <1>2 DEF Requeued
    <2>2. QED
      BY <2>1 DEF Continued
  <1>4. InLine(Tail(L.woken), L.waiters, Tail(line)) /\ Head(line) = Key(q)
    BY <1>0, LineLeft
  <1> HIDE DEF M
  <1>5. Sound(M, Tail(line), used)
    <2>1. M.permits = Len(M.woken) /\ InLine(M.woken, M.waiters, Tail(line))
      BY <1>0, <1>1, <1>2, <1>4 DEF Counted
    <2>2. QED
      BY <1>2, <2>1, RequeuedSound
  <1>6. M.active + M.permits < MaxConcurrentNodes /\ HasRoom(M)
    BY <1>0, <1>1, <1>2 DEF Admits, Requeued, HasRoom
  <1>7. /\ Len(Append(L.waiters, q)) = Len(L.waiters) + 1 /\ Len(L.waiters) \in Nat
    BY <1>0, <1>1, AppendProperties, LenProperties
  <1>8. CASE K = Notified(M)
    <2>1. /\ Sound(K, Tail(line), used) /\ Admits(K)
          /\ K.node = M.node /\ Len(K.waiters) <= Len(M.waiters)
      BY <1>5, <1>6, <1>8, NotifiedSound
    <2> HIDE DEF K, q
    <2>2. InTurn(L.node, K.node, line)
      BY <1>2, <2>1 DEF InTurn, Requeued
    <2>3. K.waiters # Append(L.waiters, q)
      <3>1. SUFFICES ASSUME K.waiters = Append(L.waiters, q) PROVE FALSE
        OBVIOUS
      <3>2. Len(K.waiters) = Len(L.waiters) + 1 /\ Len(K.waiters) <= Len(L.waiters)
        BY <1>2, <1>7, <2>1, <3>1
      <3>3. QED
        BY <1>7, <3>2
    <2>4. K.node = L.node
      BY <1>2, <2>1 DEF Requeued
    <2>5. QED
      BY <2>1, <2>2, <2>3, <2>4 DEF K, q
  <1>9. CASE K = SlotTaken(M, q.op, q.token) /\ Entitled(M, q.op, q.token, at)
    <2>1. q.op \in {"start", "resume"} /\ q.token \in Token
      BY <1>1 DEF Call
    <2> DEFINE o == q.op
               t == q.token
    <2>2. o \in {"start", "resume"} /\ t \in Token /\ Entitled(M, o, t, at)
      BY <1>9, <2>1
    <2> HIDE DEF o, t
    <2>3. LET N == SlotTaken(M, o, t) IN
          /\ Sound(N, Tail(line), used) /\ Admits(N)
          /\ N.waiters = M.waiters
          /\ \A u \in Node : u # t => N.node[u] = M.node[u]
          /\ Took(M.node, N.node, t)
      BY ONLY <1>5, <1>6, <2>2, TakenSound
    <2>4. K = SlotTaken(M, o, t)
      BY <1>9 DEF o, t
    <2>5. Head(line)[2] = t
      BY <1>4 DEF Key, t
    <2> HIDE DEF K, q
    <2>6. InTurn(L.node, K.node, line)
      BY <1>2, <2>3, <2>4, <2>5 DEF InTurn, Requeued
    <2>7. K.waiters # Append(L.waiters, q)
      <3>1. SUFFICES ASSUME K.waiters = Append(L.waiters, q) PROVE FALSE
        OBVIOUS
      <3>2. Len(L.waiters) = Len(L.waiters) + 1
        BY <1>2, <1>7, <2>3, <2>4, <3>1
      <3>3. QED
        BY <1>7, <3>2
    <2>8. Took(L.node, K.node, q.token)
      BY <1>2, <2>3, <2>4 DEF Requeued, t
    <2>9. QED
      BY <2>3, <2>4, <2>6, <2>7, <2>8 DEF K, q
  <1>10. QED
    BY <1>3, <1>6, <1>8, <1>9

\* A queued call that is aborted leaves the queue and the line alike.
LEMMA AbortSound ==
    ASSUME NEW L, NEW line, NEW used, Sound(L, line, used), Admits(L),
           NEW i \in 1 .. Len(L.waiters)
    PROVE  LET K == [L EXCEPT !.waiters = RemoveAt(@, i)] IN
           /\ Sound(K, RemoveAt(line, Len(L.woken) + i), used) /\ Admits(K)
           /\ InTurn(L.node, K.node, line)
  <1> DEFINE r == RemoveAt(L.waiters, i)
             K == [L EXCEPT !.waiters = r]
  <1>0. /\ L \in Ledger /\ Counted(L) /\ InLine(L.woken, L.waiters, line)
        /\ L.woken \in Seq(Call) /\ L.waiters \in Seq(Call)
    BY SoundIs
  <1>1. InLine(L.woken, r, RemoveAt(line, Len(L.woken) + i)) /\ r \in Seq(Call)
    BY <1>0, LineAborted
  <1>2. L.waiters # <<>>
    BY EmptySeq
  <1> HIDE DEF r
  <1>3. /\ K \in Ledger /\ Requeued(L, K)
        /\ K.waiters = r /\ K.woken = L.woken /\ K.permits = L.permits
    BY <1>0, <1>1 DEF Ledger, Requeued
  <1> HIDE DEF K
  <1>4. Sound(K, RemoveAt(line, Len(L.woken) + i), used)
    <2>1. /\ K.permits = Len(K.woken)
          /\ InLine(K.woken, K.waiters, RemoveAt(line, Len(L.woken) + i))
      BY <1>0, <1>1, <1>3 DEF Counted
    <2>2. QED
      BY <1>3, <2>1, RequeuedSound
  <1>5. Admits(K)
    BY <1>2, <1>3 DEF Admits, Requeued
  <1>6. InTurn(L.node, K.node, line)
    BY <1>3 DEF InTurn, Requeued
  <1>7. QED
    BY <1>4, <1>5, <1>6 DEF K, r

\* A woken call that is aborted keeps its place until its turn.
LEMMA AbortWokenSound ==
    ASSUME NEW L, NEW line, NEW used, Sound(L, line, used), Admits(L),
           NEW i \in 1 .. Len(L.woken)
    PROVE  LET K == [L EXCEPT !.woken[i].aborted = TRUE] IN
           Sound(K, line, used) /\ Admits(K) /\ InTurn(L.node, K.node, line)
  <1> DEFINE v == [L.woken EXCEPT ![i] = [L.woken[i] EXCEPT !.aborted = TRUE]]
             K == [L EXCEPT !.woken = v]
  <1>0. /\ L \in Ledger /\ Counted(L) /\ InLine(L.woken, L.waiters, line)
        /\ L.woken \in Seq(Call) /\ L.waiters \in Seq(Call)
    BY SoundIs
  <1>1. InLine(v, L.waiters, line) /\ v \in Seq(Call) /\ Len(v) = Len(L.woken)
    BY <1>0, LineMarked
  <1>2. [L EXCEPT !.woken[i].aborted = TRUE] = K
    OBVIOUS
  <1> HIDE DEF v
  <1>3. /\ K \in Ledger /\ Requeued(L, K)
        /\ K.waiters = L.waiters /\ K.woken = v /\ K.permits = L.permits
    BY <1>0, <1>1 DEF Ledger, Requeued
  <1> HIDE DEF K
  <1>4. Sound(K, line, used)
    <2>1. K.permits = Len(K.woken) /\ InLine(K.woken, K.waiters, line)
      BY <1>0, <1>1, <1>3 DEF Counted
    <2>2. QED
      BY <1>3, <2>1, RequeuedSound
  <1>5. Admits(K)
    BY <1>3 DEF Admits, Requeued
  <1>6. InTurn(L.node, K.node, line)
    BY <1>3 DEF InTurn, Requeued
  <1>7. QED
    BY <1>2, <1>4, <1>5, <1>6

-----------------------------------------------------------------------------
(* The invariant holds at first and in every step.                         *)

\* A new ledger is sound, and nobody is in line.
LEMMA NewLedgerSound ==
    /\ Sound(NewLedger(Lifetime), <<>>, 0) /\ Admits(NewLedger(Lifetime))
    /\ NewLedger(Lifetime).node[Root].status = "active"
    /\ \A t \in Token : NewLedger(Lifetime).node[t] = Unissued
  <1> DEFINE L == NewLedger(Lifetime)
             n == L.node
             b == L.budget
  <1>0. Root \in Node /\ Token \subseteq Node /\ IsFiniteSet(Node) /\ None \notin Node /\ Root \notin Token
    BY RootIsNode, LedgerAssumption DEF Node
  <1>1. /\ n = [t \in Node |->
                   IF t = Root
                   THEN [Unissued EXCEPT !.status = "active", !.ceiling = MaxDepth,
                                         !.expiresAt = Lifetime]
                   ELSE Unissued]
        /\ b = [t \in Node |->
                   IF t = Root
                   THEN [nodes |-> MaxTaskNodes - 1, runs |-> MaxTotalModelRuns, slots |-> 0]
                   ELSE [nodes |-> 0, runs |-> 0, slots |-> 0]]
        /\ L.cancelled = FALSE /\ L.active = 0 /\ L.permits = 0
        /\ L.waiters = <<>> /\ L.woken = <<>>
        /\ L = [node |-> n, budget |-> b, cancelled |-> FALSE, active |-> 0,
                waiters |-> <<>>, woken |-> <<>>, permits |-> 0]
    BY DEF NewLedger
  <1> HIDE DEF L, n, b
  <1>3. /\ n[Root].status = "active" /\ n[Root].parent = None /\ n[Root].above = {}
        /\ ~n[Root].running /\ n[Root] \in Grant
    <2> DEFINE r == [Unissued EXCEPT !.status = "active", !.ceiling = MaxDepth,
                                     !.expiresAt = Lifetime]
    <2>1. /\ r.status = "active" /\ r.parent = None /\ r.above = {} /\ ~r.running
          /\ r \in Grant
      BY LedgerAssumption DEF Unissued, Grant, Status
    <2>2. n[Root] = r
      BY <1>0, <1>1
    <2>3. QED
      BY <2>1, <2>2
  <1>4. \A t \in Token : n[t] = Unissued
    BY <1>0, <1>1
  <1>5. Unissued \in Grant /\ Unissued.status = "unissued" /\ Unissued.parent = None
        /\ Unissued.above = {} /\ ~Unissued.running
    BY DEF Unissued, Grant, Status
  <1>6. /\ b[Root].nodes = MaxTaskNodes - 1 /\ b[Root].runs = MaxTotalModelRuns
        /\ b[Root].slots = 0
        /\ \A t \in Token : b[t] = [nodes |-> 0, runs |-> 0, slots |-> 0]
    BY <1>0, <1>1
  <1>7. \A t \in Token : b[t].nodes = 0 /\ b[t].runs = 0 /\ b[t].slots = 0
    BY <1>6
  <1>8. n \in [Node -> Grant]
    <2>1. \A t \in Node : n[t] \in Grant
      BY <1>3, <1>4, <1>5 DEF Node
    <2>2. n = [t \in Node |-> n[t]]
      BY <1>1
    <2>3. QED
      BY <2>1, <2>2
  <1>9. b \in [Node -> Budget]
    BY <1>1, LedgerAssumption DEF Budget
  <1>10. /\ L \in Ledger /\ L.node = n /\ L.budget = b
    <2>1. <<>> \in Seq(Call)
      BY EmptySeq
    <2>2. L \in Ledger
      BY <1>1, <1>8, <1>9, <2>1 DEF Ledger
    <2>3. QED
      BY <2>2 DEF n, b
  <1>11. Good(L)
    <2>1. \A u \in Node : /\ n[u].above = {} /\ ~n[u].running
                          /\ n[u].parent = None
      BY <1>3, <1>4, <1>5 DEF Node
    <2>2. TreeInv(n)
      BY <1>3, <1>4, <1>5, <2>1 DEF TreeInv, RootInv, Published
    <2>3. AuthorityInv(n, FALSE) /\ JoinInv(n)
      BY <2>1 DEF AuthorityInv, JoinInv
    <2>4. QED
      BY <1>1, <1>10, <2>2, <2>3 DEF Good
  <1>12. Counted(L) /\ Admits(L)
    <2>1. Running(n) = {}
      BY <1>3, <1>4, <1>5 DEF Running, Node
    <2>2. Cardinality(Running(n)) = 0
      BY <2>1, FS_EmptySet
    <2>3. QED
      BY <1>1, <1>10, <2>2, LedgerAssumption DEF Counted, Admits
  <1>13. InLine(L.woken, L.waiters, <<>>)
    BY <1>1, EmptySeq DEF InLine
  <1>14. BudgetInv(n, b, 0)
    <2>1. Total(NodesHeld(n, b), Node) = MaxTaskNodes
      <3> DEFINE f == NodesHeld(n, b)
      <3>1. f \in [Node -> Int]
        BY <1>9, HeldIs
      <3>2. \A u \in Node : f[u] = b[u].nodes + Itself(n[u])
        BY <1>9, HeldIs
      <3>3. \A u \in Node \ {Root} : f[u] = 0
        BY <1>4, <1>5, <1>7, <3>2 DEF Itself, Published, Node
      <3>4. f[Root] = MaxTaskNodes
        <4>1. Itself(n[Root]) = 1
          BY <1>3 DEF Itself, Published
        <4> HIDE DEF f
        <4>2. QED
          BY <1>0, <1>6, <3>2, <4>1, LedgerAssumption
      <3>5. IsFiniteSet(Node \ {Root})
        BY <1>0, FS_Subset
      <3> HIDE DEF f
      <3>6. Total(f, Node \ {Root}) = 0
        BY <3>3, <3>5, TotalZero
      <3>7. \A u \in Node : f[u] \in Int
        BY <3>1
      <3>8. Total(f, Node) = f[Root] + Total(f, Node \ {Root})
        BY ONLY <1>0, <3>7, TotalTakeOut
      <3>9. QED
        BY <3>4, <3>6, <3>8, LedgerAssumption DEF f
    <2>2. Total(RunsHeld(b), Node) = MaxTotalModelRuns
      <3> DEFINE f == RunsHeld(b)
      <3>1. f \in [Node -> Int] /\ \A u \in Node : f[u] = b[u].runs
        BY <1>9, RunsHeldIs
      <3>2. f[Root] = MaxTotalModelRuns /\ \A u \in Node \ {Root} : f[u] = 0
        BY <1>0, <1>6, <1>7, <3>1 DEF Node
      <3>3. IsFiniteSet(Node \ {Root})
        BY <1>0, FS_Subset
      <3> HIDE DEF f
      <3>4. Total(f, Node \ {Root}) = 0
        BY <3>2, <3>3, TotalZero
      <3>5. \A u \in Node : f[u] \in Int
        BY <3>1
      <3>6. Total(f, Node) = f[Root] + Total(f, Node \ {Root})
        BY ONLY <1>0, <3>5, TotalTakeOut
      <3>7. QED
        BY <3>2, <3>4, <3>6, LedgerAssumption DEF f
    <2>3. SlotsPaid(n, b)
      <3> SUFFICES ASSUME NEW t \in Node
                   PROVE  b[t].slots <= MaxChildrenPerNode /\ b[t].slots = Cardinality(Kept(n, t))
        BY DEF SlotsPaid
      <3>1. Kept(n, t) = {}
        BY <1>0, <1>4, <1>5 DEF Kept
      <3>2. Cardinality(Kept(n, t)) = 0
        BY <3>1, FS_EmptySet
      <3>3. b[t].slots = 0
        BY <1>6, <1>7 DEF Node
      <3>4. QED
        BY <3>2, <3>3, LedgerAssumption
    <2>4. QED
      BY <1>4, <1>5, <1>6, <2>1, <2>2, <2>3, LedgerAssumption DEF BudgetInv
  <1>15. Sound(L, <<>>, 0) /\ Admits(L)
    BY <1>10, <1>11, <1>12, <1>13, <1>14 DEF Sound
  <1>16. QED
    BY <1>3, <1>4, <1>10, <1>15 DEF L

\* So the invariant holds at first.
LEMMA InitIInv == LedgerInit => IInv
  BY NewLedgerSound DEF LedgerInit, IInv

\* One step: the invariant again, and no slot taken out of turn.
LEMMA NextIInv ==
    ASSUME IInv, [LedgerNext]_ledgerVars
    PROVE  IInv' /\ InTurn(ledger.node, ledger'.node, arrival)
  <1>0. /\ Sound(ledger, arrival, spent) /\ Admits(ledger)
        /\ clock \in Nat /\ spent \in Nat
    BY DEF IInv
  <1> DEFINE Step == /\ Sound(ledger', arrival', spent') /\ Admits(ledger')
                     /\ InTurn(ledger.node, ledger'.node, arrival)
                     /\ clock' \in Nat /\ spent' \in Nat
  <1>1. SUFFICES Step
    BY DEF IInv
  <1>2. ASSUME NEW p \in Node, NEW S \in SUBSET Token, NEW ask \in [S -> Allocations],
               Reserve(p, ask)
        PROVE  Step
    <2>1. CanReserve(ledger, p, ask, clock) /\ ledger' = Reserved(ledger, p, ask)
          /\ UNCHANGED <<clock, spent, arrival>>
      BY <1>2 DEF Reserve, Becomes
    <2>2. QED
      BY <1>0, <2>1, ReserveSound
  <1>3. ASSUME NEW t \in Token, Refund(t)
        PROVE  Step
    <2>1. CanRefund(ledger, t, clock) /\ ledger' = Refunded(ledger, t)
          /\ UNCHANGED <<clock, spent, arrival>>
      BY <1>3 DEF Refund, Becomes
    <2>2. QED
      BY <1>0, <2>1, RefundSound
  <1>4. ASSUME NEW t \in Token, Suspend(t)
        PROVE  Step
    <2>1. ledger.node[t].running /\ ledger' = SlotFreed(ledger, t)
          /\ UNCHANGED <<clock, spent, arrival>> /\ t \in Node
      BY <1>4, RootIsNode DEF Suspend, Becomes
    <2>2. QED
      BY <1>0, <2>1, SuspendSound
  <1>5. ASSUME NEW t \in Token, NEW op \in {"start", "resume"}, TakeNow(op, t)
        PROVE  Step
    <2> DEFINE K == SlotTaken(ledger, op, t)
    <2>1. /\ Entitled(ledger, op, t, clock) /\ HasRoom(ledger) /\ Unclaimed(ledger)
          /\ ledger' = K /\ UNCHANGED <<clock, spent, arrival>>
      BY <1>5 DEF TakeNow, Becomes
    <2>2. /\ InLine(ledger.woken, ledger.waiters, arrival) /\ Counted(ledger)
          /\ ledger.active \in Nat
      BY <1>0, SoundIs
    <2>3. ledger.active + ledger.permits < MaxConcurrentNodes
      BY <2>1, <2>2 DEF Unclaimed, HasRoom
    <2>4. arrival = <<>>
      <3>1. Len(ledger.waiters) = 0 /\ Len(ledger.woken) = 0
        BY <2>1, <2>2 DEF Unclaimed, Counted
      <3>2. arrival \in Seq(Calls) /\ Len(arrival) = 0
        BY <2>2, <3>1 DEF InLine
      <3>3. QED
        BY <3>2, EmptySeq
    <2>5. Sound(K, arrival, spent) /\ Admits(K)
      BY <1>0, <2>1, <2>3, TakenSound
    <2>6. InTurn(ledger.node, ledger'.node, arrival)
      BY <2>4 DEF InTurn
    <2> HIDE DEF K
    <2>7. QED
      BY <1>0, <2>1, <2>5, <2>6
  <1>6. ASSUME NEW t \in Token, NEW op \in {"start", "resume"}, Wait(op, t)
        PROVE  Step
    <2> DEFINE K == Entered(ledger, op, t, clock)
    <2>1. /\ ledger' = K /\ UNCHANGED <<clock, spent>>
          /\ arrival' = IF K.waiters = ledger.waiters THEN arrival ELSE Append(arrival, <<op, t>>)
      BY <1>6 DEF Wait, Becomes
    <2>2. /\ Sound(K, IF K.waiters = ledger.waiters THEN arrival
                      ELSE Append(arrival, <<op, t>>), spent)
          /\ Admits(K) /\ InTurn(ledger.node, K.node, arrival)
      BY <1>0, EnterSound
    <2> HIDE DEF K
    <2>3. Sound(K, arrival', spent)
      BY <2>1, <2>2
    <2>4. QED
      BY <1>0, <2>1, <2>2, <2>3
  <1>7. ASSUME NEW t \in Node, Settle(t)
        PROVE  Step
    <2>1. /\ ledger.node[t].status \in {"active", "revoked"} /\ Joined(ledger, t)
          /\ ledger' = Settled(ledger, t) /\ UNCHANGED <<clock, spent, arrival>>
      BY <1>7 DEF Settle, Becomes
    <2>2. QED
      BY <1>0, <2>1, SettleSound
  <1>8. ASSUME NEW t \in Node, Revoke(t)
        PROVE  Step
    <2>1. /\ ledger' = Withdrawn(ledger, Forest(ledger, t))
          /\ UNCHANGED <<clock, spent, arrival>>
      BY <1>8 DEF Revoke, Becomes
    <2>2. QED
      BY <1>0, <2>1, RevokeSound
  <1>9. ASSUME NEW t \in Node, NEW count \in 1 .. MaxTotalModelRuns, ConsumeModelRuns(t, count)
        PROVE  Step
    <2>1. /\ ledger.node[t].status = "active" /\ count <= ledger.budget[t].runs
          /\ ledger' = Charged(ledger, t, count) /\ spent' = spent + count
          /\ UNCHANGED <<clock, arrival>> /\ count \in Nat
      BY <1>9, LedgerAssumption DEF ConsumeModelRuns, Authorized
    <2>2. QED
      BY <1>0, <2>1, ChargeSound
  <1>10. ASSUME NEW i \in 1 .. MaxCalls, Abort(i)
         PROVE  Step
    <2>1. /\ i \in 1 .. Len(ledger.waiters)
          /\ ledger' = [ledger EXCEPT !.waiters = RemoveAt(@, i)]
          /\ arrival' = RemoveAt(arrival, Len(ledger.woken) + i)
          /\ UNCHANGED <<clock, spent>>
      BY <1>10 DEF Abort, Becomes
    <2>2. QED
      BY <1>0, <2>1, AbortSound
  <1>11. ASSUME NEW i \in 1 .. MaxCalls, AbortWoken(i)
         PROVE  Step
    <2>1. /\ i \in 1 .. Len(ledger.woken)
          /\ ledger' = [ledger EXCEPT !.woken[i].aborted = TRUE]
          /\ UNCHANGED <<clock, spent, arrival>>
      BY <1>11 DEF AbortWoken, Becomes
    <2>2. QED
      BY <1>0, <2>1, AbortWokenSound
  <1>12. CASE ContinueCall
    <2> DEFINE K == Continued(ledger, clock)
    <2>1. /\ ledger.woken # <<>> /\ ledger' = K /\ UNCHANGED <<clock, spent>>
          /\ arrival' = IF K.waiters # <<>> /\ K.waiters = Append(ledger.waiters, Head(ledger.woken))
                        THEN arrival ELSE Tail(arrival)
      BY <1>12 DEF ContinueCall, Becomes
    <2>2. /\ Sound(K, Tail(arrival), spent) /\ Admits(K)
          /\ InTurn(ledger.node, K.node, arrival)
          /\ K.waiters # Append(ledger.waiters, Head(ledger.woken))
      BY <1>0, <2>1, ContinueSound
    <2> HIDE DEF K
    <2>3. QED
      BY <1>0, <2>1, <2>2
  <1>13. CASE CancelTask
    <2>1. /\ ledger' = Cancelled(ledger) /\ UNCHANGED <<clock, spent>>
          /\ arrival' = SubSeq(arrival, 1, Len(ledger.woken))
      BY <1>13 DEF CancelTask, Becomes
    <2>2. QED
      BY <1>0, <2>1, CancelSound
  <1>14. CASE LedgerTick
    BY <1>0, <1>14 DEF LedgerTick, InTurn
  <1>15. CASE UNCHANGED ledgerVars
    BY <1>0, <1>15 DEF ledgerVars, InTurn
  <1> HIDE DEF Step
  <1>16. QED
    BY <1>1, <1>2, <1>3, <1>4, <1>5, <1>6, <1>7, <1>8, <1>9, <1>10, <1>11, <1>12, <1>13,
       <1>14, <1>15 DEF LedgerNext

\* What one step from L to K may do to the slots and to the queue.
PassesOn(L, K) ==
    /\ K.active + K.permits < L.active + L.permits => K.waiters = <<>>
    /\ Len(K.waiters) > Len(L.waiters) =>
          L.waiters # <<>> \/ L.permits > 0 \/ L.active = MaxConcurrentNodes

\* The slots in use and promised, and the queue, as they were.
SameSlots(L, K) == K.active = L.active /\ K.permits = L.permits /\ K.waiters = L.waiters

\* What touches neither passes on what there is.
LEMMA SamePassesOn ==
    ASSUME NEW L \in Ledger, NEW K, SameSlots(L, K)
    PROVE  PassesOn(L, K)
  <1>1. L.active + L.permits \in Nat /\ Len(L.waiters) \in Nat
    BY LenProperties DEF Ledger
  <1>2. QED
    BY <1>1 DEF PassesOn, SameSlots

\* One slot or promise less, and the queue notified in the same step.
LEMMA NotifiedPassesOn ==
    ASSUME NEW L \in Ledger, NEW M \in Ledger, M.waiters = L.waiters,
           M.active + M.permits + 1 >= L.active + L.permits
    PROVE  PassesOn(L, Notified(M))
  <1> DEFINE K == Notified(M)
  <1> SUFFICES PassesOn(L, K)
    OBVIOUS
  <1>1. /\ L.active \in Nat /\ L.permits \in Nat /\ M.active \in Nat /\ M.permits \in Nat
        /\ L.waiters \in Seq(Call) /\ Len(L.waiters) \in Nat
    BY LenProperties DEF Ledger
  <1>2. /\ K.active = M.active
        /\ M.waiters = <<>> => K = M
        /\ M.waiters # <<>> => K.waiters = Tail(M.waiters) /\ K.permits = M.permits + 1
    BY NotifiedIs
  <1> HIDE DEF K
  <1>3. CASE L.waiters = <<>>
    BY <1>1, <1>2, <1>3 DEF PassesOn
  <1>4. CASE L.waiters # <<>>
    <2>1. Len(K.waiters) = Len(L.waiters) - 1
      <3>1. Len(Tail(L.waiters)) = Len(L.waiters) - 1
        BY <1>1, <1>4, HeadTailProperties
      <3>2. QED
        BY <1>2, <1>4, <3>1
    <2>2. K.active + K.permits >= L.active + L.permits
      BY <1>1, <1>2, <1>4
    <2>3. QED
      BY <1>1, <1>2, <2>1, <2>2 DEF PassesOn
  <1>5. QED
    BY <1>3, <1>4

\* A grant that suspends or settles gives its slot to the queue.
LEMMA FreedPassesOn ==
    ASSUME NEW L \in Ledger, NEW M \in Ledger, SameSlots(L, M), NEW t \in Node, L.active > 0
    PROVE  PassesOn(L, SlotFreed(M, t))
  <1> DEFINE W == Idled(M, t)
  <1>1. /\ W \in Ledger /\ W.active = M.active - 1
        /\ W.waiters = M.waiters /\ W.permits = M.permits
    BY IdledIs DEF SameSlots
  <1>2. SlotFreed(M, t) = Notified(W)
    BY DEF SlotFreed, Idled
  <1>3. L.active \in Nat /\ L.permits \in Nat
    BY DEF Ledger
  <1> HIDE DEF W
  <1>4. W.waiters = L.waiters /\ W.active + W.permits + 1 >= L.active + L.permits
    BY <1>1, <1>3 DEF SameSlots
  <1>5. QED
    BY <1>1, <1>2, <1>4, NotifiedPassesOn

\* A slot taken leaves the queue alone.
LEMMA TakenPassesOn ==
    ASSUME NEW L \in Ledger, NEW M \in Ledger, M.waiters = L.waiters,
           M.active + M.permits + 1 >= L.active + L.permits, NEW op, NEW t
    PROVE  PassesOn(L, SlotTaken(M, op, t))
  <1> DEFINE K == SlotTaken(M, op, t)
  <1> SUFFICES PassesOn(L, K)
    OBVIOUS
  <1>1. K.active = M.active + 1 /\ K.permits = M.permits /\ K.waiters = M.waiters
    BY DEF SlotTaken, Ledger
  <1>2. /\ L.active \in Nat /\ L.permits \in Nat /\ M.active \in Nat /\ M.permits \in Nat
        /\ Len(L.waiters) \in Nat
    BY LenProperties DEF Ledger
  <1> HIDE DEF K
  <1>3. QED
    BY <1>1, <1>2 DEF PassesOn

\* A call that enters waits only where it has to.
LEMMA EnteredPassesOn ==
    ASSUME NEW L \in Ledger, L.active + L.permits <= MaxConcurrentNodes,
           NEW op \in {"start", "resume"}, NEW t \in Token, NEW at
    PROVE  PassesOn(L, Entered(L, op, t, at))
  <1> DEFINE c == [op |-> op, token |-> t, aborted |-> FALSE]
             Q == Queued(L, c)
  <1>1. /\ L.active \in Nat /\ L.permits \in Nat /\ MaxConcurrentNodes \in Nat
        /\ c \in Call
    BY LedgerAssumption DEF Ledger, Call
  <1>2. CASE Entered(L, op, t, at) = Q /\ (~Unclaimed(L) \/ ~HasRoom(L))
    <2>1. Q.active = L.active /\ Q.permits = L.permits
      BY <1>1, QueuedIs
    <2>2. L.waiters # <<>> \/ L.permits > 0 \/ L.active = MaxConcurrentNodes
      BY <1>1, <1>2 DEF Unclaimed, HasRoom
    <2> HIDE DEF Q
    <2>3. PassesOn(L, Q)
      BY <1>1, <2>1, <2>2 DEF PassesOn
    <2>4. QED
      BY <1>2, <2>3
  <1>3. CASE Entered(L, op, t, at) = L
    BY <1>3, SamePassesOn DEF SameSlots
  <1>4. CASE Entered(L, op, t, at) = SlotTaken(L, op, t)
    BY <1>1, <1>4, TakenPassesOn
  <1>5. QED
    BY <1>2, <1>3, <1>4 DEF Entered

\* A woken call that goes on takes what it was promised, or passes it on; it
\* finds room, because the promise was counted.
LEMMA ContinuedPassesOn ==
    ASSUME NEW L \in Ledger, Counted(L), L.active + L.permits <= MaxConcurrentNodes,
           L.woken # <<>>, NEW at
    PROVE  PassesOn(L, Continued(L, at))
  <1> DEFINE q == Head(L.woken)
             w == Tail(L.woken)
             x == L.permits - 1
             M == [L EXCEPT !.woken = w, !.permits = x]
  <1>1. /\ L.active \in Nat /\ L.permits \in Nat /\ MaxConcurrentNodes \in Nat
        /\ w \in Seq(Call) /\ L.permits >= 1
    BY LedgerAssumption, HeadTailProperties, EmptySeq DEF Ledger, Counted
  <1>2. /\ M \in Ledger /\ M.waiters = L.waiters /\ M.active = L.active
        /\ M.permits = L.permits - 1
    <2>1. x \in Nat
      BY <1>1
    <2> HIDE DEF w, x
    <2>2. M \in Ledger /\ M.waiters = L.waiters /\ M.active = L.active /\ M.permits = x
      BY <1>1, <2>1 DEF Ledger
    <2>3. QED
      BY <2>2 DEF x
  <1>3. \/ Continued(L, at) = Notified(M)
        \/ Continued(L, at) = SlotTaken(M, q.op, q.token)
        \/ Continued(L, at) = Queued(M, q) /\ ~HasRoom(M)
    BY DEF Continued
  <1> HIDE DEF M
  <1>4. HasRoom(M) /\ M.active + M.permits + 1 >= L.active + L.permits
    BY <1>1, <1>2 DEF HasRoom
  <1>5. QED
    BY <1>2, <1>3, <1>4, NotifiedPassesOn, TakenPassesOn

\* One step of the ledger: what is given up is passed on, and nobody queues
\* without need.
LEMMA NextPassesOn ==
    ASSUME IInv, [LedgerNext]_ledgerVars
    PROVE  PassesOn(ledger, ledger')
  <1>0. /\ ledger \in Ledger /\ Counted(ledger) /\ Admits(ledger)
        /\ TreeInv(ledger.node)
        /\ ledger.active + ledger.permits <= MaxConcurrentNodes
    BY SoundIs DEF IInv, Admits, Good
  <1> DEFINE Step == PassesOn(ledger, ledger')
  <1>1. SUFFICES Step
    OBVIOUS
  <1>2. ASSUME NEW t \in Node, ledger.node[t].running
        PROVE  ledger.active > 0
    <2>1. t \in Running(ledger.node)
      BY <1>2 DEF Running
    <2>2. Cardinality(Running(ledger.node)) # 0 /\ Cardinality(Running(ledger.node)) \in Nat
      BY <1>0, <2>1, FiniteRunning, FS_EmptySet
    <2>3. QED
      BY <1>0, <2>2 DEF Counted
  <1>3. ASSUME NEW p \in Node, NEW S \in SUBSET Token, NEW ask \in [S -> Allocations],
               Reserve(p, ask)
        PROVE  Step
    <2>1. SameSlots(ledger, ledger')
      BY <1>0, <1>3 DEF Reserve, Becomes, Reserved, SameSlots, Ledger
    <2>2. QED
      BY <1>0, <2>1, SamePassesOn
  <1>4. ASSUME NEW t \in Token, Refund(t)
        PROVE  Step
    <2>1. SameSlots(ledger, ledger')
      BY <1>0, <1>4 DEF Refund, Becomes, Refunded, SameSlots, Ledger
    <2>2. QED
      BY <1>0, <2>1, SamePassesOn
  <1>5. ASSUME NEW t \in Token, Suspend(t)
        PROVE  Step
    <2>1. ledger.node[t].running /\ ledger' = SlotFreed(ledger, t) /\ t \in Node
      BY <1>5, RootIsNode DEF Suspend, Becomes
    <2>2. QED
      BY <1>0, <1>2, <2>1, FreedPassesOn DEF SameSlots
  <1>6. ASSUME NEW t \in Token, NEW op \in {"start", "resume"}, TakeNow(op, t)
        PROVE  Step
    <2>1. ledger' = SlotTaken(ledger, op, t)
      BY <1>6 DEF TakeNow, Becomes
    <2>2. ledger.active + ledger.permits + 1 >= ledger.active + ledger.permits
      BY <1>0 DEF Ledger
    <2>3. QED
      BY <1>0, <2>1, <2>2, TakenPassesOn
  <1>7. ASSUME NEW t \in Token, NEW op \in {"start", "resume"}, Wait(op, t)
        PROVE  Step
    <2>1. ledger' = Entered(ledger, op, t, clock)
      BY <1>7 DEF Wait, Becomes
    <2>2. QED
      BY <1>0, <2>1, EnteredPassesOn
  <1>8. ASSUME NEW t \in Node, Settle(t)
        PROVE  Step
    <2> DEFINE M == [ledger EXCEPT !.node[t].status = "settled"]
    <2>1. /\ M \in Ledger /\ SameSlots(ledger, M)
      BY <1>0, SettledIs DEF SameSlots
    <2>2. ledger' = IF ledger.node[t].running THEN SlotFreed(M, t) ELSE M
      BY <1>8 DEF Settle, Becomes, Settled
    <2> HIDE DEF M
    <2>3. QED
      BY <1>0, <1>2, <2>1, <2>2, FreedPassesOn, SamePassesOn
  <1>9. ASSUME NEW t \in Node, Revoke(t)
        PROVE  Step
    <2>1. SameSlots(ledger, ledger')
      BY <1>0, <1>9, WithdrawnIs DEF Revoke, Becomes, SameSlots
    <2>2. QED
      BY <1>0, <2>1, SamePassesOn
  <1>10. ASSUME NEW t \in Node, NEW count \in 1 .. MaxTotalModelRuns, ConsumeModelRuns(t, count)
         PROVE  Step
    <2>1. SameSlots(ledger, ledger')
      BY <1>0, <1>10 DEF ConsumeModelRuns, Charged, SameSlots, Ledger
    <2>2. QED
      BY <1>0, <2>1, SamePassesOn
  <1>11. ASSUME NEW i \in 1 .. MaxCalls, Abort(i)
         PROVE  Step
    <2> DEFINE r == RemoveAt(ledger.waiters, i)
    <2>1. /\ i \in 1 .. Len(ledger.waiters)
          /\ ledger' = [ledger EXCEPT !.waiters = r]
      BY <1>11 DEF Abort, Becomes
    <2>2. /\ ledger.waiters \in Seq(Call) /\ Len(ledger.waiters) \in Nat
          /\ ledger.active \in Nat /\ ledger.permits \in Nat
      BY <1>0, LenProperties DEF Ledger
    <2>3. Len(r) = Len(ledger.waiters) - 1
      BY <2>1, <2>2, RemovedIs
    <2> HIDE DEF r
    <2>4. /\ ledger'.waiters = r /\ ledger'.active = ledger.active
          /\ ledger'.permits = ledger.permits
      BY <1>0, <2>1 DEF Ledger
    <2>5. QED
      BY <2>2, <2>3, <2>4 DEF PassesOn
  <1>12. ASSUME NEW i \in 1 .. MaxCalls, AbortWoken(i)
         PROVE  Step
    <2>1. SameSlots(ledger, ledger')
      BY <1>0, <1>12 DEF AbortWoken, Becomes, SameSlots, Ledger
    <2>2. QED
      BY <1>0, <2>1, SamePassesOn
  <1>13. CASE ContinueCall
    <2>1. ledger.woken # <<>> /\ ledger' = Continued(ledger, clock)
      BY <1>13 DEF ContinueCall, Becomes
    <2>2. QED
      BY <1>0, <2>1, ContinuedPassesOn
  <1>14. CASE CancelTask
    <2>1. /\ ledger'.waiters = <<>> /\ ledger'.active = ledger.active
          /\ ledger'.permits = ledger.permits
      BY <1>0, <1>14, CancelledIs DEF CancelTask, Becomes
    <2>2. Len(ledger.waiters) \in Nat /\ Len(<<>>) = 0
      BY <1>0, LenProperties, EmptySeq DEF Ledger
    <2>3. QED
      BY <2>1, <2>2 DEF PassesOn
  <1>15. CASE LedgerTick \/ UNCHANGED ledgerVars
    <2>1. SameSlots(ledger, ledger')
      BY <1>15 DEF LedgerTick, ledgerVars, SameSlots
    <2>2. QED
      BY <1>0, <2>1, SamePassesOn
  <1> HIDE DEF Step
  <1>16. QED
    BY <1>1, <1>3, <1>4, <1>5, <1>6, <1>7, <1>8, <1>9, <1>10, <1>11, <1>12, <1>13, <1>14,
       <1>15 DEF LedgerNext

-----------------------------------------------------------------------------
(* The theorems.                                                           *)

\* What a sound ledger promises, whoever calls its methods.
LEMMA SoundPromises ==
    ASSUME NEW line, NEW used, Sound(ledger, line, used), Admits(ledger)
    PROVE  NobodyWaitsForNobody /\ AuthorityFlowsDown /\ SettledTreesAreJoined
  <1>1. /\ TreeInv(ledger.node) /\ AuthorityInv(ledger.node, ledger.cancelled)
        /\ JoinInv(ledger.node) /\ \A u \in Token : u \in Node
    BY RootIsNode DEF Sound, Good
  <1>2. NobodyWaitsForNobody
    BY DEF Sound, Counted, Admits, NobodyWaitsForNobody, SlotsCounted, Running, Runner
  <1>3. AuthorityFlowsDown
    <2> SUFFICES ASSUME NEW u \in Token
                 PROVE  /\ ledger.node[u].status \in {"active", "reserved"} =>
                              /\ ~ledger.cancelled
                              /\ \A v \in ledger.node[u].above : ledger.node[v].status = "active"
                        /\ ledger.node[u].status # "unissued" =>
                              /\ ledger.node[u].depth <= ledger.node[u].ceiling
                              /\ ledger.node[u].ceiling <= ledger.node[ledger.node[u].parent].ceiling
                              /\ ledger.node[u].expiresAt <= ledger.node[ledger.node[u].parent].expiresAt
      BY DEF AuthorityFlowsDown
    <2>1. QED
      BY <1>1 DEF TreeInv, Hangs, AuthorityInv
  <1>4. SettledTreesAreJoined
    <2>1. \A t \in Node : ledger.node[t].status \in Over => ~ledger.node[t].running
      BY <1>1 DEF TreeInv, Over
    <2>2. QED
      BY <1>1, <2>1 DEF SettledTreesAreJoined, JoinInv, Over
  <1>5. QED
    BY <1>2, <1>3, <1>4

\* IInv holds in every state of every behaviour of the ledger, however the
\* calls of OrchestrationGrantLedger, its wake-ups and its timers interleave.
THEOREM Invariance == LedgerSpec => []IInv
  <1>1. IInv /\ [LedgerNext]_ledgerVars => IInv'
    BY NextIInv
  <1>2. QED
    BY InitIInv, <1>1, PTL DEF LedgerSpec

\* Every field of the ledger keeps its type: in particular no budget and no
\* counter goes below zero, whatever the methods take off it.
THEOREM LedgerTypes == LedgerSpec => []LedgerTypeOK
  <1>1. IInv => LedgerTypeOK
    <2> SUFFICES ASSUME IInv PROVE LedgerTypeOK
      OBVIOUS
    <2>1. ledger \in Ledger /\ clock \in Nat /\ spent \in Nat
      BY SoundIs DEF IInv
    <2>2. Call \subseteq Request
      BY RootIsNode DEF Call, Request
    <2>3. ledger.waiters \in Seq(Call) /\ ledger.woken \in Seq(Call)
      BY <2>1 DEF Ledger
    <2>4. ledger.waiters \in Seq(Request) /\ ledger.woken \in Seq(Request)
      BY <2>2, <2>3, SeqMonotonic
    <2>5. QED
      BY <2>1, <2>4 DEF Ledger, LedgerTypeOK
  <1>2. QED
    BY Invariance, <1>1, PTL

\* activeNodes and admissionPermits count exactly the grants that hold a slot
\* and the calls a slot is promised to, together within the limit; and while
\* a call waits, a slot is in use or promised, so that there is somebody it
\* waits for (#notifyAdmission).  It may wait beside a free slot all the same.
THEOREM WaitersHaveSomebody == LedgerSpec => []NobodyWaitsForNobody
  <1>1. IInv => NobodyWaitsForNobody
    BY SoundPromises DEF IInv
  <1>2. QED
    BY Invariance, <1>1, PTL

\* A slot given up, or a promise let go, while a call waits is promised on in
\* the same step; and a call is queued only behind another, behind a promise,
\* or when every slot is in use (suspend, settle and #waitForAdmission with
\* their calls of #notifyAdmission).
THEOREM WaitersAreWoken == LedgerSpec => SlotsPassOn
  <1>1. IInv /\ [LedgerNext]_ledgerVars =>
           [/\ ledger'.active + ledger'.permits < ledger.active + ledger.permits =>
                  ledger'.waiters = <<>>
            /\ Len(ledger'.waiters) > Len(ledger.waiters) =>
                  \/ ledger.waiters # <<>> \/ ledger.permits > 0
                  \/ ledger.active = MaxConcurrentNodes]_ledgerVars
    BY NextPassesOn DEF PassesOn
  <1>2. QED
    BY Invariance, <1>1, PTL DEF LedgerSpec, SlotsPassOn

\* A grant or reservation is live only while every grant above it is active
\* and the task is not cancelled, and never has more depth or time than the
\* grant above it (#activeGrant, #revokeForest, reserveChildren).
THEOREM AuthorityIsBounded == LedgerSpec => []AuthorityFlowsDown
  <1>1. IInv => AuthorityFlowsDown
    BY SoundPromises DEF IInv
  <1>2. QED
    BY Invariance, <1>1, PTL

\* A grant settles only over a tree that is over, and nothing below it holds
\* a slot or comes to life later (settle, reserveChildren, #start).
THEOREM SettledTreesStayJoined == LedgerSpec => []SettledTreesAreJoined
  <1>1. IInv => SettledTreesAreJoined
    BY SoundPromises DEF IInv
  <1>2. QED
    BY Invariance, <1>1, PTL

\* A slot is taken only by the call at the head of the line, and by a call
\* that never waited only when the line is empty (waitForStart, waitForResume
\* and their continuations against start and resume).
THEOREM SlotsAreTakenInTurn == LedgerSpec => NoOvertaking
  <1>1. IInv /\ [LedgerNext]_ledgerVars =>
           [\A t \in Node : ~ledger.node[t].running /\ ledger'.node[t].running =>
               arrival = <<>> \/ Head(arrival)[2] = t]_ledgerVars
    BY NextIInv DEF InTurn
  <1>2. QED
    BY Invariance, <1>1, PTL DEF LedgerSpec, NoOvertaking

\* The node credits and model runs all tokens hold, with what is spent and
\* published, are those of the root at every moment, and each grant has paid
\* one child slot for each child that was not refunded.
THEOREM CreditsAreConserved == LedgerSpec => []BudgetsConserved
  <1>1. IInv => BudgetsConserved
    <2> SUFFICES ASSUME IInv PROVE BudgetsConserved
      OBVIOUS
    <2> DEFINE b == ledger.budget
               n == ledger.node
               f == NodesHeld(n, b)
               h == RunsHeld(b)
               P(g) == g = [s \in SUBSET Node |->
                              IF s = {} THEN 0
                              ELSE (b[Pick(s)].nodes
                                      + (IF n[Pick(s)].status \in {"active", "revoked", "settled"}
                                         THEN 1 ELSE 0)) + g[s \ {Pick(s)}]]
               Q(g) == g = [s \in SUBSET Node |->
                              IF s = {} THEN 0 ELSE b[Pick(s)].runs + g[s \ {Pick(s)}]]
    <2>1. BudgetInv(n, b, spent) /\ IsFiniteSet(Node)
      BY RootIsNode DEF IInv, Sound
    <2>2. \A s \in SUBSET Node : s # {} => Pick(s) \in Node
      BY DEF Pick
    <2>3. (CHOOSE g : P(g))[Node] = MaxTaskNodes
      <3>1. \A s \in SUBSET Node : s # {} =>
               f[Pick(s)] = b[Pick(s)].nodes
                              + (IF n[Pick(s)].status \in {"active", "revoked", "settled"}
                                 THEN 1 ELSE 0)
        BY <2>2 DEF NodesHeld, Published
      <3>2. ASSUME NEW g PROVE P(g) <=> Sums(f, Node, g)
        BY <3>1 DEF Sums
      <3>3. Total(f, Node) = MaxTaskNodes
        BY <2>1 DEF BudgetInv
      <3> HIDE DEF P, f
      <3>4. \E g : P(g)
        BY <2>1, <3>2, SumsExist
      <3>5. P(CHOOSE g : P(g))
        BY <3>4
      <3>6. Total(f, Node) = (CHOOSE g : P(g))[Node]
        BY <2>1, <3>2, <3>5, SumsDecide
      <3>7. QED
        BY <3>3, <3>6
    <2>4. (CHOOSE g : Q(g))[Node] + spent = MaxTotalModelRuns
      <3>1. \A s \in SUBSET Node : s # {} => h[Pick(s)] = b[Pick(s)].runs
        BY <2>2 DEF RunsHeld
      <3>2. ASSUME NEW g PROVE Q(g) <=> Sums(h, Node, g)
        BY <3>1 DEF Sums
      <3>3. Total(h, Node) + spent = MaxTotalModelRuns
        BY <2>1 DEF BudgetInv
      <3> HIDE DEF Q, h
      <3>4. \E g : Q(g)
        BY <2>1, <3>2, SumsExist
      <3>5. Q(CHOOSE g : Q(g))
        BY <3>4
      <3>6. Total(h, Node) = (CHOOSE g : Q(g))[Node]
        BY <2>1, <3>2, <3>5, SumsDecide
      <3>7. QED
        BY <3>3, <3>6
    <2>5. ASSUME NEW t \in Node
          PROVE  /\ b[t].slots <= MaxChildrenPerNode
                 /\ b[t].slots = Cardinality({u \in Children(ledger, t) : n[u].status # "refunded"})
      <3>1. {u \in Children(ledger, t) : n[u].status # "refunded"} = Kept(n, t)
        BY DEF Children, Kept
      <3>2. QED
        BY <2>1, <3>1 DEF BudgetInv, SlotsPaid
    <2>6. QED
      BY <2>3, <2>4, <2>5 DEF BudgetsConserved, MapThenSumSet, MapThenFoldSet, Pick
  <1>2. QED
    BY Invariance, <1>1, PTL

(***************************************************************************)
(* The pipelines.                                                          *)
(***************************************************************************)


-----------------------------------------------------------------------------
(* Induction, and folds from the left.                                     *)

\* A set of numbers has a smallest one.
LEMMA SmallestNumber ==
    ASSUME NEW B \in SUBSET Nat, B # {}
    PROVE  \E m \in B : \A k \in B : m <= k
  <1>1. PICK b \in B : TRUE
    OBVIOUS
  <1> DEFINE C == {0 .. k : k \in {j \in B : j <= b}}
  <1>2. C \in SUBSET (SUBSET (0 .. b)) /\ C # {}
    <2>1. (0 .. b) \in C
      BY <1>1
    <2>2. \A s \in C : s \subseteq 0 .. b
      BY <1>1
    <2>3. QED
      BY <2>1, <2>2
  <1>3. IsFiniteSet(0 .. b)
    BY <1>1, FS_Interval
  <1> DEFINE S == 0 .. b
  <1>0. IsFiniteSet(S) /\ C \in SUBSET (SUBSET S) /\ C # {}
    BY <1>2, <1>3
  <1> HIDE DEF C, S
  <1>4. PICK c \in C : \A d \in C : d \subseteq c => d = c
    BY ONLY <1>0, SmallestSubset
  <1> USE DEF C
  <1>5. PICK m \in B : m <= b /\ c = 0 .. m
    BY <1>4
  <1>6. ASSUME NEW k \in B
        PROVE  m <= k
    <2>1. SUFFICES ASSUME k < m PROVE FALSE
      BY <1>5
    <2>2. (0 .. k) \in C /\ (0 .. k) \subseteq c
      BY <1>1, <1>5, <2>1
    <2>3. 0 .. k = 0 .. m
      BY <1>4, <1>5, <2>2
    <2>4. m \in 0 .. m /\ m \notin 0 .. k
      BY <2>1
    <2>5. QED
      BY <2>3, <2>4
  <1>7. QED
    BY <1>5, <1>6

\* A nonempty set of positions has a last one.
LEMMA LastOf ==
    ASSUME NEW k \in Nat, NEW s \in SUBSET (1 .. k), s # {}
    PROVE  Max(s) \in s /\ \A y \in s : Max(s) >= y
  <1> DEFINE B == {j \in Nat : \A y \in s : y <= j}
  <1>1. k \in B
    OBVIOUS
  <1>2. B \in SUBSET Nat /\ B # {}
    BY <1>1
  <1> HIDE DEF B
  <1>3. PICK m \in B : \A j \in B : m <= j
    BY <1>2, SmallestNumber
  <1> USE DEF B
  <1>4. m \in s
    <2>1. SUFFICES ASSUME m \notin s PROVE FALSE
      OBVIOUS
    <2>2. PICK y \in s : TRUE
      OBVIOUS
    <2>3. m >= 1 /\ m - 1 \in Nat
      BY <1>3, <2>2
    <2>4. \A z \in s : z <= m - 1
      BY <1>3, <2>1
    <2>5. m - 1 \in B
      BY <2>3, <2>4
    <2>6. QED
      BY <1>3, <2>5
  <1>5. \E x \in s : \A y \in s : x >= y
    BY <1>3, <1>4
  <1>6. QED
    BY <1>5 DEF Max

\* The last position of an initial segment.
LEMMA LastOfPrefix ==
    ASSUME NEW k \in Nat \ {0}
    PROVE  Max(1 .. k) = k /\ (1 .. k) \ {k} = 1 .. (k - 1)
  <1>1. k \in 1 .. k
    OBVIOUS
  <1>2. Max(1 .. k) \in 1 .. k /\ \A y \in 1 .. k : Max(1 .. k) >= y
    BY <1>1, LastOf
  <1>3. QED
    BY <1>1, <1>2

\* What a fold computes over the positions in S, when each step is in a table.
Steps(step, base, S, g) ==
    g = [s \in SUBSET S |-> IF s = {} THEN base
                            ELSE step[<<Max(s), g[s \ {Max(s)}]>>]]

\* Such a fold exists, and yields values of the table.
LEMMA StepsExist ==
    ASSUME NEW n \in Nat, NEW V, NEW base \in V, NEW step \in [(1 .. n) \X V -> V]
    PROVE  \E g \in [SUBSET (1 .. n) -> V] : Steps(step, base, 1 .. n, g)
  <1> DEFINE Exists(k) == \E g \in [SUBSET (1 .. k) -> V] : Steps(step, base, 1 .. k, g)
             B == {k \in 0 .. n : ~Exists(k)}
  <1>0. SUFFICES Exists(n)
    OBVIOUS
  <1> HIDE DEF Exists
  <1>1. SUFFICES ASSUME B # {} PROVE FALSE
    BY n \in 0 .. n
  <1>2. B \in SUBSET Nat
    OBVIOUS
  <1> HIDE DEF B
  <1>3. PICK m \in B : \A k \in B : m <= k
    BY <1>1, <1>2, SmallestNumber
  <1> USE DEF B
  <1>4. CASE m = 0
    <2> DEFINE g == [s \in SUBSET (1 .. 0) |-> base]
    <2>1. 1 .. 0 = {}
      OBVIOUS
    <2>2. g \in [SUBSET (1 .. 0) -> V] /\ \A s \in SUBSET (1 .. 0) : s = {} /\ g[s] = base
      BY <2>1
    <2>3. Steps(step, base, 1 .. 0, g)
      BY <2>2 DEF Steps
    <2>4. Exists(0)
      BY <2>2, <2>3 DEF Exists
    <2>5. QED
      BY <1>3, <1>4, <2>4
  <1>5. CASE m # 0
    <2>1. m \in 1 .. n /\ m - 1 \in 0 .. n
      BY <1>3, <1>5
    <2>0. Exists(m - 1)
      BY <1>3, <2>1
    <2>2. PICK g \in [SUBSET (1 .. (m - 1)) -> V] : Steps(step, base, 1 .. (m - 1), g)
      BY <2>0 DEF Exists
    <2> DEFINE h == [s \in SUBSET (1 .. m) |->
                        IF m \in s THEN step[<<m, g[s \ {m}]>>] ELSE g[s]]
    <2>3. \A s \in SUBSET (1 .. m) : s \ {m} \in SUBSET (1 .. (m - 1))
      BY <2>1
    <2>4. h \in [SUBSET (1 .. m) -> V]
      <3>1. ASSUME NEW s \in SUBSET (1 .. m)
            PROVE  h[s] \in V
        <4>1. CASE m \in s
          <5>1. <<m, g[s \ {m}]>> \in (1 .. n) \X V
            BY <2>1, <2>2, <2>3
          <5>2. QED
            BY <4>1, <5>1
        <4>2. CASE m \notin s
          <5>1. s \in SUBSET (1 .. (m - 1))
            BY <2>3, <4>2
          <5>2. QED
            BY <4>2, <5>1, <2>2
        <4>3. QED
          BY <4>1, <4>2
      <3>2. QED
        BY <3>1
    <2>5. ASSUME NEW s \in SUBSET (1 .. m)
          PROVE  h[s] = IF s = {} THEN base ELSE step[<<Max(s), h[s \ {Max(s)}]>>]
      <3>1. CASE s = {}
        <4>1. s \in SUBSET (1 .. (m - 1)) /\ m \notin s
          BY <3>1
        <4>2. g[s] = base
          BY <2>2, <3>1, <4>1 DEF Steps
        <4>3. QED
          BY <3>1, <4>1, <4>2
      <3>2. CASE s # {} /\ m \in s
        <4>1. m \in Nat
          BY <2>1
        <4>2. Max(s) \in s /\ Max(s) >= m
          BY <3>2, <4>1, LastOf
        <4>6. Max(s) \in 1 .. m
          BY <4>2
        <4>3. Max(s) = m
          BY <4>2, <4>6, <2>1
        <4>4. h[s \ {m}] = g[s \ {m}]
          BY <2>3
        <4>5. QED
          BY <3>2, <4>3, <4>4
      <3>3. CASE s # {} /\ m \notin s
        <4>1. s \in SUBSET (1 .. (m - 1))
          BY <2>3, <3>3
        <4>2. g[s] = step[<<Max(s), g[s \ {Max(s)}]>>]
          BY <2>2, <3>3, <4>1 DEF Steps
        <4>3. h[s] = g[s] /\ h[s \ {Max(s)}] = g[s \ {Max(s)}]
          BY <3>3
        <4>4. QED
          BY <3>3, <4>2, <4>3
      <3>4. QED
        BY <3>1, <3>2, <3>3
    <2> HIDE DEF h
    <2>6. h = [s \in SUBSET (1 .. m) |-> h[s]]
      BY <2>4
    <2>7. Steps(step, base, 1 .. m, h)
      BY <2>5, <2>6 DEF Steps
    <2>8. Exists(m)
      BY <2>4, <2>7 DEF Exists
    <2>9. QED
      BY <1>3, <2>8
  <1>6. QED
    BY <1>4, <1>5

\* The fold of startReady: the calls of the children that are launched.
LaunchedFrom(N, order, at) ==
    FoldLeft(LAMBDA K, u : Entered(K, "start", u, at), N, order)

\* The recursion it runs over sets of positions.
Launches(N, order, at, D, g) ==
    g = [s \in SUBSET D |-> IF s = {} THEN N
                            ELSE Entered(g[s \ {Max(s)}], "start", order[Max(s)], at)]

\* The fold, by definition.
LEMMA LaunchedDef ==
    ASSUME NEW N, NEW order, NEW at
    PROVE  LaunchedFrom(N, order, at) =
              (CHOOSE g : Launches(N, order, at, DOMAIN order, g))[DOMAIN order]
  BY DEF LaunchedFrom, FoldLeft, MapThenFoldSet, Launches

\* Ledgers as calls of waitForStart may find them.
SoundLedger == {L \in Ledger : \E line \in Seq(Calls) : Sound(L, line, 0) /\ Admits(L)}

\* One such call leaves a sound ledger behind.
LEMMA EnteredStaysSound ==
    ASSUME NEW L \in SoundLedger, NEW t \in Token, NEW at
    PROVE  Entered(L, "start", t, at) \in SoundLedger
  <1>1. PICK line \in Seq(Calls) : Sound(L, line, 0) /\ Admits(L)
    BY DEF SoundLedger
  <1> DEFINE K == Entered(L, "start", t, at)
             line2 == IF K.waiters = L.waiters THEN line ELSE Append(line, <<"start", t>>)
  <1>2. Sound(K, line2, 0) /\ Admits(K)
    BY <1>1, EnterSound
  <1> HIDE DEF K, line2
  <1>3. K \in Ledger /\ line2 \in Seq(Calls)
    BY <1>2, SoundIs, LineIs
  <1>4. K \in SoundLedger
    BY <1>2, <1>3 DEF SoundLedger
  <1>5. QED
    BY <1>4 DEF K

\* h has the ledgers between the calls of the fold.
Between(h, N, n, order, at) ==
    /\ h[0] = N
    /\ \A k \in 1 .. n : h[k] = Entered(h[k - 1], "start", order[k], at)
    /\ h[n] = LaunchedFrom(N, order, at)

\* The fold makes the calls one after the other.
LEMMA LaunchedInOrder ==
    ASSUME NEW N \in SoundLedger, NEW n \in Nat, NEW order \in [1 .. n -> Token], NEW at
    PROVE  \E h \in [0 .. n -> SoundLedger] : Between(h, N, n, order, at)
  <1> DEFINE V == SoundLedger
             step == [x \in (1 .. n) \X V |-> Entered(x[2], "start", order[x[1]], at)]
  <1>1. step \in [(1 .. n) \X V -> V]
    BY EnteredStaysSound
  <1>2. \A k \in 1 .. n : \A L \in V : step[<<k, L>>] = Entered(L, "start", order[k], at)
    OBVIOUS
  <1> HIDE DEF step
  <1>3. PICK f \in [SUBSET (1 .. n) -> V] : Steps(step, N, 1 .. n, f)
    BY <1>1, StepsExist
  <1>4. Launches(N, order, at, 1 .. n, f)
    <2>1. f = [s \in SUBSET (1 .. n) |-> f[s]]
      BY <1>3
    <2>2. ASSUME NEW s \in SUBSET (1 .. n)
          PROVE  f[s] = IF s = {} THEN N
                        ELSE Entered(f[s \ {Max(s)}], "start", order[Max(s)], at)
      <3>1. CASE s = {}
        BY <3>1, <1>3 DEF Steps
      <3>2. CASE s # {}
        <4>1. Max(s) \in 1 .. n /\ f[s \ {Max(s)}] \in V
          BY <3>2, LastOf, <1>3
        <4>2. f[s] = step[<<Max(s), f[s \ {Max(s)}]>>]
          BY <3>2, <1>3 DEF Steps
        <4>3. QED
          BY <3>2, <4>1, <4>2, <1>2
      <3>3. QED
        BY <3>1, <3>2
    <2>3. QED
      BY <2>1, <2>2 DEF Launches
  <1>5. PICK g : Launches(N, order, at, 1 .. n, g) /\ LaunchedFrom(N, order, at) = g[1 .. n]
    <2>1. DOMAIN order = 1 .. n
      OBVIOUS
    <2>2. Launches(N, order, at, 1 .. n, CHOOSE g : Launches(N, order, at, 1 .. n, g))
      BY <1>4
    <2>3. QED
      BY <2>1, <2>2, LaunchedDef
  <1> DEFINE h == [k \in 0 .. n |-> g[1 .. k]]
  <1>6. h[0] = N
    <2>1. 1 .. 0 = {} /\ g[{}] = N
      BY <1>5 DEF Launches
    <2>2. QED
      BY <2>1
  <1>7. ASSUME NEW k \in 1 .. n
        PROVE  h[k] = Entered(h[k - 1], "start", order[k], at)
    <2>1. Max(1 .. k) = k /\ (1 .. k) \ {k} = 1 .. (k - 1)
      BY LastOfPrefix
    <2>0. k \in 1 .. k /\ \A j \in 1 .. k : j \in 1 .. n
      OBVIOUS
    <2>2. 1 .. k \in SUBSET (1 .. n) /\ 1 .. k # {}
      BY <2>0
    <2>3. g[1 .. k] = Entered(g[1 .. (k - 1)], "start", order[k], at)
      BY <2>1, <2>2, <1>5 DEF Launches
    <2>4. QED
      BY <2>3
  <1>8. \A k \in 0 .. n : h[k] \in V
    <2> DEFINE B == {k \in 0 .. n : h[k] \notin V}
    <2>1. SUFFICES ASSUME B # {} PROVE FALSE
      OBVIOUS
    <2>2. B \in SUBSET Nat
      OBVIOUS
    <2> HIDE DEF h, V
    <2>3. PICK m \in B : \A k \in B : m <= k
      <3> HIDE DEF B
      <3>1. QED
        BY <2>1, <2>2, SmallestNumber
    <2>4. m # 0
      BY <2>3, <1>6 DEF V
    <2>5. m \in 1 .. n /\ m - 1 \in 0 .. n /\ m - 1 \notin B
      BY <2>3, <2>4
    <2>6. h[m - 1] \in SoundLedger /\ order[m] \in Token
      BY <2>5 DEF V
    <2>7. h[m] \in SoundLedger
      BY <2>5, <2>6, <1>7, EnteredStaysSound
    <2>8. QED
      BY <2>3, <2>7 DEF V
  <1>9. h[n] = LaunchedFrom(N, order, at)
    BY <1>5
  <1>10. h \in [0 .. n -> SoundLedger]
    BY <1>8
  <1> HIDE DEF h
  <1>11. QED
    BY <1>6, <1>7, <1>9, <1>10 DEF Between

\* The fold of an abort: the calls of w whose tokens are not in S.
Passed(w, S) ==
    FoldLeft(LAMBDA v, q : IF q.token \in S THEN v ELSE Append(v, q), <<>>, w)

\* The recursion it runs over sets of positions.
Passes(w, S, D, g) ==
    g = [s \in SUBSET D |-> IF s = {} THEN <<>>
                            ELSE IF w[Max(s)].token \in S THEN g[s \ {Max(s)}]
                            ELSE Append(g[s \ {Max(s)}], w[Max(s)])]

\* The fold, by definition.
LEMMA PassedDef ==
    ASSUME NEW w, NEW S
    PROVE  Passed(w, S) = (CHOOSE g : Passes(w, S, DOMAIN w, g))[DOMAIN w]
  BY DEF Passed, FoldLeft, MapThenFoldSet, Passes

\* The fold takes the calls one after the other.
LEMMA PassedInOrder ==
    ASSUME NEW w \in Seq(Call), NEW S
    PROVE  \E h : /\ h[0] = <<>>
                  /\ \A k \in 1 .. Len(w) :
                        h[k] = IF w[k].token \in S THEN h[k - 1] ELSE Append(h[k - 1], w[k])
                  /\ h[Len(w)] = Passed(w, S)
  <1> DEFINE n == Len(w)
             V == Seq(Call)
             step == [x \in (1 .. n) \X V |->
                         IF w[x[1]].token \in S THEN x[2] ELSE Append(x[2], w[x[1]])]
  <1>0. n \in Nat /\ DOMAIN w = 1 .. n /\ \A k \in 1 .. n : w[k] \in Call
    OBVIOUS
  <1>1. step \in [(1 .. n) \X V -> V]
    <2>1. ASSUME NEW k \in 1 .. n, NEW v \in V
          PROVE  (IF w[k].token \in S THEN v ELSE Append(v, w[k])) \in V
      BY <1>0
    <2> HIDE DEF V
    <2>2. QED
      BY <2>1
  <1>2. \A k \in 1 .. n : \A v \in V :
            step[<<k, v>>] = IF w[k].token \in S THEN v ELSE Append(v, w[k])
    OBVIOUS
  <1>9. <<>> \in V
    OBVIOUS
  <1> HIDE DEF step, V, n
  <1>3. PICK f \in [SUBSET (1 .. n) -> V] : Steps(step, <<>>, 1 .. n, f)
    BY <1>0, <1>1, <1>9, StepsExist
  <1>4. Passes(w, S, 1 .. n, f)
    <2>1. f = [s \in SUBSET (1 .. n) |-> f[s]]
      BY <1>3
    <2>2. ASSUME NEW s \in SUBSET (1 .. n)
          PROVE  f[s] = IF s = {} THEN <<>>
                        ELSE IF w[Max(s)].token \in S THEN f[s \ {Max(s)}]
                        ELSE Append(f[s \ {Max(s)}], w[Max(s)])
      <3>1. CASE s = {}
        BY <3>1, <1>3 DEF Steps
      <3>2. CASE s # {}
        <4>1. Max(s) \in 1 .. n /\ f[s \ {Max(s)}] \in V
          BY <1>0, <3>2, LastOf, <1>3
        <4>2. f[s] = step[<<Max(s), f[s \ {Max(s)}]>>]
          BY <3>2, <1>3 DEF Steps
        <4>3. QED
          BY <3>2, <4>1, <4>2, <1>2
      <3>3. QED
        BY <3>1, <3>2
    <2>3. QED
      BY <2>1, <2>2 DEF Passes
  <1>5. PICK g : Passes(w, S, 1 .. n, g) /\ Passed(w, S) = g[1 .. n]
    <2>1. Passes(w, S, 1 .. n, CHOOSE g : Passes(w, S, 1 .. n, g))
      BY <1>4
    <2>2. QED
      BY <1>0, <2>1, PassedDef
  <1> DEFINE h == [k \in 0 .. n |-> g[1 .. k]]
  <1>6. h[0] = <<>>
    <2>1. 1 .. 0 = {} /\ g[{}] = <<>>
      BY <1>5 DEF Passes
    <2>2. QED
      BY <1>0, <2>1
  <1>7. ASSUME NEW k \in 1 .. n
        PROVE  h[k] = IF w[k].token \in S THEN h[k - 1] ELSE Append(h[k - 1], w[k])
    <2>1. Max(1 .. k) = k /\ (1 .. k) \ {k} = 1 .. (k - 1)
      BY <1>0, LastOfPrefix
    <2>0. k \in 1 .. k /\ \A j \in 1 .. k : j \in 1 .. n
      BY <1>0
    <2>2. 1 .. k \in SUBSET (1 .. n) /\ 1 .. k # {}
      BY <2>0
    <2>3. g[1 .. k] = IF w[k].token \in S THEN g[1 .. (k - 1)] ELSE Append(g[1 .. (k - 1)], w[k])
      BY <2>1, <2>2, <1>5 DEF Passes
    <2>4. k - 1 \in 0 .. n /\ k \in 0 .. n
      BY <1>0
    <2>5. QED
      BY <2>3, <2>4
  <1>8. h[n] = Passed(w, S)
    BY <1>0, <1>5
  <1> HIDE DEF h
  <1>10. QED
    BY <1>6, <1>7, <1>8 DEF n

-----------------------------------------------------------------------------
(* The inductive invariant.                                                *)

Working == {"hosting", "joining", "resuming", "draining", "closing"}
Open    == {"active", "revoked", "reserved"}

\* The grant g of a child whose pipeline is at x, and whose result is bad.
ChildAt(g, x, bad) ==
    /\ x = "idle" <=> g.status = "unissued"
    /\ x = "starting" => g.status \in {"reserved", "dropped"}
    /\ x \in Working => g.status \in {"active", "revoked"}
    /\ x \in {"closed", "joined"} =>
          g.status = "settled" \/ (g.status \in {"reserved", "dropped"} /\ bad)
    /\ x = "hosting" => g.running
    /\ g.running => x \in {"hosting", "closing"}

RootAt(g, x) ==
    /\ x \in Working \cup {"closed"} /\ x # "resuming"
    /\ IF x = "closed" THEN g.status = "settled" ELSE g.status \in {"active", "revoked"}

Placed(n, q, bad) ==
    /\ q \in [Node -> Place]
    /\ RootAt(n[Root], q[Root])
    /\ \A u \in Token : ChildAt(n[u], q[u], u \in bad)

\* Only a node that orchestrates has children.
Nested(n) ==
    \A u \in Token : n[u].parent # None => n[n[u].parent].depth < n[n[u].parent].ceiling

\* Unless its pipeline awaits children, all below a node has been taken.
Quiet(n, q) ==
    \A p \in Node : q[p] \notin {"joining", "draining"} =>
        \A u \in Token : p \in n[u].above => q[u] = "joined"

\* A pipeline that returned, or asks for a slot again, has joined its children.
Clean(n, q) ==
    \A p \in Node : q[p] \in {"closing", "resuming"} =>
        \A u \in Token : n[u].parent = p => n[u].status \notin Open

\* Who is in line awaits admission, and is there once.
Distinct(line) == \A i, j \in 1 .. Len(line) : line[i][2] = line[j][2] => i = j

Matched(q, line) ==
    /\ \A i \in 1 .. Len(line) :
          q[line[i][2]] = IF line[i][1] = "start" THEN "starting" ELSE "resuming"
    /\ Distinct(line)

Orderly(L, q, bad, line) ==
    /\ Sound(L, line, 0) /\ Admits(L)
    /\ Placed(L.node, q, bad)
    /\ Nested(L.node)
    /\ Quiet(L.node, q)
    /\ Clean(L.node, q)
    /\ Matched(q, line)

OInv ==
    /\ \E line \in Seq(Calls) : Orderly(ledger, pc, failed, line)
    /\ clock \in Nat
    /\ aborted \subseteq Node /\ failed \subseteq Node

-----------------------------------------------------------------------------
(* What the parts give, and what keeps them.                               *)

\* The facts the steps need.
LEMMA OrderlyIs ==
    ASSUME NEW L, NEW q, NEW bad, NEW line, Orderly(L, q, bad, line)
    PROVE  /\ Sound(L, line, 0) /\ Admits(L) /\ L \in Ledger /\ Good(L)
           /\ L.node \in [Node -> Grant] /\ TreeInv(L.node)
           /\ L.waiters \in Seq(Call) /\ L.woken \in Seq(Call)
           /\ InLine(L.woken, L.waiters, line) /\ line \in Seq(Calls)
           /\ q \in [Node -> Place] /\ Placed(L.node, q, bad) /\ Nested(L.node)
           /\ Quiet(L.node, q) /\ Clean(L.node, q) /\ Matched(q, line)
  <1>1. Sound(L, line, 0)
    BY DEF Orderly
  <1>2. L.waiters \in Seq(Call) /\ L.woken \in Seq(Call) /\ InLine(L.woken, L.waiters, line)
        /\ L \in Ledger /\ Good(L) /\ L.node \in [Node -> Grant]
    BY <1>1, SoundIs
  <1>3. line \in Seq(Calls)
    BY <1>2, LineIs
  <1>4. QED
    BY <1>1, <1>2, <1>3 DEF Orderly, Placed, Good

\* Where a child is, by the place of its pipeline.
LEMMA ChildIs ==
    ASSUME NEW n, NEW q, NEW bad, Placed(n, q, bad), NEW u \in Token
    PROVE  ChildAt(n[u], q[u], u \in bad) /\ u \in Node /\ u # Root
  BY LedgerAssumption DEF Placed, Node

\* An ancestor chain as the tree invariant has it.
LEMMA AboveIs ==
    ASSUME NEW n, TreeInv(n), NEW u \in Node, NEW p \in n[u].above
    PROVE  /\ n[p].status \in Published
           /\ n[p].above \subseteq n[u].above
           /\ n[u].parent = p \/ \E w \in n[u].above : n[w].parent = p
           /\ u \notin n[u].above
           /\ u \in Token
  <1>1. u # Root
    BY DEF TreeInv, RootInv
  <1>2. u \in Token
    BY <1>1 DEF Node
  <1>3. Hangs(n, u)
    BY <1>2 DEF TreeInv, Unissued
  <1>4. QED
    BY <1>2, <1>3 DEF TreeInv, Hangs

\* A child hangs below its parent, and below all that is above that.
LEMMA ParentIs ==
    ASSUME NEW n, TreeInv(n), NEW u \in Token, NEW p \in Node, n[u].parent = p
    PROVE  /\ p \in n[u].above /\ n[u].above = n[p].above \cup {p}
           /\ p \notin n[p].above /\ u \notin n[u].above /\ u # p
           /\ n[u].status # "unissued" /\ n[p].status \in Published
  <1>1. p # None /\ u \in Node
    BY LedgerAssumption DEF Node
  <1>2. n[u].status # "unissued" /\ Hangs(n, u)
    BY <1>1 DEF TreeInv, Unissued
  <1>3. /\ p \in n[u].above /\ n[u].above = n[p].above \cup {p} /\ u \notin n[u].above
    BY <1>2 DEF Hangs
  <1>4. n[p].status \in Published
    BY <1>1, <1>3 DEF TreeInv
  <1>5. p \notin n[p].above
    <2>1. CASE p = Root
      BY <2>1 DEF TreeInv, RootInv
    <2>2. CASE p # Root
      <3>1. p \in Token
        BY <2>2 DEF Node
      <3>2. Hangs(n, p)
        BY <1>4, <3>1 DEF TreeInv, Published
      <3>3. QED
        BY <3>2 DEF Hangs
    <2>3. QED
      BY <2>1, <2>2
  <1>6. QED
    BY <1>2, <1>3, <1>4, <1>5

\* When all children of a node were taken, so was everything below it.
LEMMA AllBelow ==
    ASSUME NEW n \in [Node -> Grant], TreeInv(n), NEW q, Quiet(n, q), NEW p \in Node,
           \A u \in Token : n[u].parent = p => q[u] = "joined",
           NEW w \in Token, p \in n[w].above
    PROVE  q[w] = "joined"
  <1>1. w \in Node
    BY RootIsNode
  <1>2. n[w].parent = p \/ \E v \in n[w].above : n[v].parent = p
    BY <1>1, AboveIs
  <1>3. ASSUME NEW v \in n[w].above, n[v].parent = p
        PROVE  q[w] = "joined"
    <2>1. v \in Node
      BY <1>1, <1>3 DEF Grant
    <2>2. v # Root
      BY <1>3, LedgerAssumption DEF TreeInv, RootInv, Node
    <2>3. v \in Token /\ q[v] = "joined"
      BY <1>3, <2>1, <2>2 DEF Node
    <2>4. QED
      BY <1>3, <2>1, <2>3 DEF Quiet
  <1>4. QED
    BY <1>2, <1>3

\* The shape of the tree is the same.
SameTree(n, m) ==
    \A u \in Node : /\ m[u].parent = n[u].parent /\ m[u].above = n[u].above
                    /\ m[u].depth = n[u].depth /\ m[u].ceiling = n[u].ceiling

\* No child became open, and none that was taken is in flight again.
Closing(n, m, q, r) ==
    \A u \in Token : /\ n[u].status \notin Open => m[u].status \notin Open
                     /\ q[u] = "joined" => r[u] = "joined"

\* Who stops awaiting children has none in flight, who is about to close none open.
Ready(n, m, q, r) ==
    \A p \in Node :
       /\ r[p] \notin {"joining", "draining"} /\ q[p] \in {"joining", "draining"} =>
             \A u \in Token : p \in n[u].above => r[u] = "joined"
       /\ r[p] \in {"closing", "resuming"} /\ q[p] \notin {"closing", "resuming"} =>
             \A u \in Token : n[u].parent = p => m[u].status \notin Open

\* A step that issues nothing keeps order.
LEMMA OrderlyStep ==
    ASSUME NEW L, NEW q, NEW bad, NEW line, Orderly(L, q, bad, line),
           NEW K, NEW r, NEW bad2, NEW line2,
           Sound(K, line2, 0), Admits(K), Placed(K.node, r, bad2), Matched(r, line2),
           SameTree(L.node, K.node), Closing(L.node, K.node, q, r), Ready(L.node, K.node, q, r)
    PROVE  Orderly(K, r, bad2, line2)
  <1> DEFINE n == L.node
             m == K.node
  <1>0. Nested(n) /\ Quiet(n, q) /\ Clean(n, q) /\ TreeInv(n) /\ \A u \in Token : u \in Node
    BY OrderlyIs, RootIsNode
  <1>1. Nested(m)
    <2> SUFFICES ASSUME NEW u \in Token, m[u].parent # None
                 PROVE  m[m[u].parent].depth < m[m[u].parent].ceiling
      BY DEF Nested
    <2>1. n[u].parent = m[u].parent /\ n[u].parent \in Node
      BY <1>0 DEF SameTree, TreeInv, Unissued, Hangs
    <2>2. n[n[u].parent].depth < n[n[u].parent].ceiling
      BY <1>0, <2>1 DEF Nested
    <2>3. QED
      BY <2>1, <2>2 DEF SameTree
  <1> HIDE DEF n, m
  <1>2. SameTree(n, m) /\ Closing(n, m, q, r) /\ Ready(n, m, q, r)
    BY DEF n, m
  <1>3. Quiet(m, r)
    BY <1>0, <1>2 DEF Quiet, SameTree, Closing, Ready
  <1>4. Clean(m, r)
    BY <1>0, <1>2 DEF Clean, SameTree, Closing, Ready
  <1>5. QED
    BY <1>1, <1>3, <1>4 DEF Orderly, m

-----------------------------------------------------------------------------
(* An abort leaves the tree alone, and thins the line.                     *)

Inside(v, w) == \A i \in 1 .. Len(v) : \E j \in 1 .. Len(w) : v[i] = w[j]
Singly(w)    == \A i, j \in 1 .. Len(w) : w[i].token = w[j].token => i = j
Subline(line2, line) ==
    /\ \A i \in 1 .. Len(line2) : \E j \in 1 .. Len(line) : line2[i] = line[j]
    /\ Distinct(line) => Distinct(line2)

\* The calls that pass are calls of the queue, each as often as it was there.
LEMMA PassedIs ==
    ASSUME NEW w \in Seq(Call), NEW S
    PROVE  /\ Passed(w, S) \in Seq(Call) /\ Inside(Passed(w, S), w)
           /\ Singly(w) => Singly(Passed(w, S))
  <1> DEFINE n == Len(w)
  <1>1. PICK h : /\ h[0] = <<>>
                 /\ \A k \in 1 .. n :
                       h[k] = IF w[k].token \in S THEN h[k - 1] ELSE Append(h[k - 1], w[k])
                 /\ h[n] = Passed(w, S)
    BY PassedInOrder
  <1>2. n \in Nat /\ \A k \in 1 .. n : w[k] \in Call
    OBVIOUS
  <1> DEFINE Upto(k) == /\ h[k] \in Seq(Call)
                        /\ \A i \in 1 .. Len(h[k]) : \E j \in 1 .. k : h[k][i] = w[j]
                        /\ Singly(w) => Singly(h[k])
             B == {k \in 0 .. n : ~Upto(k)}
  <1>3. Upto(0)
    BY <1>1, EmptySeq DEF Singly
  <1>4. ASSUME NEW k \in 1 .. n, Upto(k - 1)
        PROVE  Upto(k)
    <2> DEFINE v == h[k - 1]
    <2>1. CASE w[k].token \in S
      <3>1. h[k] = h[k - 1]
        BY <1>1, <2>1
      <3>2. \A j \in 1 .. (k - 1) : j \in 1 .. k
        BY <1>2
      <3>3. QED
        BY <1>4, <3>1, <3>2
    <2>2. CASE w[k].token \notin S
      <3>1. h[k] = Append(v, w[k])
        BY <1>1, <2>2
      <3>2. /\ v \in Seq(Call) /\ Len(v) \in Nat
            /\ \A i \in 1 .. Len(v) : \E j \in 1 .. (k - 1) : v[i] = w[j]
            /\ Singly(w) => Singly(v)
        BY <1>4
      <3> HIDE DEF v
      <3> DEFINE a == Append(v, w[k])
      <3>3. /\ a \in Seq(Call) /\ Len(a) = Len(v) + 1 /\ a[Len(v) + 1] = w[k]
            /\ \A i \in 1 .. Len(v) : a[i] = v[i]
        BY <1>2, <3>2, AppendProperties
      <3> HIDE DEF a
      <3>4. \A i \in 1 .. Len(a) : i = Len(v) + 1 \/ i \in 1 .. Len(v)
        BY <3>2, <3>3
      <3>5. \A i \in 1 .. Len(a) : \E j \in 1 .. k : a[i] = w[j]
        <4>1. k \in 1 .. k /\ \A j \in 1 .. (k - 1) : j \in 1 .. k
          BY <1>2
        <4>2. QED
          BY <3>2, <3>3, <3>4, <4>1
      <3>6. ASSUME Singly(w) PROVE Singly(a)
        <4>1. \A i \in 1 .. Len(v) : v[i].token # w[k].token
          <5> SUFFICES ASSUME NEW i \in 1 .. Len(v), v[i].token = w[k].token
                       PROVE  FALSE
            OBVIOUS
          <5>1. PICK j \in 1 .. (k - 1) : v[i] = w[j]
            BY <3>2
          <5>2. j \in 1 .. n /\ k \in 1 .. n /\ j # k
            BY <1>2
          <5>3. QED
            BY <3>6, <5>1, <5>2 DEF Singly
        <4>2. QED
          BY <3>2, <3>3, <3>4, <3>6, <4>1 DEF Singly
      <3>7. QED
        BY <3>1, <3>3, <3>5, <3>6 DEF a
    <2>3. QED
      BY <2>1, <2>2
  <1> HIDE DEF Upto
  <1>5. B = {}
    <2>1. SUFFICES ASSUME B # {} PROVE FALSE
      OBVIOUS
    <2>2. B \in SUBSET Nat
      BY <1>2
    <2> HIDE DEF B
    <2>3. PICK m \in B : \A k \in B : m <= k
      BY <2>1, <2>2, SmallestNumber
    <2> USE DEF B
    <2>4. m # 0
      BY <1>3, <2>3
    <2>5. m \in 1 .. n /\ m - 1 \in 0 .. n /\ m - 1 \notin B
      BY <1>2, <2>3, <2>4
    <2>6. QED
      BY <1>4, <2>3, <2>5
  <1>6. Upto(n)
    BY <1>2, <1>5
  <1>7. QED
    BY <1>1, <1>6 DEF Upto, Inside

\* Any two queues make a line.
LEMMA LineExists ==
    ASSUME NEW w \in Seq(Call), NEW q \in Seq(Call)
    PROVE  \E line \in Seq(Calls) : InLine(w, q, line)
  <1> DEFINE k == Len(w) + Len(q)
             line == [i \in 1 .. k |-> IF i <= Len(w) THEN Key(w[i]) ELSE Key(q[i - Len(w)])]
  <1>1. Len(w) \in Nat /\ Len(q) \in Nat /\ k \in Nat
    OBVIOUS
  <1>2. ASSUME NEW i \in 1 .. k
        PROVE  line[i] \in Calls
    <2>1. \A c \in Call : Key(c) \in Calls
      BY DEF Calls, Key, Call
    <2>2. CASE i <= Len(w)
      <3>1. i \in 1 .. Len(w)
        BY <1>1, <2>2
      <3>2. w[i] \in Call
        BY <3>1
      <3>3. QED
        BY <2>1, <2>2, <3>2
    <2>3. CASE ~(i <= Len(w))
      <3>1. i - Len(w) \in 1 .. Len(q)
        BY <1>1, <2>3
      <3>2. q[i - Len(w)] \in Call
        BY <3>1
      <3>3. QED
        BY <2>1, <2>3, <3>2
    <2>4. QED
      BY <2>2, <2>3
  <1>3. line \in Seq(Calls) /\ Len(line) = k
    <2>1. line \in [1 .. k -> Calls]
      BY <1>2
    <2> HIDE DEF line, k
    <2>2. QED
      BY <1>1, <2>1, SeqDef
  <1>4. \A i \in 1 .. Len(w) : line[i] = Key(w[i])
    BY <1>1
  <1>5. \A i \in 1 .. Len(q) : line[Len(w) + i] = Key(q[i])
    BY <1>1
  <1> HIDE DEF line
  <1>6. QED
    BY <1>3, <1>4, <1>5 DEF InLine

\* A thinned queue makes a part of the line.
LEMMA LineThinned ==
    ASSUME NEW w \in Seq(Call), NEW q \in Seq(Call), NEW line, InLine(w, q, line),
           NEW w2 \in Seq(Call), Len(w2) = Len(w), \A i \in 1 .. Len(w) : Key(w2[i]) = Key(w[i]),
           NEW q2 \in Seq(Call), Inside(q2, q), Singly(q) => Singly(q2),
           NEW line2, InLine(w2, q2, line2)
    PROVE  Subline(line2, line)
  <1> DEFINE k == Len(w)
  <1>1. /\ k \in Nat /\ Len(q) \in Nat /\ Len(q2) \in Nat
        /\ Len(line) = k + Len(q) /\ Len(line2) = k + Len(q2)
        /\ \A i \in 1 .. k : line[i] = Key(w[i])
        /\ \A i \in 1 .. Len(q) : line[k + i] = Key(q[i])
        /\ \A i \in 1 .. k : line2[i] = Key(w2[i])
        /\ \A i \in 1 .. Len(q2) : line2[k + i] = Key(q2[i])
    BY LineIs
  <1> HIDE DEF k
  <1>2. \A i \in 1 .. k : line2[i] = line[i]
    BY <1>1 DEF k
  <1>3. ASSUME NEW i \in 1 .. Len(q2)
        PROVE  \E j \in 1 .. Len(q) : q2[i] = q[j] /\ line2[k + i] = line[k + j]
    BY <1>1 DEF Inside
  <1>4. \A i \in 1 .. Len(line2) : i \in 1 .. k \/ \E x \in 1 .. Len(q2) : i = k + x
    <2> SUFFICES ASSUME NEW i \in 1 .. Len(line2), i \notin 1 .. k
                 PROVE  \E x \in 1 .. Len(q2) : i = k + x
      OBVIOUS
    <2>1. i - k \in 1 .. Len(q2) /\ i = k + (i - k)
      BY <1>1
    <2>2. QED
      BY <2>1
  <1>5. \A i \in 1 .. k : i \in 1 .. Len(line)
    BY <1>1
  <1>6. \A j \in 1 .. Len(q) : k + j \in 1 .. Len(line) /\ k + j \notin 1 .. k
    BY <1>1
  <1>7. ASSUME NEW i \in 1 .. Len(line2)
        PROVE  \E j \in 1 .. Len(line) : line2[i] = line[j]
    <2>1. CASE i \in 1 .. k
      BY <1>2, <1>5, <2>1
    <2>2. ASSUME NEW x \in 1 .. Len(q2), i = k + x
          PROVE  \E j \in 1 .. Len(line) : line2[i] = line[j]
      <3>1. PICK y \in 1 .. Len(q) : line2[k + x] = line[k + y]
        BY <1>3
      <3>2. k + y \in 1 .. Len(line)
        BY <1>6
      <3>3. QED
        BY <2>2, <3>1, <3>2
    <2>3. QED
      BY <1>4, <2>1, <2>2
  <1>8. ASSUME Distinct(line) PROVE Distinct(line2)
    <2>1. Singly(q2)
      <3>1. SUFFICES ASSUME NEW i \in 1 .. Len(q), NEW j \in 1 .. Len(q), q[i].token = q[j].token
                     PROVE  i = j
        BY DEF Singly
      <3>2. line[k + i][2] = line[k + j][2]
        BY <1>1, <3>1 DEF Key
      <3>3. k + i = k + j
        BY <1>6, <1>8, <3>2 DEF Distinct
      <3>4. QED
        BY <1>1, <3>3
    <2>2. ASSUME NEW i \in 1 .. k, NEW j \in 1 .. Len(q2)
          PROVE  line2[i][2] # line2[k + j][2]
      <3>1. PICK x \in 1 .. Len(q) : line2[k + j] = line[k + x]
        BY <1>3
      <3>2. i # k + x
        BY <1>6
      <3>3. QED
        BY <1>2, <1>5, <1>6, <1>8, <3>1, <3>2 DEF Distinct
    <2>3. ASSUME NEW i \in 1 .. k, NEW j \in 1 .. k, line2[i][2] = line2[j][2]
          PROVE  i = j
      BY <1>2, <1>5, <1>8, <2>3 DEF Distinct
    <2>4. ASSUME NEW i \in 1 .. Len(q2), NEW j \in 1 .. Len(q2), line2[k + i][2] = line2[k + j][2]
          PROVE  i = j
      <3>1. q2[i].token = q2[j].token
        BY <1>1, <2>4 DEF Key
      <3>2. QED
        BY <2>1, <3>1 DEF Singly
    <2>5. QED
      BY <1>4, <2>2, <2>3, <2>4 DEF Distinct
  <1>9. QED
    BY <1>7, <1>8 DEF Subline

\* Who is in a part of the line is matched with its place, as before.
LEMMA MatchedPart ==
    ASSUME NEW q, NEW line, Matched(q, line), NEW line2, Subline(line2, line)
    PROVE  Matched(q, line2)
  BY DEF Matched, Subline

\* Who is in line is in a place that awaits admission.
LEMMA MatchedMoved ==
    ASSUME NEW q, NEW line \in Seq(Calls), Matched(q, line), NEW r,
           \A t \in Token : q[t] \in {"starting", "resuming"} => r[t] = q[t]
    PROVE  Matched(r, line)
  <1>1. \A i \in 1 .. Len(line) : line[i] \in Calls
    OBVIOUS
  <1>2. \A i \in 1 .. Len(line) : line[i][2] \in Token
    BY <1>1 DEF Calls
  <1>3. QED
    BY <1>2 DEF Matched

\* What an abort does to the value.
LEMMA SilencedIs ==
    ASSUME NEW L \in Ledger, NEW S
    PROVE  LET K == Silenced(L, S) IN
           /\ K \in Ledger /\ Requeued(L, K) /\ K.permits = L.permits
           /\ K.waiters = Passed(L.waiters, S)
           /\ Len(K.woken) = Len(L.woken)
           /\ \A i \in 1 .. Len(L.woken) : Key(K.woken[i]) = Key(L.woken[i])
  <1> DEFINE v == Passed(L.waiters, S)
             w == [i \in DOMAIN L.woken |->
                      IF L.woken[i].token \in S THEN [L.woken[i] EXCEPT !.aborted = TRUE]
                      ELSE L.woken[i]]
             K == [L EXCEPT !.waiters = v, !.woken = w]
  <1>1. L.waiters \in Seq(Call) /\ L.woken \in Seq(Call)
    BY DEF Ledger
  <1>2. v \in Seq(Call)
    BY <1>1, PassedIs
  <1>3. /\ w \in Seq(Call) /\ Len(w) = Len(L.woken)
        /\ \A i \in 1 .. Len(L.woken) : Key(w[i]) = Key(L.woken[i])
    <2> DEFINE k == Len(L.woken)
    <2>1. k \in Nat /\ DOMAIN L.woken = 1 .. k /\ \A i \in 1 .. k : L.woken[i] \in Call
      BY <1>1
    <2>2. \A c \in Call : [c EXCEPT !.aborted = TRUE] \in Call
                          /\ Key([c EXCEPT !.aborted = TRUE]) = Key(c)
      BY DEF Call, Key
    <2>3. \A i \in 1 .. k : w[i] \in Call /\ Key(w[i]) = Key(L.woken[i])
      BY <2>1, <2>2
    <2>4. w \in [1 .. k -> Call]
      BY <2>1, <2>3
    <2> HIDE DEF w, k
    <2>5. w \in Seq(Call) /\ Len(w) = k
      BY <2>1, <2>4, SeqDef
    <2>6. QED
      BY <2>3, <2>5 DEF k
  <1>4. Silenced(L, S) = K
    BY DEF Silenced, Passed
  <1> HIDE DEF v, w
  <1>5. /\ K \in Ledger /\ Requeued(L, K) /\ K.permits = L.permits
        /\ K.waiters = v /\ K.woken = w
    BY <1>2, <1>3 DEF Ledger, Requeued
  <1>6. QED
    BY <1>3, <1>4, <1>5 DEF v

\* An abort keeps order, whomever it reaches.
LEMMA SilencedOrderly ==
    ASSUME NEW L, NEW q, NEW bad, NEW line, Orderly(L, q, bad, line), NEW S
    PROVE  /\ Silenced(L, S).node = L.node
           /\ \E line2 \in Seq(Calls) :
                 Orderly(Silenced(L, S), q, bad, line2) /\ Subline(line2, line)
  <1> DEFINE K == Silenced(L, S)
  <1>0. /\ Sound(L, line, 0) /\ Admits(L) /\ L \in Ledger
        /\ L.waiters \in Seq(Call) /\ L.woken \in Seq(Call)
        /\ InLine(L.woken, L.waiters, line) /\ Matched(q, line)
        /\ Placed(L.node, q, bad) /\ Nested(L.node) /\ Quiet(L.node, q) /\ Clean(L.node, q)
    BY OrderlyIs
  <1>1. /\ K \in Ledger /\ Requeued(L, K) /\ K.permits = L.permits
        /\ K.waiters = Passed(L.waiters, S)
        /\ Len(K.woken) = Len(L.woken)
        /\ \A i \in 1 .. Len(L.woken) : Key(K.woken[i]) = Key(L.woken[i])
    BY <1>0, SilencedIs
  <1> HIDE DEF K
  <1>2. K.waiters \in Seq(Call) /\ K.woken \in Seq(Call)
    BY <1>1 DEF Ledger
  <1>3. Inside(K.waiters, L.waiters) /\ (Singly(L.waiters) => Singly(K.waiters))
    BY <1>0, <1>1, PassedIs
  <1>4. PICK line2 \in Seq(Calls) : InLine(K.woken, K.waiters, line2)
    BY <1>2, LineExists
  <1>5. Subline(line2, line)
    BY ONLY <1>0, <1>1, <1>2, <1>3, <1>4, LineThinned
  <1>6. Matched(q, line2)
    BY <1>0, <1>5, MatchedPart
  <1>7. Sound(K, line2, 0)
    <2>1. K.permits = Len(K.woken)
      BY <1>0, <1>1 DEF Sound, Counted
    <2>2. QED
      BY <1>0, <1>1, <1>4, <2>1, RequeuedSound
  <1>8. Admits(K)
    <2>1. K.waiters # <<>> => L.waiters # <<>>
      <3>1. SUFFICES ASSUME K.waiters # <<>>, L.waiters = <<>> PROVE FALSE
        OBVIOUS
      <3>2. Len(K.waiters) \in Nat /\ Len(K.waiters) # 0
        BY <1>2, <3>1, EmptySeq
      <3>3. 1 \in 1 .. Len(K.waiters)
        BY <3>2
      <3>4. PICK j \in 1 .. Len(L.waiters) : TRUE
        BY <1>3, <3>3 DEF Inside
      <3>5. QED
        BY <3>1, <3>4
    <2>2. QED
      BY <1>0, <1>1, <2>1 DEF Admits, Requeued
  <1>9. K.node = L.node
    BY <1>1 DEF Requeued
  <1>10. Orderly(K, q, bad, line2)
    BY <1>0, <1>6, <1>7, <1>8, <1>9 DEF Orderly
  <1>11. QED
    BY <1>4, <1>5, <1>9, <1>10 DEF K

\* The pipelines of S, which were closed, as their parents take them.
Taken(q, S) == [t \in Node |-> IF t \in S THEN "joined" ELSE q[t]]

\* Taking outcomes keeps order.
LEMMA TakenOrderly ==
    ASSUME NEW L, NEW q, NEW bad, NEW line, Orderly(L, q, bad, line),
           NEW S \in SUBSET Token, \A u \in S : q[u] = "closed"
    PROVE  Orderly(L, Taken(q, S), bad, line)
  <1> DEFINE r == Taken(q, S)
  <1>0. /\ Sound(L, line, 0) /\ Admits(L) /\ line \in Seq(Calls) /\ Matched(q, line)
        /\ q \in [Node -> Place] /\ Placed(L.node, q, bad)
        /\ Root \notin Token /\ Token \subseteq Node /\ Root \in Node
    BY OrderlyIs, RootIsNode, LedgerAssumption
  <1>1. \A t \in Node : r[t] = IF t \in S THEN "joined" ELSE q[t]
    BY DEF Taken
  <1>2. r \in [Node -> Place]
    BY <1>0 DEF Taken, Place
  <1> HIDE DEF r
  <1>3. Placed(L.node, r, bad)
    <2>1. RootAt(L.node[Root], r[Root])
      BY <1>0, <1>1 DEF Placed
    <2>2. ASSUME NEW u \in Token
          PROVE  ChildAt(L.node[u], r[u], u \in bad)
      <3>1. ChildAt(L.node[u], q[u], u \in bad)
        BY <1>0 DEF Placed
      <3>2. CASE u \in S
        <4>1. q[u] = "closed" /\ r[u] = "joined"
          BY <1>0, <1>1, <3>2
        <4>2. QED
          BY <3>1, <4>1 DEF ChildAt, Working
      <3>3. CASE u \notin S
        BY <1>0, <1>1, <3>1, <3>3
      <3>4. QED
        BY <3>2, <3>3
    <2>3. QED
      BY <1>2, <2>1, <2>2 DEF Placed
  <1>4. Matched(r, line)
    <2>1. \A t \in Token : q[t] \in {"starting", "resuming"} => r[t] = q[t]
      BY <1>0, <1>1
    <2>2. QED
      BY <1>0, <2>1, MatchedMoved
  <1>5. SameTree(L.node, L.node) /\ Closing(L.node, L.node, q, r) /\ Ready(L.node, L.node, q, r)
    BY <1>0, <1>1 DEF SameTree, Closing, Ready
  <1>6. QED
    BY <1>0, <1>3, <1>4, <1>5, OrderlyStep DEF r

\* One pipeline moves, and no grant changes but its own.
LEMMA MovedPlaced ==
    ASSUME NEW n, NEW q, NEW bad, Placed(n, q, bad), NEW p \in Node, NEW x \in Place,
           NEW bad2, bad \subseteq bad2, NEW m, \A u \in Node : u # p => m[u] = n[u],
           IF p = Root THEN RootAt(m[p], x) ELSE ChildAt(m[p], x, p \in bad2)
    PROVE  Placed(m, [q EXCEPT ![p] = x], bad2)
  <1> DEFINE r == [q EXCEPT ![p] = x]
  <1>0. Root \notin Token /\ Token \subseteq Node /\ Root \in Node /\ q \in [Node -> Place]
    BY RootIsNode, LedgerAssumption DEF Placed
  <1>1. /\ r \in [Node -> Place] /\ r[p] = x
        /\ \A t \in Node : t # p => r[t] = q[t]
    BY <1>0
  <1> HIDE DEF r
  <1>2. RootAt(m[Root], r[Root])
    BY <1>0, <1>1 DEF Placed
  <1>3. ASSUME NEW u \in Token
        PROVE  ChildAt(m[u], r[u], u \in bad2)
    <2>1. ChildAt(n[u], q[u], u \in bad)
      BY DEF Placed
    <2>2. ChildAt(n[u], q[u], u \in bad2)
      BY <2>1 DEF ChildAt
    <2>3. CASE u = p
      BY <1>0, <1>1, <2>3
    <2>4. CASE u # p
      BY <1>0, <1>1, <2>2, <2>4
    <2>5. QED
      BY <2>3, <2>4
  <1>4. QED
    BY <1>1, <1>2, <1>3 DEF Placed, r

-----------------------------------------------------------------------------
(* The turns of a pipeline that issue nothing.                             *)

\* Who does not await admission is not in line.
LEMMA NotInLine ==
    ASSUME NEW w \in Seq(Call), NEW q \in Seq(Call), NEW line, InLine(w, q, line), NEW t,
           \A c \in ToSet(q) \cup ToSet(w) : c.token # t
    PROVE  \A i \in 1 .. Len(line) : line[i][2] # t
  <1>1. /\ Len(w) \in Nat /\ Len(q) \in Nat /\ Len(line) = Len(w) + Len(q)
        /\ \A i \in 1 .. Len(w) : line[i] = Key(w[i])
        /\ \A i \in 1 .. Len(q) : line[Len(w) + i] = Key(q[i])
    BY LineIs
  <1>2. ASSUME NEW i \in 1 .. Len(line)
        PROVE  line[i][2] # t
    <2>1. CASE i \in 1 .. Len(w)
      <3>1. w[i] \in ToSet(w)
        BY <2>1 DEF ToSet
      <3>2. QED
        BY <1>1, <2>1, <3>1 DEF Key
    <2>2. CASE i \notin 1 .. Len(w)
      <3> DEFINE j == i - Len(w)
      <3>1. j \in 1 .. Len(q) /\ i = Len(w) + j
        BY <1>1, <2>2
      <3> HIDE DEF j
      <3>2. q[j] \in ToSet(q)
        BY <3>1 DEF ToSet
      <3>3. QED
        BY <1>1, <3>1, <3>2 DEF Key
    <2>3. QED
      BY <2>1, <2>2
  <1>3. QED
    BY <1>2

\* And the other way round.
LEMMA InLineIsAwaited ==
    ASSUME NEW w \in Seq(Call), NEW q \in Seq(Call), NEW line, InLine(w, q, line),
           NEW c \in ToSet(q) \cup ToSet(w)
    PROVE  \E i \in 1 .. Len(line) : line[i] = Key(c)
  <1>1. /\ Len(w) \in Nat /\ Len(q) \in Nat /\ Len(line) = Len(w) + Len(q)
        /\ \A i \in 1 .. Len(w) : line[i] = Key(w[i])
        /\ \A i \in 1 .. Len(q) : line[Len(w) + i] = Key(q[i])
    BY LineIs
  <1>2. CASE c \in ToSet(w)
    <2>1. PICK i \in DOMAIN w : c = w[i]
      BY <1>2 DEF ToSet
    <2>2. i \in 1 .. Len(w) /\ i \in 1 .. Len(line)
      BY <1>1, <2>1
    <2>3. QED
      BY <1>1, <2>1, <2>2
  <1>3. CASE c \in ToSet(q)
    <2>1. PICK i \in DOMAIN q : c = q[i]
      BY <1>3 DEF ToSet
    <2>2. i \in 1 .. Len(q) /\ Len(w) + i \in 1 .. Len(line)
      BY <1>1, <2>1
    <2>3. QED
      BY <1>1, <2>1, <2>2
  <1>4. QED
    BY <1>2, <1>3

\* settleRemaining: p aborts whatever still runs, and awaits it.
LEMMA DrainOrderly ==
    ASSUME NEW L, NEW q, NEW bad, NEW line, Orderly(L, q, bad, line),
           NEW p \in Node, q[p] \in {"joining", "resuming"},
           \A i \in 1 .. Len(line) : line[i][2] # p, NEW S
    PROVE  \E line2 \in Seq(Calls) :
              Orderly(Silenced(L, S), [q EXCEPT ![p] = "draining"], bad, line2)
  <1> DEFINE K == Silenced(L, S)
             r == [q EXCEPT ![p] = "draining"]
  <1>1. PICK line2 \in Seq(Calls) :
           Orderly(K, q, bad, line2) /\ Subline(line2, line) /\ K.node = L.node
    BY SilencedOrderly
  <1> HIDE DEF K
  <1>2. /\ Sound(K, line2, 0) /\ Admits(K) /\ Matched(q, line2)
        /\ q \in [Node -> Place] /\ Placed(K.node, q, bad)
    BY <1>1, OrderlyIs
  <1>3. Placed(K.node, r, bad)
    <2>1. "draining" \in Place /\ bad \subseteq bad
      BY DEF Place
    <2>2. IF p = Root THEN RootAt(K.node[p], "draining")
          ELSE ChildAt(K.node[p], "draining", p \in bad)
      <3>1. CASE p = Root
        BY <1>2, <3>1 DEF Placed, RootAt, Working
      <3>2. CASE p # Root
        <4>1. ChildAt(K.node[p], q[p], p \in bad)
          BY <1>2, <3>2 DEF Placed, Node
        <4>2. QED
          BY <3>2, <4>1 DEF ChildAt, Working
      <3>3. QED
        BY <3>1, <3>2
    <2>3. QED
      BY <1>2, <2>1, <2>2, MovedPlaced
  <1>4. r[p] = "draining" /\ \A t \in Node : t # p => r[t] = q[t]
    BY <1>2
  <1> HIDE DEF r
  <1>5. Matched(r, line2)
    <2>1. \A i \in 1 .. Len(line2) : line2[i] \in Calls /\ line2[i][2] # p
      BY <1>1 DEF Subline
    <2>2. \A i \in 1 .. Len(line2) : line2[i][2] \in Node /\ line2[i][2] # p
      BY <2>1 DEF Calls, Node
    <2>3. QED
      BY <1>2, <1>4, <2>2 DEF Matched
  <1>6. /\ SameTree(K.node, K.node) /\ Closing(K.node, K.node, q, r)
        /\ Ready(K.node, K.node, q, r)
    BY <1>4 DEF SameTree, Closing, Ready, Node
  <1>7. Orderly(K, r, bad, line2)
    BY <1>1, <1>2, <1>3, <1>5, <1>6, OrderlyStep
  <1>8. QED
    BY <1>7 DEF K, r

\* A revocation or a cancellation, while no pipeline moves.
LEMMA WithdrawnPlaced ==
    ASSUME NEW L \in Ledger, NEW K \in Ledger, NEW S, WithdrawnFrom(L, K, S),
           NEW q, NEW bad, Placed(L.node, q, bad)
    PROVE  /\ Placed(K.node, q, bad) /\ SameTree(L.node, K.node)
           /\ \A u \in Token : L.node[u].status \notin Open => K.node[u].status \notin Open
  <1>1. L.node \in [Node -> Grant] /\ K.node \in [Node -> Grant]
    BY DEF Ledger
  <1>2. ASSUME NEW u \in Node
        PROVE  /\ K.node[u].parent = L.node[u].parent /\ K.node[u].above = L.node[u].above
               /\ K.node[u].depth = L.node[u].depth /\ K.node[u].ceiling = L.node[u].ceiling
               /\ K.node[u].running = L.node[u].running
               /\ K.node[u].status =
                     IF u \in S /\ L.node[u].status = "active" THEN "revoked"
                     ELSE IF u \in S /\ L.node[u].status = "reserved" THEN "dropped"
                     ELSE L.node[u].status
    <2>1. /\ K.node[u] = [L.node[u] EXCEPT !.status = K.node[u].status]
          /\ K.node[u].status =
                IF u \in S /\ L.node[u].status = "active" THEN "revoked"
                ELSE IF u \in S /\ L.node[u].status = "reserved" THEN "dropped"
                ELSE L.node[u].status
      BY DEF WithdrawnFrom
    <2>2. L.node[u] \in Grant
      BY <1>1
    <2>3. QED
      BY <2>1, <2>2 DEF Grant
  <1>3. Token \subseteq Node /\ Root \in Node
    BY RootIsNode
  <1>4. RootAt(K.node[Root], q[Root])
    BY <1>2, <1>3 DEF Placed, RootAt
  <1>5. ASSUME NEW u \in Token
        PROVE  ChildAt(K.node[u], q[u], u \in bad)
    <2>1. ChildAt(L.node[u], q[u], u \in bad) /\ u \in Node
      BY <1>3 DEF Placed
    <2>2. /\ K.node[u].running = L.node[u].running
          /\ \/ K.node[u].status = L.node[u].status
             \/ L.node[u].status = "active" /\ K.node[u].status = "revoked"
             \/ L.node[u].status = "reserved" /\ K.node[u].status = "dropped"
      BY <1>2, <2>1
    <2>3. QED
      BY <2>1, <2>2 DEF ChildAt
  <1>6. Placed(K.node, q, bad)
    BY <1>4, <1>5 DEF Placed
  <1>7. SameTree(L.node, K.node)
    BY <1>2 DEF SameTree
  <1>8. \A u \in Token : L.node[u].status \notin Open => K.node[u].status \notin Open
    BY <1>2, <1>3 DEF Open
  <1>9. QED
    BY <1>6, <1>7, <1>8

\* `finish' and `finally': p, whose children were all taken, ends not joined.
LEMMA FinishOrderly ==
    ASSUME NEW L, NEW q, NEW bad, NEW line, Orderly(L, q, bad, line),
           NEW p \in Node, q[p] \in {"hosting", "joining", "draining"},
           \A u \in Token : L.node[u].parent = p => q[u] = "joined",
           NEW K, K = IF L.node[p].status = "active" THEN Withdrawn(L, Forest(L, p)) ELSE L
    PROVE  Orderly(K, [q EXCEPT ![p] = "closing"], bad \cup {p}, line)
  <1> DEFINE r == [q EXCEPT ![p] = "closing"]
             bad2 == bad \cup {p}
             n == L.node
             m == K.node
  <1>0. /\ Sound(L, line, 0) /\ Admits(L) /\ L \in Ledger /\ Good(L)
        /\ n \in [Node -> Grant] /\ TreeInv(n) /\ line \in Seq(Calls)
        /\ q \in [Node -> Place] /\ Placed(n, q, bad) /\ Matched(q, line) /\ Quiet(n, q)
    BY OrderlyIs
  <1>1. /\ Sound(K, line, 0) /\ Admits(K) /\ K \in Ledger
        /\ Placed(m, q, bad) /\ SameTree(n, m)
        /\ \A u \in Token : n[u].status \notin Open => m[u].status \notin Open
        /\ n[p].status = "active" => WithdrawnFrom(L, K, Forest(L, p))
        /\ n[p].status # "active" => m = n
    <2>1. CASE n[p].status = "active"
      <3>1. K = Withdrawn(L, Forest(L, p))
        BY <2>1
      <3>2. K \in Ledger /\ WithdrawnFrom(L, K, Forest(L, p))
        BY <1>0, <3>1, WithdrawnIs
      <3>3. Sound(K, line, 0) /\ Admits(K)
        BY <1>0, <3>1, RevokeSound
      <3>4. QED
        BY <1>0, <2>1, <3>2, <3>3, WithdrawnPlaced
    <2>2. CASE n[p].status # "active"
      <3>1. K = L
        BY <2>2
      <3>2. QED
        BY <1>0, <2>2, <3>1 DEF SameTree
    <2>3. QED
      BY <2>1, <2>2
  <1>2. \A u \in Token : n[u].parent = p => m[u].status \notin Open
    <2> SUFFICES ASSUME NEW u \in Token, n[u].parent = p
                 PROVE  m[u].status \notin Open
      OBVIOUS
    <2>1. ChildAt(n[u], "joined", u \in bad) /\ u \in Node
      BY <1>0, RootIsNode DEF Placed
    <2>2. n[u].status \in {"settled", "reserved", "dropped"}
      BY <2>1 DEF ChildAt
    <2>3. /\ p \in n[u].above /\ n[u].above = n[p].above \cup {p} /\ p \notin n[p].above
      BY <1>0, ParentIs
    <2>4. CASE n[u].status # "reserved"
      BY <1>1, <2>2, <2>4 DEF Open
    <2>5. CASE n[u].status = "reserved"
      <3>1. n[p].status = "active"
        BY <1>0, <2>1, <2>3, <2>5 DEF Good, AuthorityInv
      <3>2. u \in Forest(L, p)
        <4>1. \A v \in n[p].above : n[v].above \subseteq n[p].above
          BY <1>0 DEF TreeInv
        <4>2. \A v \in n[u].above : p \in n[v].above => FALSE
          BY <2>3, <4>1
        <4> DEFINE a == n[u].above
        <4>3. p \in a /\ \A v \in a : p \in n[v].above => n[v].status # "settled"
          BY <2>3, <4>2
        <4>4. u \in {w \in Token :
                        /\ p \in n[w].above
                        /\ \A v \in n[w].above : p \in n[v].above => n[v].status # "settled"}
          BY <4>3
        <4>5. QED
          BY <4>4 DEF Forest
      <3>3. m[u].status = "dropped"
        BY <1>1, <2>1, <2>5, <3>1, <3>2 DEF WithdrawnFrom
      <3>4. QED
        BY <3>3 DEF Open
    <2>6. QED
      BY <2>4, <2>5
  <1>3. \A w \in Token : p \in n[w].above => q[w] = "joined"
    BY <1>0, AllBelow
  <1>4. r[p] = "closing" /\ \A t \in Node : t # p => r[t] = q[t]
    BY <1>0
  <1>5. Placed(m, r, bad2)
    <2>1. "closing" \in Place /\ bad \subseteq bad2
      BY DEF Place
    <2>2. IF p = Root THEN RootAt(m[p], "closing") ELSE ChildAt(m[p], "closing", p \in bad2)
      <3>1. CASE p = Root
        BY <1>1, <3>1 DEF Placed, RootAt, Working
      <3>2. CASE p # Root
        <4>1. ChildAt(m[p], q[p], p \in bad)
          BY <1>1, <3>2 DEF Placed, Node
        <4>2. QED
          BY <3>2, <4>1 DEF ChildAt, Working
      <3>3. QED
        BY <3>1, <3>2
    <2> HIDE DEF bad2, m
    <2>3. QED
      BY <1>0, <1>1, <2>1, <2>2, MovedPlaced
  <1> HIDE DEF r, bad2
  <1>6. Matched(r, line)
    <2>1. \A t \in Token : q[t] \in {"starting", "resuming"} => r[t] = q[t]
      BY <1>4 DEF Node
    <2>2. QED
      BY <1>0, <2>1, MatchedMoved
  <1>7. Closing(n, m, q, r) /\ Ready(n, m, q, r)
    <2>1. \A u \in Token : u \in Node
      BY RootIsNode
    <2>2. Closing(n, m, q, r)
      BY <1>1, <1>4, <2>1 DEF Closing
    <2>3. \A u \in Token : p \in n[u].above => r[u] = "joined"
      BY <1>3, <1>4, <2>1
    <2>4. Ready(n, m, q, r)
      BY <1>2, <1>4, <2>3 DEF Ready
    <2>5. QED
      BY <2>2, <2>4
  <1>8. Orderly(K, r, bad2, line)
    BY <1>1, <1>5, <1>6, <1>7, OrderlyStep
  <1>9. QED
    BY <1>8 DEF r, bad2

\* p's pipeline returns without a call: what is below it was taken and settled.
LEMMA EndOrderly ==
    ASSUME NEW L, NEW q, NEW bad, NEW line, Orderly(L, q, bad, line),
           NEW p \in Node, q[p] = "hosting", NEW bad2, bad \subseteq bad2,
           L.node[p].depth < L.node[p].ceiling =>
              \A u \in Token : L.node[u].parent = p => u \notin bad
    PROVE  Orderly(L, [q EXCEPT ![p] = "closing"], bad2, line)
  <1> DEFINE n == L.node
             r == [q EXCEPT ![p] = "closing"]
  <1>0. /\ Sound(L, line, 0) /\ Admits(L) /\ n \in [Node -> Grant] /\ TreeInv(n)
        /\ line \in Seq(Calls) /\ q \in [Node -> Place] /\ Placed(n, q, bad)
        /\ Matched(q, line) /\ Quiet(n, q) /\ Nested(n)
        /\ None \notin Node /\ Token \subseteq Node
    BY OrderlyIs, LedgerAssumption, RootIsNode DEF Node
  <1>1. \A w \in Token : p \in n[w].above => q[w] = "joined"
    BY <1>0 DEF Quiet
  <1>2. ASSUME NEW u \in Token, n[u].parent = p
        PROVE  n[u].status \notin Open
    <2>1. p \in n[u].above
      BY <1>0, <1>2, ParentIs
    <2>2. u \notin bad
      BY <1>0, <1>2 DEF Nested
    <2>3. ChildAt(n[u], "joined", u \in bad)
      BY <1>0, <1>1, <2>1 DEF Placed
    <2>4. QED
      BY <2>2, <2>3 DEF ChildAt, Open
  <1>3. Placed(n, r, bad2)
    <2>1. "closing" \in Place /\ \A u \in Node : u # p => n[u] = n[u]
      BY DEF Place
    <2>2. IF p = Root THEN RootAt(n[p], "closing") ELSE ChildAt(n[p], "closing", p \in bad2)
      <3>1. CASE p = Root
        BY <1>0, <3>1 DEF Placed, RootAt, Working
      <3>2. CASE p # Root
        <4>1. ChildAt(n[p], q[p], p \in bad)
          BY <1>0, <3>2 DEF Placed, Node
        <4>2. QED
          BY <3>2, <4>1 DEF ChildAt, Working
      <3>3. QED
        BY <3>1, <3>2
    <2> HIDE DEF n
    <2>3. QED
      BY <1>0, <2>1, <2>2, MovedPlaced
  <1>4. r[p] = "closing" /\ \A t \in Node : t # p => r[t] = q[t]
    BY <1>0
  <1> HIDE DEF r
  <1>5. Matched(r, line)
    <2>1. \A t \in Token : q[t] \in {"starting", "resuming"} => r[t] = q[t]
      BY <1>0, <1>4
    <2>2. QED
      BY <1>0, <2>1, MatchedMoved
  <1>6. SameTree(n, n) /\ Closing(n, n, q, r) /\ Ready(n, n, q, r)
    BY <1>0, <1>1, <1>2, <1>4 DEF SameTree, Closing, Ready
  <1>7. Orderly(L, r, bad2, line)
    BY <1>0, <1>3, <1>5, <1>6, OrderlyStep
  <1>8. QED
    BY <1>7 DEF r

\* A pipeline whose admission call threw before it began.
LEMMA RefusedOrderly ==
    ASSUME NEW L, NEW q, NEW bad, NEW line, Orderly(L, q, bad, line),
           NEW t \in Node, q[t] = "starting", \A i \in 1 .. Len(line) : line[i][2] # t
    PROVE  Orderly(L, [q EXCEPT ![t] = "closed"], bad \cup {t}, line)
  <1> DEFINE n == L.node
             r == [q EXCEPT ![t] = "closed"]
             bad2 == bad \cup {t}
  <1>0. /\ Sound(L, line, 0) /\ Admits(L) /\ line \in Seq(Calls) /\ q \in [Node -> Place]
        /\ Placed(n, q, bad) /\ Matched(q, line) /\ Quiet(n, q) /\ Token \subseteq Node
    BY OrderlyIs, RootIsNode
  <1>1. t # Root
    BY <1>0 DEF Placed, RootAt, Working
  <1>2. Placed(n, r, bad2)
    <2>1. "closed" \in Place /\ bad \subseteq bad2 /\ \A u \in Node : u # t => n[u] = n[u]
      BY DEF Place
    <2>2. ChildAt(n[t], "closed", t \in bad2)
      <3>1. ChildAt(n[t], q[t], t \in bad)
        BY <1>0, <1>1 DEF Placed, Node
      <3>2. QED
        BY <3>1 DEF ChildAt, Working
    <2> HIDE DEF n, bad2
    <2>3. QED
      BY <1>0, <1>1, <2>1, <2>2, MovedPlaced
  <1>3. r[t] = "closed" /\ \A u \in Node : u # t => r[u] = q[u]
    BY <1>0
  <1> HIDE DEF r, bad2
  <1>4. Matched(r, line)
    <2>1. \A i \in 1 .. Len(line) : line[i] \in Calls /\ line[i][2] # t
      BY <1>0
    <2>2. \A i \in 1 .. Len(line) : line[i][2] \in Node /\ line[i][2] # t
      BY <2>1 DEF Calls, Node
    <2>3. QED
      BY <1>0, <1>3, <2>2 DEF Matched
  <1>5. SameTree(n, n) /\ Closing(n, n, q, r) /\ Ready(n, n, q, r)
    BY <1>0, <1>3 DEF SameTree, Closing, Ready
  <1>6. Orderly(L, r, bad2, line)
    BY <1>0, <1>2, <1>4, <1>5, OrderlyStep
  <1>7. QED
    BY <1>6 DEF r, bad2

\* The grant of a pipeline that returned is settled: it has joined its children.
LEMMA CloseOrderly ==
    ASSUME NEW L, NEW q, NEW bad, NEW line, Orderly(L, q, bad, line),
           NEW t \in Node, q[t] = "closing", NEW bad2, bad \subseteq bad2
    PROVE  /\ Joined(L, t)
           /\ Orderly(Settled(L, t), [q EXCEPT ![t] = "closed"], bad2, line)
  <1> DEFINE n == L.node
             K == Settled(L, t)
             m == K.node
             r == [q EXCEPT ![t] = "closed"]
  <1>0. /\ Sound(L, line, 0) /\ Admits(L) /\ line \in Seq(Calls) /\ q \in [Node -> Place]
        /\ Placed(n, q, bad) /\ Matched(q, line) /\ Quiet(n, q) /\ Clean(n, q)
        /\ Token \subseteq Node
    BY OrderlyIs, RootIsNode
  <1>1. Joined(L, t)
    BY <1>0 DEF Clean, Joined, Children, Open
  <1>2. n[t].status \in {"active", "revoked"}
    <2>1. CASE t = Root
      BY <1>0, <2>1 DEF Placed, RootAt
    <2>2. CASE t # Root
      <3>1. ChildAt(n[t], q[t], t \in bad)
        BY <1>0, <2>2 DEF Placed, Node
      <3>2. QED
        BY <3>1 DEF ChildAt, Working
    <2>3. QED
      BY <2>1, <2>2
  <1>3. Sound(K, line, 0) /\ Admits(K) /\ SettledFrom(L, K, t)
    BY <1>0, <1>1, <1>2, SettleSound
  <1> HIDE DEF K
  <1>4. /\ \A u \in Node : u # t => m[u] = n[u]
        /\ m[t].status = "settled" /\ m[t].parent = n[t].parent
        /\ m[t].above = n[t].above /\ m[t].depth = n[t].depth
        /\ m[t].ceiling = n[t].ceiling /\ ~m[t].running
    BY <1>3 DEF SettledFrom
  <1>5. Placed(m, r, bad2)
    <2>1. "closed" \in Place
      BY DEF Place
    <2>2. IF t = Root THEN RootAt(m[t], "closed") ELSE ChildAt(m[t], "closed", t \in bad2)
      BY <1>4 DEF RootAt, ChildAt, Working
    <2> HIDE DEF n, m
    <2>3. QED
      BY <1>0, <1>4, <2>1, <2>2, MovedPlaced
  <1>6. r[t] = "closed" /\ \A u \in Node : u # t => r[u] = q[u]
    BY <1>0
  <1> HIDE DEF r
  <1>7. Matched(r, line)
    <2>1. \A u \in Token : q[u] \in {"starting", "resuming"} => r[u] = q[u]
      BY <1>0, <1>6
    <2>2. QED
      BY <1>0, <2>1, MatchedMoved
  <1> HIDE DEF n, m
  <1>8. SameTree(n, m)
    BY <1>4 DEF SameTree
  <1>9. Closing(n, m, q, r)
    BY <1>0, <1>4, <1>6 DEF Closing, Open
  <1>10. Ready(n, m, q, r)
    BY <1>0, <1>6 DEF Ready
  <1>11. Orderly(K, r, bad2, line)
    BY <1>0, <1>3, <1>5, <1>7, <1>8, <1>9, <1>10, OrderlyStep DEF n, m
  <1>12. QED
    BY <1>1, <1>11 DEF r, K

\* A node takes a slot: its pipeline goes on, in its slot.
LEMMA TookPlaced ==
    ASSUME NEW n, NEW q, NEW bad, Placed(n, q, bad), NEW t \in Token, NEW m, Took(n, m, t)
    PROVE  /\ Placed(m, [q EXCEPT ![t] = "hosting"], bad)
           /\ SameTree(n, m)
           /\ \A u \in Token : n[u].status \notin Open => m[u].status \notin Open
  <1>1. /\ t \in Node /\ t # Root /\ "hosting" \in Place /\ bad \subseteq bad
        /\ \A u \in Node : u # t => m[u] = n[u]
        /\ ChildAt(m[t], "hosting", t \in bad)
        /\ \A u \in Token : u \in Node
    BY LedgerAssumption, RootIsNode DEF Took, Place, ChildAt, Working
  <1>2. Placed(m, [q EXCEPT ![t] = "hosting"], bad)
    BY <1>1, MovedPlaced
  <1>3. SameTree(n, m)
    BY DEF SameTree, Took
  <1>4. \A u \in Token : n[u].status \notin Open => m[u].status \notin Open
    BY <1>1 DEF Took, Live, Open
  <1>5. QED
    BY <1>2, <1>3, <1>4

\* A call joins the line: it is nowhere else in it.
LEMMA MatchedJoined ==
    ASSUME NEW q, NEW line \in Seq(Calls), Matched(q, line), NEW op \in {"start", "resume"},
           NEW t \in Token, \A i \in 1 .. Len(line) : line[i][2] # t, NEW r,
           r[t] = IF op = "start" THEN "starting" ELSE "resuming",
           \A i \in 1 .. Len(line) : r[line[i][2]] = q[line[i][2]]
    PROVE  Matched(r, Append(line, <<op, t>>)) /\ Append(line, <<op, t>>) \in Seq(Calls)
  <1> DEFINE a == Append(line, <<op, t>>)
             k == Len(line)
  <1>0. <<op, t>> \in Calls /\ k \in Nat
    BY DEF Calls
  <1>1. /\ a \in Seq(Calls) /\ Len(a) = k + 1 /\ a[k + 1] = <<op, t>>
        /\ \A i \in 1 .. k : a[i] = line[i]
    BY <1>0, AppendProperties
  <1> HIDE DEF a
  <1>2. \A i \in 1 .. Len(a) : i = k + 1 \/ i \in 1 .. k
    BY <1>0, <1>1
  <1>3. \A i \in 1 .. Len(a) : r[a[i][2]] = IF a[i][1] = "start" THEN "starting" ELSE "resuming"
    BY <1>1, <1>2 DEF Matched
  <1>4. Distinct(a)
    BY <1>1, <1>2 DEF Matched, Distinct
  <1>5. QED
    BY <1>1, <1>3, <1>4 DEF Matched, a

\* resumeForHostPhase: p, whose children were all taken and accepted, goes on
\* in a slot of its own, or asks for one.
LEMMA ResumeOrderly ==
    ASSUME NEW L, NEW q, NEW bad, NEW line, Orderly(L, q, bad, line),
           NEW p \in Node, q[p] = "joining", NEW at,
           \A u \in Token : L.node[u].parent = p => q[u] = "joined" /\ u \notin bad,
           NEW K, K = IF p = Root THEN L ELSE Entered(L, "resume", p, at)
    PROVE  \E line2 \in Seq(Calls) :
              Orderly(K, [q EXCEPT ![p] = IF p = Root \/ K.node[p].running
                                          THEN "hosting" ELSE "resuming"], bad, line2)
  <1> DEFINE n == L.node
             m == K.node
             x == IF p = Root \/ m[p].running THEN "hosting" ELSE "resuming"
             r == [q EXCEPT ![p] = x]
  <1>0. /\ Sound(L, line, 0) /\ Admits(L) /\ n \in [Node -> Grant] /\ TreeInv(n)
        /\ line \in Seq(Calls) /\ q \in [Node -> Place] /\ Placed(n, q, bad)
        /\ Matched(q, line) /\ Quiet(n, q) /\ Token \subseteq Node /\ Root \notin Token
    BY OrderlyIs, RootIsNode, LedgerAssumption
  <1>1. \A w \in Token : p \in n[w].above => q[w] = "joined"
    BY <1>0, AllBelow
  <1>2. ASSUME NEW u \in Token, n[u].parent = p
        PROVE  n[u].status \notin Open
    <2>1. ChildAt(n[u], "joined", u \in bad) /\ u \notin bad
      BY <1>0, <1>2 DEF Placed
    <2>2. QED
      BY <2>1 DEF ChildAt, Open
  <1>3. \A i \in 1 .. Len(line) : line[i] \in Calls /\ line[i][2] # p
    BY <1>0 DEF Matched
  <1>4. \A i \in 1 .. Len(line) : line[i][2] \in Node /\ line[i][2] # p
    BY <1>3 DEF Calls, Node
  <1>5. x \in Place /\ x \in {"hosting", "resuming"} /\ r[p] = x
        /\ \A t \in Node : t # p => r[t] = q[t]
    BY <1>0 DEF Place
  <1>6. ~n[p].running
    <2>1. CASE p = Root
      BY <1>0, <2>1 DEF TreeInv, RootInv
    <2>2. CASE p # Root
      <3>1. ChildAt(n[p], q[p], p \in bad)
        BY <1>0, <2>2 DEF Placed, Node
      <3>2. QED
        BY <3>1 DEF ChildAt
    <2>3. QED
      BY <2>1, <2>2
  <1>7. ASSUME NEW line2 \in Seq(Calls), Sound(K, line2, 0), Admits(K),
               Placed(m, r, bad), Matched(r, line2), SameTree(n, m),
               \A u \in Token : n[u].status \notin Open => m[u].status \notin Open
        PROVE  Orderly(K, r, bad, line2)
    <2> HIDE DEF r, x
    <2>1. Closing(n, m, q, r)
      BY <1>0, <1>5, <1>7 DEF Closing
    <2>2. Ready(n, m, q, r)
      BY <1>0, <1>1, <1>2, <1>5, <1>7 DEF Ready
    <2>3. QED
      BY <1>7, <2>1, <2>2, OrderlyStep
  <1>8. CASE p = Root
    <2>1. K = L /\ m = n /\ x = "hosting"
      BY <1>8
    <2>2. Placed(m, r, bad)
      <3>1. RootAt(m[p], x)
        BY <1>0, <1>8, <2>1 DEF Placed, RootAt, Working
      <3>2. bad \subseteq bad /\ \A u \in Node : u # p => m[u] = n[u]
        BY <2>1
      <3> HIDE DEF m, n, x
      <3>3. QED
        BY <1>0, <1>5, <1>8, <3>1, <3>2, MovedPlaced
    <2>3. Matched(r, line)
      BY <1>0, <1>4, <1>5 DEF Matched
    <2>4. SameTree(n, m) /\ \A u \in Token : n[u].status \notin Open => m[u].status \notin Open
      BY <2>1 DEF SameTree
    <2> HIDE DEF r, x, m, n
    <2>5. Orderly(K, r, bad, line)
      BY <1>0, <1>7, <2>1, <2>2, <2>3, <2>4
    <2>6. QED
      BY <1>0, <2>5 DEF r, x, m
  <1>9. CASE p # Root
    <2> DEFINE E == Entered(L, "resume", p, at)
               line2 == IF E.waiters = L.waiters THEN line ELSE Append(line, <<"resume", p>>)
    <2>1. p \in Token /\ K = E
      BY <1>9 DEF Node
    <2>2. /\ Sound(E, line2, 0) /\ Admits(E)
          /\ E.node = n \/ (Took(n, E.node, p) /\ E.waiters = L.waiters)
      BY <1>0, <2>1, EnterSound
    <2> HIDE DEF E
    <2>3. CASE Took(n, m, p) /\ line2 = line
      <3>1. x = "hosting"
        BY <2>3 DEF Took
      <3>2. /\ Placed(m, [q EXCEPT ![p] = "hosting"], bad) /\ SameTree(n, m)
            /\ \A u \in Token : n[u].status \notin Open => m[u].status \notin Open
        BY <1>0, <2>1, <2>3, TookPlaced
      <3>3. Placed(m, r, bad)
        BY <3>1, <3>2
      <3>4. Matched(r, line)
        BY <1>0, <1>4, <1>5 DEF Matched
      <3>5. Sound(K, line, 0) /\ Admits(K)
        BY <2>1, <2>2, <2>3
      <3> HIDE DEF r, x, m, n
      <3>6. Orderly(K, r, bad, line)
        BY <1>0, <1>7, <3>2, <3>3, <3>4, <3>5
      <3>7. QED
        BY <1>0, <3>6 DEF r, x, m
    <2>4. CASE m = n
      <3>1. x = "resuming"
        BY <1>6, <1>9, <2>4
      <3>2. Placed(m, r, bad)
        <4>1. ChildAt(n[p], q[p], p \in bad)
          BY <1>0, <2>1 DEF Placed
        <4>2. ChildAt(m[p], x, p \in bad)
          BY <2>4, <3>1, <4>1 DEF ChildAt, Working
        <4>3. bad \subseteq bad /\ \A u \in Node : u # p => m[u] = n[u]
          BY <2>4
        <4> HIDE DEF m, n, x
        <4>4. QED
          BY <1>0, <1>5, <1>9, <4>2, <4>3, MovedPlaced
      <3>3. SameTree(n, m) /\ \A u \in Token : n[u].status \notin Open => m[u].status \notin Open
        BY <2>4 DEF SameTree
      <3>4. Matched(r, line2) /\ line2 \in Seq(Calls)
        <4>1. Matched(r, line)
          BY <1>0, <1>4, <1>5 DEF Matched
        <4>2. /\ Matched(r, Append(line, <<"resume", p>>))
              /\ Append(line, <<"resume", p>>) \in Seq(Calls)
          <5>1. /\ \A i \in 1 .. Len(line) : line[i][2] # p
                /\ \A i \in 1 .. Len(line) : r[line[i][2]] = q[line[i][2]]
                /\ r[p] = "resuming" /\ "resume" \in {"start", "resume"}
            BY <1>4, <1>5, <3>1
          <5>2. r[p] = IF "resume" = "start" THEN "starting" ELSE "resuming"
            BY <5>1
          <5> HIDE DEF r
          <5>3. QED
            BY <1>0, <2>1, <5>1, <5>2, MatchedJoined
        <4>3. QED
          BY <1>0, <4>1, <4>2
      <3>5. Sound(K, line2, 0) /\ Admits(K)
        BY <2>1, <2>2
      <3> HIDE DEF r, x, m, n, line2
      <3>6. Orderly(K, r, bad, line2)
        BY <1>7, <3>2, <3>3, <3>4, <3>5
      <3>7. QED
        BY <3>4, <3>6 DEF r, x, m
    <2>5. QED
      BY <2>1, <2>2, <2>3, <2>4
  <1>10. QED
    BY <1>8, <1>9

\* The call that was woken first goes on, and fails or takes its slot.
LEMMA ContinueOrderly ==
    ASSUME NEW L, NEW q, NEW bad, NEW line, Orderly(L, q, bad, line), L.woken # <<>>, NEW at,
           NEW t, t = Head(L.woken).token, NEW K, K = Continued(L, at)
    PROVE  /\ t \in Token
           /\ \E line2 \in Seq(Calls) :
                 Orderly(K, IF K.node[t].running THEN [q EXCEPT ![t] = "hosting"] ELSE q, bad, line2)
  <1> DEFINE n == L.node
             m == K.node
             line2 == Tail(line)
  <1>0. /\ Sound(L, line, 0) /\ Admits(L)
        /\ L.woken \in Seq(Call) /\ L.waiters \in Seq(Call) /\ InLine(L.woken, L.waiters, line)
        /\ line \in Seq(Calls) /\ q \in [Node -> Place] /\ Placed(n, q, bad)
        /\ Matched(q, line) /\ Token \subseteq Node /\ Root \notin Token
    BY OrderlyIs, RootIsNode, LedgerAssumption
  <1>1. Head(L.woken) \in Call /\ Len(L.woken) \in Nat /\ Len(L.woken) # 0
    BY <1>0, HeadTailProperties, EmptySeq
  <1>2. t \in Token
    BY <1>1 DEF Call
  <1>3. Head(line)[2] = t
    BY <1>0, LineLeft DEF Key
  <1>4. /\ Len(line) \in Nat /\ Len(line) # 0 /\ line # <<>>
    BY <1>0, <1>1, LineIs, EmptySeq
  <1>5. /\ line2 \in Seq(Calls) /\ Len(line2) = Len(line) - 1
        /\ \A i \in 1 .. Len(line2) : line2[i] = line[i + 1]
        /\ line[1][2] = t
    BY <1>0, <1>3, <1>4, HeadTailProperties
  <1> HIDE DEF line2
  <1>6. \A i \in 1 .. Len(line2) : i + 1 \in 1 .. Len(line) /\ i + 1 # 1
    BY <1>4, <1>5
  <1>7. 1 \in 1 .. Len(line)
    BY <1>4
  <1>8. q[t] \in {"starting", "resuming"}
    BY <1>5, <1>7, <1>0 DEF Matched
  <1>9. Matched(q, line2)
    <2>1. Distinct(line2)
      <3> SUFFICES ASSUME NEW i \in 1 .. Len(line2), NEW j \in 1 .. Len(line2),
                          line2[i][2] = line2[j][2]
                   PROVE  i = j
        BY DEF Distinct
      <3>1. i + 1 = j + 1
        BY <1>0, <1>5, <1>6 DEF Matched, Distinct
      <3>2. QED
        BY <3>1
    <2>2. QED
      BY <1>0, <1>5, <1>6, <2>1 DEF Matched
  <1>10. \A i \in 1 .. Len(line2) : line2[i][2] # t
    BY <1>0, <1>5, <1>6, <1>7 DEF Matched, Distinct
  <1>11. /\ Sound(K, line2, 0) /\ Admits(K)
         /\ m = n \/ Took(n, m, t)
    BY <1>0, ContinueSound DEF line2
  <1>12. ~n[t].running
    <2>1. ChildAt(n[t], q[t], t \in bad)
      BY <1>0, <1>2 DEF Placed
    <2>2. QED
      BY <1>8, <2>1 DEF ChildAt
  <1> HIDE DEF n, m
  <1>13. CASE m = n
    <2>1. Placed(m, q, bad) /\ SameTree(n, m) /\ Closing(n, m, q, q) /\ Ready(n, m, q, q)
      BY <1>0, <1>13 DEF SameTree, Closing, Ready
    <2>2. Orderly(K, q, bad, line2)
      BY <1>9, <1>11, <2>1, OrderlyStep DEF n, m
    <2>3. QED
      BY <1>2, <1>5, <1>12, <1>13, <2>2 DEF m
  <1>14. CASE Took(n, m, t)
    <2> DEFINE r == [q EXCEPT ![t] = "hosting"]
    <2>1. /\ Placed(m, r, bad) /\ SameTree(n, m)
          /\ \A u \in Token : n[u].status \notin Open => m[u].status \notin Open
      BY <1>0, <1>2, <1>14, TookPlaced
    <2>2. r[t] = "hosting" /\ \A u \in Node : u # t => r[u] = q[u]
      BY <1>0, <1>2
    <2>3. m[t].running
      BY <1>14 DEF Took
    <2> HIDE DEF r
    <2>4. Matched(r, line2)
      <3>1. \A i \in 1 .. Len(line2) : line2[i] \in Calls /\ line2[i][2] # t
        BY <1>5, <1>10
      <3>2. \A i \in 1 .. Len(line2) : line2[i][2] \in Node /\ line2[i][2] # t
        BY <1>0, <3>1 DEF Calls
      <3>3. QED
        BY <1>9, <2>2, <3>2 DEF Matched
    <2>5. Closing(n, m, q, r) /\ Ready(n, m, q, r)
      BY <1>0, <1>8, <2>1, <2>2 DEF Closing, Ready
    <2>6. Orderly(K, r, bad, line2)
      BY <1>11, <2>1, <2>4, <2>5, OrderlyStep DEF n, m
    <2>7. QED
      BY <1>2, <1>5, <2>3, <2>6 DEF r, m
  <1>15. QED
    BY <1>11, <1>13, <1>14

\* A waiter whose grant expired leaves the line.
LEMMA ExpireOrderly ==
    ASSUME NEW L, NEW q, NEW bad, NEW line, Orderly(L, q, bad, line),
           NEW i \in 1 .. Len(L.waiters)
    PROVE  \E line2 \in Seq(Calls) :
              Orderly([L EXCEPT !.waiters = RemoveAt(@, i)], q, bad, line2)
  <1> DEFINE K == [L EXCEPT !.waiters = RemoveAt(@, i)]
             j == Len(L.woken) + i
             line2 == RemoveAt(line, j)
  <1>0. /\ Sound(L, line, 0) /\ Admits(L) /\ L \in Ledger /\ line \in Seq(Calls)
        /\ L.waiters \in Seq(Call) /\ L.woken \in Seq(Call) /\ InLine(L.woken, L.waiters, line)
        /\ Placed(L.node, q, bad) /\ Matched(q, line)
        /\ Nested(L.node) /\ Quiet(L.node, q) /\ Clean(L.node, q)
    BY OrderlyIs
  <1>1. Sound(K, line2, 0) /\ Admits(K)
    BY <1>0, AbortSound
  <1>2. K.node = L.node
    BY <1>0 DEF Ledger
  <1>3. j \in 1 .. Len(line) /\ Len(line) \in Nat
    <2> DEFINE x == Len(L.woken)
               y == Len(L.waiters)
               z == Len(line)
    <2>1. x \in Nat /\ y \in Nat /\ z = x + y
      BY <1>0, LineIs
    <2>2. i \in 1 .. y
      OBVIOUS
    <2> HIDE DEF x, y, z
    <2>3. x + i \in 1 .. z /\ z \in Nat
      BY <2>1, <2>2
    <2>4. QED
      BY <2>3 DEF x, z
  <1> HIDE DEF j
  <1>4. /\ line2 \in Seq(Calls) /\ Len(line2) = Len(line) - 1
        /\ \A x \in 1 .. Len(line) - 1 : line2[x] = IF x < j THEN line[x] ELSE line[x + 1]
    BY <1>0, <1>3, RemovedIs
  <1> HIDE DEF line2
  <1> DEFINE e(x) == IF x < j THEN x ELSE x + 1
  <1>5. \A x \in 1 .. Len(line2) : e(x) \in 1 .. Len(line) /\ line2[x] = line[e(x)]
    BY <1>3, <1>4
  <1>6. \A x, y \in 1 .. Len(line2) : e(x) = e(y) => x = y
    BY <1>3
  <1> HIDE DEF e
  <1>7. Subline(line2, line)
    BY <1>5, <1>6 DEF Subline, Distinct
  <1>8. Matched(q, line2)
    BY <1>0, <1>7, MatchedPart
  <1> HIDE DEF K
  <1>9. Orderly(K, q, bad, line2)
    BY <1>0, <1>1, <1>2, <1>8 DEF Orderly
  <1>10. QED
    BY <1>4, <1>9 DEF K

\* cancelTask: the whole tree is withdrawn, and only woken calls stay in line.
LEMMA CancelOrderly ==
    ASSUME NEW L, NEW q, NEW bad, NEW line, Orderly(L, q, bad, line)
    PROVE  \E line2 \in Seq(Calls) : Orderly(Cancelled(L), q, bad, line2)
  <1> DEFINE K == Cancelled(L)
             k == Len(L.woken)
             line2 == SubSeq(line, 1, k)
  <1>0. /\ Sound(L, line, 0) /\ Admits(L) /\ L \in Ledger /\ line \in Seq(Calls)
        /\ L.waiters \in Seq(Call) /\ L.woken \in Seq(Call) /\ InLine(L.woken, L.waiters, line)
        /\ Placed(L.node, q, bad) /\ Matched(q, line)
    BY OrderlyIs
  <1>1. Sound(K, line2, 0) /\ Admits(K) /\ K \in Ledger /\ WithdrawnFrom(L, K, Node)
    BY <1>0, CancelSound, CancelledIs
  <1> HIDE DEF K
  <1>2. /\ Placed(K.node, q, bad) /\ SameTree(L.node, K.node)
        /\ \A u \in Token : L.node[u].status \notin Open => K.node[u].status \notin Open
    BY <1>0, <1>1, WithdrawnPlaced
  <1>3. k \in Nat /\ k <= Len(line) /\ Len(line) \in Nat
    <2> DEFINE y == Len(L.waiters)
               z == Len(line)
    <2>1. k \in Nat /\ y \in Nat /\ z = k + y
      BY <1>0, LineIs
    <2> HIDE DEF k, y, z
    <2>2. k <= z /\ z \in Nat
      BY <2>1
    <2>3. QED
      BY <2>1, <2>2 DEF z
  <1> HIDE DEF k
  <1>4. /\ line2 \in Seq(Calls) /\ Len(line2) = k
        /\ \A i \in 1 .. k : line2[i] = line[i] /\ i \in 1 .. Len(line)
    BY <1>0, <1>3
  <1> HIDE DEF line2
  <1>5. Subline(line2, line)
    BY <1>4 DEF Subline, Distinct
  <1>6. Matched(q, line2)
    BY <1>0, <1>5, MatchedPart
  <1>7. Closing(L.node, K.node, q, q) /\ Ready(L.node, K.node, q, q)
    BY <1>2 DEF Closing, Ready
  <1>8. Orderly(K, q, bad, line2)
    BY <1>1, <1>2, <1>6, <1>7, OrderlyStep DEF k, line2
  <1>9. QED
    BY <1>4, <1>8 DEF K

-----------------------------------------------------------------------------
(* The turn that issues tokens and launches children.                      *)

\* The tokens of S were issued below p, and p holds no slot.
Issues(n, m, p, S) ==
    /\ \A u \in S : /\ n[u].status = "unissued" /\ m[u].status = "reserved"
                    /\ m[u].parent = p /\ m[u].above = n[p].above \cup {p}
                    /\ ~m[u].running
    /\ \A u \in Node \ S : u # p => m[u] = n[u]
    /\ m[p].status = n[p].status /\ m[p].parent = n[p].parent /\ m[p].above = n[p].above
    /\ m[p].depth = n[p].depth /\ m[p].ceiling = n[p].ceiling /\ ~m[p].running
    /\ n[p].depth < n[p].ceiling

\* Where everybody is when the children of S begin and nobody was admitted yet.
Begun(q, p, S) ==
    [t \in Node |-> IF t = p THEN "joining" ELSE IF t \in S THEN "starting" ELSE q[t]]

\* Issuing tokens to a node that hosts or joins keeps order.
LEMMA IssuesOrderly ==
    ASSUME NEW L, NEW q, NEW bad, NEW line, Orderly(L, q, bad, line),
           NEW p \in Node, q[p] \in {"hosting", "joining"}, NEW S \in SUBSET Token,
           NEW N, Sound(N, line, 0), Admits(N), Issues(L.node, N.node, p, S), p \notin S
    PROVE  Orderly(N, Begun(q, p, S), bad, line)
  <1> DEFINE n == L.node
             m == N.node
             r == Begun(q, p, S)
  <1>0. /\ n \in [Node -> Grant] /\ TreeInv(n) /\ line \in Seq(Calls)
        /\ q \in [Node -> Place] /\ Placed(n, q, bad) /\ Nested(n)
        /\ Matched(q, line) /\ Quiet(n, q) /\ Clean(n, q)
        /\ Token \subseteq Node /\ Root \notin Token /\ Root \in Node /\ None \notin Node
    BY OrderlyIs, RootIsNode, LedgerAssumption DEF Node
  <1>1. /\ r \in [Node -> Place] /\ r[p] = "joining"
        /\ \A u \in S : r[u] = "starting"
        /\ \A u \in Node : u # p /\ u \notin S => r[u] = q[u]
    BY <1>0 DEF Begun, Place
  <1> HIDE DEF r, n, m
  <1>2. Issues(n, m, p, S)
    BY DEF n, m
  <1>3. \A u \in S : q[u] = "idle"
    BY <1>0, <1>2 DEF Issues, Placed, ChildAt
  <1>4. \A u \in Node : \A v \in n[u].above : v \in Node /\ v \notin S
    <2> SUFFICES ASSUME NEW u \in Node, NEW v \in n[u].above
                 PROVE  v \in Node /\ v \notin S
      OBVIOUS
    <2>1. v \in Node
      BY <1>0 DEF Grant
    <2>2. n[v].status \in Published
      BY <1>0, AboveIs
    <2>3. QED
      BY <1>2, <2>1, <2>2 DEF Issues, Published
  <1>5. Placed(m, r, bad)
    <2>1. RootAt(m[Root], r[Root])
      <3>1. CASE p = Root
        BY <1>0, <1>1, <1>2, <3>1 DEF Issues, Placed, RootAt, Working
      <3>2. CASE p # Root
        <4>1. m[Root] = n[Root] /\ r[Root] = q[Root]
          BY <1>0, <1>1, <1>2, <3>2 DEF Issues
        <4>2. QED
          BY <1>0, <4>1 DEF Placed
      <3>3. QED
        BY <3>1, <3>2
    <2>2. ASSUME NEW u \in Token
          PROVE  ChildAt(m[u], r[u], u \in bad)
      <3>0. ChildAt(n[u], q[u], u \in bad) /\ u \in Node
        BY <1>0 DEF Placed
      <3>1. CASE u \in S
        BY <1>1, <1>2, <3>1 DEF Issues, ChildAt, Working
      <3>2. CASE u = p
        <4>1. m[u].status = n[u].status /\ ~m[u].running /\ r[u] = "joining"
          BY <1>1, <1>2, <3>2 DEF Issues
        <4>2. n[u].status \in {"active", "revoked"}
          BY <3>0, <3>2 DEF ChildAt, Working
        <4>3. QED
          BY <4>1, <4>2 DEF ChildAt, Working
      <3>3. CASE u \notin S /\ u # p
        <4>1. m[u] = n[u] /\ r[u] = q[u]
          BY <1>1, <1>2, <3>0, <3>3 DEF Issues
        <4>2. QED
          BY <3>0, <4>1
      <3>4. QED
        BY <3>1, <3>2, <3>3
    <2>3. QED
      BY <1>1, <2>1, <2>2 DEF Placed
  <1>6. Nested(m)
    <2> SUFFICES ASSUME NEW u \in Token, m[u].parent # None
                 PROVE  m[m[u].parent].depth < m[m[u].parent].ceiling
      BY DEF Nested
    <2>1. CASE u \in S
      BY <1>2, <2>1 DEF Issues
    <2>2. CASE u \notin S
      <3>1. m[u].parent = n[u].parent
        BY <1>0, <1>2, <2>2 DEF Issues
      <3> DEFINE v == n[u].parent
      <3>2. v \in Node
        BY <1>0, <3>1 DEF Grant
      <3>3. v \notin S
        BY <1>0, <1>4, <3>2, ParentIs
      <3>4. m[v].depth = n[v].depth /\ m[v].ceiling = n[v].ceiling
        BY <1>2, <3>2, <3>3 DEF Issues
      <3>5. n[v].depth < n[v].ceiling
        BY <1>0, <3>1 DEF Nested
      <3>6. QED
        BY <3>1, <3>4, <3>5
    <2>3. QED
      BY <2>1, <2>2
  <1>7. Quiet(m, r)
    <2> SUFFICES ASSUME NEW v \in Node, r[v] \notin {"joining", "draining"},
                        NEW w \in Token, v \in m[w].above
                 PROVE  r[w] = "joined"
      BY DEF Quiet
    <2>0. v # p /\ w \in Node
      BY <1>0, <1>1
    <2>1. CASE w \in S
      <3>1. v \in n[p].above
        BY <1>2, <2>0, <2>1 DEF Issues
      <3>2. v \notin S /\ p \in Token
        BY <1>0, <1>4, <3>1, AboveIs
      <3>3. q[p] = "joined"
        BY <1>0, <1>1, <2>0, <3>1, <3>2 DEF Quiet
      <3>4. QED
        BY <3>3
    <2>2. CASE w \notin S
      <3>1. v \in n[w].above
        BY <1>2, <2>0, <2>2 DEF Issues
      <3>2. q[v] = r[v]
        BY <1>1, <1>4, <2>0, <3>1
      <3>3. q[w] = "joined"
        BY <1>0, <3>1, <3>2 DEF Quiet
      <3>4. QED
        BY <1>1, <2>0, <2>2, <3>3
    <2>3. QED
      BY <2>1, <2>2
  <1>8. Clean(m, r)
    <2> SUFFICES ASSUME NEW v \in Node, r[v] \in {"closing", "resuming"},
                        NEW w \in Token, m[w].parent = v
                 PROVE  m[w].status \notin Open
      BY DEF Clean
    <2>1. v # p /\ v \notin S /\ w \in Node
      BY <1>0, <1>1
    <2>2. q[v] = r[v]
      BY <1>1, <2>1
    <2>3. w \notin S
      BY <1>2, <2>1 DEF Issues
    <2>4. m[w].parent = n[w].parent /\ m[w].status = n[w].status
      BY <1>2, <2>1, <2>3 DEF Issues
    <2>5. QED
      BY <1>0, <2>2, <2>4 DEF Clean
  <1>9. Matched(r, line)
    <2>1. \A t \in Token : q[t] \in {"starting", "resuming"} => r[t] = q[t]
      BY <1>0, <1>1, <1>3
    <2>2. QED
      BY <1>0, <2>1, MatchedMoved
  <1>10. QED
    BY <1>5, <1>6, <1>7, <1>8, <1>9 DEF Orderly, m, r

\* t's call of waitForStart left K behind: t is admitted or in line or refused.
Begins(L, q, bad, line, t, K) ==
    /\ \A u \in Node : u # t => K.node[u] = L.node[u]
    /\ \E line2 \in Seq(Calls) :
          /\ Orderly(K, IF K.node[t].running THEN [q EXCEPT ![t] = "hosting"] ELSE q, bad, line2)
          /\ \A i \in 1 .. Len(line2) :
                line2[i][2] = t \/ \E j \in 1 .. Len(line) : line2[i] = line[j]

\* One child's call of waitForStart keeps order.
LEMMA EnterOrderly ==
    ASSUME NEW L, NEW q, NEW bad, NEW line, Orderly(L, q, bad, line),
           NEW t \in Token, q[t] = "starting", \A i \in 1 .. Len(line) : line[i][2] # t,
           NEW at, NEW K, K = Entered(L, "start", t, at)
    PROVE  Begins(L, q, bad, line, t, K)
  <1> DEFINE n == L.node
             m == K.node
             a == Append(line, <<"start", t>>)
             line2 == IF K.waiters = L.waiters THEN line ELSE a
  <1>0. /\ Sound(L, line, 0) /\ Admits(L)
        /\ line \in Seq(Calls) /\ q \in [Node -> Place] /\ Placed(n, q, bad)
        /\ Matched(q, line) /\ Token \subseteq Node /\ Root \notin Token
    BY OrderlyIs, RootIsNode, LedgerAssumption
  <1>1. /\ Sound(K, line2, 0) /\ Admits(K)
        /\ m = n \/ (Took(n, m, t) /\ K.waiters = L.waiters)
    BY <1>0, EnterSound
  <1>2. Matched(q, a) /\ a \in Seq(Calls)
    <2>1. "start" \in {"start", "resume"} /\ q[t] = IF "start" = "start" THEN "starting" ELSE "resuming"
      OBVIOUS
    <2>2. \A i \in 1 .. Len(line) : q[line[i][2]] = q[line[i][2]]
      OBVIOUS
    <2>3. QED
      BY ONLY <1>0, <2>1, <2>2, t \in Token, \A i \in 1 .. Len(line) : line[i][2] # t, MatchedJoined
  <1>3. \A i \in 1 .. Len(a) : a[i][2] = t \/ \E j \in 1 .. Len(line) : a[i] = line[j]
    <2> DEFINE k == Len(line)
    <2>1. k \in Nat /\ <<"start", t>> \in Calls
      BY <1>0 DEF Calls
    <2>2. Len(a) = k + 1 /\ a[k + 1] = <<"start", t>> /\ \A i \in 1 .. k : a[i] = line[i]
      BY <1>0, <2>1, AppendProperties
    <2> HIDE DEF a
    <2>3. \A i \in 1 .. Len(a) : i = k + 1 \/ i \in 1 .. k
      BY <2>1, <2>2
    <2>4. QED
      BY <2>2, <2>3
  <1>4. /\ line2 \in Seq(Calls) /\ Matched(q, line2)
        /\ \A i \in 1 .. Len(line2) : line2[i][2] = t \/ \E j \in 1 .. Len(line) : line2[i] = line[j]
    <2> HIDE DEF a
    <2>1. \A i \in 1 .. Len(line) : \E j \in 1 .. Len(line) : line[i] = line[j]
      OBVIOUS
    <2>2. QED
      BY <1>0, <1>2, <1>3, <2>1
  <1>5. ~n[t].running
    <2>1. ChildAt(n[t], q[t], t \in bad)
      BY <1>0 DEF Placed
    <2>2. QED
      BY <2>1 DEF ChildAt
  <1>6. m = n \/ (Took(n, m, t) /\ line2 = line)
    BY <1>1
  <1> HIDE DEF n, m, line2
  <1>7. CASE m = n
    <2>1. Placed(m, q, bad) /\ SameTree(n, m) /\ Closing(n, m, q, q) /\ Ready(n, m, q, q)
      BY <1>0, <1>7 DEF SameTree, Closing, Ready
    <2>2. Orderly(K, q, bad, line2)
      BY <1>1, <1>4, <2>1, OrderlyStep DEF n, m
    <2>3. QED
      BY <1>4, <1>5, <1>7, <2>2 DEF Begins, n, m
  <1>8. CASE Took(n, m, t) /\ line2 = line
    <2> DEFINE r == [q EXCEPT ![t] = "hosting"]
    <2>1. /\ Placed(m, r, bad) /\ SameTree(n, m)
          /\ \A u \in Token : n[u].status \notin Open => m[u].status \notin Open
      BY <1>0, <1>8, TookPlaced
    <2>2. r[t] = "hosting" /\ \A u \in Node : u # t => r[u] = q[u]
      BY <1>0
    <2>3. m[t].running /\ \A u \in Node : u # t => m[u] = n[u]
      BY <1>8 DEF Took
    <2> HIDE DEF r
    <2>4. Matched(r, line2)
      <3>1. \A i \in 1 .. Len(line) : line[i] \in Calls /\ line[i][2] # t
        BY <1>0
      <3>2. \A i \in 1 .. Len(line) : line[i][2] \in Node /\ line[i][2] # t
        BY <1>0, <3>1 DEF Calls
      <3>3. QED
        BY <1>0, <1>8, <2>2, <3>2 DEF Matched
    <2>5. Closing(n, m, q, r) /\ Ready(n, m, q, r)
      BY <1>0, <2>1, <2>2 DEF Closing, Ready
    <2>6. Orderly(K, r, bad, line2)
      BY <1>1, <2>1, <2>4, <2>5, OrderlyStep DEF n, m
    <2>7. QED
      BY <1>4, <2>3, <2>6 DEF Begins, r, m, n
  <1>9. QED
    BY <1>6, <1>7, <1>8

\* Where the children launched so far are, in the ledger with nodes m.
Admitted(q, m, S) ==
    [t \in Node |-> IF t \in S THEN (IF m[t].running THEN "hosting" ELSE "starting") ELSE q[t]]

\* The children of one turn call waitForStart in order.
LEMMA LaunchOrderly ==
    ASSUME NEW N, NEW q, NEW bad, NEW line, Orderly(N, q, bad, line),
           NEW n \in Nat, NEW order \in [1 .. n -> Token],
           \A i, j \in 1 .. n : order[i] = order[j] => i = j,
           \A i \in 1 .. n : q[order[i]] = "starting",
           \A i \in 1 .. n : \A j \in 1 .. Len(line) : line[j][2] # order[i],
           NEW S, S = {order[i] : i \in 1 .. n}, NEW at
    PROVE  \E line2 \in Seq(Calls) :
              Orderly(LaunchedFrom(N, order, at),
                      Admitted(q, LaunchedFrom(N, order, at).node, S), bad, line2)
  <1>0. /\ Sound(N, line, 0) /\ Admits(N) /\ N \in Ledger /\ line \in Seq(Calls)
        /\ q \in [Node -> Place] /\ Token \subseteq Node
    BY OrderlyIs, RootIsNode
  <1>1. N \in SoundLedger
    BY <1>0 DEF SoundLedger
  <1>10. PICK h \in [0 .. n -> SoundLedger] : Between(h, N, n, order, at)
    <2>1. n \in Nat /\ order \in [1 .. n -> Token]
      OBVIOUS
    <2>2. QED
      BY ONLY <1>1, <2>1, LaunchedInOrder
  <1>2. /\ h[0] = N
        /\ \A k \in 1 .. n : h[k] = Entered(h[k - 1], "start", order[k], at)
        /\ h[n] = LaunchedFrom(N, order, at)
    BY <1>10 DEF Between
  <1> DEFINE First(k) == {order[i] : i \in 1 .. k}
             R(k) == Admitted(q, h[k].node, First(k))
             Waits(k, l) == \A i \in (k + 1) .. n : \A j \in 1 .. Len(l) : l[j][2] # order[i]
             Upto(k) == \E l \in Seq(Calls) : Orderly(h[k], R(k), bad, l) /\ Waits(k, l)
             B == {k \in 0 .. n : ~Upto(k)}
  <1>3. Upto(0)
    <2>1. First(0) = {}
      OBVIOUS
    <2>2. R(0) = q
      BY <1>0, <2>1 DEF Admitted
    <2>3. Waits(0, line)
      OBVIOUS
    <2> HIDE DEF R, Waits
    <2>4. QED
      BY <1>0, <1>2, <2>2, <2>3
  <1>4. ASSUME NEW k \in 1 .. n, Upto(k - 1)
        PROVE  Upto(k)
    <2> DEFINE t == order[k]
               L == h[k - 1]
               M == h[k]
               r == R(k - 1)
    <2>1. PICK l \in Seq(Calls) : Orderly(L, r, bad, l) /\ Waits(k - 1, l)
      BY <1>4
    <2>2. t \in Token /\ t \in Node
      BY <1>0
    <2>3. \A i \in 1 .. (k - 1) : i \in 1 .. n /\ i # k
      OBVIOUS
    <2>4. t \notin First(k - 1)
      BY <2>3
    <2>5. r[t] = "starting"
      BY <2>2, <2>4 DEF Admitted
    <2>6. \A j \in 1 .. Len(l) : l[j][2] # t
      <3>1. k \in ((k - 1) + 1) .. n
        OBVIOUS
      <3>2. QED
        BY <2>1, <3>1
    <2>7. M = Entered(L, "start", t, at)
      BY <1>2
    <2> DEFINE s == IF M.node[t].running THEN [r EXCEPT ![t] = "hosting"] ELSE r
    <2> HIDE DEF R, L, M, r, t, First, Waits
    <2>13. Orderly(L, r, bad, l)
      BY <2>1
    <2>14. t \in Token /\ r[t] = "starting"
      BY <2>2, <2>5
    <2>15. Begins(L, r, bad, l, t, M)
      BY ONLY <2>6, <2>7, <2>13, <2>14, EnterOrderly
    <2>8. PICK l2 \in Seq(Calls) :
             /\ Orderly(M, s, bad, l2)
             /\ \A i \in 1 .. Len(l2) : l2[i][2] = t \/ \E j \in 1 .. Len(l) : l2[i] = l[j]
      BY <2>15 DEF Begins
    <2>9. \A u \in Node : u # t => M.node[u] = L.node[u]
      BY <2>15 DEF Begins
    <2>10. Waits(k, l2)
      <3> SUFFICES ASSUME NEW i \in (k + 1) .. n, NEW j \in 1 .. Len(l2)
                   PROVE  l2[j][2] # order[i]
        BY DEF Waits
      <3>1. i \in ((k - 1) + 1) .. n /\ i \in 1 .. n /\ i # k
        OBVIOUS
      <3>2. t # order[i]
        BY <3>1 DEF t
      <3>3. \A x \in 1 .. Len(l) : l[x][2] # order[i]
        BY <2>1, <3>1 DEF Waits
      <3>5. l2[j][2] = t \/ \E x \in 1 .. Len(l) : l2[j] = l[x]
        BY ONLY <2>8
      <3>4. QED
        BY ONLY <3>2, <3>3, <3>5
    <2>11. s = R(k)
      <3>1. First(k) = First(k - 1) \cup {t}
        <4>1. \A i \in 1 .. k : i = k \/ i \in 1 .. (k - 1)
          OBVIOUS
        <4>2. k \in 1 .. k /\ \A i \in 1 .. (k - 1) : i \in 1 .. k
          OBVIOUS
        <4>3. QED
          BY <4>1, <4>2 DEF First, t
      <3>2. r = [u \in Node |-> IF u \in First(k - 1)
                                THEN (IF L.node[u].running THEN "hosting" ELSE "starting")
                                ELSE q[u]]
        BY DEF r, R, L, Admitted
      <3>3. R(k) = [u \in Node |-> IF u \in First(k)
                                   THEN (IF M.node[u].running THEN "hosting" ELSE "starting")
                                   ELSE q[u]]
        BY DEF R, M, Admitted
      <3>4. \A u \in Node : s[u] = R(k)[u]
        <4> SUFFICES ASSUME NEW u \in Node PROVE s[u] = R(k)[u]
          OBVIOUS
        <4>1. CASE u = t
          <5>1. R(k)[u] = IF M.node[u].running THEN "hosting" ELSE "starting"
            BY <3>1, <3>3, <4>1
          <5>2. s[u] = IF M.node[u].running THEN "hosting" ELSE "starting"
            BY <2>2, <2>5, <3>2, <4>1
          <5>3. QED
            BY <5>1, <5>2
        <4>2. CASE u # t
          <5>1. s[u] = r[u]
            BY <3>2, <4>2
          <5>2. M.node[u] = L.node[u]
            BY <2>9, <4>2
          <5>3. QED
            BY <3>1, <3>2, <3>3, <4>2, <5>1, <5>2
        <4>3. QED
          BY <4>1, <4>2
      <3>5. s = [u \in Node |-> s[u]]
        BY <3>2
      <3>6. R(k) = [u \in Node |-> R(k)[u]]
        BY <3>3
      <3> HIDE DEF s
      <3>7. QED
        BY <3>4, <3>5, <3>6
    <2> HIDE DEF s
    <2>12. QED
      BY <2>8, <2>10, <2>11 DEF M
  <1> HIDE DEF Upto
  <1>5. B = {}
    <2>1. SUFFICES ASSUME B # {} PROVE FALSE
      OBVIOUS
    <2>2. B \in SUBSET Nat
      OBVIOUS
    <2> HIDE DEF B
    <2>3. PICK m \in B : \A k \in B : m <= k
      BY <2>1, <2>2, SmallestNumber
    <2> USE DEF B
    <2>4. m # 0
      BY <1>3, <2>3
    <2>5. m \in 1 .. n /\ m - 1 \in 0 .. n /\ m - 1 \notin B
      BY <2>3, <2>4
    <2>6. QED
      BY <1>4, <2>3, <2>5
  <1>6. Upto(n)
    BY <1>5
  <1>7. PICK l \in Seq(Calls) : Orderly(h[n], R(n), bad, l)
    BY <1>6 DEF Upto
  <1>8. QED
    BY <1>2, <1>7

\* Where everybody is after startReady, in the ledger with nodes m.
Started(q, m, p, S) ==
    [t \in Node |-> IF t = p THEN "joining"
                    ELSE IF t \notin S THEN q[t]
                    ELSE IF m[t].running THEN "hosting" ELSE "starting"]

\* A reservation, after which the parent gives up its slot if it holds one.
LEMMA ReservedIssues ==
    ASSUME NEW L, NEW q, NEW bad, NEW line, Orderly(L, q, bad, line),
           NEW p \in Node, NEW S \in SUBSET Token, NEW ask \in [S -> Allocations],
           NEW at \in Nat, CanReserve(L, p, ask, at),
           NEW N, N = IF L.node[p].running THEN SlotFreed(Reserved(L, p, ask), p)
                      ELSE Reserved(L, p, ask)
    PROVE  /\ Sound(N, line, 0) /\ Admits(N) /\ p \notin S
           /\ Issues(L.node, N.node, p, S)
  <1> DEFINE M == Reserved(L, p, ask)
             n == L.node
             m == M.node
  <1>0. /\ Sound(L, line, 0) /\ Admits(L) /\ L \in Ledger /\ Good(L) /\ DOMAIN ask = S
    BY OrderlyIs
  <1>1. p \notin S
    BY <1>0, ReservedGood
  <1>2. Sound(M, line, 0) /\ Admits(M)
    BY <1>0, ReserveSound
  <1>3. M \in Ledger /\ ReservedFrom(L, M, p, S, ask)
    BY <1>0, <1>1, ReservedIs
  <1>4. n[p].depth < n[p].ceiling /\ \A u \in S : n[u].status = "unissued"
    BY <1>0 DEF CanReserve
  <1> HIDE DEF M
  <1>5. m \in [Node -> Grant]
    BY <1>3 DEF Ledger
  <1>6. \A u \in S : m[u] = Issued(L, p, ask, u)
    BY <1>3 DEF ReservedFrom
  <1>7. \A u \in Node \ S : m[u] = n[u]
    BY <1>3 DEF ReservedFrom
  <1> HIDE DEF m, n
  <1>8. \A u \in S : /\ m[u].status = "reserved" /\ m[u].parent = p
                     /\ m[u].above = n[p].above \cup {p} /\ ~m[u].running
    <2> SUFFICES ASSUME NEW u \in S
                 PROVE  /\ m[u].status = "reserved" /\ m[u].parent = p
                        /\ m[u].above = n[p].above \cup {p} /\ ~m[u].running
      OBVIOUS
    <2> DEFINE r == m[u]
    <2>1. r = Issued(L, p, ask, u)
      BY <1>6
    <2> HIDE DEF r
    <2>2. /\ r.status = "reserved" /\ r.parent = p
          /\ r.above = n[p].above \cup {p} /\ ~r.running
      BY <2>1 DEF Issued, n
    <2>3. QED
      BY <2>2 DEF r
  <1>9. m[p] = n[p]
    BY <1>1, <1>7
  <1>10. CASE n[p].running
    <2>1. N = SlotFreed(M, p)
      BY <1>10 DEF n, M
    <2>2. M.node[p].running
      BY <1>9, <1>10 DEF m
    <2>3. /\ Sound(N, line, 0) /\ Admits(N)
          /\ N.node = [m EXCEPT ![p] = [m[p] EXCEPT !.running = FALSE]]
      BY <1>2, <2>1, <2>2, SuspendSound DEF m
    <2> DEFINE x == N.node
    <2> HIDE DEF x
    <2>4. x[p] = [m[p] EXCEPT !.running = FALSE] /\ \A u \in Node : u # p => x[u] = m[u]
      BY <1>5, <2>3 DEF x
    <2> DEFINE y == x[p]
    <2>5. m[p] \in Grant /\ y = [m[p] EXCEPT !.running = FALSE]
      BY <1>5, <2>4
    <2> HIDE DEF y
    <2>6. /\ y.status = m[p].status /\ y.parent = m[p].parent /\ y.above = m[p].above
          /\ y.depth = m[p].depth /\ y.ceiling = m[p].ceiling /\ ~y.running
      BY <2>5 DEF Grant
    <2> USE DEF y
    <2>7. \A u \in Node \ S : u # p => x[u] = n[u]
      BY <1>7, <2>4
    <2>8. \A u \in S : x[u] = m[u]
      BY <1>1, <2>4, RootIsNode
    <2>9. Issues(n, x, p, S)
      BY <1>4, <1>8, <1>9, <2>6, <2>7, <2>8 DEF Issues
    <2>10. QED
      BY <1>1, <2>3, <2>9 DEF n, x
  <1>11. CASE ~n[p].running
    <2>1. N = M
      BY <1>11 DEF n, M
    <2>2. Issues(n, m, p, S)
      BY <1>4, <1>7, <1>8, <1>9, <1>11 DEF Issues
    <2>3. QED
      BY <1>1, <1>2, <2>1, <2>2 DEF n, m
  <1>12. QED
    BY <1>10, <1>11

\* p's turn reserves the n tokens of S, in order, and leaves K behind.
Starts(L, q, p, n, order, S, ask, at, K) ==
    /\ p \in Node /\ q[p] \in {"hosting", "joining"}
    /\ n \in Nat /\ order \in [1 .. n -> Token]
    /\ \A i, j \in 1 .. n : order[i] = order[j] => i = j
    /\ S = {order[i] : i \in 1 .. n}
    /\ ask \in [S -> Allocations] /\ at \in Nat /\ CanReserve(L, p, ask, at)
    /\ LET N == IF L.node[p].running THEN SlotFreed(Reserved(L, p, ask), p)
                ELSE Reserved(L, p, ask)
       IN  K = N \/ K = LaunchedFrom(N, order, at)

\* startReady: p's new children are reserved, and begin unless p was aborted.
LEMMA StartOrderly ==
    ASSUME NEW L, NEW q, NEW bad, NEW line, Orderly(L, q, bad, line),
           NEW p, NEW n, NEW order, NEW S, NEW ask, NEW at, NEW K,
           Starts(L, q, p, n, order, S, ask, at, K)
    PROVE  \E line2 \in Seq(Calls) : Orderly(K, Started(q, K.node, p, S), bad, line2)
  <1> DEFINE N == IF L.node[p].running THEN SlotFreed(Reserved(L, p, ask), p)
                  ELSE Reserved(L, p, ask)
  <1>0. /\ p \in Node /\ q[p] \in {"hosting", "joining"}
        /\ n \in Nat /\ order \in [1 .. n -> Token]
        /\ \A i, j \in 1 .. n : order[i] = order[j] => i = j
        /\ S = {order[i] : i \in 1 .. n}
        /\ ask \in [S -> Allocations] /\ at \in Nat /\ CanReserve(L, p, ask, at)
        /\ K = N \/ K = LaunchedFrom(N, order, at)
    BY DEF Starts
  <1>10. N = IF L.node[p].running THEN SlotFreed(Reserved(L, p, ask), p)
             ELSE Reserved(L, p, ask)
    OBVIOUS
  <1> HIDE DEF N
  <1>1. S \in SUBSET Token
    BY <1>0
  <1>2. /\ Sound(N, line, 0) /\ Admits(N) /\ p \notin S
        /\ Issues(L.node, N.node, p, S)
    <2>1. /\ Orderly(L, q, bad, line) /\ p \in Node /\ ask \in [S -> Allocations]
          /\ at \in Nat /\ CanReserve(L, p, ask, at)
      BY <1>0
    <2>2. QED
      BY ONLY <1>1, <1>10, <2>1, ReservedIssues
  <1> DEFINE r == Begun(q, p, S)
  <1>3. Orderly(N, r, bad, line)
    <2>1. Orderly(L, q, bad, line)
      OBVIOUS
    <2>2. QED
      BY ONLY <1>0, <1>1, <1>2, <2>1, IssuesOrderly
  <1>4. /\ line \in Seq(Calls) /\ Matched(q, line) /\ Placed(L.node, q, bad)
        /\ Token \subseteq Node
    BY OrderlyIs, RootIsNode
  <1>5. \A u \in S : q[u] = "idle" /\ r[u] = "starting"
    BY <1>0, <1>1, <1>2, <1>4 DEF Begun, Issues, Placed, ChildAt
  <1>6. ASSUME NEW m
        PROVE  Admitted(r, m, S) = Started(q, m, p, S)
    BY <1>1, <1>2, <1>4 DEF Admitted, Started, Begun
  <1> HIDE DEF r
  <1>7. CASE K = N
    <2>1. \A u \in S : ~N.node[u].running
      BY <1>2 DEF Issues
    <2>2. r = Started(q, N.node, p, S)
      BY <1>2, <2>1 DEF r, Begun, Started
    <2>3. QED
      BY <1>3, <1>4, <1>7, <2>2
  <1>8. CASE K = LaunchedFrom(N, order, at)
    <2>1. \A i \in 1 .. n : order[i] \in S /\ r[order[i]] = "starting"
      BY <1>0, <1>5
    <2>2. \A i \in 1 .. n : \A j \in 1 .. Len(line) : line[j][2] # order[i]
      BY <1>4, <1>5, <2>1 DEF Matched
    <2>3. \E line2 \in Seq(Calls) :
             Orderly(LaunchedFrom(N, order, at),
                     Admitted(r, LaunchedFrom(N, order, at).node, S), bad, line2)
      <3>1. /\ n \in Nat /\ order \in [1 .. n -> Token]
            /\ \A i, j \in 1 .. n : order[i] = order[j] => i = j
            /\ S = {order[i] : i \in 1 .. n}
        BY <1>0
      <3>2. \A i \in 1 .. n : r[order[i]] = "starting"
        BY <2>1
      <3>3. QED
        BY ONLY <1>3, <2>2, <3>1, <3>2, LaunchOrderly
    <2>4. QED
      BY <1>6, <1>8, <2>3
  <1>9. QED
    BY <1>0, <1>7, <1>8

-----------------------------------------------------------------------------
(* The steps keep the invariant.  q is pc as the turn has left it so far.  *)

\* What every turn may rely on.
Rest(q, line) ==
    /\ Orderly(ledger, q, failed, line)
    /\ clock \in Nat /\ aborted \subseteq Node /\ failed \subseteq Node

\* Who joins its children is not in line.
LEMMA JoiningIsNotInLine ==
    ASSUME NEW q, NEW line, Matched(q, line), NEW p, q[p] \notin {"starting", "resuming"}
    PROVE  \A i \in 1 .. Len(line) : line[i][2] # p
  BY DEF Matched

\* startReady keeps the invariant.
LEMMA StartReadyKeeps ==
    ASSUME NEW q, NEW line, Rest(q, line), NEW p \in Node, q[p] \in {"hosting", "joining"},
           StartReady(q, p)
    PROVE  OInv'
  <1> DEFINE drawn == Cardinality({t \in Token : q[t] # "idle"})
  <1>1. drawn \in Nat
    <2>1. IsFiniteSet(Token)
      BY LedgerAssumption
    <2>2. IsFiniteSet({t \in Token : q[t] # "idle"})
      BY <2>1, FS_Subset
    <2>3. QED
      BY <2>2, FS_CardinalityType
  <1> HIDE DEF drawn
  <1>2. PICK n \in 1 .. MaxWave :
           /\ ToSet([i \in 1 .. n |-> drawn + i]) \subseteq Token
           /\ \E ask \in [ToSet([i \in 1 .. n |-> drawn + i]) -> Allocations] :
                 /\ CanReserve(ledger, p, ask, clock)
                 /\ ledger' = Launched(p, [i \in 1 .. n |-> drawn + i], ask)
           /\ pc' = Started(q, ledger'.node, p, ToSet([i \in 1 .. n |-> drawn + i]))
           /\ aborted' = IF p \in aborted
                         THEN aborted \cup ToSet([i \in 1 .. n |-> drawn + i]) ELSE aborted
    BY DEF StartReady, Started, drawn
  <1> DEFINE order == [i \in 1 .. n |-> drawn + i]
             S == ToSet(order)
  <1>3. PICK ask \in [S -> Allocations] :
           CanReserve(ledger, p, ask, clock) /\ ledger' = Launched(p, order, ask)
    BY <1>2
  <1>4. S \subseteq Token /\ pc' = Started(q, ledger'.node, p, S)
        /\ aborted' = IF p \in aborted THEN aborted \cup S ELSE aborted
    BY <1>2
  <1>5. n \in Nat /\ DOMAIN order = 1 .. n
    OBVIOUS
  <1>6. \A i, j \in 1 .. n : order[i] = order[j] => i = j
    BY <1>1
  <1>7. S = {order[i] : i \in 1 .. n}
    BY <1>5 DEF ToSet
  <1>8. order = [i \in 1 .. n |-> order[i]]
    OBVIOUS
  <1> HIDE DEF order, S
  <1>9. order \in [1 .. n -> Token]
    BY <1>4, <1>7, <1>8
  <1> DEFINE N == IF ledger.node[p].running THEN SlotFreed(Reserved(ledger, p, ask), p)
                  ELSE Reserved(ledger, p, ask)
  <1>10. ledger' = N \/ ledger' = LaunchedFrom(N, order, clock)
    BY <1>3 DEF Launched, LaunchedFrom
  <1>11. CanReserve(ledger, p, ask, clock) /\ clock \in Nat /\ ask \in [S -> Allocations]
    BY <1>3 DEF Rest
  <1>12. Starts(ledger, q, p, n, order, S, ask, clock, ledger')
    BY <1>5, <1>6, <1>7, <1>9, <1>10, <1>11 DEF Starts
  <1>13. \E line2 \in Seq(Calls) :
            Orderly(ledger', Started(q, ledger'.node, p, S), failed, line2)
    <2>1. Orderly(ledger, q, failed, line)
      BY DEF Rest
    <2>2. QED
      BY ONLY <1>12, <2>1, StartOrderly
  <1>14. aborted' \subseteq Node /\ clock' = clock /\ failed' = failed
    BY <1>4, RootIsNode DEF Rest, StartReady
  <1>15. QED
    BY <1>4, <1>13, <1>14 DEF OInv, Rest

\* settleRemaining keeps the invariant.
LEMMA SettleRemainingKeeps ==
    ASSUME NEW q, NEW line, Rest(q, line), NEW p \in Node, q[p] \in {"joining", "resuming"},
           \A i \in 1 .. Len(line) : line[i][2] # p, SettleRemaining(q, p)
    PROVE  OInv'
  <1>1. Orderly(ledger, q, failed, line) /\ p \in Node /\ q[p] \in {"joining", "resuming"}
        /\ \A i \in 1 .. Len(line) : line[i][2] # p
    BY DEF Rest
  <1>2. \E line2 \in Seq(Calls) :
           Orderly(Silenced(ledger, Subtree(p)), [q EXCEPT ![p] = "draining"], failed, line2)
    BY ONLY <1>1, DrainOrderly
  <1>3. Subtree(p) \subseteq Node
    BY RootIsNode DEF Subtree
  <1>4. QED
    BY <1>2, <1>3 DEF SettleRemaining, OInv, Rest

\* The end of a pipeline that is not joined keeps the invariant.
LEMMA FinishKeeps ==
    ASSUME NEW q, NEW line, Rest(q, line), NEW p \in Node,
           q[p] \in {"hosting", "joining", "draining"},
           \A u \in Token : ledger.node[u].parent = p => q[u] = "joined", Finish(q, p)
    PROVE  OInv'
  <1>1. /\ Orderly(ledger, q, failed, line) /\ p \in Node
        /\ q[p] \in {"hosting", "joining", "draining"}
        /\ \A u \in Token : ledger.node[u].parent = p => q[u] = "joined"
        /\ ledger' = IF ledger.node[p].status = "active"
                     THEN Withdrawn(ledger, Forest(ledger, p)) ELSE ledger
    BY DEF Rest, Finish
  <1>2. Orderly(ledger', [q EXCEPT ![p] = "closing"], failed \cup {p}, line)
    BY ONLY <1>1, FinishOrderly
  <1>3. line \in Seq(Calls)
    BY <1>1, OrderlyIs
  <1>4. QED
    BY <1>2, <1>3 DEF Finish, OInv, Rest

\* resumeForHostPhase keeps the invariant.
LEMMA ResumeKeeps ==
    ASSUME NEW q, NEW line, Rest(q, line), NEW p \in Node, q[p] = "joining",
           \A u \in Token : ledger.node[u].parent = p => q[u] = "joined" /\ u \notin failed,
           ResumeForHostPhase(q, p)
    PROVE  OInv'
  <1>1. /\ Orderly(ledger, q, failed, line) /\ p \in Node /\ q[p] = "joining"
        /\ \A u \in Token : ledger.node[u].parent = p => q[u] = "joined" /\ u \notin failed
        /\ ledger' = IF p = Root THEN ledger ELSE Entered(ledger, "resume", p, clock)
    BY DEF Rest, ResumeForHostPhase
  <1>2. \E line2 \in Seq(Calls) :
           Orderly(ledger', [q EXCEPT ![p] = IF p = Root \/ ledger'.node[p].running
                                             THEN "hosting" ELSE "resuming"], failed, line2)
    BY ONLY <1>1, ResumeOrderly
  <1>3. pc' = [q EXCEPT ![p] = IF p = Root \/ ledger'.node[p].running
                               THEN "hosting" ELSE "resuming"]
    BY DEF ResumeForHostPhase
  <1>4. clock' = clock /\ aborted' = aborted /\ failed' = failed
    BY DEF ResumeForHostPhase
  <1>5. QED
    BY <1>2, <1>3, <1>4 DEF OInv, Rest

-----------------------------------------------------------------------------
\* The children in flight of a node whose outcomes are taken are its children.
LEMMA InFlightIs ==
    ASSUME NEW p, NEW u \in Token, ledger.node[u].parent = p
    PROVE  u \in Children(ledger, p) /\ (u \in InFlight(p) \/ pc[u] = "joined")
  BY DEF InFlight, Children

\* A pipeline that hosts has taken all its children.
LEMMA HostingHasJoined ==
    ASSUME NEW line, Rest(pc, line), NEW p \in Node, pc[p] \notin {"joining", "draining"},
           NEW u \in Token, ledger.node[u].parent = p
    PROVE  pc[u] = "joined"
  <1>1. TreeInv(ledger.node) /\ Quiet(ledger.node, pc)
    BY OrderlyIs DEF Rest
  <1>2. p \in ledger.node[u].above
    BY <1>1, ParentIs
  <1>3. QED
    BY <1>1, <1>2 DEF Quiet

\* A join of a child keeps the invariant.
LEMMA JoinKeeps ==
    ASSUME NEW line, Rest(pc, line), NEW p \in Node, NEW u \in Token, Join(p, u)
    PROVE  OInv'
  <1> DEFINE q == [pc EXCEPT ![u] = "joined"]
             rest == InFlight(p) \ {u}
  <1>1. /\ Orderly(ledger, pc, failed, line) /\ line \in Seq(Calls)
        /\ pc \in [Node -> Place] /\ ledger.node \in [Node -> Grant]
        /\ TreeInv(ledger.node) /\ Token \subseteq Node
    BY OrderlyIs, RootIsNode DEF Rest
  <1>2. pc[p] = "joining" /\ pc[u] = "closed" /\ u # p
        /\ clock \in Nat /\ aborted \subseteq Node /\ failed \subseteq Node
    BY DEF Join, Rest
  <1>3. q = Taken(pc, {u})
    BY <1>1 DEF Taken
  <1>4. Orderly(ledger, q, failed, line)
    <2>1. {u} \in SUBSET Token /\ \A v \in {u} : pc[v] = "closed"
      BY <1>2
    <2>2. Orderly(ledger, Taken(pc, {u}), failed, line)
      BY ONLY <1>1, <2>1, TakenOrderly
    <2>3. QED
      BY <1>3, <2>2
  <1>5. q[p] = "joining" /\ \A v \in Token : pc[v] = "joined" => q[v] = "joined"
    BY <1>1, <1>2
  <1>6. q[u] = "joined"
    BY <1>1
  <1>7. Rest(q, line)
    BY <1>2, <1>4 DEF Rest
  <1>8. \A i \in 1 .. Len(line) : line[i][2] # p
    <2> HIDE DEF q
    <2>1. Matched(q, line)
      BY <1>4, OrderlyIs
    <2>2. QED
      BY <1>5, <2>1, JoiningIsNotInLine
  <1>9. ASSUME rest = {}
        PROVE  \A v \in Token : ledger.node[v].parent = p => q[v] = "joined"
    <2> HIDE DEF q
    <2>1. QED
      BY <1>5, <1>6, <1>9, InFlightIs
  <1>10. \/ SettleRemaining(q, p)
         \/ StartReady(q, p)
         \/ pc' = q /\ UNCHANGED <<ledger, clock, aborted, failed>>
         \/ rest = {} /\ Children(ledger, p) \cap failed = {} /\ ResumeForHostPhase(q, p)
         \/ rest = {} /\ Finish(q, p)
    BY DEF Join, Stops
  <1> HIDE DEF q, rest
  <1>11. CASE SettleRemaining(q, p)
    BY <1>5, <1>7, <1>8, <1>11, SettleRemainingKeeps
  <1>12. CASE StartReady(q, p)
    BY <1>5, <1>7, <1>12, StartReadyKeeps
  <1>13. CASE pc' = q /\ UNCHANGED <<ledger, clock, aborted, failed>>
    BY <1>1, <1>2, <1>4, <1>13 DEF OInv
  <1>14. CASE rest = {} /\ Children(ledger, p) \cap failed = {} /\ ResumeForHostPhase(q, p)
    <2>1. \A v \in Token : ledger.node[v].parent = p => q[v] = "joined" /\ v \notin failed
      BY <1>9, <1>14, InFlightIs
    <2>2. QED
      BY <1>5, <1>7, <1>14, <2>1, ResumeKeeps
  <1>15. CASE rest = {} /\ Finish(q, p)
    BY <1>5, <1>7, <1>9, <1>15, FinishKeeps
  <1>16. QED
    BY <1>10, <1>11, <1>12, <1>13, <1>14, <1>15

\* The end of a drain keeps the invariant: all outcomes are taken at once.
LEMMA DrainedKeeps ==
    ASSUME NEW line, Rest(pc, line), NEW p \in Node, Drained(p)
    PROVE  OInv'
  <1> DEFINE S == InFlight(p)
             q == Taken(pc, S)
  <1>1. Orderly(ledger, pc, failed, line) /\ pc \in [Node -> Place] /\ Token \subseteq Node
        /\ Root \notin Token /\ ledger.node \in [Node -> Grant] /\ TreeInv(ledger.node)
        /\ pc[p] = "draining" /\ (\A u \in S : pc[u] = "closed")
        /\ clock \in Nat /\ aborted \subseteq Node /\ failed \subseteq Node
    BY OrderlyIs, RootIsNode, LedgerAssumption DEF Rest, Drained
  <1>2. S \in SUBSET Token
    BY DEF InFlight, Children
  <1>3. Finish(q, p)
    BY DEF Drained, Taken
  <1> HIDE DEF S
  <1>4. Orderly(ledger, q, failed, line)
    BY ONLY <1>1, <1>2, TakenOrderly DEF q
  <1>5. q[p] = "draining"
    BY <1>1 DEF Taken
  <1>6. ASSUME NEW u \in Token, ledger.node[u].parent = p
        PROVE  q[u] = "joined"
    <2>1. u \in S \/ pc[u] = "joined"
      BY <1>6, InFlightIs DEF S
    <2>2. QED
      BY <1>1, <2>1 DEF Taken
  <1>7. Rest(q, line)
    BY <1>1, <1>4 DEF Rest
  <1> HIDE DEF q
  <1>8. QED
    BY <1>3, <1>5, <1>6, <1>7, FinishKeeps

\* The return of a pipeline keeps the invariant.
LEMMA HostEndsKeeps ==
    ASSUME NEW line, Rest(pc, line), NEW p \in Node, HostEnds(p)
    PROVE  OInv'
  <1>1. /\ Orderly(ledger, pc, failed, line) /\ p \in Node /\ pc[p] = "hosting"
        /\ failed \subseteq failed'
        /\ ledger.node[p].depth < ledger.node[p].ceiling =>
              \A u \in Token : ledger.node[u].parent = p => u \notin failed
    BY DEF Rest, HostEnds, Orchestrates, Children
  <1>2. Orderly(ledger, [pc EXCEPT ![p] = "closing"], failed', line)
    BY ONLY <1>1, EndOrderly
  <1>3. line \in Seq(Calls) /\ failed' \subseteq Node /\ clock' = clock /\ aborted' = aborted
        /\ ledger' = ledger /\ pc' = [pc EXCEPT ![p] = "closing"]
    BY <1>1, OrderlyIs DEF HostEnds, Rest
  <1>4. QED
    BY <1>2, <1>3 DEF OInv, Rest

\* Settling a grant keeps the invariant.
LEMMA CloseKeeps ==
    ASSUME NEW line, Rest(pc, line), NEW t \in Node, Close(t) \/ (t = Root /\ CloseRoot)
    PROVE  OInv'
  <1>1. Orderly(ledger, pc, failed, line) /\ t \in Node /\ pc[t] = "closing"
    BY DEF Rest, Close, CloseRoot
  <1>2. Joined(ledger, t)
    <2>1. failed \subseteq failed
      OBVIOUS
    <2>2. QED
      BY ONLY <1>1, <2>1, CloseOrderly
  <1>3. ledger' = Settled(ledger, t) /\ failed \subseteq failed' /\ failed' \subseteq Node
    BY <1>2 DEF Close, CloseRoot, Settles, Rest
  <1>4. Orderly(Settled(ledger, t), [pc EXCEPT ![t] = "closed"], failed', line)
    <2>1. failed \subseteq failed'
      BY <1>3
    <2> DEFINE bad2 == failed'
    <2>2. failed \subseteq bad2
      BY <2>1
    <2> HIDE DEF bad2
    <2>3. Orderly(Settled(ledger, t), [pc EXCEPT ![t] = "closed"], bad2, line)
      BY ONLY <1>1, <2>2, CloseOrderly
    <2>4. QED
      BY <2>3 DEF bad2
  <1>5. pc' = [pc EXCEPT ![t] = "closed"] /\ clock' = clock /\ aborted' = aborted
    BY DEF Close, CloseRoot
  <1>6. line \in Seq(Calls)
    BY <1>1, OrderlyIs
  <1>7. QED
    BY <1>3, <1>4, <1>5, <1>6 DEF OInv, Rest

\* A refusal keeps the invariant.
LEMMA RefusedKeeps ==
    ASSUME NEW line, Rest(pc, line), NEW t \in Node, Refused(t)
    PROVE  OInv'
  <1>1. /\ Orderly(ledger, pc, failed, line) /\ line \in Seq(Calls)
        /\ ledger.waiters \in Seq(Call) /\ ledger.woken \in Seq(Call)
        /\ InLine(ledger.woken, ledger.waiters, line)
    BY OrderlyIs DEF Rest
  <1>2. \A c \in ToSet(ledger.waiters) \cup ToSet(ledger.woken) : c.token # t
    BY DEF Refused, AwaitsAdmission
  <1>3. \A i \in 1 .. Len(line) : line[i][2] # t
    <2> DEFINE w == ledger.woken
               q == ledger.waiters
    <2>1. w \in Seq(Call) /\ q \in Seq(Call) /\ InLine(w, q, line)
      BY <1>1
    <2>2. \A c \in ToSet(q) \cup ToSet(w) : c.token # t
      BY <1>2
    <2> HIDE DEF w, q
    <2>3. QED
      BY ONLY <2>1, <2>2, NotInLine
  <1>4. CASE pc[t] = "starting" /\ pc' = [pc EXCEPT ![t] = "closed"]
             /\ failed' = failed \cup {t} /\ UNCHANGED <<ledger, clock, aborted>>
    <2>1. t \in Node /\ pc[t] = "starting"
      BY <1>4
    <2>2. Orderly(ledger, [pc EXCEPT ![t] = "closed"], failed \cup {t}, line)
      BY ONLY <1>1, <1>3, <2>1, RefusedOrderly
    <2>3. QED
      BY <1>1, <1>4, <2>2 DEF OInv, Rest
  <1>5. CASE pc[t] = "resuming" /\ SettleRemaining(pc, t)
    BY <1>3, <1>5, SettleRemainingKeeps
  <1>6. QED
    BY <1>4, <1>5 DEF Refused

\* A turn of a pipeline keeps the invariant.
LEMMA TurnKeeps ==
    ASSUME OInv, NEW t \in Node, Turn(t)
    PROVE  OInv'
  <1>1. PICK line \in Seq(Calls) : Orderly(ledger, pc, failed, line)
    BY DEF OInv
  <1>2. Rest(pc, line)
    BY <1>1 DEF OInv, Rest
  <1>3. CASE Planned(t)
    BY <1>2, <1>3, StartReadyKeeps DEF Planned
  <1>4. CASE HostFails(t)
    <2>1. pc[t] = "hosting" /\ Finish(pc, t)
      BY <1>4 DEF HostFails
    <2>2. \A u \in Token : ledger.node[u].parent = t => pc[u] = "joined"
      BY <1>2, <2>1, HostingHasJoined
    <2>3. QED
      BY <1>2, <2>1, <2>2, FinishKeeps
  <1>5. CASE HostEnds(t)
    BY <1>2, <1>5, HostEndsKeeps
  <1>6. CASE Drained(t)
    BY <1>2, <1>6, DrainedKeeps
  <1>7. CASE Close(t) \/ (t = Root /\ CloseRoot)
    BY <1>2, <1>7, CloseKeeps
  <1>8. CASE Refused(t)
    BY <1>2, <1>8, RefusedKeeps
  <1>9. ASSUME NEW u \in Token, Join(t, u)
        PROVE  OInv'
    BY <1>2, <1>9, JoinKeeps
  <1>10. QED
    BY <1>3, <1>4, <1>5, <1>6, <1>7, <1>8, <1>9 DEF Turn

-----------------------------------------------------------------------------
\* The continuation of a woken call keeps the invariant.
LEMMA ContinueKeeps ==
    ASSUME OInv, Continue
    PROVE  OInv'
  <1> DEFINE t == Head(ledger.woken).token
             r == IF ledger'.node[t].running THEN [pc EXCEPT ![t] = "hosting"] ELSE pc
  <1>1. PICK line \in Seq(Calls) : Orderly(ledger, pc, failed, line)
    BY DEF OInv
  <1>2. ledger.woken # <<>> /\ ledger' = Continued(ledger, clock)
    BY DEF Continue
  <1>3. t = Head(ledger.woken).token
    OBVIOUS
  <1>4. pc' = r /\ clock' = clock /\ aborted' = aborted /\ failed' = failed
    BY DEF Continue
  <1> HIDE DEF t
  <1>5. \E line2 \in Seq(Calls) : Orderly(ledger', r, failed, line2)
    BY ONLY <1>1, <1>2, <1>3, ContinueOrderly
  <1> HIDE DEF r
  <1>6. QED
    BY <1>4, <1>5 DEF OInv

\* An abort keeps the invariant.
LEMMA AbortKeeps ==
    ASSUME OInv, NEW L, NEW line, Orderly(L, pc, failed, line), NEW S \in SUBSET Node,
           ledger' = Silenced(L, S), aborted' = aborted \cup S,
           UNCHANGED <<clock, pc, failed>>
    PROVE  OInv'
  <1>1. PICK line2 \in Seq(Calls) : Orderly(Silenced(L, S), pc, failed, line2)
    BY SilencedOrderly
  <1>2. QED
    BY <1>1 DEF OInv

\* A deadline and a cancellation abort a subtree.
LEMMA TimeoutsKeep ==
    ASSUME OInv, Cancel \/ \E t \in Node : Timeout(t)
    PROVE  OInv'
  <1>1. PICK line \in Seq(Calls) : Orderly(ledger, pc, failed, line)
    BY DEF OInv
  <1>2. \A t \in Node : {t} \cup Subtree(t) \in SUBSET Node
    BY RootIsNode DEF Subtree
  <1>3. ASSUME NEW t \in Node, Timeout(t)
        PROVE  OInv'
    <2> DEFINE S == {t} \cup Subtree(t)
    <2>1. /\ S \in SUBSET Node /\ ledger' = Silenced(ledger, S) /\ aborted' = aborted \cup S
          /\ UNCHANGED <<clock, pc, failed>>
      BY <1>2, <1>3 DEF Timeout
    <2> HIDE DEF S
    <2>2. QED
      BY <1>1, <2>1, AbortKeeps
  <1>4. CASE Cancel
    <2> DEFINE S == {Root} \cup Subtree(Root)
    <2>1. /\ ledger' = Silenced(Cancelled(ledger), S) /\ aborted' = aborted \cup S
          /\ UNCHANGED <<clock, pc, failed>>
      BY <1>4 DEF Cancel
    <2>2. S \in SUBSET Node
      BY <1>2, RootIsNode
    <2>3. PICK line2 \in Seq(Calls) : Orderly(Cancelled(ledger), pc, failed, line2)
      BY <1>1, CancelOrderly
    <2> HIDE DEF S
    <2>4. QED
      BY <2>1, <2>2, <2>3, AbortKeeps
  <1>5. QED
    BY <1>3, <1>4

\* Every step keeps the invariant.
LEMMA NextOInv ==
    ASSUME OInv, [Next]_vars
    PROVE  OInv'
  <1>1. ASSUME NEW t \in Node, Turn(t)
        PROVE  OInv'
    BY <1>1, TurnKeeps
  <1>2. CASE Cancel \/ \E t \in Node : Timeout(t)
    BY <1>2, TimeoutsKeep
  <1>3. CASE Continue
    BY <1>3, ContinueKeeps
  <1>4. CASE Tick
    <2>1. clock' \in Nat
      BY <1>4 DEF Tick, OInv
    <2>2. UNCHANGED <<ledger, pc, aborted, failed>>
      BY <1>4 DEF Tick
    <2>3. QED
      BY <2>1, <2>2 DEF OInv
  <1>5. CASE Finished \/ UNCHANGED vars
    <2>1. UNCHANGED vars
      BY <1>5 DEF Finished
    <2>2. QED
      BY <2>1 DEF OInv, vars
  <1>6. ASSUME NEW i \in 1 .. Len(ledger.waiters), Expire(i)
        PROVE  OInv'
    <2>1. PICK line \in Seq(Calls) : Orderly(ledger, pc, failed, line)
      BY DEF OInv
    <2>2. \E line2 \in Seq(Calls) :
             Orderly([ledger EXCEPT !.waiters = RemoveAt(@, i)], pc, failed, line2)
      BY <2>1, ExpireOrderly
    <2>3. ledger' = [ledger EXCEPT !.waiters = RemoveAt(@, i)]
          /\ UNCHANGED <<clock, pc, aborted, failed>>
      BY <1>6 DEF Expire
    <2>4. QED
      BY <2>2, <2>3 DEF OInv
  <1>7. QED
    BY <1>1, <1>2, <1>3, <1>4, <1>5, <1>6 DEF Next

\* At first the root hosts, and no token was issued.
LEMMA InitOInv == Init => OInv
  <1> SUFFICES ASSUME Init PROVE OInv
    OBVIOUS
  <1> DEFINE L == NewLedger(Lifetime)
  <1>1. ledger = L /\ clock = 0 /\ aborted = {} /\ failed = {}
        /\ pc = [t \in Node |-> IF t = Root THEN "hosting" ELSE "idle"]
    BY DEF Init
  <1>2. /\ Sound(L, <<>>, 0) /\ Admits(L) /\ L.node[Root].status = "active"
        /\ \A t \in Token : L.node[t] = Unissued
    BY NewLedgerSound
  <1> HIDE DEF L
  <1>3. Root \in Node /\ Token \subseteq Node /\ Root \notin Token
    BY RootIsNode, LedgerAssumption
  <1>4. \A t \in Token : /\ L.node[t].status = "unissued" /\ L.node[t].parent = None
                         /\ L.node[t].above = {} /\ ~L.node[t].running
    BY <1>2 DEF Unissued
  <1>5. Placed(L.node, pc, {})
    <2>1. pc \in [Node -> Place]
      BY <1>1 DEF Place
    <2>2. RootAt(L.node[Root], pc[Root])
      BY <1>1, <1>2, <1>3 DEF RootAt, Working
    <2>3. ASSUME NEW u \in Token PROVE ChildAt(L.node[u], pc[u], u \in {})
      <3>1. pc[u] = "idle"
        BY <1>1, <1>3
      <3>2. QED
        BY <1>4, <3>1 DEF ChildAt, Working
    <2>4. QED
      BY <2>1, <2>2, <2>3 DEF Placed
  <1>6. Nested(L.node) /\ Quiet(L.node, pc)
    BY <1>4 DEF Nested, Quiet
  <1>7. Clean(L.node, pc)
    BY <1>4 DEF Clean, Open
  <1>8. <<>> \in Seq(Calls) /\ Matched(pc, <<>>)
    BY EmptySeq DEF Matched, Distinct
  <1>9. QED
    BY <1>1, <1>2, <1>5, <1>6, <1>7, <1>8 DEF OInv, Orderly

-----------------------------------------------------------------------------
(* The theorems.                                                           *)

\* OInv holds in every state of every behaviour of the pipelines, however
\* their turns, the deadlines and a cancellation interleave.
THEOREM PipelinesKeepOrder == Spec => []OInv
  <1>1. OInv /\ [Next]_vars => OInv'
    BY NextOInv
  <1>2. QED
    BY InitOInv, <1>1, PTL DEF Spec

\* What orderly pipelines give, for the proofs below.
LEMMA OInvIs ==
    ASSUME OInv
    PROVE  \E line \in Seq(Calls) :
              /\ Sound(ledger, line, 0) /\ Admits(ledger) /\ ledger \in Ledger
              /\ InLine(ledger.woken, ledger.waiters, line)
              /\ ledger.waiters \in Seq(Call) /\ ledger.woken \in Seq(Call)
              /\ pc \in [Node -> Place] /\ Placed(ledger.node, pc, failed)
              /\ Quiet(ledger.node, pc) /\ Clean(ledger.node, pc) /\ Matched(pc, line)
  <1>1. PICK line \in Seq(Calls) : Orderly(ledger, pc, failed, line)
    BY DEF OInv
  <1>2. QED
    BY <1>1, OrderlyIs

\* The ledger the pipelines share and every pipeline's place keep their types.
THEOREM PipelinesTyped == Spec => []OrchestrationTypeOK
  <1>1. OInv => OrchestrationTypeOK
    <2> SUFFICES ASSUME OInv PROVE OrchestrationTypeOK
      OBVIOUS
    <2>1. ledger \in Ledger /\ pc \in [Node -> Place]
      BY OInvIs
    <2>2. Call \subseteq Request
      BY RootIsNode DEF Call, Request
    <2>3. ledger.waiters \in Seq(Call) /\ ledger.woken \in Seq(Call)
      BY <2>1 DEF Ledger
    <2>4. ledger.waiters \in Seq(Request) /\ ledger.woken \in Seq(Request)
      BY <2>2, <2>3, SeqMonotonic
    <2>5. QED
      BY <2>1, <2>4 DEF Ledger, OrchestrationTypeOK, OInv
  <1>2. QED
    BY PipelinesKeepOrder, <1>1, PTL

\* Whatever the pipelines of a task make of it, the ledger they share keeps
\* what it promises: nobody waits for nobody, authority only flows down, and
\* what was settled stays joined.
THEOREM PipelinesKeepTheLedger ==
    Spec => [](NobodyWaitsForNobody /\ AuthorityFlowsDown /\ SettledTreesAreJoined)
  <1>1. OInv => NobodyWaitsForNobody /\ AuthorityFlowsDown /\ SettledTreesAreJoined
    BY OInvIs, SoundPromises
  <1>2. QED
    BY PipelinesKeepOrder, <1>1, PTL

\* A pipeline that returned can settle its grant, one that asks to go on has
\* joined its children, and one that is closed left nothing open behind:
\* `finish', `finally' and executeOrchestrationChild are never refused.
THEOREM AuthorityIsClosed == Spec => []AuthorityClosesCleanly
  <1>1. OInv => AuthorityClosesCleanly
    <2> SUFFICES ASSUME OInv, NEW t \in Node
                 PROVE  /\ pc[t] \in {"closing", "resuming"} => Joined(ledger, t)
                        /\ pc[t] \in {"closed", "joined"} =>
                              ledger.node[t].status \in {"settled", "reserved", "dropped"}
      BY DEF AuthorityClosesCleanly
    <2>1. Placed(ledger.node, pc, failed) /\ Clean(ledger.node, pc)
      BY OInvIs
    <2>2. ASSUME pc[t] \in {"closing", "resuming"}
          PROVE  Joined(ledger, t)
      BY <2>1, <2>2 DEF Clean, Joined, Children, Open
    <2>3. ASSUME pc[t] \in {"closed", "joined"}
          PROVE  ledger.node[t].status \in {"settled", "reserved", "dropped"}
      <3>1. CASE t = Root
        BY <2>1, <2>3, <3>1 DEF Placed, RootAt, Working
      <3>2. CASE t # Root
        <4>1. t \in Token
          BY <3>2 DEF Node
        <4>2. QED
          BY <2>1, <2>3, <4>1 DEF Placed, ChildAt
      <3>3. QED
        BY <3>1, <3>2
    <2>4. QED
      BY <2>2, <2>3
  <1>2. QED
    BY PipelinesKeepOrder, <1>1, PTL

\* A model runs for a node only in a slot of the node's own, within the limit
\* of the whole tree; and while a node replans, verifies or has returned, no
\* pipeline below it is in flight or waits for a slot.
THEOREM BoundariesAreQuiet == Spec => []QuiescentBoundary
  <1>1. OInv => QuiescentBoundary
    <2> SUFFICES ASSUME OInv PROVE QuiescentBoundary
      OBVIOUS
    <2>1. PICK line \in Seq(Calls) :
             /\ Sound(ledger, line, 0) /\ Admits(ledger) /\ ledger \in Ledger
             /\ InLine(ledger.woken, ledger.waiters, line)
             /\ ledger.waiters \in Seq(Call) /\ ledger.woken \in Seq(Call)
             /\ pc \in [Node -> Place] /\ Placed(ledger.node, pc, failed)
             /\ Quiet(ledger.node, pc) /\ Matched(pc, line)
      BY OInvIs
    <2>2. \A t \in Token : /\ pc[t] = "hosting" => ledger.node[t].running
                           /\ ledger.node[t].running => pc[t] \in {"hosting", "closing"}
      BY <2>1 DEF Placed, ChildAt
    <2>3. Cardinality({t \in Token : pc[t] = "hosting"}) <= MaxConcurrentNodes
      <3> DEFINE R == Running(ledger.node)
                 H == {t \in Token : pc[t] = "hosting"}
      <3>1. H \in SUBSET R
        BY <2>2, RootIsNode DEF Running
      <3>2. IsFiniteSet(R) /\ Cardinality(R) \in Nat
        BY FiniteRunning
      <3>3. IsFiniteSet(H) /\ Cardinality(H) <= Cardinality(R)
        <4> HIDE DEF R, H
        <4>1. QED
          BY <3>1, <3>2, FS_Subset
      <3>4. Cardinality(H) \in Nat
        BY <3>3, FS_CardinalityType
      <3>5. ledger.active = Cardinality(R) /\ ledger.active + ledger.permits <= MaxConcurrentNodes
            /\ ledger.permits \in Nat /\ MaxConcurrentNodes \in Nat
        BY <2>1, LedgerAssumption DEF Sound, Counted, Admits, Ledger
      <3> HIDE DEF R, H
      <3>6. Cardinality(H) <= MaxConcurrentNodes
        BY <3>2, <3>3, <3>4, <3>5
      <3>7. QED
        BY <3>6 DEF H
    <2>4. ASSUME NEW p \in Node, pc[p] \in {"hosting", "resuming", "closing", "closed"},
                 NEW u \in Token, p \in ledger.node[u].above
          PROVE  pc[u] = "joined" /\ ~AwaitsAdmission(u)
      <3>1. pc[u] = "joined"
        BY <2>1, <2>4 DEF Quiet
      <3>2. ASSUME AwaitsAdmission(u)
            PROVE  FALSE
        <4> DEFINE w == ledger.woken
                   q == ledger.waiters
        <4>1. PICK c \in ToSet(q) \cup ToSet(w) : c.token = u
          BY <3>2 DEF AwaitsAdmission
        <4>2. w \in Seq(Call) /\ q \in Seq(Call) /\ InLine(w, q, line)
          BY <2>1
        <4> HIDE DEF w, q
        <4>3. PICK i \in 1 .. Len(line) : line[i] = Key(c)
          BY <4>1, <4>2, InLineIsAwaited
        <4>4. line[i][2] = u
          BY <4>1, <4>3 DEF Key
        <4>5. pc[u] \in {"starting", "resuming"}
          BY <2>1, <4>4 DEF Matched
        <4>6. QED
          BY <3>1, <4>5
      <3>3. QED
        BY <3>1, <3>2
    <2>5. QED
      BY <2>2, <2>3, <2>4 DEF QuiescentBoundary, SlotsAreForWork
  <1>2. QED
    BY PipelinesKeepOrder, <1>1, PTL
=============================================================================
