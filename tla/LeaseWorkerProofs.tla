-------------------------- MODULE LeaseWorkerProofs --------------------------
(***************************************************************************)
(* Proofs about the task store and the distributed workers that use it.    *)
(*                                                                         *)
(* The store, for any sets of tasks and workers, any lease duration, clock *)
(* lag and claim limit: its invariants, the agreement of the memory store  *)
(* with the SQL, and that it implements TaskLedger.                        *)
(*                                                                         *)
(* The workers, for any loops, tasks and clocks: that an acknowledged      *)
(* completion is durable and, when the lease guard is punctual enough,     *)
(* that no two loops run one task, that whoever runs a task holds its      *)
(* lease and that nobody publishes in vain.  The invariant has two parts.  *)
(* WorkerInv holds whatever the timing: what each loop is waiting for,     *)
(* whose leases are whose, and what abandoned requests may still do.       *)
(* TimedInv compares what each loop believes of its lease with the row; it *)
(* needs Punctual.  Both are predicates of the values of one loop, R of    *)
(* rows, I of issued and N of now.                                         *)
(***************************************************************************)
EXTENDS LeaseWorker, FiniteSetTheorems, TLAPS

(***************************************************************************)
(* The store.                                                              *)
(***************************************************************************)

\* What every statement keeps true of each row it writes.
RowInv(r) ==
    /\ r.state = "running" <=> r.owner # None
    /\ r.state = "running" <=> r.leaseUntil # None
    /\ r.state = "terminal" <=> r.outcome # None
    /\ r.state = "running" /\ r.deadlineAt # None => r.leaseUntil <= r.deadlineAt
    /\ r.cancelRequested /\ r.state = "terminal" => r.outcome = "cancelled"
    /\ r.claimCount = r.generation
    /\ r.claimCount <= MaxClaims
    /\ r.completion # NoCompletion =>
          /\ r.state = "terminal"
          /\ r.outcome = r.completion.outcome
          /\ r.completion.generation = r.generation

\* The leases ever issued are exactly the generations the rows have reached.
IssuedInv ==
    /\ \A l \in issued : l.task \in DOMAIN rows
    /\ \A l \in issued : l.generation <= rows[l.task].generation
    /\ \A l, k \in issued : l.task = k.task /\ l.generation = k.generation => l = k
    /\ \A t \in DOMAIN rows : rows[t].completion # NoCompletion =>
          [task |-> t, owner |-> rows[t].completion.worker,
           generation |-> rows[t].completion.generation] \in issued

IInv ==
    /\ TypeOK
    /\ \A t \in DOMAIN rows : RowInv(rows[t])
    /\ IssuedInv

-----------------------------------------------------------------------------
(* Row lemmas: each assignment of TaskRows, applied under the test its     *)
(* statement makes, yields a well-formed row.                              *)

\* A freshly inserted row satisfies the row invariant.
LEMMA NewRowOK ==
    ASSUME NEW d \in Nat \cup {None}, NEW at \in Nat
    PROVE  NewRow(d, at) \in Row /\ RowInv(NewRow(d, at))
  BY RowAssumption DEF NewRow, Row, RowInv, NoCompletion, Completion, Outcome

\* Capping a lease at the row's deadline leaves an instant no later than it.
LEMMA CappedOK ==
    ASSUME NEW r \in Row, NEW until \in Nat
    PROVE  /\ Capped(r, until) \in Nat
           /\ r.deadlineAt # None => Capped(r, until) <= r.deadlineAt
  BY RowAssumption DEF Capped, Row

\* A claim of a claimable row yields a running row of the next generation.
LEMMA GrantedOK ==
    ASSUME NEW r \in Row, NEW w \in Worker, NEW until \in Nat, NEW at \in Nat,
           RowInv(r), Claimable(r, at)
    PROVE  /\ Granted(r, w, until, at) \in Row
           /\ RowInv(Granted(r, w, until, at))
           /\ Granted(r, w, until, at).generation = r.generation + 1
           /\ Granted(r, w, until, at).completion = NoCompletion
  <1>1. /\ Capped(r, until) \in Nat
        /\ r.deadlineAt # None => Capped(r, until) <= r.deadlineAt
    BY CappedOK
  <1>2. r.completion = NoCompletion /\ r.state # "terminal"
    BY DEF Claimable, LeaseLapsed, RowInv
  <1>3. r.claimCount + 1 <= MaxClaims /\ ~r.cancelRequested
    BY RowAssumption DEF Claimable, Exhausted, Row
  <1>4. Granted(r, w, until, at) \in Row
    <2>1. r.claimCount + 1 \in Nat /\ r.generation + 1 \in Nat
      BY DEF Row
    <2>2. (IF r.state = "running" THEN at ELSE r.availableAt) \in Nat
      BY DEF Row
    <2>3. QED
      BY <1>1, <2>1, <2>2 DEF Granted, Row
  <1>5. RowInv(Granted(r, w, until, at))
    BY <1>1, <1>2, <1>3, RowAssumption DEF Granted, Row, RowInv
  <1>6. QED
    BY <1>2, <1>4, <1>5 DEF Granted, Row

\* A heartbeat moves only the lease's end, which stays within the deadline.
LEMMA RenewedOK ==
    ASSUME NEW r \in Row, NEW until \in Nat, RowInv(r), r.state = "running"
    PROVE  Renewed(r, until) \in Row /\ RowInv(Renewed(r, until))
  <1>1. /\ Capped(r, until) \in Nat
        /\ r.deadlineAt # None => Capped(r, until) <= r.deadlineAt
    BY CappedOK
  <1>2. QED
    BY <1>1, RowAssumption DEF Renewed, Row, RowInv

\* Ending a live row with an outcome its cancellation allows.
LEMMA FinishedOK ==
    ASSUME NEW r \in Row, NEW o \in Outcome, RowInv(r), r.state # "terminal",
           r.cancelRequested => o = "cancelled"
    PROVE  Finished(r, o) \in Row /\ RowInv(Finished(r, o))
  BY RowAssumption DEF Finished, Row, RowInv, Outcome

\* The closing statement gives cancelled rows the cancelled outcome.
LEMMA ClosedOK ==
    ASSUME NEW r \in Row, RowInv(r), r.state # "terminal"
    PROVE  Closed(r) \in Row /\ RowInv(Closed(r))
  BY FinishedOK DEF Closed, Outcome

\* A lapsed lease goes back to the queue without its owner.
LEMMA RequeuedOK ==
    ASSUME NEW r \in Row, NEW at \in Nat, RowInv(r), r.state = "running"
    PROVE  Requeued(r, at) \in Row /\ RowInv(Requeued(r, at))
  BY RowAssumption DEF Requeued, Row, RowInv

\* A published row carries the completion of its current generation.
LEMMA PublishedOK ==
    ASSUME NEW r \in Row, NEW l \in Lease, NEW o \in Outcome, NEW at \in Nat,
           RowInv(r), Holds(r, l, at), r.cancelRequested => o = "cancelled"
    PROVE  Published(r, l, o) \in Row /\ RowInv(Published(r, l, o))
  BY RowAssumption
  DEF Published, Finished, Holds, Lease, Row, RowInv, Outcome, Completion, NoCompletion

\* Marking a cancellation ends a row nobody holds and keeps a held one running.
LEMMA CancelMarkedOK ==
    ASSUME NEW r \in Row, NEW at \in Nat, RowInv(r), r.state # "terminal"
    PROVE  CancelMarked(r, at) \in Row /\ RowInv(CancelMarked(r, at))
  BY RowAssumption DEF CancelMarked, Finished, Unheld, LeaseLapsed, Row, RowInv, Outcome

-----------------------------------------------------------------------------
(* The inductive invariant.                                                *)

\* Replacing rows of S by well-formed rows of no smaller generation, and no
\* completion whose lease was never issued, keeps the invariant.
LEMMA RewriteOK ==
    ASSUME IInv, NEW S \in SUBSET DOMAIN rows, NEW new \in [S -> Row],
           rows' = [u \in DOMAIN rows |-> IF u \in S THEN new[u] ELSE rows[u]],
           now' = now, issued' = issued,
           \A u \in S : /\ RowInv(new[u])
                        /\ new[u].generation >= rows[u].generation
                        /\ new[u].completion # NoCompletion =>
                              [task |-> u, owner |-> new[u].completion.worker,
                               generation |-> new[u].completion.generation] \in issued
    PROVE  IInv'
  <1>1. DOMAIN rows' = DOMAIN rows /\ TypeOK'
    BY DEF IInv, TypeOK
  <1>2. \A u \in DOMAIN rows' : RowInv(rows'[u])
    BY DEF IInv
  <1>3. \A u \in DOMAIN rows : rows'[u].generation >= rows[u].generation
    <2>1. \A u \in DOMAIN rows : rows[u].generation \in Nat
      BY DEF IInv, TypeOK, Row
    <2>2. \A u \in DOMAIN rows : u \notin S => rows'[u] = rows[u]
      OBVIOUS
    <2>3. \A u \in DOMAIN rows : u \in S => rows'[u] = new[u]
      OBVIOUS
    <2>4. \A u \in S : new[u].generation >= rows[u].generation
      OBVIOUS
    <2>5. \A n \in Nat : n >= n
      OBVIOUS
    <2>6. QED
      BY <2>1, <2>2, <2>3, <2>4, <2>5
  <1>4. \A l \in issued : l.generation <= rows'[l.task].generation
    <2>1. \A l \in issued : /\ l.task \in DOMAIN rows
                            /\ l.generation \in Nat
                            /\ l.generation <= rows[l.task].generation
      BY DEF IInv, IssuedInv, TypeOK, Lease
    <2>2. \A u \in DOMAIN rows : rows[u].generation \in Nat /\ rows'[u].generation \in Nat
      BY <1>1 DEF IInv, TypeOK, Row
    <2>3. QED
      BY <1>3, <2>1, <2>2
  <1>5. IssuedInv'
    BY <1>1, <1>4 DEF IInv, IssuedInv
  <1>6. QED
    BY <1>1, <1>2, <1>5 DEF IInv

\* The invariant holds of the empty table.
LEMMA InitIInv == Init => IInv
  BY DEF Init, IInv, TypeOK, IssuedInv, Lease

\* Every statement of the store preserves the invariant.
LEMMA NextIInv == IInv /\ [Next]_storeVars => IInv'
  <1> SUFFICES ASSUME IInv, [Next]_storeVars PROVE IInv'
    OBVIOUS
  <1>r. \A t \in DOMAIN rows : rows[t] \in Row /\ RowInv(rows[t])
    BY DEF IInv, TypeOK
  <1>n. now \in Nat /\ Instants \subseteq Nat
    BY DEF IInv, TypeOK, Instants
  <1>i. \A l \in issued : l \in Lease /\ l.task \in DOMAIN rows
    BY DEF IInv, TypeOK, IssuedInv
  <1>c. \A t \in DOMAIN rows : rows[t].completion # NoCompletion =>
            [task |-> t, owner |-> rows[t].completion.worker,
             generation |-> rows[t].completion.generation] \in issued
    BY DEF IInv, IssuedInv
  <1>1. ASSUME NEW t \in Task, NEW d \in Timeout, NEW at \in Instants,
               Enqueue(t, d, at)
        PROVE  IInv'
    <2> DEFINE deadline == IF d = None THEN None ELSE at + d
    <2>1. NewRow(deadline, at) \in Row /\ RowInv(NewRow(deadline, at))
      <3>1. at \in Nat /\ deadline \in Nat \cup {None}
        BY <1>n, StoreAssumption
      <3>2. QED
        BY <3>1, NewRowOK
    <2>2. /\ DOMAIN rows' = DOMAIN rows \cup {t}
          /\ \A u \in DOMAIN rows : rows'[u] = rows[u]
          /\ rows'[t] = NewRow(deadline, at)
          /\ UNCHANGED <<now, issued>>
      BY <1>1 DEF Enqueue
    <2>3. TypeOK'
      <3>1. rows' = [u \in DOMAIN rows \cup {t} |-> rows'[u]]
        BY <1>1, <2>2 DEF Enqueue
      <3>2. QED
        BY <2>1, <2>2, <3>1 DEF IInv, TypeOK
    <2>4. IssuedInv'
      <3>1. rows'[t].completion = NoCompletion
        BY <2>2 DEF NewRow
      <3>2. QED
        BY <2>2, <3>1 DEF IInv, IssuedInv
    <2>5. QED
      BY <1>r, <2>1, <2>2, <2>3, <2>4 DEF IInv
  <1>2. ASSUME NEW S \in SUBSET DOMAIN rows, NEW at \in Instants, CloseTerminal(S, at)
        PROVE  IInv'
    <2> DEFINE new == [u \in S |-> Closed(rows[u])]
    <2>1. \A u \in S : /\ new[u] \in Row
                       /\ RowInv(new[u])
                       /\ new[u].generation = rows[u].generation
                       /\ new[u].completion = rows[u].completion
      <3> SUFFICES ASSUME NEW u \in S
                   PROVE  /\ new[u] \in Row
                          /\ RowInv(new[u])
                          /\ new[u].generation = rows[u].generation
                          /\ new[u].completion = rows[u].completion
        OBVIOUS
      <3>1. rows[u] \in Row /\ RowInv(rows[u]) /\ rows[u].state # "terminal"
        BY <1>2, <1>r DEF CloseTerminal, Terminalizable
      <3>2. QED
        BY <3>1, ClosedOK DEF Closed, Finished, Row
    <2>2. \A u \in S : new[u].generation >= rows[u].generation
      BY <1>r, <2>1 DEF Row
    <2>3. rows' = [u \in DOMAIN rows |-> IF u \in S THEN new[u] ELSE rows[u]]
      BY <1>2 DEF CloseTerminal
    <2>5. new \in [S -> Row]
      BY <2>1
    <2> HIDE DEF new
    <2>4. QED
      BY <1>2, <1>c, <2>1, <2>2, <2>3, <2>5, RewriteOK DEF CloseTerminal
  <1>3. ASSUME NEW S \in SUBSET DOMAIN rows, NEW at \in Instants, RequeueExpired(S, at)
        PROVE  IInv'
    <2> DEFINE new == [u \in S |-> Requeued(rows[u], at)]
    <2>1. \A u \in S : /\ new[u] \in Row
                       /\ RowInv(new[u])
                       /\ new[u].generation = rows[u].generation
                       /\ new[u].completion = rows[u].completion
      <3> SUFFICES ASSUME NEW u \in S
                   PROVE  /\ new[u] \in Row
                          /\ RowInv(new[u])
                          /\ new[u].generation = rows[u].generation
                          /\ new[u].completion = rows[u].completion
        OBVIOUS
      <3>1. rows[u] \in Row /\ RowInv(rows[u]) /\ rows[u].state = "running"
        BY <1>3, <1>r DEF RequeueExpired, Requeueable, LeaseLapsed
      <3>2. QED
        BY <3>1, <1>n, RequeuedOK DEF Requeued, Row
    <2>2. \A u \in S : new[u].generation >= rows[u].generation
      BY <1>r, <2>1 DEF Row
    <2>3. rows' = [u \in DOMAIN rows |-> IF u \in S THEN new[u] ELSE rows[u]]
      BY <1>3 DEF RequeueExpired
    <2>5. new \in [S -> Row]
      BY <2>1
    <2> HIDE DEF new
    <2>4. QED
      BY <1>3, <1>c, <2>1, <2>2, <2>3, <2>5, RewriteOK DEF RequeueExpired
  <1>4. ASSUME NEW w \in Worker, NEW t \in Task, NEW at \in Instants, Claim(w, t, at)
        PROVE  IInv'
    <2> DEFINE until == at + LeaseMs
               g == Granted(rows[t], w, until, at)
               l == [task |-> t, owner |-> w, generation |-> rows[t].generation + 1]
    <2>1. t \in DOMAIN rows /\ Claimable(rows[t], at)
      BY <1>4 DEF Claim, Candidates
    <2>2. until \in Nat /\ at \in Nat
      BY <1>n, StoreAssumption
    <2>3. rows[t] \in Row /\ RowInv(rows[t])
      BY <1>r, <2>1
    <2>4. /\ g \in Row
          /\ RowInv(g)
          /\ g.generation = rows[t].generation + 1
          /\ g.completion = NoCompletion
      <3> HIDE DEF until
      <3>1. QED
        BY <2>1, <2>2, <2>3, GrantedOK
    <2>5. /\ rows' = [rows EXCEPT ![t] = g]
          /\ issued' = issued \cup {l}
          /\ now' = now
      BY <1>4 DEF Claim, SetRow
    <2> HIDE DEF g
    <2>6. TypeOK'
      <3>1. l \in Lease
        BY <2>1, <2>3 DEF Lease, Row
      <3> HIDE DEF l
      <3>2. QED
        BY <2>1, <2>4, <2>5, <3>1 DEF IInv, TypeOK
    <2>7. \A u \in DOMAIN rows' : RowInv(rows'[u])
      BY <1>r, <2>1, <2>4, <2>5
    <2>8. IssuedInv'
      <3>1. rows[t].generation \in Nat /\ \A k \in issued : k.generation \in Nat
        BY <1>i, <2>3 DEF Row, Lease
      <3>2. \A k \in issued : k.task = t => k.generation < l.generation
        BY <3>1 DEF IInv, IssuedInv
      <3>3. \A k \in issued' : k.task \in DOMAIN rows'
        BY <2>1, <2>5, <1>i
      <3>4. \A k \in issued' : k.generation <= rows'[k.task].generation
        BY <1>i, <2>1, <2>4, <2>5, <3>1, <3>2 DEF IInv, IssuedInv
      <3>5. \A j, k \in issued' :
               j.task = k.task /\ j.generation = k.generation => j = k
        <4> SUFFICES ASSUME NEW j \in issued', NEW k \in issued',
                            j.task = k.task, j.generation = k.generation
                     PROVE  j = k
          OBVIOUS
        <4>1. CASE j \in issued /\ k \in issued
          BY <4>1 DEF IInv, IssuedInv
        <4>2. CASE j = l /\ k \in issued
          BY <4>2, <3>1, <3>2
        <4>3. CASE k = l /\ j \in issued
          BY <4>3, <3>1, <3>2
        <4>4. QED
          BY <2>5, <4>1, <4>2, <4>3
      <3>6. \A u \in DOMAIN rows' : rows'[u].completion # NoCompletion =>
               [task |-> u, owner |-> rows'[u].completion.worker,
                generation |-> rows'[u].completion.generation] \in issued'
        BY <1>c, <2>1, <2>4, <2>5
      <3>7. QED
        BY <3>3, <3>4, <3>5, <3>6 DEF IssuedInv
    <2>9. QED
      BY <2>6, <2>7, <2>8 DEF IInv
  <1>5. ASSUME NEW t \in DOMAIN rows, NEW r \in Row, RowInv(r),
               SetRow(t, r), UNCHANGED <<now, issued>>,
               r.generation = rows[t].generation,
               r.completion # NoCompletion =>
                  [task |-> t, owner |-> r.completion.worker,
                   generation |-> r.completion.generation] \in issued
        PROVE  IInv'
    <2> DEFINE S == {t}
               new == [u \in S |-> r]
    <2>1. rows' = [u \in DOMAIN rows |-> IF u \in S THEN new[u] ELSE rows[u]]
      BY <1>5 DEF SetRow, IInv, TypeOK
    <2>2. \A u \in S : new[u] = r /\ r.generation >= rows[u].generation
      BY <1>5, <1>r DEF Row
    <2>3. /\ S \in SUBSET DOMAIN rows /\ new \in [S -> Row]
          /\ \A u \in S : u = t
      BY <1>5
    <2> HIDE DEF S, new
    <2>4. QED
      BY <1>5, <2>1, <2>2, <2>3, RewriteOK
  <1>6. ASSUME NEW l \in issued, NEW at \in Instants, Heartbeat(l, at)
        PROVE  IInv'
    <2> DEFINE r == Renewed(rows[l.task], at + LeaseMs)
    <2>1. rows[l.task] \in Row /\ RowInv(rows[l.task]) /\ rows[l.task].state = "running"
      BY <1>6, <1>r, <1>i DEF Heartbeat, Holds
    <2>2. at + LeaseMs \in Nat
      BY <1>n, StoreAssumption
    <2>3. r \in Row /\ RowInv(r)
      BY <2>1, <2>2, RenewedOK
    <2>4. r.generation = rows[l.task].generation /\ r.completion = rows[l.task].completion
      BY <2>1 DEF Renewed, Row
    <2> HIDE DEF r
    <2>5. SetRow(l.task, r) /\ UNCHANGED <<now, issued>>
      BY <1>6 DEF Heartbeat, r
    <2>6. QED
      BY <1>5, <1>c, <1>i, <2>3, <2>4, <2>5
  <1>7. ASSUME NEW l \in issued, NEW o \in Reported, NEW at \in Instants,
               Complete(l, o, at)
        PROVE  IInv'
    <2> DEFINE q == rows[l.task]
               r == Published(q, l, o)
    <2>1. q \in Row /\ RowInv(q) /\ l \in Lease /\ o \in Outcome /\ at \in Nat
      BY <1>r, <1>i, <1>n, StoreAssumption
    <2>2. Holds(q, l, at) /\ (q.cancelRequested => o = "cancelled")
      BY <1>7 DEF Complete, CompleteReply
    <2>3. r \in Row /\ RowInv(r)
      BY <2>1, <2>2, PublishedOK
    <2>4. /\ r.generation = q.generation
          /\ r.completion = [outcome |-> o, worker |-> l.owner, generation |-> l.generation]
      BY <2>1 DEF Published, Finished, Row
    <2>5. [task |-> l.task, owner |-> r.completion.worker,
           generation |-> r.completion.generation] = l
      BY <2>1, <2>4 DEF Lease
    <2>6. SetRow(l.task, r) /\ UNCHANGED <<now, issued>>
      BY <1>7 DEF Complete
    <2> HIDE DEF r
    <2>7. QED
      BY <1>5, <1>i, <2>3, <2>4, <2>5, <2>6
  <1>8. ASSUME NEW t \in DOMAIN rows, NEW at \in Instants, Cancel(t, at)
        PROVE  IInv'
    <2> DEFINE r == CancelMarked(rows[t], at)
    <2>1. /\ rows[t] \in Row /\ RowInv(rows[t]) /\ rows[t].state # "terminal"
          /\ at \in Nat
      BY <1>8, <1>r, <1>n DEF Cancel
    <2>2. r \in Row /\ RowInv(r)
      BY <2>1, CancelMarkedOK
    <2>3. r.generation = rows[t].generation /\ r.completion = rows[t].completion
      BY <2>1 DEF CancelMarked, Finished, Row
    <2>4. SetRow(t, r) /\ UNCHANGED <<now, issued>>
      BY <1>8 DEF Cancel
    <2> HIDE DEF r
    <2>5. QED
      BY <1>5, <1>c, <2>2, <2>3, <2>4
  <1>9. CASE Tick
    <2>1. now' \in Nat /\ rows' = rows /\ issued' = issued
      BY <1>9, <1>n DEF Tick
    <2>2. QED
      BY <2>1 DEF IInv, TypeOK, IssuedInv
  <1>10. CASE UNCHANGED storeVars
    BY <1>10 DEF storeVars, IInv, TypeOK, IssuedInv
  <1>11. QED
    BY <1>1, <1>2, <1>3, <1>4, <1>6, <1>7, <1>8, <1>9, <1>10 DEF Next, Statement

\* The inductive invariant holds throughout every behaviour of the store.
THEOREM Invariance == Spec => []IInv
  <1>1. IInv /\ [Next]_storeVars => IInv'
    BY NextIInv
  <1>2. QED
    BY InitIInv, <1>1, PTL DEF Spec

-----------------------------------------------------------------------------
(* The properties MCTaskStore checks on a small instance.                  *)

\* The table, the clock and the issued leases keep their types.
THEOREM TypeCorrect == Spec => []TypeOK
  <1>1. IInv => TypeOK
    BY DEF IInv
  <1>2. QED
    BY Invariance, <1>1, PTL

\* No statement writes a row that the schema's CHECK constraints refuse.
THEOREM ChecksAlwaysHold == Spec => []ChecksHold
  <1>1. IInv => ChecksHold
    BY DEF IInv, RowInv, ChecksHold
  <1>2. QED
    BY Invariance, <1>1, PTL

\* A published result is always that of the newest generation issued.
THEOREM CompletionsAreFenced == Spec => []CompletionFenced
  <1>1. ASSUME IInv PROVE CompletionFenced
    <2> SUFFICES ASSUME NEW t \in DOMAIN rows, rows[t].completion # NoCompletion
                 PROVE  /\ rows[t].state = "terminal"
                        /\ rows[t].outcome = rows[t].completion.outcome
                        /\ [task |-> t, owner |-> rows[t].completion.worker,
                            generation |-> rows[t].completion.generation] \in issued
                        /\ \A l \in issued : l.task = t =>
                              l.generation <= rows[t].completion.generation
      BY DEF CompletionFenced
    <2>1. RowInv(rows[t])
      BY <1>1 DEF IInv
    <2>2. QED
      BY <1>1, <2>1 DEF IInv, IssuedInv, RowInv
  <1>2. QED
    BY Invariance, <1>1, PTL

\* A task whose cancellation was accepted while it was live ends cancelled.
THEOREM CancellationWins == Spec => []CancelWins
  <1>1. IInv => CancelWins
    BY DEF IInv, RowInv, CancelWins
  <1>2. QED
    BY Invariance, <1>1, PTL

\* No generation is leased twice, and none beyond the claim limit.
THEOREM LeasesAreUnique == Spec => []LeasesUnique
  <1>1. ASSUME IInv PROVE LeasesUnique
    <2>1. \A l \in issued : l.generation <= MaxClaims
      <3> SUFFICES ASSUME NEW l \in issued PROVE l.generation <= MaxClaims
        OBVIOUS
      <3>1. /\ l.task \in DOMAIN rows
            /\ l.generation <= rows[l.task].generation
            /\ l.generation \in Nat
        BY <1>1 DEF IInv, IssuedInv, TypeOK, Lease
      <3>2. /\ rows[l.task].generation <= MaxClaims
            /\ rows[l.task].generation \in Nat
        BY <1>1, <3>1 DEF IInv, RowInv, TypeOK, Row
      <3>3. QED
        BY <3>1, <3>2, RowAssumption
    <2>2. QED
      BY <1>1, <2>1 DEF LeasesUnique, IInv, IssuedInv
  <1>2. QED
    BY Invariance, <1>1, PTL

\* MemoryTaskStore's sweep and PostgresTaskStore's two statements settle a
\* well-formed row in the same way, at any instant.
LEMMA SweptIsHousekept ==
    ASSUME NEW r \in Row, RowInv(r), NEW at \in Nat
    PROVE  Swept(r, at) = Housekept(r, at)
  <1>1. r.state = "running" /\ PastDeadline(r, at) => LeaseLapsed(r, at)
    BY RowAssumption DEF RowInv, PastDeadline, LeaseLapsed, Row
  <1>2. r.state \in {"queued", "running", "terminal"}
    BY DEF Row
  <1>3. QED
    BY <1>1, <1>2
    DEF Swept, Housekept, Terminalizable, Requeueable, Closed, Unheld, LeaseLapsed

\* The sweep leaves a held row as it is, and holds no lease it did not find.
LEMMA SweptHolds ==
    ASSUME NEW r \in Row, RowInv(r), NEW at \in Nat, NEW l
    PROVE  /\ Holds(r, l, at) => Swept(r, at) = r
           /\ Holds(Swept(r, at), l, at) <=> Holds(r, l, at)
  <1>1. r.state = "running" => r.leaseUntil \in Nat
    BY DEF RowInv, Row
  <1>2. Holds(r, l, at) => Swept(r, at) = r
    BY <1>1 DEF Holds, Swept, Unheld, LeaseLapsed
  <1>3. Swept(r, at).state = "running" => Swept(r, at) = r
    BY DEF Swept, Finished, Requeued, Row
  <1>4. QED
    BY <1>2, <1>3 DEF Holds

\* Both stores may claim the same rows, and grant them alike.
LEMMA ClaimsAgree ==
    ASSUME NEW r \in Row, RowInv(r), NEW at \in Nat, NEW w, NEW lease
    PROVE  /\ MemoryClaimable(Swept(r, at), at) <=> Claimable(r, at)
           /\ Claimable(r, at) =>
                 MemoryClaim(r, w, lease, at).row = Granted(r, w, at + lease, at)
  <1>1. r.state \in {"queued", "running", "terminal"} /\ r.claimCount \in Nat
    BY DEF Row
  <1>2. CASE ~LeaseLapsed(r, at)
    <2>1. Swept(r, at) = r \/ Swept(r, at).state = "terminal"
      BY <1>2 DEF Swept, Finished, Row
    <2>2. Claimable(r, at) => Swept(r, at) = r /\ r.state = "queued"
      BY <1>2 DEF Claimable, Swept, Unheld
    <2>3. MemoryClaimable(Swept(r, at), at) <=> Claimable(r, at)
      BY <1>1, <1>2, <2>1, <2>2, RowAssumption DEF Claimable, MemoryClaimable, Exhausted
    <2>4. QED
      BY <2>2, <2>3 DEF MemoryClaim, Effect, Granted, Row
  <1>3. CASE LeaseLapsed(r, at)
    <2> DEFINE q == Requeued(r, at)
    <2>1. /\ q.state = "queued" /\ q.availableAt = at /\ q.claimCount = r.claimCount
          /\ q.cancelRequested = r.cancelRequested /\ q.deadlineAt = r.deadlineAt
      BY DEF Requeued, Row
    <2>2. Swept(r, at) = q \/ Swept(r, at).state = "terminal"
      BY <1>3 DEF Swept, Finished, Row, LeaseLapsed
    <2>3. Claimable(r, at) <=> Swept(r, at) = q
      <3>1. Claimable(r, at) => Swept(r, at) = q
        BY <1>3 DEF Claimable, Swept, Unheld, LeaseLapsed
      <3>2. ~Claimable(r, at) => Swept(r, at).state = "terminal"
        BY <1>3 DEF Claimable, Swept, Unheld, LeaseLapsed, Finished, Row
      <3>3. QED
        BY <2>1, <3>1, <3>2
    <2>4. Claimable(r, at) => MemoryClaimable(q, at)
      BY <1>1, <2>1, RowAssumption DEF Claimable, MemoryClaimable, Exhausted, PastDeadline
    <2>5. MemoryClaimable(Swept(r, at), at) <=> Claimable(r, at)
      BY <2>1, <2>2, <2>3, <2>4 DEF MemoryClaimable
    <2>6. Claimable(r, at) => MemoryClaim(r, w, lease, at).row = Granted(r, w, at + lease, at)
      BY <1>3, <2>3
      DEF MemoryClaim, Effect, Granted, Requeued, Capped, LeaseLapsed, Row
    <2>7. QED
      BY <2>5, <2>6
  <1>4. QED
    BY <1>2, <1>3

\* Both stores accept the same completions, and publish them alike.
LEMMA CompletionsAgree ==
    ASSUME NEW r \in Row, RowInv(r), NEW at \in Nat, NEW l, NEW o
    PROVE  LET memory == MemoryComplete(r, l, o, at)
               sql == CompleteReply(r, l, o, at)
           IN  /\ memory.reply = "ok" <=> sql = "ok"
               /\ r.state = "terminal" => memory.reply = sql /\ memory.row = r
               /\ r.state # "terminal" => memory.row =
                     IF sql = "ok" THEN Published(r, l, o) ELSE Housekept(r, at)
  <1>1. CASE r.state = "terminal"
    BY <1>1 DEF MemoryComplete, CompleteReply, Effect
  <1>2. CASE r.state # "terminal" /\ ~Holds(r, l, at)
    BY <1>2, SweptHolds, SweptIsHousekept DEF MemoryComplete, CompleteReply, Effect
  <1>3. CASE r.state # "terminal" /\ Holds(r, l, at)
    <2>1. Swept(r, at) = r /\ Housekept(r, at) = r
      BY <1>3, SweptHolds, SweptIsHousekept
    <2>2. QED
      BY <1>3, <2>1 DEF MemoryComplete, CompleteReply, Effect, Published
  <1>4. QED
    BY <1>1, <1>2, <1>3

\* The memory store and the SQL grant, renew, publish, cancel and refuse
\* alike, on every row the store can hold and at any instant.
THEOREM StoresAreOne == Spec => []StoresAgree
  <1>1. ASSUME IInv PROVE StoresAgree
    <2>1. \A at \in Instants : at \in Nat
      BY DEF Instants
    <2>2. \A t \in DOMAIN rows : rows[t] \in Row /\ RowInv(rows[t])
      BY <1>1 DEF IInv, TypeOK
    <2>3. \A l \in issued : l.task \in DOMAIN rows
      BY <1>1 DEF IInv, IssuedInv
    <2>4. ASSUME NEW at \in Instants, NEW t \in DOMAIN rows
          PROVE  /\ MemoryRead(rows[t], at).row = Housekept(rows[t], at)
                 /\ MemoryAgain(rows[t], TRUE, at).row = Housekept(rows[t], at)
                 /\ MemoryAgain(rows[t], FALSE, at).row = rows[t]
                 /\ MemoryCancel(rows[t], at) =
                       IF rows[t].state = "terminal" THEN rows[t] ELSE CancelMarked(rows[t], at)
      <3>1. MemoryRead(rows[t], at).row = Housekept(rows[t], at)
        BY <2>1, <2>2, SweptIsHousekept DEF MemoryRead, Effect
      <3>2. rows[t].state \in {"queued", "running", "terminal"}
        BY <2>2 DEF Row
      <3>3. MemoryAgain(rows[t], TRUE, at) = MemoryRead(rows[t], at)
        BY DEF MemoryAgain, MemoryRead
      <3>4. MemoryAgain(rows[t], FALSE, at).row = rows[t]
        BY DEF MemoryAgain, Effect
      <3>5. QED
        BY <3>1, <3>2, <3>3, <3>4 DEF MemoryCancel, CancelMarked, Unheld, LeaseLapsed
    <2>5. ASSUME NEW at \in Instants, NEW w \in Worker, NEW t \in DOMAIN rows \cap Serves[w]
          PROVE  /\ MemoryClaimable(Swept(rows[t], at), at) <=> t \in Candidates(w, at)
                 /\ t \in Candidates(w, at) => MemoryClaim(rows[t], w, LeaseMs, at).row =
                                                Granted(rows[t], w, at + LeaseMs, at)
      <3>1. t \in Candidates(w, at) <=> Claimable(rows[t], at)
        BY DEF Candidates
      <3>2. QED
        BY <2>1, <2>2, <3>1, ClaimsAgree
    <2>6. ASSUME NEW at \in Instants, NEW l \in issued
          PROVE  MemoryHeartbeat(rows[l.task], l, LeaseMs, at).row =
                    IF Holds(rows[l.task], l, at) THEN Renewed(rows[l.task], at + LeaseMs)
                    ELSE Housekept(rows[l.task], at)
      BY <2>1, <2>2, <2>3, SweptHolds, SweptIsHousekept DEF MemoryHeartbeat, Effect, Renewed
    <2>7. ASSUME NEW at \in Instants, NEW d \in Timeout
          PROVE  MemoryEnqueue(d, at) = NewRow(IF d = None THEN None ELSE at + d, at)
      BY DEF MemoryEnqueue, NewRow
    <2>8. ASSUME NEW at \in Instants, NEW l \in issued, NEW o \in Reported
          PROVE  LET memory == MemoryComplete(rows[l.task], l, o, at)
                     sql == CompleteReply(rows[l.task], l, o, at)
                 IN  /\ memory.reply = "ok" <=> sql = "ok"
                     /\ rows[l.task].state = "terminal" =>
                           memory.reply = sql /\ memory.row = rows[l.task]
                     /\ rows[l.task].state # "terminal" => memory.row =
                           IF sql = "ok" THEN Published(rows[l.task], l, o)
                           ELSE Housekept(rows[l.task], at)
      BY <2>1, <2>2, <2>3, CompletionsAgree
    <2>9. QED
      BY <2>4, <2>5, <2>6, <2>7, <2>8, Zenon DEF StoresAgree
  <1>2. QED
    BY Invariance, <1>1, PTL

-----------------------------------------------------------------------------
(* Refinement: every step of the store is a step of the ledger, or leaves  *)
(* the ledger unchanged.                                                   *)

Ledger == [t \in Task |-> Entry(t)]

\* A row that has not ended shows no outcome and no publisher.
LEMMA ShownLive ==
    ASSUME NEW r \in Row, RowInv(r), r.state # "terminal"
    PROVE  Shown(r) = Promise!Live(r.state, r.generation, r.cancelRequested)
  BY DEF Shown, RowInv, NoCompletion, Promise!Live

\* A finished row shows its outcome and no publisher.
LEMMA ShownFinished ==
    ASSUME NEW r \in Row, RowInv(r), r.state # "terminal", NEW o
    PROVE  Shown(Finished(r, o)) = Promise!Ended(r.generation, r.cancelRequested, o, 0)
  BY DEF Shown, Finished, Row, RowInv, NoCompletion, Promise!Ended

\* A requeued row shows as queued, with the generation it had.
LEMMA ShownRequeued ==
    ASSUME NEW r \in Row, RowInv(r), NEW at, Requeueable(r, at)
    PROVE  Shown(Requeued(r, at)) = Promise!Live("queued", r.generation, FALSE)
  <1> DEFINE q == Requeued(r, at)
  <1>1. /\ r.state = "running" /\ r.cancelRequested = FALSE
        /\ r.outcome = None /\ r.completion.generation = 0
    BY DEF Requeueable, LeaseLapsed, Row, RowInv, NoCompletion
  <1>2. /\ q.state = "queued" /\ q.generation = r.generation
        /\ q.cancelRequested = r.cancelRequested /\ q.outcome = r.outcome
        /\ q.completion = r.completion
    BY DEF Requeued, Row
  <1> HIDE DEF q
  <1>3. Shown(q) = Promise!Live("queued", r.generation, FALSE)
    BY <1>1, <1>2 DEF Shown, Promise!Live
  <1>4. QED
    BY <1>3 DEF q

\* A granted row shows as running under the next generation.
LEMMA ShownGranted ==
    ASSUME NEW r \in Row, RowInv(r), NEW w, NEW until, NEW at, Claimable(r, at)
    PROVE  Shown(Granted(r, w, until, at)) =
               Promise!Live("running", r.generation + 1, FALSE)
  <1> DEFINE q == Granted(r, w, until, at)
  <1>1. /\ r.state # "terminal" /\ r.cancelRequested = FALSE
        /\ r.outcome = None /\ r.completion.generation = 0
    BY DEF Claimable, LeaseLapsed, Row, RowInv, NoCompletion
  <1>2. /\ q.state = "running" /\ q.generation = r.generation + 1
        /\ q.cancelRequested = r.cancelRequested /\ q.outcome = r.outcome
        /\ q.completion = r.completion
    BY DEF Granted, Row
  <1> HIDE DEF q
  <1>3. Shown(q) = Promise!Live("running", r.generation + 1, FALSE)
    BY <1>1, <1>2 DEF Shown, Promise!Live
  <1>4. QED
    BY <1>3 DEF q

\* A published row shows the reported outcome under its own generation.
LEMMA ShownPublished ==
    ASSUME NEW r \in Row, NEW l \in Lease, NEW o, NEW at, Holds(r, l, at)
    PROVE  Shown(Published(r, l, o)) =
               Promise!Ended(r.generation, r.cancelRequested, o, r.generation)
  BY DEF Shown, Published, Finished, Holds, Row, Promise!Ended

\* A cancelled row is ended if nobody holds it, else it remembers the request.
LEMMA ShownCancelMarked ==
    ASSUME NEW r \in Row, RowInv(r), NEW at, r.state # "terminal"
    PROVE  Shown(CancelMarked(r, at)) =
               IF Unheld(r, at)
               THEN Promise!Ended(r.generation, TRUE, "cancelled", 0)
               ELSE Promise!Live("running", r.generation, TRUE)
  <1> DEFINE marked == [r EXCEPT !.cancelRequested = TRUE]
             ended  == Finished(marked, "cancelled")
  <1>1. /\ marked.state = r.state /\ marked.generation = r.generation
        /\ marked.cancelRequested = TRUE /\ marked.outcome = None
        /\ marked.completion.generation = 0
    BY DEF Row, RowInv, NoCompletion
  <1>2. /\ ended.state = "terminal" /\ ended.generation = r.generation
        /\ ended.cancelRequested = TRUE /\ ended.outcome = "cancelled"
        /\ ended.completion.generation = 0
    BY DEF Finished, Row, RowInv, NoCompletion
  <1>3. CancelMarked(r, at) = IF Unheld(r, at) THEN ended ELSE marked
    BY DEF CancelMarked
  <1>4. ~Unheld(r, at) => r.state = "running"
    BY DEF Unheld, Row
  <1> HIDE DEF marked, ended
  <1>5. Shown(ended) = Promise!Ended(r.generation, TRUE, "cancelled", 0)
    BY <1>2 DEF Shown, Promise!Ended
  <1>6. ~Unheld(r, at) => Shown(marked) = Promise!Live("running", r.generation, TRUE)
    BY <1>1, <1>4 DEF Shown, Promise!Live
  <1>7. QED
    BY <1>3, <1>5, <1>6

\* The empty table is the empty ledger.
LEMMA InitRefines == Init => Promise!Init
  BY DEF Init, Promise!Init, Promise!Absent, Promise!Live, Entry, Unknown

\* A statement that leaves what the ledger shows of each row is a stutter.
LEMMA SameLedger ==
    ASSUME DOMAIN rows' = DOMAIN rows,
           \A t \in DOMAIN rows : /\ rows'[t].state = rows[t].state
                                  /\ rows'[t].generation = rows[t].generation
                                  /\ rows'[t].cancelRequested = rows[t].cancelRequested
                                  /\ rows'[t].outcome = rows[t].outcome
                                  /\ rows'[t].completion = rows[t].completion
    PROVE  Ledger' = Ledger
  BY DEF Ledger, Entry, Shown

\* Every step of the store is a ledger step or a stutter of the ledger.
LEMMA NextRefines == IInv /\ [Next]_storeVars => [Promise!Next]_Ledger
  <1> SUFFICES ASSUME IInv, [Next]_storeVars PROVE Promise!Next \/ Ledger' = Ledger
    BY DEF Ledger
  <1>r. /\ DOMAIN rows \subseteq Task
        /\ \A t \in DOMAIN rows : rows[t] \in Row /\ RowInv(rows[t])
        /\ \A l \in issued : l.task \in DOMAIN rows /\ l \in Lease
    BY DEF IInv, TypeOK, IssuedInv
  <1>e. \A t \in DOMAIN rows : Entry(t) = Shown(rows[t])
    BY DEF Entry
  <1>f. \A t \in DOMAIN rows : /\ Entry(t).phase = rows[t].state
                               /\ Entry(t).generation = rows[t].generation
                               /\ Entry(t).cancelled = rows[t].cancelRequested
    BY DEF Entry, Shown
  <1>1. ASSUME NEW t \in Task, NEW d \in Timeout, NEW at \in Instants,
               Enqueue(t, d, at)
        PROVE  Promise!Submit(t)
    BY <1>1, <1>r
    DEF Enqueue, NewRow, NoCompletion, Entry, Shown, Unknown,
        Promise!Submit, Promise!Update, Promise!Live
  <1>2. ASSUME NEW S \in SUBSET DOMAIN rows, NEW at \in Instants, CloseTerminal(S, at)
        PROVE  Promise!Close(S)
    <2>1. \A t \in S : rows[t].state \in {"queued", "running"}
      BY <1>2, <1>r DEF CloseTerminal, Terminalizable, Row
    <2>2. \A t \in S : Entry(t)' =
              Promise!Ended(Entry(t).generation, Entry(t).cancelled,
                            IF Entry(t).cancelled THEN "cancelled" ELSE "error", 0)
      <3> SUFFICES ASSUME NEW t \in S
                   PROVE  Entry(t)' =
              Promise!Ended(Entry(t).generation, Entry(t).cancelled,
                            IF Entry(t).cancelled THEN "cancelled" ELSE "error", 0)
        OBVIOUS
      <3>1. Entry(t)' = Shown(Closed(rows[t]))
        BY <1>2 DEF CloseTerminal, Entry
      <3>2. QED
        BY <1>r, <1>f, <2>1, <3>1, ShownFinished DEF Closed
    <2>3. \A t \in Task \ S : Entry(t)' = Entry(t)
      BY <1>2 DEF CloseTerminal, Entry
    <2>4. QED
      BY <1>2, <1>r, <1>f, <2>1, <2>2, <2>3
      DEF CloseTerminal, Promise!Close, Promise!Update
  <1>3. ASSUME NEW S \in SUBSET DOMAIN rows, NEW at \in Instants, RequeueExpired(S, at)
        PROVE  Promise!Release(S)
    <2>1. \A t \in S : rows[t].state = "running" /\ ~rows[t].cancelRequested
      BY <1>3 DEF RequeueExpired, Requeueable, LeaseLapsed
    <2>2. \A t \in S : Entry(t)' = Promise!Live("queued", Entry(t).generation, FALSE)
      <3> SUFFICES ASSUME NEW t \in S
                   PROVE  Entry(t)' = Promise!Live("queued", Entry(t).generation, FALSE)
        OBVIOUS
      <3>1. Entry(t)' = Shown(Requeued(rows[t], at)) /\ Requeueable(rows[t], at)
        BY <1>3 DEF RequeueExpired, Entry
      <3>2. QED
        BY <1>r, <1>f, <3>1, ShownRequeued
    <2>3. \A t \in Task \ S : Entry(t)' = Entry(t)
      BY <1>3 DEF RequeueExpired, Entry
    <2>4. QED
      BY <1>3, <1>r, <1>f, <2>1, <2>2, <2>3
      DEF RequeueExpired, Promise!Release, Promise!Update
  <1>4. ASSUME NEW w \in Worker, NEW t \in Task, NEW at \in Instants, Claim(w, t, at)
        PROVE  Promise!Grant(t)
    <2>1. t \in DOMAIN rows /\ Claimable(rows[t], at)
      BY <1>4 DEF Claim, Candidates
    <2>2. /\ Entry(t).phase \in {"queued", "running"}
          /\ ~Entry(t).cancelled
          /\ Entry(t).generation < MaxClaims
      BY <2>1, <1>r, <1>f, RowAssumption
      DEF Claimable, LeaseLapsed, Exhausted, RowInv, Row
    <2>3. Entry(t)' = Promise!Live("running", Entry(t).generation + 1, FALSE)
      <3>1. Entry(t)' = Shown(Granted(rows[t], w, at + LeaseMs, at))
        BY <1>4, <2>1 DEF Claim, SetRow, Entry
      <3>2. QED
        <4>1. rows[t] \in Row /\ RowInv(rows[t]) /\ Claimable(rows[t], at)
          BY <1>r, <2>1
        <4>2. Shown(Granted(rows[t], w, at + LeaseMs, at)) =
                  Promise!Live("running", rows[t].generation + 1, FALSE)
          BY <4>1, ShownGranted
        <4>3. QED
          BY <1>f, <2>1, <3>1, <4>2
    <2>4. \A u \in Task \ {t} : Entry(u)' = Entry(u)
      BY <1>4, <2>1 DEF Claim, SetRow, Entry
    <2>5. QED
      BY <2>2, <2>3, <2>4 DEF Promise!Grant, Promise!Update
  <1>5. ASSUME NEW l \in issued, NEW at \in Instants, Heartbeat(l, at)
        PROVE  Ledger' = Ledger
    BY <1>5, <1>r, SameLedger DEF Heartbeat, SetRow, Renewed, Row
  <1>6. ASSUME NEW l \in issued, NEW o \in Reported, NEW at \in Instants,
               Complete(l, o, at)
        PROVE  Promise!Publish(l.task, o)
    <2> DEFINE t == l.task
    <2>1. t \in DOMAIN rows /\ t \in Task /\ l \in Lease
      BY <1>r
    <2>2. Holds(rows[t], l, at) /\ (rows[t].cancelRequested => o = "cancelled")
      BY <1>6 DEF Complete, CompleteReply
    <2>3. Entry(t).phase = "running" /\ (Entry(t).cancelled => o = "cancelled")
      BY <2>1, <2>2, <1>f DEF Holds
    <2>4. Entry(t)' = Promise!Ended(Entry(t).generation, Entry(t).cancelled, o,
                                    Entry(t).generation)
      <3>1. Entry(t)' = Shown(Published(rows[t], l, o))
        BY <1>6, <2>1 DEF Complete, SetRow, Entry
      <3>2. QED
        BY <1>r, <1>f, <2>1, <2>2, <3>1, ShownPublished
    <2>5. \A u \in Task \ {t} : Entry(u)' = Entry(u)
      BY <1>6, <2>1 DEF Complete, SetRow, Entry
    <2> HIDE DEF t
    <2>6. Promise!Publish(t, o)
      BY <2>1, <2>3, <2>4, <2>5 DEF Promise!Publish, Promise!Update
    <2>7. QED
      BY <2>6 DEF t
  <1>7. ASSUME NEW t \in DOMAIN rows, NEW at \in Instants, Cancel(t, at)
        PROVE  Promise!RequestCancel(t) \/ Promise!Withdraw(t)
    <2>1. \A u \in Task \ {t} : Entry(u)' = Entry(u)
      BY <1>7 DEF Cancel, SetRow, Entry
    <2>2. t \in Task /\ rows[t] \in Row /\ rows[t].state \in {"queued", "running"}
      BY <1>7, <1>r DEF Cancel, Row
    <2>3. Entry(t)' = Shown(CancelMarked(rows[t], at))
      BY <1>7 DEF Cancel, SetRow, Entry
    <2>4. CASE Unheld(rows[t], at)
      <3>1. Entry(t)' = Promise!Ended(Entry(t).generation, TRUE, "cancelled", 0)
        BY <1>r, <1>f, <2>2, <2>3, <2>4, ShownCancelMarked
      <3>2. QED
        BY <1>f, <2>1, <2>2, <3>1 DEF Promise!Withdraw, Promise!Update
    <2>5. CASE ~Unheld(rows[t], at)
      <3>1. Entry(t)' = Promise!Live("running", Entry(t).generation, TRUE)
        BY <1>r, <1>f, <2>2, <2>3, <2>5, ShownCancelMarked
      <3>2. Entry(t).phase = "running"
        BY <1>f, <2>2, <2>5 DEF Unheld
      <3>3. QED
        BY <2>1, <2>2, <3>1, <3>2 DEF Promise!RequestCancel, Promise!Update
    <2>6. QED
      BY <2>4, <2>5
  <1>8. CASE Tick \/ UNCHANGED storeVars
    BY <1>8, SameLedger DEF Tick, storeVars
  <1>9. QED
    <2>1. Reported \subseteq Outcome
      BY StoreAssumption
    <2>2. QED
      BY <1>r, <1>1, <1>2, <1>3, <1>4, <1>5, <1>6, <1>7, <1>8, <2>1
      DEF Next, Statement, Promise!Next

\* The store implements the ledger.
THEOREM StoreImplementsLedger == Spec => ImplementsLedger
  <1>1. IInv /\ [Next]_storeVars => [Promise!Next]_Ledger
    BY NextRefines
  <1>2. QED
    BY InitRefines, <1>1, Invariance, PTL DEF Spec, ImplementsLedger, Promise!Spec, Ledger

(***************************************************************************)
(* The workers.                                                            *)
(***************************************************************************)

\* The safety margin exceeds all delays of the guard's timer and of a statement.
Punctual == MaxLag + MaxLate < SafetyMs

-----------------------------------------------------------------------------
(* The inductive invariant.                                                *)

Replies == [code : {None, "granted", "nothing", "renewed", "STALE_LEASE", "ok",
                    "CANCEL_REQUESTED", "COMPLETION_CONFLICT"},
            lease           : Lease \cup {None},
            serverNow       : Nat,
            leaseUntil      : Nat,
            deadlineAt      : Nat,
            cancelRequested : BOOLEAN]

Requests == [stage   : Stage,
             worker  : Worker,
             lease   : Lease \cup {None},
             outcome : Outcome \cup {None},
             sentAt  : Nat,
             reply   : Replies]

Loops == [pc         : {"off", "idle", "claiming", "running", "aborted",
                        "settled", "publishing"},
          lease      : Lease \cup {None},
          safeUntil  : Int,
          deadlineAt : Int,
          outcome    : Outcome \cup {None},
          abort      : {None, "cancel", "deadline"},
          req        : Requests \cup {None}]

\* A request about a lease names one that was issued.
Sent(q, I) ==
    /\ q \in Requests
    /\ q.stage \in {"renew", "close", "requeue", "publish"} => q.lease \in I
    /\ q.stage = "publish" => q.outcome \in Outcome

\* The task ended with outcome o, published by lease l.
Done(l, o, R) ==
    /\ R[l.task].state = "terminal"
    /\ R[l.task].completion =
          [outcome |-> o, worker |-> l.owner, generation |-> l.generation]

Armed(v) == v.pc \in {"running", "aborted", "settled", "publishing"}

\* The loop was answered with a view of its lease and has not seen it yet.
Viewing(v) ==
    /\ v.req # None
    /\ v.req.stage = "answered"
    /\ v.req.reply.code \in {"granted", "renewed"}

Claiming(v, I) ==
    v.pc = "claiming" =>
        /\ v.req.stage \in {"sweep", "grant", "answered"}
        /\ v.req.stage = "answered" =>
              /\ v.req.reply.code \in {"granted", "nothing"}
              /\ v.req.reply.code = "granted" => v.req.reply.lease \in I

Beating(v) ==
    v.pc \in {"running", "aborted", "settled"} =>
        /\ v.req.stage \in {"renew", "close", "requeue", "answered"}
        /\ v.req.lease = v.lease
        /\ v.req.stage = "answered" =>
              /\ v.req.reply.code \in {"renewed", "STALE_LEASE"}
              /\ v.req.reply.code = "renewed" => v.req.reply.lease = v.lease

Publishing(v, R) ==
    v.pc = "publishing" =>
        /\ v.req.stage \in {"publish", "answered"}
        /\ v.req.lease = v.lease
        /\ v.req.outcome = v.outcome
        /\ v.req.stage = "answered" =>
              /\ v.req.reply.code \in {"ok", "CANCEL_REQUESTED", "STALE_LEASE",
                                       "COMPLETION_CONFLICT"}
              /\ v.req.reply.code = "ok" => Done(v.lease, v.outcome, R)
              /\ v.req.reply.code = "CANCEL_REQUESTED" =>
                    R[v.lease.task].cancelRequested /\ v.outcome # "cancelled"

\* What loop s is doing fits the request it waits for.
Fits(s, v, R, N, I) ==
    /\ v \in Loops
    /\ v.pc \in {"off", "idle"} => v.req = None
    /\ ~Armed(v) => v.lease = None
    /\ Armed(v) => v.lease \in I
    /\ v.pc \in {"settled", "publishing"} => v.outcome \in Outcome
    /\ v.req # None =>
          /\ Sent(v.req, I)
          /\ v.req.worker = WorkerOf[s]
          /\ v.req.sentAt <= N + Skew[WorkerOf[s]]
          /\ Claiming(v, I) /\ Beating(v) /\ Publishing(v, R)

Owns(v, l) ==
    \/ Armed(v) /\ l = v.lease
    \/ Viewing(v) /\ l = v.req.reply.lease

\* No two loops have the same lease.
Alone(S) ==
    \A s, u \in Slot : \A l \in Lease : Owns(S[s], l) /\ Owns(S[u], l) => s = u

\* A completion that may still arrive is the one its loop is publishing, or
\* one the store will refuse because the task was cancelled.
Harmless(W, S, R) ==
    \A q \in W, s \in Slot : q.stage = "publish" /\ Owns(S[s], q.lease) =>
        /\ S[s].pc = "publishing"
        /\ \/ q.outcome = S[s].outcome
           \/ S[s].outcome = "cancelled" /\ R[q.lease.task].cancelRequested

Dated(R) == \A t \in DOMAIN R : R[t].deadlineAt # None

WireInv(W, I) ==
    /\ IsFiniteSet(W) /\ Cardinality(W) <= MaxWire
    /\ \A q \in W : Sent(q, I)

WorkerInv ==
    /\ IInv
    /\ Dated(rows)
    /\ slot \in [Slot -> Loops]
    /\ \A s \in Slot : Fits(s, slot[s], rows, now, issued)
    /\ Alone(slot)
    /\ WireInv(wire, issued)
    /\ Harmless(wire, slot, rows)

\* The row's lease is l.
Current(l, R) ==
    /\ R[l.task].state = "running"
    /\ R[l.task].owner = l.owner
    /\ R[l.task].generation = l.generation

\* The boundary b, on the database clock, is not beyond what the row grants
\* by more than a statement's lag.
Bounded(b, r, N) ==
    /\ b <= N + LeaseMs
    /\ b <= r.deadlineAt
    /\ b <= r.leaseUntil + MaxLag

\* Until its guard must have fired, whoever believes in b holds the row.
Alive(l, b, R, N) ==
    N <= b - SafetyMs + MaxLate => Current(l, R) /\ Bounded(b, R[l.task], N)

\* The boundaries loop s has, and is about to read from its answer.
Boundary(s, v) == v.safeUntil + SafetyMs - Skew[WorkerOf[s]]
Granting(q, w) == q.sentAt - Skew[w] + (q.reply.leaseUntil - q.reply.serverNow)

Believes(s, v, R, N) ==
    /\ Armed(v) =>
          /\ N + Skew[WorkerOf[s]] <= v.safeUntil + MaxLate
          /\ \/ Alive(v.lease, Boundary(s, v), R, N)
             \/ v.pc = "publishing" /\ Done(v.lease, v.outcome, R)
    /\ Viewing(v) => Alive(v.req.reply.lease, Granting(v.req, WorkerOf[s]), R, N)
    /\ v.pc = "publishing" /\ v.req # None /\ v.req.stage = "answered" =>
          v.req.reply.code \in {"ok", "CANCEL_REQUESTED"}

TimedInv == \A s \in Slot : Believes(s, slot[s], rows, now)

-----------------------------------------------------------------------------
(* Rows.                                                                   *)

\* What a statement does to a row it did not publish.
Move(r, r2, at) ==
    \/ r2 = r
    \/ Terminalizable(r, at) /\ r2 = Closed(r)
    \/ Requeueable(r, at) /\ r2 = Requeued(r, at)
    \/ Claimable(r, at) /\ \E w \in Worker : r2 = Granted(r, w, at + LeaseMs, at)
    \/ r.state = "running" /\ r2 = Renewed(r, at + LeaseMs)
    \/ r.state # "terminal" /\ r2 = CancelMarked(r, at)

\* The safety margin is a positive number.
LEMMA SafetyType == SafetyMs \in Nat /\ SafetyMs >= 1
  <1>1. LeaseMs \in Nat /\ LeaseMs \div 3 \in Nat /\ HeartbeatMs \in Nat
    BY StoreAssumption, WorkerAssumption, Z3
  <1> DEFINE third == LeaseMs \div 3
  <1>2. third \in Nat
    BY <1>1
  <1> HIDE DEF third
  <1>3. QED
    BY <1>1, <1>2 DEF SafetyMs, third

\* No statement changes an ended row, forgets a cancellation or a deadline, or
\* takes a row from a holder whose boundary has not passed.
LEMMA MoveKeeps ==
    ASSUME NEW r \in Row, RowInv(r), r.deadlineAt # None, NEW r2, NEW at \in Nat, Move(r, r2, at)
    PROVE  /\ r.state = "terminal" => r2 = r
           /\ r.cancelRequested => r2.cancelRequested
           /\ r2.deadlineAt = r.deadlineAt
  BY DEF Move, Terminalizable, Closed, Finished, Requeueable, Requeued, Claimable, Granted,
         Renewed, CancelMarked, Row, LeaseLapsed

\* A row whose lease has not lapsed stays with its holder.
LEMMA MoveHeld ==
    ASSUME NEW r \in Row, RowInv(r), r.deadlineAt # None, NEW r2, NEW at \in Nat, Move(r, r2, at),
           r.state = "running", r.leaseUntil > at
    PROVE  /\ r2.state = "running" /\ r2.owner = r.owner /\ r2.generation = r.generation
           /\ r2.deadlineAt = r.deadlineAt
           /\ \/ r2.leaseUntil = r.leaseUntil
              \/ r2.leaseUntil = at + LeaseMs
              \/ r2.leaseUntil = r.deadlineAt
  <1>1. /\ r.leaseUntil \in Nat /\ r.deadlineAt \in Nat /\ r.deadlineAt > at
        /\ ~LeaseLapsed(r, at) /\ ~PastDeadline(r, at) /\ ~Unheld(r, at)
    BY RowAssumption DEF Row, RowInv, LeaseLapsed, PastDeadline, Unheld
  <1>2. ~Terminalizable(r, at) /\ ~Requeueable(r, at) /\ ~Claimable(r, at)
    BY <1>1 DEF Terminalizable, Requeueable, Claimable
  <1>3. CASE r2 = r
    BY <1>3
  <1>4. CASE r2 = Renewed(r, at + LeaseMs)
    BY <1>4 DEF Renewed, Capped, Row
  <1>5. CASE r2 = CancelMarked(r, at)
    BY <1>1, <1>5 DEF CancelMarked, Row
  <1>6. QED
    BY <1>2, <1>3, <1>4, <1>5 DEF Move

\* A boundary that has not passed by more than the guard's delay is before the
\* end of the lease, for every reading of the clock.
LEMMA BeforeLapse ==
    ASSUME Punctual, NEW r \in Row, RowInv(r), r.state = "running", r.deadlineAt # None,
           NEW b \in Int, NEW N \in Nat, N <= b - SafetyMs + MaxLate, Bounded(b, r, N)
    PROVE  /\ r.leaseUntil \in Nat /\ r.deadlineAt \in Nat
           /\ N < r.leaseUntil /\ r.leaseUntil <= r.deadlineAt
  <1>1. r.leaseUntil \in Nat /\ r.deadlineAt \in Nat /\ r.leaseUntil <= r.deadlineAt
    BY RowAssumption DEF Row, RowInv
  <1>2. MaxLag \in Nat /\ MaxLate \in Nat /\ SafetyMs \in Nat
    BY StoreAssumption, WorkerAssumption, SafetyType
  <1>3. N < r.leaseUntil
    BY <1>1, <1>2 DEF Punctual, Bounded
  <1>4. QED
    BY <1>1, <1>3

\* A statement leaves a row to a holder whose guard need not have fired.
LEMMA MoveBounded ==
    ASSUME Punctual, NEW r \in Row, RowInv(r), r.state = "running", r.deadlineAt # None,
           NEW b \in Int, NEW N \in Nat, N <= b - SafetyMs + MaxLate, Bounded(b, r, N),
           NEW r2, NEW at \in Nat, at <= N, N <= at + MaxLag, Move(r, r2, at)
    PROVE  /\ r2.state = "running" /\ r2.owner = r.owner /\ r2.generation = r.generation
           /\ Bounded(b, r2, N)
  <1>1. /\ r.leaseUntil \in Nat /\ r.deadlineAt \in Nat
        /\ N < r.leaseUntil /\ r.leaseUntil <= r.deadlineAt
    BY BeforeLapse
  <1>2. /\ r2.state = "running" /\ r2.owner = r.owner /\ r2.generation = r.generation
        /\ r2.deadlineAt = r.deadlineAt
        /\ \/ r2.leaseUntil = r.leaseUntil
           \/ r2.leaseUntil = at + LeaseMs
           \/ r2.leaseUntil = r.deadlineAt
    BY <1>1, MoveHeld
  <1>3. MaxLag \in Nat /\ LeaseMs \in Nat
    BY StoreAssumption
  <1>4. b <= N + LeaseMs /\ b <= r.deadlineAt /\ b <= r.leaseUntil + MaxLag
    BY DEF Bounded
  <1>5. b <= r2.leaseUntil + MaxLag
    <2>1. CASE r2.leaseUntil = at + LeaseMs
      BY <1>3, <1>4, <2>1
    <2>2. CASE r2.leaseUntil = r.deadlineAt
      BY <1>1, <1>3, <1>4, <2>2
    <2>3. QED
      BY <1>2, <1>4, <2>1, <2>2
  <1>6. QED
    BY <1>2, <1>4, <1>5 DEF Bounded

-----------------------------------------------------------------------------
(* Statements, seen by a loop that is not served.                          *)

\* Every row survives; ended rows stay as they are, cancellations too.
Later(R, R2) ==
    /\ DOMAIN R \subseteq DOMAIN R2
    /\ \A t \in DOMAIN R :
          /\ R[t].state = "terminal" => R2[t] = R[t]
          /\ R[t].cancelRequested => R2[t].cancelRequested

\* A statement with a reading of the clock that is not too old.
Moved(R, R2, N) ==
    /\ DOMAIN R \subseteq DOMAIN R2
    /\ \A t \in DOMAIN R : \E at \in Nat :
          at <= N /\ N <= at + MaxLag /\ Move(R[t], R2[t], at)

\* Lease l published outcome o.
PublishedBy(l, o, R, R2, N) ==
    \E at \in Nat :
        /\ at <= N /\ N <= at + MaxLag
        /\ Holds(R[l.task], l, at)
        /\ R[l.task].cancelRequested => o = "cancelled"
        /\ R2 = [R EXCEPT ![l.task] = Published(R[l.task], l, o)]

Table(R) == \A t \in DOMAIN R : R[t] \in Row /\ RowInv(R[t]) /\ R[t].deadlineAt # None

\* A statement's rows are later rows.
LEMMA MovedLater ==
    ASSUME NEW R, Table(R), NEW R2, NEW N, Moved(R, R2, N)
    PROVE  Later(R, R2) /\ (Dated(R) /\ DOMAIN R2 = DOMAIN R => Dated(R2))
  <1>1. ASSUME NEW t \in DOMAIN R
        PROVE  /\ R[t].state = "terminal" => R2[t] = R[t]
               /\ R[t].cancelRequested => R2[t].cancelRequested
               /\ R2[t].deadlineAt = R[t].deadlineAt
    <2>1. PICK at \in Nat : Move(R[t], R2[t], at)
      BY DEF Moved
    <2>2. R[t] \in Row /\ RowInv(R[t]) /\ R[t].deadlineAt # None
      BY DEF Table
    <2>3. QED
      BY <2>1, <2>2, MoveKeeps
  <1>2. QED
    BY <1>1 DEF Later, Moved, Dated

\* A publication ends its row with its completion and leaves the others.
LEMMA PublishedLater ==
    ASSUME NEW R, Table(R), NEW l \in Lease, l.task \in DOMAIN R, NEW o, NEW R2, NEW N,
           PublishedBy(l, o, R, R2, N)
    PROVE  /\ Later(R, R2) /\ Dated(R2) /\ DOMAIN R2 = DOMAIN R
           /\ Done(l, o, R2) /\ Current(l, R)
           /\ \A t \in DOMAIN R : t # l.task => R2[t] = R[t]
  <1> DEFINE r == R[l.task]
             p == Published(r, l, o)
  <1>1. PICK at \in Nat : Holds(r, l, at) /\ R2 = [R EXCEPT ![l.task] = p]
    BY DEF PublishedBy
  <1>2. r \in Row /\ r.deadlineAt # None
    BY DEF Table
  <1>3. /\ p.state = "terminal" /\ p.deadlineAt = r.deadlineAt
        /\ p.cancelRequested = r.cancelRequested
        /\ p.completion = [outcome |-> o, worker |-> l.owner, generation |-> l.generation]
    BY <1>2 DEF Published, Finished, Row
  <1>4. /\ r.state = "running" /\ r.owner = l.owner /\ r.generation = l.generation
    BY <1>1 DEF Holds
  <1> HIDE DEF p
  <1>5. /\ DOMAIN R2 = DOMAIN R /\ R2[l.task] = p
        /\ \A t \in DOMAIN R : t # l.task => R2[t] = R[t]
    BY <1>1
  <1>6. Later(R, R2)
    BY <1>3, <1>4, <1>5 DEF Later
  <1>7. Dated(R2)
    BY <1>2, <1>3, <1>5 DEF Dated, Table
  <1>8. QED
    BY <1>3, <1>4, <1>5, <1>6, <1>7 DEF Done, Current

\* What has ended stays ended.
LEMMA DoneLater ==
    ASSUME NEW R, NEW R2, Later(R, R2), NEW l, l.task \in DOMAIN R, NEW o, Done(l, o, R)
    PROVE  Done(l, o, R2)
  BY DEF Done, Later

\* A loop that is not served still fits the request it waits for.
LEMMA FitsLater ==
    ASSUME NEW R, NEW R2, Later(R, R2), NEW N \in Nat, NEW N2 \in Nat, N <= N2,
           NEW I, NEW I2, I \subseteq I2, \A l \in I : l.task \in DOMAIN R,
           NEW s \in Slot, NEW v, Fits(s, v, R, N, I)
    PROVE  Fits(s, v, R2, N2, I2)
  <1> USE DEF Fits
  <1>1. CASE v.req = None
    BY <1>1
  <1>2. CASE v.req # None
    <2>1. Sent(v.req, I2)
      BY <1>2 DEF Sent
    <2>2. v.req.sentAt <= N2 + Skew[WorkerOf[s]]
      <3>1. v.req.sentAt \in Nat /\ Skew[WorkerOf[s]] \in Nat
        BY <1>2, WorkerAssumption DEF Sent, Requests
      <3>2. QED
        BY <1>2, <3>1
    <2>3. Claiming(v, I2)
      BY <1>2 DEF Claiming
    <2>4. Publishing(v, R2)
      <3>1. v.pc = "publishing" => v.lease \in I /\ v.lease.task \in DOMAIN R
        BY DEF Armed
      <3>2. v.pc = "publishing" /\ Done(v.lease, v.outcome, R) => Done(v.lease, v.outcome, R2)
        BY <3>1, DoneLater
      <3>3. v.pc = "publishing" /\ R[v.lease.task].cancelRequested => R2[v.lease.task].cancelRequested
        BY <3>1 DEF Later
      <3>4. QED
        BY <1>2, <3>2, <3>3 DEF Publishing
    <2>5. QED
      BY <1>2, <2>1, <2>2, <2>3, <2>4
  <1>3. QED
    BY <1>1, <1>2

\* Completions that were harmless stay so.
LEMMA HarmlessLater ==
    ASSUME NEW R, NEW R2, Later(R, R2), NEW I, \A l \in I : l.task \in DOMAIN R,
           NEW W, \A q \in W : Sent(q, I), NEW S, Harmless(W, S, R)
    PROVE  Harmless(W, S, R2)
  <1> SUFFICES ASSUME NEW q \in W, NEW s \in Slot, q.stage = "publish", Owns(S[s], q.lease)
               PROVE  /\ S[s].pc = "publishing"
                      /\ \/ q.outcome = S[s].outcome
                         \/ S[s].outcome = "cancelled" /\ R2[q.lease.task].cancelRequested
    BY DEF Harmless
  <1>1. q.lease.task \in DOMAIN R
    BY DEF Sent
  <1>2. /\ S[s].pc = "publishing"
        /\ \/ q.outcome = S[s].outcome
           \/ S[s].outcome = "cancelled" /\ R[q.lease.task].cancelRequested
    BY DEF Harmless
  <1>3. QED
    BY <1>1, <1>2 DEF Later

\* A statement takes no row from a loop that may believe in its lease.
LEMMA AliveMoved ==
    ASSUME Punctual, NEW R, Table(R), NEW R2, NEW N \in Nat, Moved(R, R2, N),
           NEW l, l.task \in DOMAIN R, NEW b \in Int, Alive(l, b, R, N)
    PROVE  Alive(l, b, R2, N)
  <1> SUFFICES ASSUME N <= b - SafetyMs + MaxLate
               PROVE  Current(l, R2) /\ Bounded(b, R2[l.task], N)
    BY DEF Alive
  <1> DEFINE r == R[l.task]
             r2 == R2[l.task]
  <1>1. Current(l, R) /\ Bounded(b, r, N)
    BY DEF Alive
  <1>2. r \in Row /\ RowInv(r) /\ r.deadlineAt # None /\ r.state = "running"
    BY <1>1 DEF Table, Current
  <1>3. PICK at \in Nat : at <= N /\ N <= at + MaxLag /\ Move(r, r2, at)
    BY DEF Moved
  <1> HIDE DEF r, r2
  <1>4. /\ r2.state = "running" /\ r2.owner = r.owner /\ r2.generation = r.generation
        /\ Bounded(b, r2, N)
    BY <1>1, <1>2, <1>3, MoveBounded
  <1>5. QED
    BY <1>1, <1>4 DEF Current, r, r2

\* The boundaries a loop computes are integers.
LEMMA BoundaryType ==
    ASSUME NEW s \in Slot, NEW v \in Loops
    PROVE  /\ Boundary(s, v) \in Int
           /\ Viewing(v) /\ v.req \in Requests => Granting(v.req, WorkerOf[s]) \in Int
  <1>1. Skew[WorkerOf[s]] \in Nat /\ SafetyMs \in Nat /\ v.safeUntil \in Int
    BY WorkerAssumption, SafetyType DEF Loops
  <1>2. Boundary(s, v) \in Int
    BY <1>1 DEF Boundary
  <1>3. ASSUME v.req \in Requests PROVE Granting(v.req, WorkerOf[s]) \in Int
    <2>1. v.req.sentAt \in Nat /\ v.req.reply.leaseUntil \in Nat /\ v.req.reply.serverNow \in Nat
      BY <1>3 DEF Requests, Replies
    <2>2. QED
      BY <1>1, <2>1 DEF Granting
  <1>4. QED
    BY <1>2, <1>3

\* The lease of an answer was issued.
LEMMA ViewIssued ==
    ASSUME NEW s \in Slot, NEW v, NEW R, NEW N, NEW I, Fits(s, v, R, N, I)
    PROVE  /\ Viewing(v) => v.req \in Requests /\ v.req.reply.lease \in I
           /\ Viewing(v) /\ v.pc # "claiming" => Armed(v) /\ v.req.reply.lease = v.lease
           /\ Viewing(v) => v.pc \in {"claiming", "running", "aborted", "settled"}
           /\ \A l : Owns(v, l) => l \in I
  <1> USE DEF Fits
  <1>1. Viewing(v) => v.req # None /\ v.pc \notin {"off", "idle"} /\ v.req \in Requests
    BY DEF Viewing, Sent
  <1>2. Viewing(v) => v.pc # "publishing"
    BY <1>1 DEF Viewing, Publishing
  <1>3. v.pc \in {"off", "idle", "claiming", "running", "aborted", "settled", "publishing"}
    BY DEF Loops
  <1>4. Viewing(v) /\ v.pc = "claiming" => v.req.reply.lease \in I
    BY DEF Viewing, Claiming
  <1>5. Viewing(v) /\ v.pc # "claiming" => Armed(v) /\ v.req.reply.lease = v.lease
    BY <1>1, <1>2, <1>3 DEF Viewing, Beating, Armed
  <1>6. QED
    BY <1>1, <1>2, <1>3, <1>4, <1>5 DEF Owns

\* A loop that is not served keeps what it may believe.
LEMMA BelievesMoved ==
    ASSUME Punctual, NEW R, Table(R), NEW R2, NEW N \in Nat, Moved(R, R2, N),
           NEW I, \A l \in I : l.task \in DOMAIN R,
           NEW s \in Slot, NEW v, Fits(s, v, R, N, I), Believes(s, v, R, N)
    PROVE  Believes(s, v, R2, N)
  <1>1. v \in Loops /\ (Armed(v) => v.lease \in I)
    BY DEF Fits
  <1>2. /\ Boundary(s, v) \in Int
        /\ Viewing(v) => Granting(v.req, WorkerOf[s]) \in Int /\ v.req.reply.lease \in I
    BY <1>1, BoundaryType, ViewIssued
  <1>3. Armed(v) /\ Alive(v.lease, Boundary(s, v), R, N)
           => Alive(v.lease, Boundary(s, v), R2, N)
    BY <1>1, <1>2, AliveMoved
  <1>4. Armed(v) /\ Done(v.lease, v.outcome, R) => Done(v.lease, v.outcome, R2)
    BY <1>1, MovedLater, DoneLater
  <1>5. Viewing(v) => Alive(v.req.reply.lease, Granting(v.req, WorkerOf[s]), R2, N)
    <2> SUFFICES ASSUME Viewing(v) PROVE Alive(v.req.reply.lease, Granting(v.req, WorkerOf[s]), R2, N)
      OBVIOUS
    <2> DEFINE l == v.req.reply.lease
               b == Granting(v.req, WorkerOf[s])
    <2>1. l.task \in DOMAIN R /\ b \in Int /\ Alive(l, b, R, N)
      BY <1>2 DEF Believes
    <2> HIDE DEF l, b
    <2>2. Alive(l, b, R2, N)
      BY <2>1, AliveMoved
    <2>3. QED
      BY <2>2 DEF l, b
  <1>6. QED
    BY <1>3, <1>4, <1>5 DEF Believes

-----------------------------------------------------------------------------
(* Steps of loops by themselves: the store is left alone.                  *)

\* What the invariant says of the store.
LEMMA StoreIs ==
    ASSUME WorkerInv
    PROVE  /\ Table(rows) /\ DOMAIN rows \subseteq Task /\ now \in Nat
           /\ issued \subseteq Lease
           /\ \A l \in issued : l.task \in DOMAIN rows
           /\ \A at \in Instants : at \in Nat /\ at <= now /\ now <= at + MaxLag
  <1>1. now \in Nat /\ MaxLag \in Nat
    BY StoreAssumption DEF WorkerInv, IInv, TypeOK
  <1>2. \A at \in Instants : at \in Nat /\ at <= now /\ now <= at + MaxLag
    BY <1>1 DEF Instants
  <1>3. QED
    BY <1>1, <1>2 DEF WorkerInv, IInv, TypeOK, IssuedInv, Table, Dated

\* Without a statement the store keeps its invariant.
LEMMA StoreSame ==
    ASSUME WorkerInv, UNCHANGED storeVars
    PROVE  IInv' /\ Dated(rows')
  BY DEF WorkerInv, storeVars, IInv, TypeOK, IssuedInv, Dated

\* A step of a loop acquires no lease, and once it publishes it goes on with
\* the same outcome or, for a cancelled task, with the cancelled one.
Narrows(v, v2, R) ==
    \A l \in Lease : Owns(v2, l) =>
        /\ Owns(v, l)
        /\ v.pc = "publishing" =>
              /\ v2.pc = "publishing"
              /\ \/ v2.outcome = v.outcome
                 \/ v2.outcome = "cancelled" /\ R[l.task].cancelRequested

\* Loops that only narrow what they own, and requests of theirs that they
\* abandon, keep the invariant.
LEMMA LocalSteps ==
    ASSUME WorkerInv, UNCHANGED storeVars, slot' \in [Slot -> Loops],
           \A s \in Slot : /\ Fits(s, slot'[s], rows, now, issued)
                           /\ Narrows(slot[s], slot'[s], rows),
           \A q \in wire' : q \in wire \/ \E s \in Slot : q \in Abandoned(s),
           IsFiniteSet(wire'), Cardinality(wire') <= MaxWire
    PROVE  WorkerInv'
  <1>0. rows' = rows /\ now' = now /\ issued' = issued /\ issued \subseteq Lease
    BY StoreIs DEF storeVars
  <1>1. IInv' /\ Dated(rows')
    BY StoreSame
  <1>2. Alone(slot')
    BY DEF WorkerInv, Alone, Narrows
  <1>3. \A s \in Slot : \A q \in Abandoned(s) : q = slot[s].req /\ q # None /\ Sent(q, issued)
    BY DEF Abandoned, WorkerInv, Fits
  <1>4. WireInv(wire', issued)
    BY <1>3 DEF WorkerInv, WireInv
  <1>5. ASSUME NEW q \in wire', NEW s \in Slot, q.stage = "publish", Owns(slot'[s], q.lease)
        PROVE  /\ slot'[s].pc = "publishing"
               /\ \/ q.outcome = slot'[s].outcome
                  \/ slot'[s].outcome = "cancelled" /\ rows[q.lease.task].cancelRequested
    <2>1. q.lease \in Lease /\ Narrows(slot[s], slot'[s], rows)
      BY <1>0, <1>4, <1>5 DEF WireInv, Sent
    <2>2. /\ Owns(slot[s], q.lease)
          /\ slot[s].pc = "publishing" =>
                /\ slot'[s].pc = "publishing"
                /\ \/ slot'[s].outcome = slot[s].outcome
                   \/ slot'[s].outcome = "cancelled" /\ rows[q.lease.task].cancelRequested
      BY <1>5, <2>1 DEF Narrows
    <2>3. /\ slot[s].pc = "publishing"
          /\ \/ q.outcome = slot[s].outcome
             \/ slot[s].outcome = "cancelled" /\ rows[q.lease.task].cancelRequested
      <3>1. CASE q \in wire
        BY <1>5, <2>2, <3>1 DEF WorkerInv, Harmless
      <3>2. ASSUME NEW u \in Slot, q \in Abandoned(u)
            PROVE  slot[s].pc = "publishing" /\ q.outcome = slot[s].outcome
        <4>1. Fits(u, slot[u], rows, now, issued) /\ q = slot[u].req /\ slot[u].req # None
          BY <1>3, <3>2 DEF WorkerInv
        <4>2. slot[u].pc = "publishing" /\ q.lease = slot[u].lease /\ q.outcome = slot[u].outcome
          BY <1>5, <4>1 DEF Fits, Claiming, Beating, Publishing, Loops
        <4>3. Owns(slot[u], q.lease)
          BY <4>2 DEF Owns, Armed
        <4>4. s = u
          BY <2>1, <2>2, <4>3 DEF WorkerInv, Alone
        <4>5. QED
          BY <4>2, <4>4
      <3>3. QED
        BY <3>1, <3>2
    <2>4. QED
      BY <2>2, <2>3
  <1>6. Harmless(wire', slot', rows)
    BY <1>5 DEF Harmless
  <1>7. QED
    BY <1>0, <1>1, <1>2, <1>4, <1>6 DEF WorkerInv

\* Whoever changes nothing acquires nothing.
LEMMA NarrowsSelf ==
    ASSUME NEW v, NEW R
    PROVE  Narrows(v, v, R)
  BY DEF Narrows

\* The requests that are abandoned stay within the bound on them.
LEMMA GivesUpIs ==
    ASSUME WorkerInv, NEW loops \in SUBSET Slot, GivesUp(loops)
    PROVE  /\ \A q \in wire' : q \in wire \/ \E u \in Slot : q \in Abandoned(u)
           /\ IsFiniteSet(wire') /\ Cardinality(wire') <= MaxWire
  <1> DEFINE lost == {Abandoned(u) : u \in loops}
             left == UNION lost
             f == [u \in loops |-> Abandoned(u)]
  <1>1. IsFiniteSet(lost)
    <2>1. IsFiniteSet(loops)
      BY WorkerAssumption, FS_Subset
    <2>2. f \in Surjection(loops, lost)
      BY DEF Surjection
    <2> HIDE DEF lost, f
    <2>3. QED
      BY <2>1, <2>2, FS_Surjection
  <1>2. \A T \in lost : IsFiniteSet(T)
    <2> SUFFICES ASSUME NEW u \in loops PROVE IsFiniteSet(Abandoned(u))
      OBVIOUS
    <2>1. Abandoned(u) \subseteq {slot[u].req}
      BY DEF Abandoned
    <2>2. IsFiniteSet({slot[u].req})
      BY FS_Singleton
    <2>3. QED
      BY <2>1, <2>2, FS_Subset
  <1>3. IsFiniteSet(wire) /\ Cardinality(wire) <= MaxWire
    BY DEF WorkerInv, WireInv
  <1>4. IsFiniteSet(left)
    <2> HIDE DEF lost
    <2>1. QED
      BY <1>1, <1>2, FS_UNION
  <1>5. IsFiniteSet(wire \cup left)
    <2> HIDE DEF left
    <2>1. QED
      BY <1>3, <1>4, FS_Union
  <1>6. wire' = IF Cardinality(wire \cup left) <= MaxWire THEN wire \cup left ELSE wire
    BY DEF GivesUp
  <1>7. \A q \in left : \E u \in Slot : q \in Abandoned(u)
    OBVIOUS
  <1> HIDE DEF left
  <1>8. QED
    BY <1>3, <1>5, <1>6, <1>7

\* A step of one loop, which may abandon its request.
LEMMA LocalStep ==
    ASSUME WorkerInv, UNCHANGED storeVars, NEW s \in Slot, NEW v2,
           slot' = [slot EXCEPT ![s] = v2], UNCHANGED wire \/ GivesUp({s}),
           Fits(s, v2, rows, now, issued), Narrows(slot[s], v2, rows)
    PROVE  WorkerInv'
  <1>1. slot \in [Slot -> Loops] /\ v2 \in Loops
    BY DEF WorkerInv, Fits
  <1>2. slot' \in [Slot -> Loops]
    BY <1>1
  <1>3. \A u \in Slot : slot'[u] = IF u = s THEN v2 ELSE slot[u]
    BY <1>1
  <1>4. \A u \in Slot : /\ Fits(u, slot'[u], rows, now, issued)
                        /\ Narrows(slot[u], slot'[u], rows)
    BY <1>3, NarrowsSelf DEF WorkerInv
  <1>5. /\ \A q \in wire' : q \in wire \/ \E u \in Slot : q \in Abandoned(u)
        /\ IsFiniteSet(wire') /\ Cardinality(wire') <= MaxWire
    <2>1. CASE UNCHANGED wire
      BY <2>1 DEF WorkerInv, WireInv
    <2>2. CASE GivesUp({s})
      BY <2>2, GivesUpIs
    <2>3. QED
      BY <2>1, <2>2
  <1>6. QED
    BY <1>2, <1>4, <1>5, LocalSteps

\* The same for what the loop believes.
LEMMA LocalBelieves ==
    ASSUME WorkerInv, TimedInv, UNCHANGED storeVars, NEW s \in Slot, NEW v2,
           slot' = [slot EXCEPT ![s] = v2], Believes(s, v2, rows, now)
    PROVE  TimedInv'
  <1>1. slot \in [Slot -> Loops] /\ rows' = rows /\ now' = now
    BY DEF WorkerInv, storeVars
  <1>2. \A u \in Slot : slot'[u] = IF u = s THEN v2 ELSE slot[u]
    BY <1>1
  <1>3. \A u \in Slot : Believes(u, slot'[u], rows, now)
    BY <1>2 DEF TimedInv
  <1>4. QED
    BY <1>1, <1>3 DEF TimedInv

\* A step of one loop keeps both invariants when its new value fits.
LEMMA Local ==
    ASSUME WorkerInv, NEW s \in Slot, NEW v2, Becomes(s, v2),
           UNCHANGED storeVars, UNCHANGED wire \/ GivesUp({s}),
           Fits(s, v2, rows, now, issued), Narrows(slot[s], v2, rows),
           Believes(s, slot[s], rows, now) => Believes(s, v2, rows, now)
    PROVE  WorkerInv' /\ (TimedInv => TimedInv')
  <1>1. slot' = [slot EXCEPT ![s] = v2]
    BY DEF Becomes
  <1>2. WorkerInv'
    BY <1>1, LocalStep
  <1>3. ASSUME TimedInv PROVE TimedInv'
    <2>1. Believes(s, v2, rows, now)
      BY <1>3 DEF TimedInv
    <2>2. QED
      BY <1>1, <1>3, <2>1, LocalBelieves
  <1>4. QED
    BY <1>2, <1>3

\* A loop without a task owns nothing and believes nothing.
LEMMA AtIs ==
    ASSUME NEW s \in Slot, NEW pc \in {"off", "idle"}, NEW v, NEW R, NEW N, NEW I
    PROVE  Fits(s, At(pc), R, N, I) /\ Narrows(v, At(pc), R) /\ Believes(s, At(pc), R, N)
  <1> DEFINE w == At(pc)
  <1>1. w \in Loops /\ w.pc = pc /\ w.lease = None /\ w.req = None
    BY DEF At, Loops
  <1> HIDE DEF w
  <1>2. ~Armed(w) /\ ~Viewing(w) /\ w.pc \notin {"settled", "publishing"}
    BY <1>1 DEF Armed, Viewing
  <1>3. Fits(s, w, R, N, I)
    BY <1>1, <1>2 DEF Fits
  <1>4. Narrows(v, w, R)
    BY <1>2 DEF Narrows, Owns
  <1>5. Believes(s, w, R, N)
    BY <1>1, <1>2 DEF Believes
  <1>6. QED
    BY <1>3, <1>4, <1>5 DEF w

\* A loop that goes on to its next claim.
LEMMA Idles ==
    ASSUME WorkerInv, NEW s \in Slot, NEW pc \in {"off", "idle"}, Becomes(s, At(pc)),
           UNCHANGED storeVars, UNCHANGED wire \/ GivesUp({s})
    PROVE  WorkerInv' /\ (TimedInv => TimedInv')
  <1> DEFINE w == At(pc)
  <1>1. /\ Fits(s, w, rows, now, issued) /\ Narrows(slot[s], w, rows)
        /\ Believes(s, w, rows, now)
    BY AtIs
  <1> HIDE DEF w
  <1>2. Becomes(s, w)
    BY DEF w
  <1>3. QED
    BY <1>1, <1>2, Local

\* What the invariant says of one loop and its clock.
LEMMA LoopIs ==
    ASSUME WorkerInv, NEW s \in Slot
    PROVE  /\ Fits(s, slot[s], rows, now, issued)
           /\ slot[s] \in Loops
           /\ slot[s].req # None => slot[s].req \in Requests
           /\ WorkerOf[s] \in Worker /\ Skew[WorkerOf[s]] \in Nat
           /\ LocalNow(s) = now + Skew[WorkerOf[s]] /\ LocalNow(s) \in Nat
  <1>1. Fits(s, slot[s], rows, now, issued)
    BY DEF WorkerInv
  <1>2. slot[s] \in Loops /\ (slot[s].req # None => slot[s].req \in Requests)
    BY <1>1 DEF Fits, Sent
  <1>3. WorkerOf[s] \in Worker /\ Skew[WorkerOf[s]] \in Nat /\ now \in Nat
    BY WorkerAssumption, StoreIs
  <1>4. QED
    BY <1>1, <1>2, <1>3 DEF LocalNow

\* A request that is sent now, about the loop's lease.
LEMMA SendIs ==
    ASSUME WorkerInv, NEW s \in Slot, NEW stage \in Stage, NEW o \in Outcome \cup {None}
    PROVE  LET q == Send(s, stage, o) IN
           /\ q \in Requests
           /\ q.stage = stage /\ q.worker = WorkerOf[s] /\ q.lease = slot[s].lease
           /\ q.outcome = o /\ q.sentAt = now + Skew[WorkerOf[s]]
  <1>1. /\ slot[s].lease \in Lease \cup {None} /\ WorkerOf[s] \in Worker
        /\ LocalNow(s) \in Nat /\ LocalNow(s) = now + Skew[WorkerOf[s]]
    BY LoopIs DEF Loops
  <1>2. NoReply \in Replies
    BY DEF NoReply, Replies
  <1>3. QED
    BY <1>1, <1>2 DEF Send, Request, Requests

\* A loop that sends a request and keeps its lease.
LEMMA SendsFor ==
    ASSUME WorkerInv, NEW s \in Slot, NEW stage, NEW o \in Outcome \cup {None}, NEW v2 \in Loops,
           v2.lease = slot[s].lease, v2.req = Send(s, stage, o),
           \/ stage = "renew" /\ v2.pc = "running"
           \/ stage = "publish" /\ v2.pc = "publishing" /\ v2.outcome = o /\ o \in Outcome,
           Armed(slot[s]), slot[s].lease \in issued
    PROVE  Fits(s, v2, rows, now, issued)
  <1> DEFINE q == Send(s, stage, o)
  <1>1. stage \in Stage
    BY DEF Stage
  <1>2. /\ q \in Requests
        /\ q.stage = stage /\ q.worker = WorkerOf[s] /\ q.lease = slot[s].lease
        /\ q.outcome = o /\ q.sentAt = now + Skew[WorkerOf[s]]
    BY <1>1, SendIs
  <1>3. v2.req = q
    OBVIOUS
  <1> HIDE DEF q
  <1>4. Sent(q, issued)
    BY <1>2 DEF Sent
  <1>5. now + Skew[WorkerOf[s]] \in Nat
    BY LoopIs
  <1>6. Claiming(v2, issued) /\ Beating(v2) /\ Publishing(v2, rows)
    BY <1>2, <1>3 DEF Claiming, Beating, Publishing
  <1>7. QED
    BY <1>2, <1>3, <1>4, <1>5, <1>6 DEF Fits, Armed

\* A loop asks for work.
LEMMA AskClaimOK ==
    ASSUME WorkerInv, NEW s \in Slot, AskClaim(s)
    PROVE  WorkerInv' /\ (TimedInv => TimedInv')
  <1> DEFINE q == Send(s, "sweep", None)
             w == [At("claiming") EXCEPT !.req = q]
  <1>1. Becomes(s, w) /\ UNCHANGED storeVars /\ UNCHANGED wire /\ slot[s].pc = "idle"
    BY DEF AskClaim, Keep
  <1>2. /\ q \in Requests /\ q.stage = "sweep" /\ q.worker = WorkerOf[s]
        /\ q.sentAt = now + Skew[WorkerOf[s]]
    BY SendIs DEF Stage
  <1> HIDE DEF q
  <1>3. w \in Loops /\ w.pc = "claiming" /\ w.lease = None /\ w.req = q
    BY <1>2 DEF At, Loops
  <1> HIDE DEF w
  <1>4. ~Armed(w) /\ ~Viewing(w)
    BY <1>2, <1>3 DEF Armed, Viewing
  <1>5. Fits(s, w, rows, now, issued)
    <2>1. now + Skew[WorkerOf[s]] \in Nat
      BY LoopIs
    <2>2. QED
      BY <1>2, <1>3, <1>4, <2>1 DEF Fits, Sent, Claiming, Beating, Publishing
  <1>6. Narrows(slot[s], w, rows)
    BY <1>4 DEF Narrows, Owns
  <1>7. Believes(s, w, rows, now)
    BY <1>3, <1>4 DEF Believes
  <1>8. QED
    BY <1>1, <1>5, <1>6, <1>7, Local

\* A loop that was granted a lease starts the task, or leaves a lease that is
\* already unsafe.
LEMMA ReceiveClaimOK ==
    ASSUME WorkerInv, NEW s \in Slot, ReceiveClaim(s)
    PROVE  WorkerInv' /\ (TimedInv => TimedInv')
  <1> DEFINE v == slot[s]
             q == v.req
             claim == Validated(Answer(s), q.sentAt, LocalNow(s))
             safe == claim.leaseUntil - SafetyMs
             w == [At("running") EXCEPT !.lease = claim.lease, !.safeUntil = safe,
                                        !.deadlineAt = claim.deadlineAt]
  <1>1. v.pc = "claiming" /\ q # None /\ q.stage = "answered"
    BY DEF ReceiveClaim, Answered, Waiting
  <1>2. Fits(s, v, rows, now, issued) /\ q \in Requests
    BY <1>1, LoopIs
  <1>3. q.reply \in Replies /\ q.sentAt \in Nat
    BY <1>2 DEF Requests
  <1>4. q.reply.code \in {"granted", "nothing"}
    BY <1>1, <1>2 DEF Fits, Claiming
  <1>5. CASE Becomes(s, At("idle")) /\ UNCHANGED <<storeVars, wire>>
    BY <1>5, Idles
  <1>6. CASE Becomes(s, w) /\ UNCHANGED <<storeVars, wire>> /\ q.reply.code # "nothing" /\ LocalNow(s) < safe
    <2>1. /\ q.reply.leaseUntil \in Nat /\ q.reply.serverNow \in Nat /\ q.reply.deadlineAt \in Nat
          /\ q.reply.code = "granted" /\ q.reply.lease \in issued /\ q.reply.lease \in Lease
      BY <1>1, <1>2, <1>3, <1>4, <1>6, StoreIs DEF Replies, Fits, Claiming
    <2>2. /\ claim.lease = q.reply.lease
          /\ claim.leaseUntil = q.sentAt + (q.reply.leaseUntil - q.reply.serverNow)
          /\ claim.deadlineAt = q.sentAt + (q.reply.deadlineAt - q.reply.serverNow)
      BY DEF Validated, MapServerInstant, Answer
    <2>3. /\ claim.deadlineAt \in Int /\ SafetyMs \in Nat /\ safe \in Int
          /\ safe = q.sentAt + (q.reply.leaseUntil - q.reply.serverNow) - SafetyMs
      <3>1. SafetyMs \in Nat
        BY SafetyType
      <3> HIDE DEF claim
      <3>2. QED
        BY <1>3, <2>1, <2>2, <3>1
    <2> HIDE DEF claim, safe
    <2>4. /\ w \in Loops /\ w.pc = "running" /\ w.lease = q.reply.lease /\ w.req = None
          /\ w.safeUntil = safe
      BY <2>1, <2>2, <2>3 DEF At, Loops
    <2> HIDE DEF w
    <2>5. Armed(w) /\ ~Viewing(w) /\ Viewing(v)
      BY <1>1, <2>1, <2>4 DEF Armed, Viewing
    <2>6. Fits(s, w, rows, now, issued)
      BY <2>1, <2>4, <2>5 DEF Fits
    <2>7. Narrows(v, w, rows)
      BY <1>1, <2>4, <2>5 DEF Narrows, Owns
    <2>8. LocalNow(s) = now + Skew[WorkerOf[s]] /\ LocalNow(s) \in Nat /\ Skew[WorkerOf[s]] \in Nat
      BY LoopIs
    <2>9. Boundary(s, w) = Granting(q, WorkerOf[s])
      BY <1>3, <2>1, <2>2, <2>3, <2>4, <2>8 DEF Boundary, Granting
    <2>10. now + Skew[WorkerOf[s]] <= w.safeUntil + MaxLate
      BY <1>6, <2>3, <2>4, <2>8, WorkerAssumption
    <2>11. Believes(s, v, rows, now) => Believes(s, w, rows, now)
      BY <2>4, <2>5, <2>9, <2>10 DEF Believes
    <2>12. QED
      BY <1>6, <2>6, <2>7, <2>11, Local
  <1>7. QED
    <2>1. safe \in Int /\ LocalNow(s) \in Nat
      <3>1. claim.leaseUntil = q.sentAt + (q.reply.leaseUntil - q.reply.serverNow)
        BY DEF Validated, MapServerInstant, Answer
      <3>2. q.reply.leaseUntil \in Nat /\ q.reply.serverNow \in Nat /\ SafetyMs \in Nat
        BY <1>3, SafetyType DEF Replies
      <3> HIDE DEF claim
      <3>3. QED
        BY <1>3, <3>1, <3>2, LoopIs
    <2>2. Keep(s, IF Answer(s).code = "nothing" \/ LocalNow(s) >= safe THEN At("idle") ELSE w)
      BY DEF ReceiveClaim
    <2> HIDE DEF w, safe
    <2>3. QED
      BY <1>5, <1>6, <2>1, <2>2 DEF Keep, Answer

\* A loop renews its lease.
LEMMA SendBeatOK ==
    ASSUME WorkerInv, NEW s \in Slot, SendBeat(s)
    PROVE  WorkerInv' /\ (TimedInv => TimedInv')
  <1> DEFINE v == slot[s]
             q == Send(s, "renew", None)
             w == [v EXCEPT !.req = q]
  <1>1. /\ Becomes(s, w) /\ UNCHANGED storeVars /\ UNCHANGED wire
        /\ v.pc = "running" /\ v.req = None
    BY DEF SendBeat, Keep, Waiting
  <1>2. Fits(s, v, rows, now, issued) /\ v \in Loops
    BY LoopIs
  <1>3. q \in Requests /\ q.stage = "renew"
    BY SendIs DEF Stage
  <1>4. /\ w \in Loops /\ w.pc = "running" /\ w.lease = v.lease /\ w.req = q
        /\ w.safeUntil = v.safeUntil
    <2> HIDE DEF q
    <2>1. QED
      BY <1>1, <1>2, <1>3 DEF Loops
  <1> HIDE DEF w
  <1>5. Armed(v) /\ v.lease \in issued
    BY <1>1, <1>2 DEF Fits, Armed
  <1>6. Fits(s, w, rows, now, issued)
    BY <1>4, <1>5, SendsFor
  <1>7. Armed(w) /\ ~Viewing(w)
    BY <1>3, <1>4 DEF Armed, Viewing
  <1>8. Narrows(v, w, rows)
    BY <1>1, <1>4, <1>5, <1>7 DEF Narrows, Owns
  <1>9. Believes(s, v, rows, now) => Believes(s, w, rows, now)
    BY <1>1, <1>4, <1>5, <1>7 DEF Believes, Boundary
  <1>10. QED
    BY <1>1, <1>6, <1>8, <1>9, Local

\* A heartbeat's answer: the loop goes on with the boundary it was given, or
\* gives its task up.
LEMMA BeatAnsweredOK ==
    ASSUME WorkerInv, NEW s \in Slot, BeatAnswered(s)
    PROVE  WorkerInv' /\ (TimedInv => TimedInv')
  <1> DEFINE v == slot[s]
             q == v.req
             safe == MapServerInstant(q.reply.serverNow, q.reply.leaseUntil, q.sentAt,
                                      LocalNow(s)) - SafetyMs
             renewed == [v EXCEPT !.safeUntil = safe, !.req = None]
             marked == [renewed EXCEPT !.abort = "cancel"]
  <1>1. v.pc \in {"running", "aborted", "settled"} /\ q # None /\ q.stage = "answered"
    BY DEF BeatAnswered, Answered, Waiting
  <1>2. Fits(s, v, rows, now, issued) /\ v \in Loops /\ q \in Requests
    BY <1>1, LoopIs
  <1>3. q.reply \in Replies /\ q.sentAt \in Nat
    BY <1>2 DEF Requests
  <1>4. q.reply.code \in {"renewed", "STALE_LEASE"}
    BY <1>1, <1>2 DEF Fits, Beating
  <1>5. safe \in Int /\ safe = q.sentAt + (q.reply.leaseUntil - q.reply.serverNow) - SafetyMs
    <2>1. q.reply.leaseUntil \in Nat /\ q.reply.serverNow \in Nat /\ SafetyMs \in Nat
      BY <1>3, SafetyType DEF Replies
    <2>2. QED
      BY <1>3, <2>1 DEF MapServerInstant
  <1>6. /\ LocalNow(s) = now + Skew[WorkerOf[s]] /\ LocalNow(s) \in Nat
        /\ Skew[WorkerOf[s]] \in Nat
    BY LoopIs
  <1> HIDE DEF safe
  <1>7. CASE Becomes(s, At("idle")) /\ UNCHANGED <<storeVars, wire>>
    BY <1>7, Idles
  <1>8. ASSUME NEW w, w \in {renewed, marked}, Becomes(s, w), UNCHANGED <<storeVars, wire>>,
               q.reply.code # "STALE_LEASE", LocalNow(s) < safe
        PROVE  WorkerInv' /\ (TimedInv => TimedInv')
    <2>1. /\ w \in Loops /\ w.pc = v.pc /\ w.lease = v.lease /\ w.req = None
          /\ w.safeUntil = safe /\ w.outcome = v.outcome
      BY <1>2, <1>5, <1>8 DEF Loops
    <2>2. q.reply.code = "renewed" /\ q.reply.lease = v.lease
      BY <1>1, <1>2, <1>4, <1>8 DEF Fits, Beating
    <2>3. Armed(w) /\ Armed(v) /\ ~Viewing(w) /\ Viewing(v)
      BY <1>1, <2>1, <2>2 DEF Armed, Viewing
    <2>4. Fits(s, w, rows, now, issued)
      BY <1>1, <1>2, <2>1, <2>3 DEF Fits
    <2>5. Narrows(v, w, rows)
      BY <1>1, <2>1, <2>3 DEF Narrows, Owns
    <2>6. Boundary(s, w) = Granting(q, WorkerOf[s])
      <3>1. q.reply.leaseUntil \in Nat /\ q.reply.serverNow \in Nat /\ SafetyMs \in Nat
        BY <1>3, SafetyType DEF Replies
      <3>2. QED
        BY <1>3, <1>5, <1>6, <2>1, <3>1 DEF Boundary, Granting
    <2>7. now + Skew[WorkerOf[s]] <= w.safeUntil + MaxLate
      BY <1>5, <1>6, <1>8, <2>1, WorkerAssumption
    <2>8. Believes(s, v, rows, now) => Believes(s, w, rows, now)
      BY <1>1, <2>1, <2>2, <2>3, <2>6, <2>7 DEF Believes
    <2>9. QED
      BY <1>8, <2>4, <2>5, <2>8, Local
  <1>9. QED
    <2>1. \/ Keep(s, At("idle"))
          \/ /\ q.reply.code # "STALE_LEASE" /\ ~(LocalNow(s) >= safe)
             /\ Keep(s, renewed) \/ Keep(s, marked)
      BY DEF BeatAnswered, Answer, safe
    <2>2. ~(LocalNow(s) >= safe) => LocalNow(s) < safe
      BY <1>5, <1>6
    <2> HIDE DEF renewed, marked
    <2>3. QED
      BY <1>7, <1>8, <2>1, <2>2 DEF Keep

\* An execution ends by itself.
LEMMA SettleOK ==
    ASSUME WorkerInv, NEW s \in Slot, NEW o \in Outcome, Settle(s, o)
    PROVE  WorkerInv' /\ (TimedInv => TimedInv')
  <1> DEFINE v == slot[s]
             w == [v EXCEPT !.pc = "settled", !.outcome = o]
  <1>1. Becomes(s, w) /\ UNCHANGED storeVars /\ UNCHANGED wire /\ v.pc = "running"
    BY DEF Settle, Keep
  <1>2. Fits(s, v, rows, now, issued) /\ v \in Loops
    BY LoopIs
  <1>3. /\ w \in Loops /\ w.pc = "settled" /\ w.lease = v.lease /\ w.req = v.req
        /\ w.safeUntil = v.safeUntil /\ w.outcome = o
    BY <1>1, <1>2 DEF Loops
  <1> HIDE DEF w
  <1>4. Armed(v) /\ Armed(w) /\ (Viewing(w) <=> Viewing(v))
    BY <1>1, <1>3 DEF Armed, Viewing
  <1>5. Fits(s, w, rows, now, issued)
    BY <1>1, <1>2, <1>3, <1>4 DEF Fits, Claiming, Beating, Publishing
  <1>6. Narrows(v, w, rows)
    BY <1>1, <1>3, <1>4 DEF Narrows, Owns
  <1>7. Believes(s, v, rows, now) => Believes(s, w, rows, now)
    BY <1>1, <1>3, <1>4 DEF Believes, Boundary
  <1>8. QED
    BY <1>1, <1>5, <1>6, <1>7, Local

\* The first request to publish.
LEMMA StartPublishOK ==
    ASSUME WorkerInv, NEW s \in Slot, StartPublish(s)
    PROVE  WorkerInv' /\ (TimedInv => TimedInv')
  <1> DEFINE v == slot[s]
             o == Final(s)
             q == Send(s, "publish", o)
             w == [v EXCEPT !.pc = "publishing", !.outcome = o, !.req = q]
  <1>1. Becomes(s, w) /\ UNCHANGED storeVars /\ UNCHANGED wire /\ v.pc = "settled"
    BY DEF StartPublish, Keep
  <1>2. Fits(s, v, rows, now, issued) /\ v \in Loops
    BY LoopIs
  <1>3. o \in Outcome
    BY <1>1, <1>2 DEF Final, Fits, Outcome
  <1> HIDE DEF o
  <1>4. q \in Requests /\ q.stage = "publish"
    BY <1>3, SendIs DEF Stage
  <1>5. /\ w \in Loops /\ w.pc = "publishing" /\ w.lease = v.lease /\ w.req = q
        /\ w.safeUntil = v.safeUntil /\ w.outcome = o
    <2> HIDE DEF q
    <2>1. QED
      BY <1>1, <1>2, <1>3, <1>4 DEF Loops
  <1> HIDE DEF w
  <1>6. Armed(v) /\ v.lease \in issued
    BY <1>1, <1>2 DEF Fits, Armed
  <1>7. Fits(s, w, rows, now, issued)
    BY <1>3, <1>5, <1>6, SendsFor
  <1>8. Armed(w) /\ ~Viewing(w) /\ w.req.stage # "answered"
    BY <1>4, <1>5 DEF Armed, Viewing
  <1>9. Narrows(v, w, rows)
    BY <1>1, <1>5, <1>6, <1>8 DEF Narrows, Owns
  <1>10. Believes(s, v, rows, now) => Believes(s, w, rows, now)
    BY <1>1, <1>5, <1>6, <1>8 DEF Believes, Boundary
  <1>11. QED
    BY <1>1, <1>7, <1>9, <1>10, Local

\* The same completion again.
LEMMA ResendOK ==
    ASSUME WorkerInv, NEW s \in Slot, Resend(s)
    PROVE  WorkerInv' /\ (TimedInv => TimedInv')
  <1> DEFINE v == slot[s]
             o == v.outcome
             q == Send(s, "publish", o)
             w == [v EXCEPT !.req = q]
  <1>1. Becomes(s, w) /\ UNCHANGED storeVars /\ UNCHANGED wire /\ v.pc = "publishing"
    BY DEF Resend, Keep
  <1>2. Fits(s, v, rows, now, issued) /\ v \in Loops
    BY LoopIs
  <1>3. o \in Outcome
    BY <1>1, <1>2 DEF Fits
  <1>4. q \in Requests /\ q.stage = "publish"
    BY <1>3, SendIs DEF Stage
  <1>5. /\ w \in Loops /\ w.pc = "publishing" /\ w.lease = v.lease /\ w.req = q
        /\ w.safeUntil = v.safeUntil /\ w.outcome = o
    <2> HIDE DEF q
    <2>1. QED
      BY <1>1, <1>2, <1>4 DEF Loops
  <1> HIDE DEF w
  <1>6. Armed(v) /\ v.lease \in issued
    BY <1>1, <1>2 DEF Fits, Armed
  <1>7. Fits(s, w, rows, now, issued)
    BY <1>3, <1>5, <1>6, SendsFor
  <1>8. Armed(w) /\ ~Viewing(w) /\ w.req.stage # "answered"
    BY <1>4, <1>5 DEF Armed, Viewing
  <1>9. Narrows(v, w, rows)
    BY <1>5, <1>6, <1>8 DEF Narrows, Owns
  <1>10. Believes(s, v, rows, now) => Believes(s, w, rows, now)
    BY <1>1, <1>5, <1>6, <1>8 DEF Believes, Boundary
  <1>11. QED
    BY <1>1, <1>7, <1>9, <1>10, Local

\* A publication's answer: another outcome when the task was cancelled, else
\* the next claim.
LEMMA PublishAnsweredOK ==
    ASSUME WorkerInv, NEW s \in Slot, PublishAnswered(s)
    PROVE  WorkerInv' /\ (TimedInv => TimedInv')
  <1> DEFINE v == slot[s]
             w == [v EXCEPT !.outcome = "cancelled", !.req = None]
  <1>1. v.pc = "publishing" /\ v.req # None /\ v.req.stage = "answered"
    BY DEF PublishAnswered, Answered, Waiting
  <1>2. Fits(s, v, rows, now, issued) /\ v \in Loops
    BY LoopIs
  <1>3. CASE Becomes(s, At("idle")) /\ UNCHANGED <<storeVars, wire>>
    BY <1>3, Idles
  <1>4. CASE Becomes(s, w) /\ UNCHANGED <<storeVars, wire>> /\ v.req.reply.code = "CANCEL_REQUESTED"
    <2>1. /\ w \in Loops /\ w.pc = "publishing" /\ w.lease = v.lease /\ w.req = None
          /\ w.safeUntil = v.safeUntil /\ w.outcome = "cancelled"
      BY <1>1, <1>2 DEF Loops, Outcome
    <2> HIDE DEF w
    <2>2. Armed(v) /\ Armed(w) /\ ~Viewing(w) /\ v.lease \in issued /\ v.outcome \in Outcome
      BY <1>1, <1>2, <2>1 DEF Armed, Viewing, Fits
    <2>3. rows[v.lease.task].cancelRequested /\ v.outcome # "cancelled"
      BY <1>1, <1>2, <1>4 DEF Fits, Publishing
    <2>4. Fits(s, w, rows, now, issued)
      BY <1>2, <2>1, <2>2 DEF Fits, Outcome
    <2>5. Narrows(v, w, rows)
      BY <1>1, <2>1, <2>2, <2>3 DEF Narrows, Owns
    <2>6. ~Done(v.lease, v.outcome, rows)
      <3> DEFINE r == rows[v.lease.task]
      <3>1. r \in Row /\ RowInv(r)
        BY <2>2, StoreIs DEF Table
      <3>2. Done(v.lease, v.outcome, rows) =>
                r.state = "terminal" /\ r.completion.outcome = v.outcome /\ r.completion # NoCompletion
        BY <2>2, RowAssumption DEF Done, NoCompletion
      <3>3. QED
        BY <2>3, <3>1, <3>2 DEF RowInv
    <2>7. Believes(s, v, rows, now) => Believes(s, w, rows, now)
      BY <2>1, <2>2, <2>6 DEF Believes, Boundary
    <2>8. QED
      BY <1>4, <2>4, <2>5, <2>7, Local
  <1>5. QED
    <2>1. Keep(s, IF v.req.reply.code = "CANCEL_REQUESTED" THEN w ELSE At("idle"))
      BY DEF PublishAnswered, Answer
    <2> HIDE DEF w
    <2>2. QED
      BY <1>3, <1>4, <2>1 DEF Keep

\* A request fails for its client.
LEMMA FailOK ==
    ASSUME WorkerInv, NEW s \in Slot, Fail(s)
    PROVE  WorkerInv' /\ (TimedInv => TimedInv')
  <1> DEFINE v == slot[s]
             w == [v EXCEPT !.req = None]
  <1>1. v.req # None /\ Fits(s, v, rows, now, issued) /\ v \in Loops
    BY LoopIs DEF Fail, Waiting
  <1>2. CASE Leave(s)
    BY <1>2, Idles DEF Leave
  <1>3. CASE /\ Becomes(s, w) /\ GivesUp({s}) /\ UNCHANGED storeVars
             /\ v.pc \notin {"claiming", "aborted"}
    <2>1. /\ w \in Loops /\ w.pc = v.pc /\ w.lease = v.lease /\ w.req = None
          /\ w.safeUntil = v.safeUntil /\ w.outcome = v.outcome
      BY <1>1 DEF Loops
    <2> HIDE DEF w
    <2>2. (Armed(w) <=> Armed(v)) /\ ~Viewing(w)
      BY <2>1 DEF Armed, Viewing
    <2>3. Fits(s, w, rows, now, issued)
      BY <1>1, <2>1, <2>2 DEF Fits
    <2>4. Narrows(v, w, rows)
      BY <2>1, <2>2 DEF Narrows, Owns
    <2>5. Believes(s, v, rows, now) => Believes(s, w, rows, now)
      BY <2>1, <2>2 DEF Believes, Boundary
    <2>6. QED
      BY <1>3, <2>3, <2>4, <2>5, Local
  <1>4. QED
    BY <1>2, <1>3 DEF Fail

\* The closing batch of a claim fails and the claim goes on.
LEMMA SweepFailsOK ==
    ASSUME WorkerInv, NEW s \in Slot, SweepFails(s)
    PROVE  WorkerInv' /\ (TimedInv => TimedInv')
  <1> DEFINE v == slot[s]
             q == [v.req EXCEPT !.stage = "grant"]
             w == [v EXCEPT !.req = q]
  <1>1. /\ Becomes(s, w) /\ UNCHANGED storeVars /\ UNCHANGED wire
        /\ v.req # None /\ v.req.stage = "sweep"
    BY DEF SweepFails, Keep, Waiting
  <1>2. Fits(s, v, rows, now, issued) /\ v \in Loops /\ v.req \in Requests
    BY <1>1, LoopIs
  <1>3. v.pc = "claiming"
    BY <1>1, <1>2 DEF Fits, Beating, Publishing, Loops
  <1>4. /\ q \in Requests /\ q.stage = "grant" /\ q.worker = v.req.worker
        /\ q.sentAt = v.req.sentAt
    BY <1>2 DEF Requests, Stage
  <1> HIDE DEF q
  <1>5. w \in Loops /\ w.pc = "claiming" /\ w.lease = v.lease /\ w.req = q
    BY <1>2, <1>3, <1>4 DEF Loops
  <1> HIDE DEF w
  <1>6. ~Armed(w) /\ ~Armed(v) /\ ~Viewing(w)
    BY <1>3, <1>4, <1>5 DEF Armed, Viewing
  <1>7. Fits(s, w, rows, now, issued)
    BY <1>1, <1>2, <1>3, <1>4, <1>5, <1>6 DEF Fits, Sent, Claiming, Beating, Publishing
  <1>8. Narrows(v, w, rows)
    BY <1>6 DEF Narrows, Owns
  <1>9. Believes(s, w, rows, now)
    BY <1>5, <1>6 DEF Believes
  <1>10. QED
    BY <1>1, <1>7, <1>8, <1>9, Local

\* The deadline passes: a result that is already there is replaced, an
\* execution aborted.
LEMMA DeadlineFiresOK ==
    ASSUME WorkerInv, NEW s \in Slot, DeadlineFires(s)
    PROVE  WorkerInv' /\ (TimedInv => TimedInv')
  <1> DEFINE v == slot[s]
             late == [v EXCEPT !.abort = "deadline"]
             gone == [v EXCEPT !.pc = "aborted", !.abort = "deadline"]
  <1>1. v.pc \in {"running", "settled"} /\ Fits(s, v, rows, now, issued) /\ v \in Loops
    BY LoopIs DEF DeadlineFires
  <1>2. CASE Becomes(s, At("idle")) /\ UNCHANGED <<storeVars, wire>>
    BY <1>2, Idles
  <1>3. ASSUME NEW w, Becomes(s, w), UNCHANGED <<storeVars, wire>>,
               (w = late /\ v.pc = "settled") \/ w = gone
        PROVE  WorkerInv' /\ (TimedInv => TimedInv')
    <2>1. /\ w \in Loops /\ w.lease = v.lease /\ w.req = v.req /\ w.outcome = v.outcome
          /\ w.safeUntil = v.safeUntil /\ w.pc \in {"settled", "aborted"}
          /\ w.pc = "settled" => v.pc = "settled"
      BY <1>1, <1>3 DEF Loops
    <2>2. Armed(v) /\ Armed(w) /\ (Viewing(w) <=> Viewing(v))
      BY <1>1, <2>1 DEF Armed, Viewing
    <2>3. Fits(s, w, rows, now, issued)
      BY <1>1, <2>1, <2>2 DEF Fits, Claiming, Beating, Publishing
    <2>4. Narrows(v, w, rows)
      BY <1>1, <2>1, <2>2 DEF Narrows, Owns
    <2>5. Believes(s, v, rows, now) => Believes(s, w, rows, now)
      BY <1>1, <2>1, <2>2 DEF Believes, Boundary
    <2>6. QED
      BY <1>3, <2>3, <2>4, <2>5, Local
  <1>4. QED
    <2>1. \/ Keep(s, late) /\ v.pc = "settled"
          \/ Keep(s, gone)
          \/ Keep(s, At("idle"))
      BY DEF DeadlineFires
    <2> HIDE DEF late, gone
    <2>2. QED
      BY <1>2, <1>3, <2>1 DEF Keep

\* Loops that all stop, or start, at once.
LEMMA StopStartOK ==
    ASSUME WorkerInv, NEW loops \in SUBSET Slot, NEW pc \in {"off", "idle"}, UNCHANGED storeVars,
           slot' = [s \in Slot |-> IF s \in loops THEN At(pc) ELSE slot[s]],
           UNCHANGED wire \/ GivesUp(loops)
    PROVE  WorkerInv' /\ (TimedInv => TimedInv')
  <1> DEFINE w == At(pc)
  <1>1. \A s \in Slot : slot'[s] = IF s \in loops THEN w ELSE slot[s]
    OBVIOUS
  <1>2. \A s \in Slot : /\ Fits(s, w, rows, now, issued) /\ Narrows(slot[s], w, rows)
                        /\ Believes(s, w, rows, now)
    BY AtIs
  <1> HIDE DEF w
  <1>3. \A s \in Slot : Fits(s, slot'[s], rows, now, issued) /\ Narrows(slot[s], slot'[s], rows)
    BY <1>1, <1>2, NarrowsSelf DEF WorkerInv
  <1>4. slot' \in [Slot -> Loops]
    <2>1. \A s \in Slot : slot'[s] \in Loops
      BY <1>3 DEF Fits
    <2>2. slot' = [s \in Slot |-> slot'[s]]
      OBVIOUS
    <2>3. QED
      BY <2>1, <2>2
  <1>5. /\ \A q \in wire' : q \in wire \/ \E u \in Slot : q \in Abandoned(u)
        /\ IsFiniteSet(wire') /\ Cardinality(wire') <= MaxWire
    <2>1. CASE UNCHANGED wire
      BY <2>1 DEF WorkerInv, WireInv
    <2>2. CASE GivesUp(loops)
      BY <2>2, GivesUpIs
    <2>3. QED
      BY <2>1, <2>2
  <1>6. WorkerInv'
    BY <1>3, <1>4, <1>5, LocalSteps
  <1>7. ASSUME TimedInv PROVE TimedInv'
    <2>1. \A s \in Slot : Believes(s, slot'[s], rows, now)
      BY <1>1, <1>2, <1>7 DEF TimedInv
    <2>2. rows' = rows /\ now' = now
      BY DEF storeVars
    <2>3. QED
      BY <2>1, <2>2 DEF TimedInv
  <1>8. QED
    BY <1>6, <1>7

-----------------------------------------------------------------------------
(* Statements, as the store runs them.                                     *)

\* The effect of a statement, whoever asked for it.
Executed ==
    /\ IInv' /\ Dated(rows') /\ now' = now
    /\ issued \subseteq issued'
    /\ Later(rows, rows')

\* A statement that moves each row as one of its assignments does.
LEMMA RowsMoved ==
    ASSUME WorkerInv, NEW at \in Instants, DOMAIN rows' = DOMAIN rows,
           \A t \in DOMAIN rows : Move(rows[t], rows'[t], at)
    PROVE  Moved(rows, rows', now) /\ Later(rows, rows') /\ Dated(rows')
  <1>1. at \in Nat /\ at <= now /\ now <= at + MaxLag /\ Table(rows)
    BY StoreIs
  <1>2. Moved(rows, rows', now)
    BY <1>1 DEF Moved
  <1>3. QED
    BY <1>1, <1>2, MovedLater DEF WorkerInv

\* A step that leaves the store alone is a statement that does nothing.
LEMMA NothingMoved ==
    ASSUME WorkerInv, UNCHANGED storeVars
    PROVE  Executed /\ Moved(rows, rows', now)
  <1>1. rows' = rows /\ now' = now /\ issued' = issued
    BY DEF storeVars
  <1>2. now \in Nat /\ MaxLag \in Nat
    BY StoreIs, StoreAssumption
  <1>3. Moved(rows, rows', now)
    <2>1. ASSUME NEW t \in DOMAIN rows
          PROVE  \E at \in Nat : at <= now /\ now <= at + MaxLag /\ Move(rows[t], rows'[t], at)
      <3>1. Move(rows[t], rows'[t], now)
        BY <1>1 DEF Move
      <3>2. now <= now /\ now <= now + MaxLag
        BY <1>2
      <3>3. QED
        BY <1>2, <3>1, <3>2
    <2>2. QED
      BY <1>1, <2>1 DEF Moved
  <1>4. QED
    BY <1>1, <1>3, StoreSame, StoreIs, MovedLater DEF Executed

\* The closing statement.
LEMMA ClosesMove ==
    ASSUME WorkerInv, NEW at \in Instants, NEW S \in SUBSET DOMAIN rows, CloseTerminal(S, at)
    PROVE  Executed /\ Moved(rows, rows', now) /\ issued' = issued
  <1>1. \A t \in DOMAIN rows : Move(rows[t], rows'[t], at)
    BY DEF CloseTerminal, Move
  <1>2. DOMAIN rows' = DOMAIN rows /\ now' = now /\ issued' = issued
    BY DEF CloseTerminal
  <1>3. IInv'
    BY NextIInv DEF WorkerInv, Next, Statement
  <1>4. QED
    BY <1>1, <1>2, <1>3, RowsMoved DEF Executed

\* The requeueing statement.
LEMMA RequeuesMove ==
    ASSUME WorkerInv, NEW at \in Instants, NEW S \in SUBSET DOMAIN rows, RequeueExpired(S, at)
    PROVE  Executed /\ Moved(rows, rows', now) /\ issued' = issued
  <1>1. \A t \in DOMAIN rows : Move(rows[t], rows'[t], at)
    BY DEF RequeueExpired, Move
  <1>2. DOMAIN rows' = DOMAIN rows /\ now' = now /\ issued' = issued
    BY DEF RequeueExpired
  <1>3. IInv'
    BY NextIInv DEF WorkerInv, Next, Statement
  <1>4. QED
    BY <1>1, <1>2, <1>3, RowsMoved DEF Executed

\* A statement that writes one row.
LEMMA OneRowMoves ==
    ASSUME WorkerInv, NEW at \in Instants, NEW t \in DOMAIN rows, NEW r,
           Move(rows[t], r, at), SetRow(t, r)
    PROVE  /\ Moved(rows, rows', now) /\ Later(rows, rows') /\ Dated(rows')
           /\ DOMAIN rows' = DOMAIN rows /\ rows'[t] = r
  <1>1. rows' = [rows EXCEPT ![t] = r]
    BY DEF SetRow
  <1>2. DOMAIN rows' = DOMAIN rows /\ rows'[t] = r
    BY <1>1
  <1>3. \A u \in DOMAIN rows : u # t => rows'[u] = rows[u]
    BY <1>1
  <1>4. \A u \in DOMAIN rows : Move(rows[u], rows'[u], at)
    <2>1. ASSUME NEW u \in DOMAIN rows, u # t PROVE Move(rows[u], rows'[u], at)
      BY <1>3, <2>1 DEF Move
    <2>2. QED
      BY <1>2, <2>1
  <1>5. QED
    BY <1>2, <1>4, RowsMoved

\* The claim.
LEMMA ClaimMoves ==
    ASSUME WorkerInv, NEW at \in Instants, NEW w \in Worker, NEW t \in Task, Claim(w, t, at)
    PROVE  /\ Executed /\ Moved(rows, rows', now) /\ t \in DOMAIN rows
           /\ Claimable(rows[t], at) /\ rows'[t] = Granted(rows[t], w, at + LeaseMs, at)
           /\ issued' = issued \cup
                 {[task |-> t, owner |-> w, generation |-> rows[t].generation + 1]}
  <1> DEFINE r == Granted(rows[t], w, at + LeaseMs, at)
  <1>1. t \in DOMAIN rows /\ Claimable(rows[t], at)
    BY DEF Claim, Candidates
  <1>2. Move(rows[t], r, at)
    BY <1>1 DEF Move
  <1>3. SetRow(t, r) /\ now' = now
    BY DEF Claim
  <1>4. IInv'
    BY NextIInv DEF WorkerInv, Next, Statement
  <1>5. issued' = issued \cup
            {[task |-> t, owner |-> w, generation |-> rows[t].generation + 1]}
    BY DEF Claim
  <1> HIDE DEF r
  <1>6. /\ Moved(rows, rows', now) /\ Later(rows, rows') /\ Dated(rows')
        /\ rows'[t] = r
    BY <1>1, <1>2, <1>3, OneRowMoves
  <1>7. QED
    BY <1>1, <1>3, <1>4, <1>5, <1>6 DEF Executed, r

\* The renewal.
LEMMA BeatMoves ==
    ASSUME WorkerInv, NEW at \in Instants, NEW l \in issued, Heartbeat(l, at)
    PROVE  /\ Executed /\ Moved(rows, rows', now) /\ issued' = issued
           /\ rows'[l.task] = Renewed(rows[l.task], at + LeaseMs)
  <1> DEFINE r == Renewed(rows[l.task], at + LeaseMs)
  <1>1. l.task \in DOMAIN rows
    BY StoreIs
  <1>2. Move(rows[l.task], r, at)
    BY DEF Move, Heartbeat, Holds
  <1>3. SetRow(l.task, r) /\ now' = now /\ issued' = issued
    BY DEF Heartbeat
  <1>4. IInv'
    BY NextIInv DEF WorkerInv, Next, Statement
  <1> HIDE DEF r
  <1>5. /\ Moved(rows, rows', now) /\ Later(rows, rows') /\ Dated(rows')
        /\ rows'[l.task] = r
    BY <1>1, <1>2, <1>3, OneRowMoves
  <1>6. QED
    BY <1>3, <1>4, <1>5 DEF Executed, r

\* A cancellation.
LEMMA CancelMoves ==
    ASSUME WorkerInv, NEW at \in Instants, NEW t \in DOMAIN rows, Cancel(t, at)
    PROVE  Executed /\ Moved(rows, rows', now) /\ issued' = issued
  <1> DEFINE r == CancelMarked(rows[t], at)
  <1>1. Move(rows[t], r, at)
    BY DEF Move, Cancel
  <1>2. SetRow(t, r) /\ now' = now /\ issued' = issued
    BY DEF Cancel
  <1>3. IInv'
    BY NextIInv DEF WorkerInv, Next, Statement
  <1> HIDE DEF r
  <1>4. Moved(rows, rows', now) /\ Later(rows, rows') /\ Dated(rows')
    BY <1>1, <1>2, OneRowMoves
  <1>5. QED
    BY <1>2, <1>3, <1>4 DEF Executed

\* A submission.
LEMMA EnqueueMoves ==
    ASSUME WorkerInv, NEW at \in Instants, NEW t \in Task, NEW d \in Timeout, Enqueue(t, d, at)
    PROVE  Executed /\ Moved(rows, rows', now) /\ issued' = issued
  <1> DEFINE r == NewRow(at + d, at)
  <1>1. at \in Nat /\ at <= now /\ now <= at + MaxLag /\ d \in Nat /\ d # None
    BY StoreIs, StoreAssumption, WorkerAssumption
  <1>2. /\ DOMAIN rows' = DOMAIN rows \cup {t} /\ now' = now /\ issued' = issued
        /\ \A u \in DOMAIN rows : rows'[u] = rows[u]
        /\ rows'[t] = r
    BY <1>1 DEF Enqueue
  <1>3. r.deadlineAt # None
    BY <1>1, RowAssumption DEF NewRow
  <1> HIDE DEF r
  <1>4. Dated(rows')
    BY <1>2, <1>3 DEF Dated, WorkerInv
  <1>5. \A u \in DOMAIN rows : Move(rows[u], rows'[u], at)
    BY <1>2 DEF Move
  <1>6. Moved(rows, rows', now)
    BY <1>1, <1>2, <1>5 DEF Moved
  <1>7. Later(rows, rows')
    BY <1>6, MovedLater, StoreIs
  <1>8. IInv'
    BY NextIInv DEF WorkerInv, Next, Statement
  <1>9. QED
    BY <1>2, <1>4, <1>6, <1>7, <1>8 DEF Executed

\* A completion the store accepts.
LEMMA CompleteMoves ==
    ASSUME WorkerInv, NEW at \in Instants, NEW l \in issued, NEW o \in Outcome, Complete(l, o, at)
    PROVE  Executed /\ PublishedBy(l, o, rows, rows', now) /\ issued' = issued
  <1> DEFINE q == rows[l.task]
             r == Published(q, l, o)
             S == {l.task}
             new == [u \in S |-> r]
  <1>1. /\ l \in Lease /\ l.task \in DOMAIN rows /\ q \in Row /\ RowInv(q)
        /\ at \in Nat /\ at <= now /\ now <= at + MaxLag /\ Table(rows)
    BY StoreIs DEF Table
  <1>2. Holds(q, l, at) /\ (q.cancelRequested => o = "cancelled")
    BY DEF Complete, CompleteReply
  <1>3. r \in Row /\ RowInv(r)
    BY <1>1, <1>2, PublishedOK
  <1>4. /\ r.generation = q.generation
        /\ r.completion = [outcome |-> o, worker |-> l.owner, generation |-> l.generation]
    BY <1>1 DEF Published, Finished, Row
  <1>5. [task |-> l.task, owner |-> r.completion.worker,
         generation |-> r.completion.generation] = l
    BY <1>1, <1>4 DEF Lease
  <1>6. rows' = [rows EXCEPT ![l.task] = r] /\ now' = now /\ issued' = issued
    BY DEF Complete, SetRow
  <1>7. PublishedBy(l, o, rows, rows', now)
    BY <1>1, <1>2, <1>6 DEF PublishedBy
  <1>8. r.generation >= q.generation
    BY <1>1, <1>4 DEF Row
  <1> HIDE DEF r
  <1>9. rows' = [u \in DOMAIN rows |-> IF u \in S THEN new[u] ELSE rows[u]]
    <2>1. rows = [u \in DOMAIN rows |-> rows[u]]
      BY DEF WorkerInv, IInv, TypeOK
    <2>2. QED
      BY <1>6, <2>1
  <1>10. new \in [S -> Row] /\ S \in SUBSET DOMAIN rows /\ \A u \in S : u = l.task /\ new[u] = r
    BY <1>1, <1>3
  <1> HIDE DEF S, new
  <1>11. IInv'
    <2>1. \A u \in S : /\ RowInv(new[u])
                       /\ new[u].generation >= rows[u].generation
                       /\ new[u].completion # NoCompletion =>
                             [task |-> u, owner |-> new[u].completion.worker,
                              generation |-> new[u].completion.generation] \in issued
      BY <1>3, <1>5, <1>8, <1>10
    <2>2. IInv
      BY DEF WorkerInv
    <2>3. QED
      BY <1>6, <1>9, <1>10, <2>1, <2>2, RewriteOK
  <1>12. Later(rows, rows') /\ Dated(rows')
    BY <1>1, <1>7, PublishedLater
  <1>13. QED
    BY <1>6, <1>7, <1>11, <1>12 DEF Executed

-----------------------------------------------------------------------------
(* Requests, as the store serves them.                                     *)

Same(q, p) ==
    /\ p.worker = q.worker /\ p.lease = q.lease
    /\ p.outcome = q.outcome /\ p.sentAt = q.sentAt

\* What the reply to a completion says, as of a reading of the clock.
Replied(q, p, R, R2, N) ==
    /\ \E at \in Nat : /\ at <= N
                       /\ p.reply.code = CompleteReply(R[q.lease.task], q.lease, q.outcome, at)
    /\ p.reply.code = "ok" => Done(q.lease, q.outcome, R2)
    /\ p.reply.code = "CANCEL_REQUESTED" =>
          R2[q.lease.task].cancelRequested /\ q.outcome # "cancelled"

\* Request q is left as p.
Served(q, p, R, R2, I, I2, N) ==
    /\ p \in Requests /\ Same(q, p)
    /\ \/ q.stage = "sweep" /\ p.stage = "grant"
       \/ /\ q.stage = "grant" /\ p.stage = "answered"
          /\ \/ p.reply.code = "nothing"
             \/ p.reply.code = "granted" /\ p.reply.lease \in I2 \ I
       \/ q.stage = "renew" /\ p.stage = "close"
       \/ /\ q.stage = "renew" /\ p.stage = "answered"
          /\ p.reply.code = "renewed" /\ p.reply.lease = q.lease
       \/ q.stage = "close" /\ p.stage = "requeue"
       \/ q.stage = "requeue" /\ p.stage = "answered" /\ p.reply.code = "STALE_LEASE"
       \/ q.stage = "publish" /\ p.stage = "answered" /\ Replied(q, p, R, R2, N)

\* What a reply shows of a lease is what the row says.
Seen(q, p, R2, N) ==
    p.stage = "answered" /\ p.reply.code \in {"granted", "renewed"} =>
        /\ Current(p.reply.lease, R2)
        /\ Bounded(Granting(p, q.worker), R2[p.reply.lease.task], N)

Ran(c, q, p) ==
    /\ Left(c, q, p)
    /\ Served(q, p, rows, rows', issued, issued', now)
    /\ Seen(q, p, rows', now)
    /\ Executed
    /\ \/ Moved(rows, rows', now)
       \/ q.stage = "publish" /\ PublishedBy(q.lease, q.outcome, rows, rows', now)

\* A reply without a view.
LEMMA CodedIs ==
    ASSUME NEW q \in Requests,
           NEW code \in {"nothing", "STALE_LEASE", "ok", "CANCEL_REQUESTED", "COMPLETION_CONFLICT"}
    PROVE  LET p == Coded(q, code) IN
           /\ p \in Requests /\ Same(q, p)
           /\ p.stage = "answered" /\ p.reply.code = code
  <1> DEFINE a == [q.reply EXCEPT !.code = code]
             p == [q EXCEPT !.stage = "answered", !.reply = a]
  <1>1. Coded(q, code) = p
    BY DEF Coded
  <1>2. a \in Replies /\ a.code = code
    BY DEF Requests, Replies
  <1> HIDE DEF a
  <1>3. /\ p \in Requests /\ p.stage = "answered" /\ p.reply = a
        /\ Same(q, p)
    BY <1>2 DEF Requests, Stage, Same
  <1> HIDE DEF p
  <1>4. QED
    BY <1>1, <1>2, <1>3

\* A reply with a view of the row a statement has just written.
LEMMA ViewedIs ==
    ASSUME NEW q \in Requests, NEW code \in {"granted", "renewed"}, NEW l \in Lease,
           NEW r \in Row, r.leaseUntil # None, r.deadlineAt # None, NEW at \in Nat
    PROVE  LET p == Viewed(q, code, l, r, at) IN
           /\ p \in Requests /\ Same(q, p)
           /\ p.stage = "answered" /\ p.reply.code = code /\ p.reply.lease = l
           /\ p.reply.leaseUntil = r.leaseUntil /\ p.reply.serverNow = at
  <1> DEFINE a == [code |-> code, lease |-> l, serverNow |-> at, leaseUntil |-> r.leaseUntil,
                   deadlineAt |-> r.deadlineAt, cancelRequested |-> r.cancelRequested]
             p == [q EXCEPT !.stage = "answered", !.reply = a]
  <1>1. Viewed(q, code, l, r, at) = p
    BY DEF Viewed
  <1>2. /\ a \in Replies /\ a.code = code /\ a.lease = l
        /\ a.leaseUntil = r.leaseUntil /\ a.serverNow = at
    BY DEF Replies, Row
  <1> HIDE DEF a
  <1>3. /\ p \in Requests /\ p.stage = "answered" /\ p.reply = a
        /\ Same(q, p)
    BY <1>2 DEF Requests, Stage, Same
  <1> HIDE DEF p
  <1>4. QED
    BY <1>1, <1>2, <1>3

\* A request that goes on to its next statement.
LEMMA StagedIs ==
    ASSUME NEW q \in Requests, NEW stage \in Stage
    PROVE  LET p == [q EXCEPT !.stage = stage] IN
           p \in Requests /\ Same(q, p) /\ p.stage = stage
  BY DEF Requests, Same

\* The round trip is charged against the lease: what its owner makes of a
\* reply is not beyond what the row says.
LEMMA RoundTrip ==
    ASSUME NEW q \in Requests, q.worker \in Worker, NEW p, Same(q, p),
           NEW at \in Nat, NEW N \in Nat, at <= N, at + Skew[q.worker] >= q.sentAt,
           NEW r, r.leaseUntil \in Nat, r.deadlineAt \in Nat,
           r.leaseUntil <= at + LeaseMs, r.leaseUntil <= r.deadlineAt,
           p.reply.leaseUntil = r.leaseUntil, p.reply.serverNow = at
    PROVE  Bounded(Granting(p, q.worker), r, N)
  <1> DEFINE b == Granting(p, q.worker)
  <1>1. q.sentAt \in Nat /\ Skew[q.worker] \in Nat /\ LeaseMs \in Nat /\ MaxLag \in Nat
    BY WorkerAssumption, StoreAssumption DEF Requests
  <1>2. b = q.sentAt - Skew[q.worker] + (r.leaseUntil - at)
    BY DEF Granting, Same
  <1>3. b <= r.leaseUntil /\ b <= N + LeaseMs
    BY <1>1, <1>2
  <1>4. b \in Int
    BY <1>1, <1>2
  <1> HIDE DEF b
  <1>5. b <= r.deadlineAt /\ b <= r.leaseUntil + MaxLag
    BY <1>1, <1>3, <1>4
  <1>6. QED
    BY <1>3, <1>5 DEF Bounded, b

\* Capping a lease at the deadline keeps it within both.
LEMMA CappedWithin ==
    ASSUME NEW r \in Row, r.deadlineAt # None, NEW until \in Nat
    PROVE  /\ Capped(r, until) \in Nat
           /\ Capped(r, until) <= until /\ Capped(r, until) <= r.deadlineAt
  <1>1. r.deadlineAt \in Nat
    BY DEF Row
  <1>2. QED
    BY <1>1 DEF Capped

\* A reply or a next stage that shows no lease.
LEMMA UnseenIs ==
    ASSUME NEW q, NEW p, p.stage # "answered" \/ p.reply.code \notin {"granted", "renewed"}, NEW R2, NEW N
    PROVE  Seen(q, p, R2, N)
  BY DEF Seen

\* The closing batch of a claim.
LEMMA SweepRuns ==
    ASSUME WorkerInv, NEW c, NEW q, Sent(q, issued), NEW at \in Instants, Sweep(c, q, at)
    PROVE  \E p : Ran(c, q, p)
  <1> DEFINE p == [q EXCEPT !.stage = "grant"]
  <1>1. q \in Requests /\ q.stage = "sweep" /\ Left(c, q, p)
    BY DEF Sweep, Sent
  <1>2. p \in Requests /\ Same(q, p) /\ p.stage = "grant"
    BY <1>1, StagedIs DEF Stage
  <1>3. PICK locked \in LockedSets :
            LET S == {t \in DOMAIN rows \ locked : Terminalizable(rows[t], at)}
            IN  IF S = {} THEN UNCHANGED storeVars ELSE CloseTerminal(S, at)
    BY DEF Sweep
  <1> HIDE DEF p
  <1>4. Executed /\ Moved(rows, rows', now)
    <2> DEFINE S == {t \in DOMAIN rows \ locked : Terminalizable(rows[t], at)}
    <2>1. CASE UNCHANGED storeVars
      BY <2>1, NothingMoved
    <2>2. CASE CloseTerminal(S, at)
      <3>1. S \in SUBSET DOMAIN rows
        OBVIOUS
      <3> HIDE DEF S
      <3>2. QED
        BY <2>2, <3>1, ClosesMove
    <2>3. QED
      BY <1>3, <2>1, <2>2
  <1>5. Served(q, p, rows, rows', issued, issued', now)
    BY <1>1, <1>2 DEF Served
  <1>6. Seen(q, p, rows', now)
    BY <1>2, UnseenIs
  <1>7. QED
    BY <1>1, <1>4, <1>5, <1>6 DEF Ran

\* The claim statement, with a lease or without.
LEMMA GrantRuns ==
    ASSUME WorkerInv, NEW c, NEW q, Sent(q, issued), NEW at \in Instants,
           at + Skew[q.worker] >= q.sentAt, Grant(c, q, at)
    PROVE  \E p : Ran(c, q, p)
  <1>1. q \in Requests /\ q.worker \in Worker /\ q.stage = "grant"
    BY DEF Grant, Sent, Requests
  <1>2. ASSUME NEW t \in Task, Claim(q.worker, t, at),
               Left(c, q, Viewed(q, "granted", [task |-> t, owner |-> q.worker,
                                                generation |-> rows'[t].generation], rows'[t], at))
        PROVE  \E p : Ran(c, q, p)
    <2> DEFINE r == rows[t]
               r2 == rows'[t]
               l == [task |-> t, owner |-> q.worker, generation |-> r2.generation]
               p == Viewed(q, "granted", l, r2, at)
    <2>1. /\ Executed /\ Moved(rows, rows', now) /\ t \in DOMAIN rows
          /\ Claimable(r, at) /\ r2 = Granted(r, q.worker, at + LeaseMs, at)
          /\ issued' = issued \cup
                {[task |-> t, owner |-> q.worker, generation |-> r.generation + 1]}
      BY <1>1, <1>2, ClaimMoves
    <2>2. /\ r \in Row /\ r.deadlineAt # None /\ r.generation \in Nat
          /\ at \in Nat /\ at <= now /\ now \in Nat
      BY <2>1, StoreIs DEF Table, Row
    <2>3. at + LeaseMs \in Nat
      BY <2>2, StoreAssumption
    <2>4. r2 \in Row /\ r2.generation \in Nat
      BY <2>1 DEF Executed, IInv, TypeOK, Row, Later
    <2>5. /\ r2.state = "running" /\ r2.owner = q.worker /\ r2.generation = r.generation + 1
          /\ r2.deadlineAt = r.deadlineAt /\ r2.leaseUntil = Capped(r, at + LeaseMs)
      BY <2>1, <2>2 DEF Granted, Row
    <2>6. /\ r2.leaseUntil \in Nat /\ r2.deadlineAt \in Nat
          /\ r2.leaseUntil <= at + LeaseMs /\ r2.leaseUntil <= r2.deadlineAt
      BY <2>2, <2>3, <2>5, CappedWithin DEF Row
    <2>7. l \in Lease /\ l \in issued' /\ l.task = t /\ l.owner = q.worker
          /\ l.generation = r2.generation
      BY <1>1, <2>1, <2>4, <2>5 DEF Lease
    <2>8. l \notin issued
      <3>1. SUFFICES ASSUME l \in issued PROVE FALSE
        OBVIOUS
      <3>2. l.generation <= rows[l.task].generation
        BY <3>1 DEF WorkerInv, IInv, IssuedInv
      <3>3. QED
        BY <2>2, <2>5, <2>7, <3>2
    <2>9. r2.leaseUntil # None /\ r2.deadlineAt # None
      BY <2>6, RowAssumption
    <2> HIDE DEF l, r2
    <2>10. /\ p \in Requests /\ Same(q, p)
           /\ p.stage = "answered" /\ p.reply.code = "granted" /\ p.reply.lease = l
           /\ p.reply.leaseUntil = r2.leaseUntil /\ p.reply.serverNow = at
      BY <1>1, <2>2, <2>4, <2>7, <2>9, ViewedIs
    <2>11. Left(c, q, p)
      BY <1>2 DEF l, r2
    <2> HIDE DEF p
    <2>12. Bounded(Granting(p, q.worker), r2, now)
      BY <1>1, <2>2, <2>6, <2>10, RoundTrip
    <2>13. Seen(q, p, rows', now)
      BY <2>5, <2>7, <2>10, <2>12 DEF Seen, Current, r2
    <2>14. Served(q, p, rows, rows', issued, issued', now)
      BY <1>1, <2>7, <2>8, <2>10 DEF Served
    <2>15. QED
      BY <2>1, <2>11, <2>13, <2>14 DEF Ran
  <1>3. ASSUME Left(c, q, Coded(q, "nothing")), UNCHANGED storeVars
        PROVE  \E p : Ran(c, q, p)
    <2> DEFINE p == Coded(q, "nothing")
    <2>1. p \in Requests /\ Same(q, p) /\ p.stage = "answered" /\ p.reply.code = "nothing"
      BY <1>1, CodedIs
    <2> HIDE DEF p
    <2>2. Served(q, p, rows, rows', issued, issued', now) /\ Seen(q, p, rows', now)
      BY <1>1, <2>1, UnseenIs DEF Served
    <2>3. Executed /\ Moved(rows, rows', now)
      BY <1>3, NothingMoved
    <2>4. Left(c, q, p)
      BY <1>3 DEF p
    <2>5. QED
      BY <2>2, <2>3, <2>4 DEF Ran
  <1>4. QED
    BY <1>2, <1>3 DEF Grant

\* The renewal, or a miss.
LEMMA RenewRuns ==
    ASSUME WorkerInv, NEW c, NEW q, Sent(q, issued), NEW at \in Instants,
           at + Skew[q.worker] >= q.sentAt, Renew(c, q, at)
    PROVE  \E p : Ran(c, q, p)
  <1> DEFINE l == q.lease
             r == rows[l.task]
             r2 == rows'[l.task]
  <1>1. /\ q \in Requests /\ q.worker \in Worker /\ q.stage = "renew" /\ l \in issued
        /\ l \in Lease /\ l.task \in DOMAIN rows
    BY StoreIs DEF Renew, Sent, Requests
  <1>2. CASE Holds(r, l, at)
    <2> DEFINE p == Viewed(q, "renewed", l, r2, at)
    <2>1. Heartbeat(l, at) /\ Left(c, q, p)
      BY <1>2 DEF Renew
    <2>2. /\ Executed /\ Moved(rows, rows', now) /\ issued' = issued
          /\ r2 = Renewed(r, at + LeaseMs)
      BY <1>1, <2>1, BeatMoves
    <2>3. /\ r \in Row /\ r.deadlineAt # None /\ at \in Nat /\ at <= now /\ now \in Nat
      BY <1>1, StoreIs DEF Table
    <2>4. at + LeaseMs \in Nat
      BY <2>3, StoreAssumption
    <2>5. r2 \in Row
      BY <1>1, <2>2 DEF Executed, IInv, TypeOK, Later
    <2>6. /\ r2.state = "running" /\ r2.owner = l.owner /\ r2.generation = l.generation
          /\ r2.deadlineAt = r.deadlineAt /\ r2.leaseUntil = Capped(r, at + LeaseMs)
      BY <1>2, <2>2, <2>3 DEF Renewed, Row, Holds
    <2>7. /\ r2.leaseUntil \in Nat /\ r2.deadlineAt \in Nat
          /\ r2.leaseUntil <= at + LeaseMs /\ r2.leaseUntil <= r2.deadlineAt
      BY <2>3, <2>4, <2>6, CappedWithin DEF Row
    <2>8. r2.leaseUntil # None /\ r2.deadlineAt # None
      BY <2>7, RowAssumption
    <2> HIDE DEF r2
    <2>9. /\ p \in Requests /\ Same(q, p)
          /\ p.stage = "answered" /\ p.reply.code = "renewed" /\ p.reply.lease = l
          /\ p.reply.leaseUntil = r2.leaseUntil /\ p.reply.serverNow = at
      BY <1>1, <2>3, <2>5, <2>8, ViewedIs
    <2> HIDE DEF p
    <2>10. Bounded(Granting(p, q.worker), r2, now)
      BY <1>1, <2>3, <2>7, <2>9, RoundTrip
    <2>11. Seen(q, p, rows', now)
      BY <2>6, <2>9, <2>10 DEF Seen, Current, r2
    <2>12. Served(q, p, rows, rows', issued, issued', now)
      BY <1>1, <2>9 DEF Served
    <2>13. QED
      BY <2>1, <2>2, <2>11, <2>12 DEF Ran
  <1>3. CASE ~Holds(r, l, at)
    <2> DEFINE p == [q EXCEPT !.stage = "close"]
    <2>1. Left(c, q, p) /\ UNCHANGED storeVars
      BY <1>3 DEF Renew
    <2>2. p \in Requests /\ Same(q, p) /\ p.stage = "close"
      BY <1>1, StagedIs DEF Stage
    <2> HIDE DEF p
    <2>3. Served(q, p, rows, rows', issued, issued', now) /\ Seen(q, p, rows', now)
      BY <1>1, <2>2, UnseenIs DEF Served
    <2>4. QED
      BY <2>1, <2>3, NothingMoved DEF Ran
  <1>4. QED
    BY <1>2, <1>3

\* The two statements that tidy a row up after a miss.
LEMMA HousekeepRuns ==
    ASSUME WorkerInv, NEW c, NEW q, Sent(q, issued), NEW at \in Instants, Housekeep(c, q, at)
    PROVE  \E p : Ran(c, q, p)
  <1> DEFINE t == q.lease.task
  <1>1. q \in Requests /\ (q.stage \in {"close", "requeue"} => t \in DOMAIN rows)
    BY StoreIs DEF Sent
  <1>2. ASSUME q.stage = "close", Left(c, q, [q EXCEPT !.stage = "requeue"]),
               CloseTerminal({t}, at) \/ UNCHANGED storeVars
        PROVE  \E p : Ran(c, q, p)
    <2> DEFINE p == [q EXCEPT !.stage = "requeue"]
    <2>1. p \in Requests /\ Same(q, p) /\ p.stage = "requeue"
      BY <1>1, StagedIs DEF Stage
    <2>2. Left(c, q, p)
      BY <1>2
    <2> HIDE DEF p
    <2>3. Served(q, p, rows, rows', issued, issued', now) /\ Seen(q, p, rows', now)
      BY <1>2, <2>1, UnseenIs DEF Served
    <2>4. Executed /\ Moved(rows, rows', now)
      <3>1. {t} \in SUBSET DOMAIN rows
        BY <1>1, <1>2
      <3>2. QED
        BY <1>2, <3>1, ClosesMove, NothingMoved
    <2>5. QED
      BY <2>2, <2>3, <2>4 DEF Ran
  <1>3. ASSUME q.stage = "requeue", Left(c, q, Coded(q, "STALE_LEASE")),
               RequeueExpired({t}, at) \/ UNCHANGED storeVars
        PROVE  \E p : Ran(c, q, p)
    <2> DEFINE p == Coded(q, "STALE_LEASE")
    <2>1. p \in Requests /\ Same(q, p) /\ p.stage = "answered" /\ p.reply.code = "STALE_LEASE"
      BY <1>1, CodedIs
    <2>2. Left(c, q, p)
      BY <1>3
    <2> HIDE DEF p
    <2>3. Served(q, p, rows, rows', issued, issued', now) /\ Seen(q, p, rows', now)
      BY <1>3, <2>1, UnseenIs DEF Served
    <2>4. Executed /\ Moved(rows, rows', now)
      <3>1. {t} \in SUBSET DOMAIN rows
        BY <1>1, <1>3
      <3>2. QED
        BY <1>3, <3>1, RequeuesMove, NothingMoved
    <2>5. QED
      BY <2>2, <2>3, <2>4 DEF Ran
  <1>4. QED
    BY <1>2, <1>3 DEF Housekeep

\* The completion: it is accepted, was accepted before, or is refused.
LEMMA PublishRuns ==
    ASSUME WorkerInv, NEW c, NEW q, Sent(q, issued), NEW at \in Instants, Publish(c, q, at)
    PROVE  \E p : Ran(c, q, p)
  <1> DEFINE l == q.lease
             o == q.outcome
             r == rows[l.task]
             code == CompleteReply(r, l, o, at)
             p == Coded(q, code)
  <1>1. /\ q \in Requests /\ q.stage = "publish" /\ l \in issued /\ o \in Outcome
        /\ l \in Lease /\ l.task \in DOMAIN rows /\ Table(rows)
        /\ at \in Nat /\ at <= now
    BY StoreIs DEF Publish, Sent
  <1>2. code \in {"ok", "CANCEL_REQUESTED", "STALE_LEASE", "COMPLETION_CONFLICT"}
    BY DEF CompleteReply
  <1>3. Left(c, q, p)
    BY DEF Publish
  <1>4. p \in Requests /\ Same(q, p) /\ p.stage = "answered" /\ p.reply.code = code
    <2> HIDE DEF code
    <2>1. QED
      BY <1>1, <1>2, CodedIs
  <1> HIDE DEF p
  <1>5. /\ Executed
        /\ Moved(rows, rows', now) \/ PublishedBy(l, o, rows, rows', now)
        /\ code = "ok" => Done(l, o, rows')
    <2>1. CASE code = "ok" /\ r.state # "terminal"
      <3>1. Complete(l, o, at)
        BY <2>1 DEF Publish
      <3>2. Executed /\ PublishedBy(l, o, rows, rows', now)
        BY <1>1, <3>1, CompleteMoves
      <3>3. Done(l, o, rows')
        BY <1>1, <3>2, PublishedLater
      <3>4. QED
        BY <3>2, <3>3
    <2>2. CASE ~(code = "ok" /\ r.state # "terminal")
      <3>1. UNCHANGED storeVars
        BY <2>2 DEF Publish
      <3>2. Executed /\ Moved(rows, rows', now)
        BY <3>1, NothingMoved
      <3>3. code = "ok" => Done(l, o, rows)
        BY <2>2 DEF CompleteReply, Done
      <3>4. QED
        BY <3>1, <3>2, <3>3 DEF storeVars
    <2>3. QED
      BY <2>1, <2>2
  <1>6. code = "CANCEL_REQUESTED" => rows'[l.task].cancelRequested /\ o # "cancelled"
    <2>1. code = "CANCEL_REQUESTED" => r.cancelRequested /\ o # "cancelled"
      BY DEF CompleteReply
    <2>2. QED
      BY <1>1, <1>5, <2>1 DEF Executed, Later
  <1>7. Replied(q, p, rows, rows', now)
    BY <1>1, <1>4, <1>5, <1>6 DEF Replied
  <1>8. Served(q, p, rows, rows', issued, issued', now)
    BY <1>1, <1>4, <1>7 DEF Served
  <1>9. Seen(q, p, rows', now)
    <2> HIDE DEF code
    <2>1. QED
      BY <1>2, <1>4, UnseenIs
  <1>10. QED
    BY <1>1, <1>3, <1>5, <1>8, <1>9 DEF Ran

\* Whatever the store runs of a request.
LEMMA ExecutesRuns ==
    ASSUME WorkerInv, NEW c, NEW q, Sent(q, issued), Executes(c, q)
    PROVE  \E p : Ran(c, q, p)
  BY SweepRuns, GrantRuns, RenewRuns, HousekeepRuns, PublishRuns DEF Executes

-----------------------------------------------------------------------------
(* The loops, as their requests are served.                                *)

\* A loop's request is served: the loop still fits what it waits for.
LEMMA FitsServed ==
    ASSUME NEW R, NEW R2, NEW N \in Nat, NEW I, NEW I2, I \subseteq I2,
           NEW s \in Slot, NEW v, v.req # None, Fits(s, v, R, N, I), Fits(s, v, R2, N, I2),
           NEW p, Served(v.req, p, R, R2, I, I2, N)
    PROVE  LET w == [v EXCEPT !.req = p] IN
           /\ w \in Loops /\ w.pc = v.pc /\ w.lease = v.lease /\ w.req = p
           /\ w.safeUntil = v.safeUntil /\ w.outcome = v.outcome
           /\ Fits(s, w, R2, N, I2)
  <1> DEFINE q == v.req
             w == [v EXCEPT !.req = p]
  <1>1. v \in Loops /\ q \in Requests /\ p \in Requests /\ Same(q, p)
    BY DEF Fits, Sent, Served
  <1>2. /\ w \in Loops /\ w.pc = v.pc /\ w.lease = v.lease /\ w.req = p
        /\ w.safeUntil = v.safeUntil /\ w.outcome = v.outcome
    BY <1>1 DEF Loops
  <1> HIDE DEF w
  <1>3. Armed(w) <=> Armed(v)
    BY <1>2 DEF Armed
  <1>4. Sent(p, I2)
    BY <1>1 DEF Sent, Served, Fits, Same
  <1>5. Claiming(w, I2)
    <2>1. v.pc = "claiming" => q.stage \in {"sweep", "grant", "answered"}
      BY DEF Fits, Claiming
    <2>2. QED
      BY <1>2, <2>1 DEF Served, Claiming
  <1>6. Beating(w)
    <2>1. v.pc \in {"running", "aborted", "settled"} =>
              q.stage \in {"renew", "close", "requeue", "answered"} /\ q.lease = v.lease
      BY DEF Fits, Beating
    <2>2. QED
      BY <1>1, <1>2, <2>1 DEF Served, Beating, Same
  <1>7. Publishing(w, R2)
    <2>1. v.pc = "publishing" =>
              /\ q.stage \in {"publish", "answered"}
              /\ q.lease = v.lease /\ q.outcome = v.outcome
      BY DEF Fits, Publishing
    <2>2. q.stage = "publish" => p.stage = "answered" /\ Replied(q, p, R, R2, N)
      BY DEF Served
    <2>3. q.stage # "answered"
      BY DEF Served
    <2>4. q.stage = "publish" =>
              p.reply.code \in {"ok", "CANCEL_REQUESTED", "STALE_LEASE", "COMPLETION_CONFLICT"}
      BY <2>2 DEF Replied, CompleteReply
    <2>5. QED
      BY <1>1, <1>2, <2>1, <2>2, <2>3, <2>4 DEF Replied, Publishing, Same
  <1>8. Fits(s, w, R2, N, I2)
    BY <1>1, <1>2, <1>3, <1>4, <1>5, <1>6, <1>7 DEF Fits, Same
  <1>9. QED
    BY <1>2, <1>8 DEF w

\* A loop's request is served: it owns what it owned, and a lease just issued.
LEMMA OwnsServed ==
    ASSUME NEW s \in Slot, NEW R, NEW R2, NEW N, NEW I, NEW I2, NEW v, Fits(s, v, R, N, I),
           v.req # None, NEW p, Served(v.req, p, R, R2, I, I2, N),
           NEW w, w.pc = v.pc, w.lease = v.lease, w.req = p,
           NEW l, Owns(w, l)
    PROVE  Owns(v, l) \/ l \notin I
  <1>1. CASE Armed(w) /\ l = w.lease
    BY <1>1 DEF Owns, Armed
  <1>2. CASE Viewing(w) /\ l = w.req.reply.lease
    <2>1. /\ p.stage = "answered" /\ p.reply.code \in {"granted", "renewed"}
          /\ l = p.reply.lease
      BY <1>2 DEF Viewing
    <2>2. l \notin I \/ (v.req.stage = "renew" /\ l = v.req.lease)
      BY <2>1 DEF Served, Replied, CompleteReply
    <2>3. v.req.stage = "renew" => Armed(v) /\ v.req.lease = v.lease
      BY DEF Fits, Claiming, Beating, Publishing, Armed, Loops
    <2>4. QED
      BY <2>2, <2>3 DEF Owns
  <1>3. QED
    BY <1>1, <1>2 DEF Owns

\* The store serves the request of a loop.
LEMMA ServeLoop ==
    ASSUME WorkerInv, NEW c \in Slot, slot[c].req # None, NEW p, Ran(c, slot[c].req, p)
    PROVE  WorkerInv'
  <1> DEFINE v == slot[c]
             q == v.req
             w == [v EXCEPT !.req = p]
  <1>1. /\ slot \in [Slot -> Loops] /\ now \in Nat /\ now' = now /\ issued \subseteq issued'
        /\ IInv' /\ Dated(rows') /\ Later(rows, rows')
        /\ \A l \in issued : l.task \in DOMAIN rows
        /\ Served(q, p, rows, rows', issued, issued', now)
    BY StoreIs DEF WorkerInv, Ran, Executed
  <1>2. c # None /\ wire' = wire /\ slot' = [slot EXCEPT ![c] = w]
    BY WorkerAssumption DEF Ran, Left
  <1>3. \A s \in Slot : slot'[s] = IF s = c THEN w ELSE slot[s]
    BY <1>1, <1>2
  <1>4. \A s \in Slot : Fits(s, slot[s], rows, now, issued)
    BY DEF WorkerInv
  <1>5. now <= now
    BY <1>1
  <1>6. \A s \in Slot : Fits(s, slot[s], rows', now, issued')
    BY <1>1, <1>4, <1>5, FitsLater
  <1>7. /\ w \in Loops /\ w.pc = v.pc /\ w.lease = v.lease /\ w.req = p
        /\ w.safeUntil = v.safeUntil /\ w.outcome = v.outcome
        /\ Fits(c, w, rows', now, issued')
    BY <1>1, <1>4, <1>6, FitsServed
  <1> HIDE DEF w
  <1>8. \A s \in Slot : Fits(s, slot'[s], rows', now', issued')
    BY <1>1, <1>3, <1>6, <1>7
  <1>9. slot' \in [Slot -> Loops]
    BY <1>1, <1>2, <1>7
  <1>10. \A l : Owns(w, l) => Owns(v, l) \/ l \notin issued
    BY <1>1, <1>4, <1>7, OwnsServed
  <1>11. \A s \in Slot : \A l : Owns(slot[s], l) => l \in issued
    BY <1>4, ViewIssued
  <1>12. Alone(slot')
    BY <1>3, <1>10, <1>11 DEF WorkerInv, Alone
  <1>13. WireInv(wire', issued')
    BY <1>1, <1>2 DEF WorkerInv, WireInv, Sent
  <1>14. Harmless(wire, slot, rows')
    BY <1>1, HarmlessLater DEF WorkerInv, WireInv
  <1>15. Harmless(wire', slot', rows')
    <2> SUFFICES ASSUME NEW k \in wire, NEW s \in Slot, k.stage = "publish",
                        Owns(slot'[s], k.lease)
                 PROVE  /\ slot'[s].pc = "publishing"
                        /\ \/ k.outcome = slot'[s].outcome
                           \/ slot'[s].outcome = "cancelled" /\ rows'[k.lease.task].cancelRequested
      BY <1>2 DEF Harmless
    <2>1. k.lease \in issued
      BY DEF WorkerInv, WireInv, Sent
    <2>2. Owns(slot[s], k.lease)
      BY <1>3, <1>10, <2>1
    <2>3. slot'[s].pc = slot[s].pc /\ slot'[s].outcome = slot[s].outcome
      BY <1>3, <1>7
    <2>4. QED
      BY <1>14, <2>2, <2>3 DEF Harmless
  <1>16. QED
    BY <1>1, <1>8, <1>9, <1>12, <1>13, <1>15 DEF WorkerInv

\* The store serves a request its client gave up on.
LEMMA ServeWire ==
    ASSUME WorkerInv, NEW q \in wire, NEW p, Ran(None, q, p)
    PROVE  WorkerInv'
  <1>1. /\ slot \in [Slot -> Loops] /\ now \in Nat /\ now' = now /\ issued \subseteq issued'
        /\ IInv' /\ Dated(rows') /\ Later(rows, rows')
        /\ \A l \in issued : l.task \in DOMAIN rows
        /\ Served(q, p, rows, rows', issued, issued', now)
    BY StoreIs DEF WorkerInv, Ran, Executed
  <1>2. slot' = slot /\ wire' = (wire \ {q}) \cup (IF p.stage = "answered" THEN {} ELSE {p})
    BY DEF Ran, Left
  <1>3. now <= now /\ \A s \in Slot : Fits(s, slot[s], rows, now, issued)
    BY <1>1 DEF WorkerInv
  <1>4. \A s \in Slot : Fits(s, slot'[s], rows', now', issued')
    <2>1. \A s \in Slot : Fits(s, slot[s], rows', now, issued')
      BY <1>1, <1>3, FitsLater
    <2>2. QED
      BY <1>1, <1>2, <2>1
  <1>5. IsFiniteSet(wire) /\ Cardinality(wire) <= MaxWire /\ \A k \in wire : Sent(k, issued)
    BY DEF WorkerInv, WireInv
  <1>6. IsFiniteSet(wire') /\ Cardinality(wire') <= MaxWire
    <2> DEFINE rest == wire \ {q}
    <2>1. /\ IsFiniteSet(rest) /\ Cardinality(rest) = Cardinality(wire) - 1
          /\ Cardinality(wire) \in Nat /\ MaxWire \in Nat
      BY <1>5, FS_RemoveElement, FS_CardinalityType, WorkerAssumption
    <2> HIDE DEF rest
    <2>2. IsFiniteSet(rest \cup {p}) /\ Cardinality(rest \cup {p}) <= Cardinality(wire)
      BY <2>1, FS_AddElement
    <2>3. wire' = rest \/ wire' = rest \cup {p}
      BY <1>2 DEF rest
    <2>4. Cardinality(rest \cup {p}) \in Nat
      BY <2>2, FS_CardinalityType
    <2>5. CASE wire' = rest
      BY <1>5, <2>1, <2>5
    <2>6. CASE wire' = rest \cup {p}
      <3> DEFINE n == Cardinality(rest \cup {p})
                 m == Cardinality(wire)
      <3>1. n \in Nat /\ m \in Nat /\ n <= m /\ m <= MaxWire /\ MaxWire \in Nat
        BY <1>5, <2>1, <2>2, <2>4
      <3> HIDE DEF n, m
      <3>2. n <= MaxWire
        BY <3>1
      <3>3. QED
        BY <2>2, <2>6, <3>2 DEF n
    <2>7. QED
      BY <2>3, <2>5, <2>6
  <1>7. p.stage # "answered" => p.stage # "publish" /\ Sent(p, issued')
    <2>1. Sent(q, issued)
      BY <1>5
    <2>2. QED
      BY <1>1, <2>1 DEF Served, Sent, Same
  <1>8. WireInv(wire', issued')
    <2>1. \A k \in wire : Sent(k, issued')
      BY <1>1, <1>5 DEF Sent
    <2>2. QED
      BY <1>2, <1>6, <1>7, <2>1 DEF WireInv
  <1>9. Harmless(wire, slot, rows')
    BY <1>1, <1>5, HarmlessLater DEF WorkerInv
  <1>10. Harmless(wire', slot', rows')
    BY <1>2, <1>7, <1>9 DEF Harmless
  <1>11. Alone(slot')
    BY <1>2 DEF WorkerInv
  <1>12. QED
    BY <1>1, <1>2, <1>4, <1>8, <1>10, <1>11 DEF WorkerInv

\* A statement nobody of the loops asked for.
LEMMA ServeNobody ==
    ASSUME WorkerInv, Executed, UNCHANGED <<slot, wire>>
    PROVE  WorkerInv'
  <1>1. /\ now \in Nat /\ now' = now /\ issued \subseteq issued'
        /\ IInv' /\ Dated(rows') /\ Later(rows, rows')
        /\ \A l \in issued : l.task \in DOMAIN rows
    BY StoreIs DEF Executed
  <1>2. now <= now /\ \A s \in Slot : Fits(s, slot[s], rows, now, issued)
    BY <1>1 DEF WorkerInv
  <1>3. \A s \in Slot : Fits(s, slot[s], rows', now, issued')
    BY <1>1, <1>2, FitsLater
  <1>4. WireInv(wire, issued')
    BY <1>1 DEF WorkerInv, WireInv, Sent
  <1>5. Harmless(wire, slot, rows')
    BY <1>1, HarmlessLater DEF WorkerInv, WireInv
  <1>6. QED
    BY <1>1, <1>3, <1>4, <1>5 DEF WorkerInv

\* Time passes.
LEMMA TickOK ==
    ASSUME WorkerInv, WorkerTick
    PROVE  WorkerInv'
  <1>1. /\ rows' = rows /\ issued' = issued /\ slot' = slot /\ wire' = wire
        /\ now' = now + 1 /\ now \in Nat /\ now' \in Nat /\ now <= now'
    BY StoreIs DEF WorkerTick, Tick
  <1>2. Later(rows, rows') /\ \A l \in issued : l.task \in DOMAIN rows
    BY <1>1, StoreIs DEF Later
  <1>3. \A s \in Slot : Fits(s, slot[s], rows, now, issued)
    BY DEF WorkerInv
  <1>4. \A s \in Slot : Fits(s, slot[s], rows', now', issued')
    BY <1>1, <1>2, <1>3, FitsLater
  <1>5. IInv'
    BY NextIInv DEF WorkerInv, WorkerTick, Next
  <1>6. QED
    BY <1>1, <1>4, <1>5 DEF WorkerInv

-----------------------------------------------------------------------------
(* What the loops believe, as requests are served and time passes.         *)

\* Two leases that are both the row's are one.
LEMMA CurrentIsOne ==
    ASSUME NEW R, NEW l \in Lease, NEW k \in Lease, l.task = k.task, Current(l, R), Current(k, R)
    PROVE  l = k
  BY DEF Current, Lease

\* A loop whose lease did not publish keeps what it may believe; one whose
\* lease did is the one that published it.
LEMMA BelievesPublished ==
    ASSUME NEW R, Table(R), NEW R2, NEW N, NEW k \in Lease, k.task \in DOMAIN R, NEW o,
           PublishedBy(k, o, R, R2, N), NEW I, I \subseteq Lease, \A l \in I : l.task \in DOMAIN R,
           NEW s \in Slot, NEW v, Fits(s, v, R, N, I), Believes(s, v, R, N),
           Owns(v, k) => v.pc = "publishing" /\ v.outcome = o
    PROVE  Believes(s, v, R2, N)
  <1>1. /\ Later(R, R2) /\ Done(k, o, R2) /\ Current(k, R)
        /\ \A t \in DOMAIN R : t # k.task => R2[t] = R[t]
    BY PublishedLater
  <1>2. ASSUME NEW l \in I, NEW b, Alive(l, b, R, N), l # k
        PROVE  Alive(l, b, R2, N)
    <2> SUFFICES ASSUME N <= b - SafetyMs + MaxLate
                 PROVE  Current(l, R2) /\ Bounded(b, R2[l.task], N)
      BY DEF Alive
    <2>1. Current(l, R) /\ Bounded(b, R[l.task], N)
      BY <1>2 DEF Alive
    <2>2. l.task # k.task
      BY <1>1, <1>2, <2>1, CurrentIsOne
    <2>3. R2[l.task] = R[l.task]
      BY <1>1, <2>2
    <2>4. QED
      BY <2>1, <2>3 DEF Current
  <1>3. Armed(v) => v.lease \in I
    BY DEF Fits
  <1>4. Viewing(v) => v.req.reply.lease \in I /\ v.pc # "publishing"
    BY ViewIssued
  <1>5. ASSUME Armed(v)
        PROVE  \/ Alive(v.lease, Boundary(s, v), R2, N)
               \/ v.pc = "publishing" /\ Done(v.lease, v.outcome, R2)
    <2>1. CASE v.lease = k
      BY <1>1, <1>5, <2>1 DEF Owns
    <2>2. CASE v.lease # k
      <3>1. Alive(v.lease, Boundary(s, v), R, N) => Alive(v.lease, Boundary(s, v), R2, N)
        BY <1>2, <1>3, <1>5, <2>2
      <3>2. Done(v.lease, v.outcome, R) => Done(v.lease, v.outcome, R2)
        BY <1>1, <1>3, <1>5, DoneLater
      <3>3. QED
        BY <1>5, <3>1, <3>2 DEF Believes
    <2>3. QED
      BY <2>1, <2>2
  <1>6. ASSUME Viewing(v)
        PROVE  Alive(v.req.reply.lease, Granting(v.req, WorkerOf[s]), R2, N)
    <2>1. v.req.reply.lease # k
      BY <1>4, <1>6 DEF Owns
    <2>2. Alive(v.req.reply.lease, Granting(v.req, WorkerOf[s]), R, N)
      BY <1>6 DEF Believes
    <2>3. QED
      BY <1>2, <1>4, <1>6, <2>1, <2>2
  <1>7. QED
    BY <1>5, <1>6 DEF Believes

\* Whoever publishes in time is not refused: its lease is the row's, or it has
\* published the same before.
LEMMA NotRefused ==
    ASSUME Punctual, NEW R, Table(R), NEW N \in Nat, NEW I, \A l \in I : l.task \in DOMAIN R,
           NEW s \in Slot, NEW v, Fits(s, v, R, N, I), Believes(s, v, R, N),
           v.pc = "publishing", NEW at \in Nat, at <= N
    PROVE  CompleteReply(R[v.lease.task], v.lease, v.outcome, at) \in {"ok", "CANCEL_REQUESTED"}
  <1> DEFINE l == v.lease
             r == R[l.task]
             b == Boundary(s, v)
  <1>1. v \in Loops /\ Armed(v) /\ l \in I /\ r \in Row /\ RowInv(r) /\ r.deadlineAt # None
    BY DEF Fits, Armed, Table
  <1>2. b \in Int /\ N <= b - SafetyMs + MaxLate
    <2>1. b \in Int
      BY <1>1, BoundaryType
    <2>2. /\ v.safeUntil \in Int /\ SafetyMs \in Nat /\ MaxLate \in Nat
          /\ Skew[WorkerOf[s]] \in Nat
      BY <1>1, SafetyType, WorkerAssumption DEF Loops
    <2>3. N + Skew[WorkerOf[s]] <= v.safeUntil + MaxLate
      BY <1>1 DEF Believes
    <2>4. QED
      BY <2>1, <2>2, <2>3 DEF Boundary
  <1>3. CASE Done(l, v.outcome, R)
    BY <1>3 DEF Done, CompleteReply
  <1>4. CASE Alive(l, b, R, N)
    <2>1. Current(l, R) /\ Bounded(b, r, N)
      BY <1>2, <1>4 DEF Alive
    <2>2. r.state = "running"
      BY <2>1 DEF Current
    <2> HIDE DEF b
    <2>3. /\ r.leaseUntil \in Nat /\ r.deadlineAt \in Nat
          /\ N < r.leaseUntil /\ r.leaseUntil <= r.deadlineAt
      BY <1>1, <1>2, <2>1, <2>2, BeforeLapse
    <2>4. r.leaseUntil > at /\ ~PastDeadline(r, at)
      BY <2>3 DEF PastDeadline
    <2>5. Holds(r, l, at)
      BY <2>1, <2>4 DEF Holds, Current
    <2>6. QED
      BY <2>2, <2>5 DEF CompleteReply
  <1>5. QED
    BY <1>1, <1>3, <1>4 DEF Believes

\* The store serves the request of a loop, which may believe what it is shown.
LEMMA BelievesServed ==
    ASSUME Punctual, NEW R, Table(R), NEW R2, NEW N \in Nat,
           NEW I, NEW I2, \A l \in I : l.task \in DOMAIN R,
           NEW s \in Slot, NEW v, v.req # None, Fits(s, v, R, N, I),
           Believes(s, v, R, N), Believes(s, v, R2, N),
           NEW p, Served(v.req, p, R, R2, I, I2, N), Seen(v.req, p, R2, N),
           NEW w, w.pc = v.pc, w.lease = v.lease, w.req = p,
           w.safeUntil = v.safeUntil, w.outcome = v.outcome
    PROVE  Believes(s, w, R2, N)
  <1> DEFINE q == v.req
  <1>1. Armed(w) <=> Armed(v)
    BY DEF Armed
  <1>2. Boundary(s, w) = Boundary(s, v)
    BY DEF Boundary
  <1>3. ASSUME Viewing(w)
        PROVE  Alive(w.req.reply.lease, Granting(w.req, WorkerOf[s]), R2, N)
    <2>1. p.stage = "answered" /\ p.reply.code \in {"granted", "renewed"}
      BY <1>3 DEF Viewing
    <2>2. q.worker = WorkerOf[s]
      BY DEF Fits
    <2>3. QED
      BY <2>1, <2>2 DEF Seen, Alive
  <1>4. ASSUME w.pc = "publishing", p.stage = "answered"
        PROVE  p.reply.code \in {"ok", "CANCEL_REQUESTED"}
    <2>1. q.stage = "publish" /\ q.lease = v.lease /\ q.outcome = v.outcome
      BY <1>4 DEF Fits, Publishing, Served
    <2>2. PICK at \in Nat : /\ at <= N
                            /\ p.reply.code = CompleteReply(R[q.lease.task], q.lease, q.outcome, at)
      BY <2>1 DEF Served, Replied
    <2>3. v.pc = "publishing"
      BY <1>4
    <2>4. CompleteReply(R[v.lease.task], v.lease, v.outcome, at) \in {"ok", "CANCEL_REQUESTED"}
      BY <2>2, <2>3, NotRefused
    <2>5. QED
      BY <2>1, <2>2, <2>4
  <1>5. QED
    BY <1>1, <1>2, <1>3, <1>4 DEF Believes

\* A statement by request q leaves every loop what it may believe.
LEMMA RanBelieves ==
    ASSUME Punctual, WorkerInv, TimedInv, NEW c, NEW q, NEW p, Ran(c, q, p), Sent(q, issued),
           q \in wire \/ \E u \in Slot : slot[u].req # None /\ q = slot[u].req
    PROVE  \A s \in Slot : Believes(s, slot[s], rows', now)
  <1>1. /\ Table(rows) /\ now \in Nat /\ issued \subseteq Lease
        /\ \A l \in issued : l.task \in DOMAIN rows
    BY StoreIs
  <1>2. \A s \in Slot : Fits(s, slot[s], rows, now, issued) /\ Believes(s, slot[s], rows, now)
    BY DEF WorkerInv, TimedInv
  <1>3. CASE Moved(rows, rows', now)
    BY <1>1, <1>2, <1>3, BelievesMoved
  <1>4. CASE q.stage = "publish" /\ PublishedBy(q.lease, q.outcome, rows, rows', now)
    <2>1. q.lease \in issued /\ q.lease \in Lease /\ q.lease.task \in DOMAIN rows
      BY <1>1, <1>4 DEF Sent
    <2>2. rows[q.lease.task].cancelRequested => q.outcome = "cancelled"
      BY <1>4 DEF PublishedBy
    <2>3. ASSUME NEW s \in Slot, Owns(slot[s], q.lease)
          PROVE  slot[s].pc = "publishing" /\ slot[s].outcome = q.outcome
      <3>1. CASE q \in wire
        BY <1>4, <2>2, <2>3, <3>1 DEF WorkerInv, Harmless
      <3>2. ASSUME NEW u \in Slot, slot[u].req # None, q = slot[u].req
            PROVE  slot[s].pc = "publishing" /\ slot[s].outcome = q.outcome
        <4>1. slot[u].pc = "publishing" /\ q.lease = slot[u].lease /\ q.outcome = slot[u].outcome
          BY <1>2, <1>4, <3>2 DEF Fits, Claiming, Beating, Publishing, Loops
        <4>2. Owns(slot[u], q.lease)
          BY <4>1 DEF Owns, Armed
        <4>3. s = u
          BY <2>1, <2>3, <4>2 DEF WorkerInv, Alone
        <4>4. QED
          BY <4>1, <4>3
      <3>3. QED
        BY <3>1, <3>2
    <2>4. QED
      BY <1>1, <1>2, <1>4, <2>1, <2>3, BelievesPublished
  <1>5. QED
    BY <1>3, <1>4 DEF Ran

\* Serving a loop keeps what the loops may believe.
LEMMA ServeLoopTimed ==
    ASSUME Punctual, WorkerInv, TimedInv, NEW c \in Slot, slot[c].req # None,
           NEW p, Ran(c, slot[c].req, p)
    PROVE  TimedInv'
  <1> DEFINE v == slot[c]
             w == [v EXCEPT !.req = p]
  <1>1. /\ Table(rows) /\ now \in Nat /\ now' = now /\ issued \subseteq issued'
        /\ \A l \in issued : l.task \in DOMAIN rows
        /\ Served(v.req, p, rows, rows', issued, issued', now) /\ Seen(v.req, p, rows', now)
        /\ Fits(c, v, rows, now, issued) /\ Sent(v.req, issued)
        /\ Later(rows, rows') /\ now <= now
    BY StoreIs DEF WorkerInv, Ran, Executed, Fits
  <1>2. \A s \in Slot : Believes(s, slot[s], rows', now)
    BY <1>1, RanBelieves
  <1>3. slot \in [Slot -> Loops] /\ slot' = [slot EXCEPT ![c] = w]
    BY WorkerAssumption DEF WorkerInv, Ran, Left
  <1>4. \A s \in Slot : slot'[s] = IF s = c THEN w ELSE slot[s]
    BY <1>3
  <1>5. Fits(c, v, rows', now, issued')
    BY <1>1, FitsLater
  <1>6. /\ w.pc = v.pc /\ w.lease = v.lease /\ w.req = p
        /\ w.safeUntil = v.safeUntil /\ w.outcome = v.outcome
    BY <1>1, <1>5, FitsServed
  <1> HIDE DEF w
  <1>7. Believes(c, v, rows, now) /\ Believes(c, v, rows', now)
    BY <1>2 DEF TimedInv
  <1>8. Believes(c, w, rows', now)
    BY <1>1, <1>6, <1>7, BelievesServed
  <1>9. QED
    BY <1>1, <1>2, <1>4, <1>8 DEF TimedInv

\* Time passes no boundary by more than the guard's delay.
LEMMA TickTimed ==
    ASSUME WorkerInv, TimedInv, WorkerTick
    PROVE  TimedInv'
  <1>1. /\ rows' = rows /\ slot' = slot /\ now' = now + 1 /\ now \in Nat
        /\ \A s \in Slot : Guarded(s) => LocalNow(s) < slot[s].safeUntil + MaxLate
    BY StoreIs DEF WorkerTick, Tick
  <1>2. LeaseMs \in Nat /\ SafetyMs \in Nat /\ MaxLate \in Nat
    BY StoreAssumption, SafetyType, WorkerAssumption
  <1>3. ASSUME NEW l, NEW b \in Int, Alive(l, b, rows, now) PROVE Alive(l, b, rows, now + 1)
    BY <1>1, <1>2, <1>3 DEF Alive, Bounded
  <1>4. ASSUME NEW s \in Slot PROVE Believes(s, slot[s], rows, now + 1)
    <2> DEFINE v == slot[s]
    <2>1. /\ v \in Loops /\ (v.req # None => v.req \in Requests)
          /\ LocalNow(s) = now + Skew[WorkerOf[s]] /\ Skew[WorkerOf[s]] \in Nat
          /\ Believes(s, v, rows, now)
      BY LoopIs DEF TimedInv
    <2>2. /\ Boundary(s, v) \in Int /\ v.safeUntil \in Int
          /\ Viewing(v) => Granting(v.req, WorkerOf[s]) \in Int
      BY <2>1, BoundaryType DEF Viewing, Loops
    <2>3. Armed(v) => now + 1 + Skew[WorkerOf[s]] <= v.safeUntil + MaxLate
      <3>1. Armed(v) => LocalNow(s) < v.safeUntil + MaxLate
        BY <1>1 DEF Armed, Guarded
      <3>2. QED
        BY <1>1, <1>2, <2>1, <2>2, <3>1
    <2>4. Alive(v.lease, Boundary(s, v), rows, now) => Alive(v.lease, Boundary(s, v), rows, now + 1)
      BY <1>3, <2>2
    <2>5. Viewing(v) => Alive(v.req.reply.lease, Granting(v.req, WorkerOf[s]), rows, now + 1)
      BY <1>3, <2>1, <2>2 DEF Believes
    <2>6. QED
      BY <2>1, <2>3, <2>4, <2>5 DEF Believes
  <1>5. QED
    BY <1>1, <1>4 DEF TimedInv


\* The store serves an abandoned request: no loop is touched.
LEMMA ServeWireTimed ==
    ASSUME Punctual, WorkerInv, TimedInv, NEW q \in wire, NEW p, Ran(None, q, p)
    PROVE  TimedInv'
  <1>1. slot' = slot /\ now' = now /\ Sent(q, issued)
    BY DEF Ran, Left, Executed, WorkerInv, WireInv
  <1>2. \A s \in Slot : Believes(s, slot[s], rows', now)
    BY <1>1, RanBelieves
  <1>3. QED
    BY <1>1, <1>2 DEF TimedInv

\* A statement nobody of the loops asked for.
LEMMA ServeNobodyTimed ==
    ASSUME Punctual, WorkerInv, TimedInv, Executed, Moved(rows, rows', now), UNCHANGED slot
    PROVE  TimedInv'
  <1>1. /\ Table(rows) /\ now \in Nat /\ now' = now
        /\ \A l \in issued : l.task \in DOMAIN rows
    BY StoreIs DEF Executed
  <1>2. ASSUME NEW s \in Slot PROVE Believes(s, slot[s], rows', now)
    BY <1>1, BelievesMoved DEF WorkerInv, TimedInv
  <1>3. QED
    BY <1>1, <1>2 DEF TimedInv

-----------------------------------------------------------------------------
(* All steps.                                                              *)

\* At first nobody has a task.
LEMMA InitWorker == WorkerInit => WorkerInv /\ TimedInv
  <1> SUFFICES ASSUME WorkerInit PROVE WorkerInv /\ TimedInv
    OBVIOUS
  <1>1. IInv /\ Dated(rows)
    BY InitIInv DEF WorkerInit, Init, Dated
  <1>2. slot = [s \in Slot |-> At("idle")] /\ wire = {}
    BY DEF WorkerInit
  <1>3. ASSUME NEW s \in Slot
        PROVE  /\ Fits(s, slot[s], rows, now, issued) /\ Believes(s, slot[s], rows, now)
               /\ slot[s] \in Loops /\ ~Armed(slot[s]) /\ ~Viewing(slot[s])
    <2>1. slot[s] = At("idle")
      BY <1>2
    <2>2. Fits(s, slot[s], rows, now, issued) /\ Believes(s, slot[s], rows, now)
      BY <2>1, AtIs
    <2>3. QED
      BY <2>1, <2>2 DEF Fits, Armed, Viewing, At
  <1>4. slot \in [Slot -> Loops]
    BY <1>2, <1>3
  <1>5. Alone(slot) /\ Harmless(wire, slot, rows)
    BY <1>2, <1>3 DEF Alone, Harmless, Owns
  <1>6. WireInv(wire, issued)
    BY <1>2, FS_EmptySet, WorkerAssumption DEF WireInv
  <1>7. QED
    BY <1>1, <1>3, <1>4, <1>5, <1>6 DEF WorkerInv, TimedInv

\* The steps of one loop.
LEMMA LoopOK ==
    ASSUME WorkerInv, NEW s \in Slot, Loop(s)
    PROVE  WorkerInv' /\ (TimedInv => TimedInv')
  <1>1. CASE AskClaim(s)
    BY <1>1, AskClaimOK
  <1>2. CASE ReceiveClaim(s)
    BY <1>2, ReceiveClaimOK
  <1>3. CASE SendBeat(s)
    BY <1>3, SendBeatOK
  <1>4. CASE BeatAnswered(s)
    BY <1>4, BeatAnsweredOK
  <1>5. CASE StartPublish(s)
    BY <1>5, StartPublishOK
  <1>6. CASE PublishAnswered(s)
    BY <1>6, PublishAnsweredOK
  <1>7. CASE Resend(s)
    BY <1>7, ResendOK
  <1>8. CASE GuardFires(s)
    BY <1>8, Idles DEF GuardFires, Leave
  <1>9. CASE DeadlineFires(s)
    BY <1>9, DeadlineFiresOK
  <1>10. QED
    BY <1>1, <1>2, <1>3, <1>4, <1>5, <1>6, <1>7, <1>8, <1>9 DEF Loop

\* A loop's request is served.
LEMMA ServeOK ==
    ASSUME WorkerInv, NEW s \in Slot, Serve(s)
    PROVE  WorkerInv' /\ (Punctual /\ TimedInv => TimedInv')
  <1>1. slot[s].req # None /\ Executes(s, slot[s].req)
    BY DEF Serve, Waiting
  <1>2. Sent(slot[s].req, issued)
    BY <1>1 DEF WorkerInv, Fits
  <1>3. PICK p : Ran(s, slot[s].req, p)
    BY <1>1, <1>2, ExecutesRuns
  <1>4. QED
    BY <1>1, <1>3, ServeLoop, ServeLoopTimed

\* An abandoned request is served.
LEMMA ServeAbandonedOK ==
    ASSUME WorkerInv, ServeAbandoned
    PROVE  WorkerInv' /\ (Punctual /\ TimedInv => TimedInv')
  <1>1. PICK q \in wire : Executes(None, q)
    BY DEF ServeAbandoned
  <1>2. Sent(q, issued)
    BY DEF WorkerInv, WireInv
  <1>3. PICK p : Ran(None, q, p)
    BY <1>1, <1>2, ExecutesRuns
  <1>4. QED
    BY <1>3, ServeWire, ServeWireTimed

\* A coordinator runs a statement.
LEMMA CoordinateOK ==
    ASSUME WorkerInv, Coordinate
    PROVE  WorkerInv' /\ (Punctual /\ TimedInv => TimedInv')
  <1>1. Executed /\ Moved(rows, rows', now)
    <2>1. PICK at \in Instants :
             \/ \E t \in Task, d \in Timeout : Enqueue(t, d, at)
             \/ \E t \in DOMAIN rows : Cancel(t, at)
             \/ \E t \in DOMAIN rows : CloseTerminal({t}, at) \/ RequeueExpired({t}, at)
      BY DEF Coordinate
    <2>2. ASSUME NEW t \in DOMAIN rows, CloseTerminal({t}, at)
          PROVE  Executed /\ Moved(rows, rows', now)
      <3>1. {t} \in SUBSET DOMAIN rows
        OBVIOUS
      <3>2. QED
        BY <2>2, <3>1, ClosesMove
    <2>3. ASSUME NEW t \in DOMAIN rows, RequeueExpired({t}, at)
          PROVE  Executed /\ Moved(rows, rows', now)
      <3>1. {t} \in SUBSET DOMAIN rows
        OBVIOUS
      <3>2. QED
        BY <2>3, <3>1, RequeuesMove
    <2>4. QED
      BY <2>1, <2>2, <2>3, EnqueueMoves, CancelMoves
  <1>2. UNCHANGED <<slot, wire>>
    BY DEF Coordinate
  <1>3. QED
    BY <1>1, <1>2, ServeNobody, ServeNobodyTimed

\* A worker stops or starts, with all of its loops.
LEMMA WorkerStopsOrStarts ==
    ASSUME WorkerInv, NEW w \in Worker, Stop(w) \/ Start(w)
    PROVE  WorkerInv' /\ (TimedInv => TimedInv')
  <1> DEFINE loops == {s \in Slot : WorkerOf[s] = w}
  <1>1. loops \in SUBSET Slot
    OBVIOUS
  <1>2. CASE Stop(w)
    <2>1. /\ slot' = [s \in Slot |-> IF s \in loops THEN At("off") ELSE slot[s]]
          /\ GivesUp(loops) /\ UNCHANGED storeVars
      BY <1>2 DEF Stop
    <2> HIDE DEF loops
    <2>2. QED
      BY <1>1, <2>1, StopStartOK
  <1>3. CASE Start(w)
    <2>1. /\ slot' = [s \in Slot |-> IF s \in loops THEN At("idle") ELSE slot[s]]
          /\ UNCHANGED wire /\ UNCHANGED storeVars
      BY <1>3 DEF Start
    <2> HIDE DEF loops
    <2>2. QED
      BY <1>1, <2>1, StopStartOK
  <1>4. QED
    BY <1>2, <1>3

\* Every step keeps WorkerInv, whatever the timing, and TimedInv when the
\* guards are punctual.
LEMMA NextWorker ==
    WorkerInv /\ [WorkerNext]_workerVars => WorkerInv' /\ (Punctual /\ TimedInv => TimedInv')
  <1> SUFFICES ASSUME WorkerInv, [WorkerNext]_workerVars
               PROVE  WorkerInv' /\ (Punctual /\ TimedInv => TimedInv')
    OBVIOUS
  <1>1. ASSUME NEW s \in Slot, Loop(s)
        PROVE  WorkerInv' /\ (Punctual /\ TimedInv => TimedInv')
    BY <1>1, LoopOK
  <1>2. ASSUME NEW s \in Slot, Serve(s)
        PROVE  WorkerInv' /\ (Punctual /\ TimedInv => TimedInv')
    BY <1>2, ServeOK
  <1>3. ASSUME NEW s \in Slot, Fail(s) \/ SweepFails(s)
        PROVE  WorkerInv' /\ (Punctual /\ TimedInv => TimedInv')
    BY <1>3, FailOK, SweepFailsOK
  <1>4. ASSUME NEW s \in Slot, NEW o \in Reported, Settle(s, o)
        PROVE  WorkerInv' /\ (Punctual /\ TimedInv => TimedInv')
    <2>1. o \in Outcome
      BY StoreAssumption
    <2>2. QED
      BY <1>4, <2>1, SettleOK
  <1>5. ASSUME NEW w \in Worker, Stop(w) \/ Start(w)
        PROVE  WorkerInv' /\ (Punctual /\ TimedInv => TimedInv')
    BY <1>5, WorkerStopsOrStarts
  <1>6. CASE Coordinate
    BY <1>6, CoordinateOK
  <1>7. CASE ServeAbandoned
    BY <1>7, ServeAbandonedOK
  <1>8. CASE WorkerTick
    BY <1>8, TickOK, TickTimed
  <1>9. CASE UNCHANGED workerVars
    <2>1. UNCHANGED storeVars /\ UNCHANGED <<slot, wire>> /\ now' = now
      BY <1>9 DEF workerVars, storeVars
    <2>2. Executed /\ Moved(rows, rows', now)
      BY <2>1, NothingMoved
    <2>3. QED
      BY <2>1, <2>2, ServeNobody, ServeNobodyTimed
  <1>10. QED
    BY <1>1, <1>2, <1>3, <1>4, <1>5, <1>6, <1>7, <1>8, <1>9 DEF WorkerNext

-----------------------------------------------------------------------------
(* The theorems.                                                           *)

\* The timing-free part of the invariant holds in every reachable state.
THEOREM WorkerInvariance == WorkerSpec => []WorkerInv
  <1>1. WorkerInit => WorkerInv
    BY InitWorker
  <1>2. WorkerInv /\ [WorkerNext]_workerVars => WorkerInv'
    BY NextWorker
  <1>3. QED
    BY <1>1, <1>2, PTL DEF WorkerSpec

\* Every variable has its type, a lease is held exactly while its guards are
\* armed, and abandoned requests stay within their bound.
THEOREM WorkerTypeCorrect == WorkerSpec => []WorkerTypeOK
  <1>1. WorkerInv => WorkerTypeOK
    <2> SUFFICES ASSUME WorkerInv PROVE WorkerTypeOK
      OBVIOUS
    <2>1. TypeOK /\ issued \subseteq Lease /\ Cardinality(wire) <= MaxWire
      BY DEF WorkerInv, IInv, TypeOK, WireInv
    <2>2. ASSUME NEW s \in Slot
          PROVE  /\ slot[s].pc \in {"off", "idle", "claiming", "running", "aborted",
                                    "settled", "publishing"}
                 /\ Guarded(s) <=> slot[s].lease \in issued
                 /\ slot[s].outcome \in Outcome \cup {None}
                 /\ slot[s].req # None => slot[s].req.stage \in Stage
      <3>1. Fits(s, slot[s], rows, now, issued) /\ slot[s] \in Loops
        BY LoopIs
      <3>2. Guarded(s) <=> Armed(slot[s])
        BY DEF Guarded, Armed
      <3>3. None \notin issued
        BY <2>1, WorkerAssumption
      <3>4. Guarded(s) <=> slot[s].lease \in issued
        BY <3>1, <3>2, <3>3 DEF Fits
      <3>5. slot[s].req # None => slot[s].req.stage \in Stage
        BY <3>1 DEF Fits, Sent, Requests
      <3>6. QED
        BY <3>1, <3>4, <3>5 DEF Loops
    <2>3. QED
      BY <2>1, <2>2 DEF WorkerTypeOK
  <1>2. QED
    BY <1>1, WorkerInvariance, PTL

\* What the store acknowledged to a publishing loop is how the task ended, by
\* that loop's lease, however late the guards are.
THEOREM AcknowledgementsAreDurable == WorkerSpec => []AcknowledgedIsDurable
  <1>1. WorkerInv => AcknowledgedIsDurable
    <2> SUFFICES ASSUME WorkerInv, NEW s \in Slot, slot[s].pc = "publishing", Answered(s),
                        Answer(s).code = "ok"
                 PROVE  /\ rows[slot[s].lease.task].outcome = slot[s].outcome
                        /\ rows[slot[s].lease.task].completion.generation
                              = slot[s].lease.generation
      BY DEF AcknowledgedIsDurable
    <2> DEFINE v == slot[s]
               r == rows[v.lease.task]
    <2>1. Fits(s, v, rows, now, issued) /\ Table(rows) /\ \A l \in issued : l.task \in DOMAIN rows
      BY StoreIs, LoopIs
    <2>2. Done(v.lease, v.outcome, rows)
      BY <2>1 DEF Answered, Answer, Waiting, Fits, Publishing
    <2>3. r \in Row /\ RowInv(r) /\ v.outcome \in Outcome
      BY <2>1 DEF Fits, Armed, Table
    <2>4. r.completion = [outcome |-> v.outcome, worker |-> v.lease.owner,
                          generation |-> v.lease.generation]
      BY <2>2 DEF Done
    <2>5. r.completion # NoCompletion => r.outcome = r.completion.outcome
      BY <2>3 DEF RowInv
    <2>6. r.completion # NoCompletion
      BY <2>3, <2>4, RowAssumption DEF NoCompletion
    <2>7. QED
      BY <2>4, <2>5, <2>6
  <1>2. QED
    BY <1>1, WorkerInvariance, PTL

\* With a punctual guard, what loops believe of their leases stays true.
THEOREM TimedInvariance == ASSUME Punctual PROVE WorkerSpec => [](WorkerInv /\ TimedInv)
  <1>1. WorkerInit => WorkerInv /\ TimedInv
    BY InitWorker
  <1>2. WorkerInv /\ TimedInv /\ [WorkerNext]_workerVars => (WorkerInv /\ TimedInv)'
    BY NextWorker
  <1>3. QED
    BY <1>1, <1>2, PTL DEF WorkerSpec

\* A loop that publishes before its boundary is never refused.
THEOREM OwnersAreHeard == ASSUME Punctual PROVE WorkerSpec => []OwnersAreNeverRefused
  <1>1. WorkerInv /\ TimedInv => OwnersAreNeverRefused
    BY DEF TimedInv, Believes, OwnersAreNeverRefused, Answered, Answer, Waiting
  <1>2. QED
    BY <1>1, TimedInvariance, PTL

\* The row of a running loop's task has that loop's lease.
LEMMA RunnersHold ==
    ASSUME Punctual, WorkerInv, TimedInv, NEW s \in Slot, slot[s].pc = "running"
    PROVE  /\ Current(slot[s].lease, rows)
           /\ Holds(rows[slot[s].lease.task], slot[s].lease, now)
           /\ slot[s].lease \in Lease
  <1> DEFINE v == slot[s]
             l == v.lease
             r == rows[l.task]
             b == Boundary(s, v)
  <1>1. /\ Fits(s, v, rows, now, issued) /\ v \in Loops /\ Armed(v)
        /\ Believes(s, v, rows, now) /\ now \in Nat
    BY StoreIs, LoopIs DEF TimedInv, Armed
  <1>2. l \in issued /\ l \in Lease /\ r \in Row /\ RowInv(r) /\ r.deadlineAt # None
    BY <1>1, StoreIs DEF Fits, Table
  <1>3. b \in Int /\ now <= b - SafetyMs + MaxLate
    <2>1. b \in Int
      BY <1>1, BoundaryType
    <2>2. /\ v.safeUntil \in Int /\ SafetyMs \in Nat /\ MaxLate \in Nat
          /\ Skew[WorkerOf[s]] \in Nat
      BY <1>1, SafetyType, WorkerAssumption DEF Loops
    <2>3. now + Skew[WorkerOf[s]] <= v.safeUntil + MaxLate
      BY <1>1 DEF Believes
    <2>4. QED
      BY <1>1, <2>1, <2>2, <2>3 DEF Boundary
  <1>4. Current(l, rows) /\ Bounded(b, r, now)
    BY <1>1, <1>3 DEF Believes, Alive
  <1>5. r.state = "running"
    BY <1>4 DEF Current
  <1> HIDE DEF b
  <1>6. /\ r.leaseUntil \in Nat /\ r.deadlineAt \in Nat
        /\ now < r.leaseUntil /\ r.leaseUntil <= r.deadlineAt
    BY <1>1, <1>2, <1>3, <1>4, <1>5, BeforeLapse
  <1>7. r.leaseUntil > now /\ ~PastDeadline(r, now)
    BY <1>1, <1>6 DEF PastDeadline
  <1>8. Holds(r, l, now)
    BY <1>4, <1>7 DEF Holds, Current
  <1>9. QED
    BY <1>2, <1>4, <1>8

\* Whoever runs a task holds the lease the store would accept at this instant.
THEOREM ExecutorsHoldTheirLease == ASSUME Punctual PROVE WorkerSpec => []ExecutorsHold
  <1>1. WorkerInv /\ TimedInv => ExecutorsHold
    BY RunnersHold DEF ExecutorsHold
  <1>2. QED
    BY <1>1, TimedInvariance, PTL

\* No two loops, of whichever workers, run one task at the same time.
THEOREM ExecutionIsExclusive == ASSUME Punctual PROVE WorkerSpec => []ExclusiveExecution
  <1>1. WorkerInv /\ TimedInv => ExclusiveExecution
    <2> SUFFICES ASSUME WorkerInv, TimedInv, NEW s \in Slot, NEW u \in Slot,
                        slot[s].pc = "running", slot[u].pc = "running",
                        slot[s].lease.task = slot[u].lease.task
                 PROVE  s = u
      BY DEF ExclusiveExecution
    <2> DEFINE l == slot[s].lease
               k == slot[u].lease
    <2>1. l \in Lease /\ k \in Lease /\ Current(l, rows) /\ Current(k, rows) /\ l.task = k.task
      BY RunnersHold
    <2>2. l = k
      BY <2>1, CurrentIsOne
    <2>3. Owns(slot[s], l) /\ Owns(slot[u], l)
      BY <2>2 DEF Owns, Armed
    <2>4. QED
      BY <2>1, <2>3 DEF WorkerInv, Alone
  <1>2. QED
    BY <1>1, TimedInvariance, PTL
=============================================================================
