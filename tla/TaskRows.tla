------------------------------ MODULE TaskRows ------------------------------
(***************************************************************************)
(* One row of the dispatcher_tasks table: its columns, and the predicates  *)
(* and assignments the statements of distributed-store.js apply to it.     *)
(* TaskStore.tla builds PostgresTaskStore from them, MemoryStore.tla the   *)
(* operations of MemoryTaskStore.                                          *)
(*                                                                         *)
(* The lease token is not a column here: every claim draws a fresh one     *)
(* together with a fresh lease_generation, so the generation stands for    *)
(* both.  A result is known by its outcome; completion_id and result_hash  *)
(* are functions of task, generation and result (distributed-worker.js,    *)
(* completeWithRetry), so the completion record below identifies them.     *)
(***************************************************************************)
EXTENDS Integers

CONSTANTS
    Worker,      \* worker ids
    MaxClaims,   \* max_claims of every row (distribution.maxDeliveryAttempts)
    None         \* SQL NULL

Outcome == {"accepted", "rejected", "blocked", "cancelled", "error"}

ASSUME RowAssumption ==
    /\ MaxClaims \in Nat \ {0}
    /\ None \notin Nat \cup Worker \cup Outcome

Completion == [outcome : Outcome, worker : Worker, generation : Nat]

NoCompletion == [outcome |-> None, worker |-> None, generation |-> 0]

Row == [state           : {"queued", "running", "terminal"},
        createdAt       : Nat,
        availableAt     : Nat,
        deadlineAt      : Nat \cup {None},
        claimCount      : Nat,
        owner           : Worker \cup {None},
        generation      : Nat,
        leaseUntil      : Nat \cup {None},
        cancelRequested : BOOLEAN,
        outcome         : Outcome \cup {None},
        completion      : Completion \cup {NoCompletion}]

NewRow(deadline, at) ==
    [state           |-> "queued",
     createdAt       |-> at,
     availableAt     |-> at,
     deadlineAt      |-> deadline,
     claimCount      |-> 0,
     owner           |-> None,
     generation      |-> 0,
     leaseUntil      |-> None,
     cancelRequested |-> FALSE,
     outcome         |-> None,
     completion      |-> NoCompletion]

-----------------------------------------------------------------------------
(* Predicates over a row at the statement's clock reading `at'.            *)

LeaseLapsed(r, at)  == r.state = "running" /\ r.leaseUntil <= at

PastDeadline(r, at) == r.deadlineAt # None /\ r.deadlineAt <= at

\* No worker holds a live lease on the row.
Unheld(r, at) == r.state = "queued" \/ LeaseLapsed(r, at)

Exhausted(r) == r.claimCount >= MaxClaims

\* Faulty: deadlines close nothing.
TerminalizableButForDeadline(r, at) ==
    /\ r.state # "terminal"
    /\ r.cancelRequested \/ Exhausted(r)
    /\ Unheld(r, at)

\* TERMINALIZABLE_PREDICATE_SQL
Terminalizable(r, at) ==
    /\ r.state # "terminal"
    /\ \/ r.cancelRequested /\ Unheld(r, at)
       \/ PastDeadline(r, at)
       \/ Exhausted(r) /\ Unheld(r, at)

\* Faulty: a cancelled task is retried.
RequeueableThoughCancelled(r, at) ==
    LeaseLapsed(r, at) /\ ~PastDeadline(r, at) /\ ~Exhausted(r)

\* REQUEUEABLE_EXPIRED_PREDICATE_SQL
Requeueable(r, at) ==
    /\ LeaseLapsed(r, at)
    /\ ~r.cancelRequested
    /\ ~PastDeadline(r, at)
    /\ ~Exhausted(r)

\* Faulty: max_claims is not enforced by the claim itself.
ClaimableThoughExhausted(r, at) ==
    /\ \/ r.state = "queued" /\ r.availableAt <= at
       \/ LeaseLapsed(r, at)
    /\ ~r.cancelRequested
    /\ ~PastDeadline(r, at)

\* The claim statement's candidate: queued work, or a lapsed lease directly.
Claimable(r, at) ==
    /\ \/ r.state = "queued" /\ r.availableAt <= at
       \/ LeaseLapsed(r, at)
    /\ ~r.cancelRequested
    /\ ~Exhausted(r)
    /\ ~PastDeadline(r, at)

\* A retried attempt competes from its lease expiry on, not from its enqueue.
EligibleAt(r) == IF r.state = "running" THEN r.leaseUntil ELSE r.availableAt

\* ORDER BY eligible instant, created_at (ties by task_id are left open).
Before(r, q) ==
    \/ EligibleAt(r) < EligibleAt(q)
    \/ EligibleAt(r) = EligibleAt(q) /\ r.createdAt <= q.createdAt

\* Faulty: the fence forgets the generation.
HoldsAnyGeneration(r, l, at) ==
    /\ r.state = "running"
    /\ r.owner = l.owner
    /\ r.leaseUntil > at
    /\ ~PastDeadline(r, at)

\* The fence of heartbeat() and complete(): l is the row's current live lease.
Holds(r, l, at) ==
    /\ r.state = "running"
    /\ r.owner = l.owner
    /\ r.generation = l.generation
    /\ r.leaseUntil > at
    /\ ~PastDeadline(r, at)

-----------------------------------------------------------------------------
(* Assignments.                                                            *)

\* LEAST(until, COALESCE(deadline_at, 'infinity'))
Capped(r, until) ==
    IF r.deadlineAt = None \/ until < r.deadlineAt THEN until ELSE r.deadlineAt

Granted(r, w, until, at) ==
    [r EXCEPT !.state       = "running",
              !.availableAt = IF r.state = "running" THEN at ELSE @,
              !.claimCount  = @ + 1,
              !.owner       = w,
              !.generation  = @ + 1,
              !.leaseUntil  = Capped(r, until)]

\* Faulty: a renewal may outlive the deadline.
RenewedPastDeadline(r, until) == [r EXCEPT !.leaseUntil = until]

Renewed(r, until) == [r EXCEPT !.leaseUntil = Capped(r, until)]

\* Faulty: the lease columns are not reset.
FinishedButLeased(r, outcome) ==
    [r EXCEPT !.state = "terminal", !.outcome = outcome]

Finished(r, outcome) ==
    [r EXCEPT !.state      = "terminal",
              !.outcome    = outcome,
              !.owner      = None,
              !.leaseUntil = None]

\* The outcome closeTerminalSql gives a row no worker finished.
Closed(r) == Finished(r, IF r.cancelRequested THEN "cancelled" ELSE "error")

\* Faulty: the retry is made available at the deadline, which may be NULL.
RequeuedAtDeadline(r, at) ==
    [r EXCEPT !.state       = "queued",
              !.availableAt = r.deadlineAt,
              !.owner       = None,
              !.leaseUntil  = None]

Requeued(r, at) ==
    [r EXCEPT !.state       = "queued",
              !.availableAt = at,
              !.owner       = None,
              !.leaseUntil  = None]

Published(r, l, outcome) ==
    [Finished(r, outcome) EXCEPT
        !.completion = [outcome    |-> outcome,
                        worker     |-> l.owner,
                        generation |-> l.generation]]

\* cancel() on a row that is not terminal: a row nobody holds ends at once,
\* a held one only remembers the request.
CancelMarked(r, at) ==
    LET marked == [r EXCEPT !.cancelRequested = TRUE]
    IN  IF Unheld(r, at) THEN Finished(marked, "cancelled") ELSE marked

\* Faulty: a request that was already honoured is a conflict.
CompleteReplyOnce(r, l, outcome, at) ==
    IF r.state = "terminal" THEN "COMPLETION_CONFLICT"
    ELSE IF r.cancelRequested /\ outcome # "cancelled" THEN "CANCEL_REQUESTED"
    ELSE IF Holds(r, l, at) THEN "ok" ELSE "STALE_LEASE"

\* Faulty: any completion with the stored outcome counts as a replay.
CompleteReplyByOutcome(r, l, outcome, at) ==
    IF r.state = "terminal"
    THEN IF r.outcome = outcome THEN "ok" ELSE "COMPLETION_CONFLICT"
    ELSE IF r.cancelRequested /\ outcome # "cancelled" THEN "CANCEL_REQUESTED"
    ELSE IF Holds(r, l, at) THEN "ok" ELSE "STALE_LEASE"

\* Faulty: the lease alone decides.
CompleteReplyUncancelled(r, l, outcome, at) ==
    IF r.state = "terminal"
    THEN IF r.completion = [outcome    |-> outcome,
                            worker     |-> l.owner,
                            generation |-> l.generation]
         THEN "ok" ELSE "COMPLETION_CONFLICT"
    ELSE IF Holds(r, l, at) THEN "ok" ELSE "STALE_LEASE"

\* What complete() answers.  The cancellation test precedes the lease test.
CompleteReply(r, l, outcome, at) ==
    IF r.state = "terminal"
    THEN IF r.completion = [outcome    |-> outcome,
                            worker     |-> l.owner,
                            generation |-> l.generation]
         THEN "ok" ELSE "COMPLETION_CONFLICT"
    ELSE IF r.cancelRequested /\ outcome # "cancelled" THEN "CANCEL_REQUESTED"
    ELSE IF Holds(r, l, at) THEN "ok" ELSE "STALE_LEASE"

\* housekeepTask: the closing statement, then the requeueing one.
Housekept(r, at) ==
    IF Terminalizable(r, at) THEN Closed(r)
    ELSE IF Requeueable(r, at) THEN Requeued(r, at)
    ELSE r
=============================================================================
