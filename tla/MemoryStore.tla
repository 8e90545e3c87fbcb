----------------------------- MODULE MemoryStore -----------------------------
(***************************************************************************)
(* MemoryTaskStore (distributed-store.js), "with the same at-least-once    *)
(* lease contract as PostgreSQL": what each of its operations, one turn of *)
(* the event loop, makes of a record and answers at the instant `at'.      *)
(***************************************************************************)
EXTENDS TaskRows

Effect(r, reply) == [row |-> r, reply |-> reply]

\* MemoryTaskStore.#sweepOne, its tests in its order.
Swept(r, at) ==
    IF r.state = "terminal" THEN r
    ELSE IF r.cancelRequested /\ Unheld(r, at) THEN Finished(r, "cancelled")
    ELSE IF PastDeadline(r, at) THEN Finished(r, "error")
    ELSE IF Exhausted(r) /\ Unheld(r, at) THEN Finished(r, "error")
    ELSE IF LeaseLapsed(r, at) THEN Requeued(r, at)
    ELSE r

\* enqueue, of an id and a key it does not know
MemoryEnqueue(timeout, at) ==
    [state |-> "queued", createdAt |-> at, availableAt |-> at,
     deadlineAt |-> IF timeout = None THEN None ELSE at + timeout,
     claimCount |-> 0, owner |-> None, generation |-> 0, leaseUntil |-> None,
     cancelRequested |-> FALSE, outcome |-> None, completion |-> NoCompletion]

\* enqueue with a key it knows, of the row r: by the digest of the request
MemoryAgain(r, same, at) ==
    IF same THEN Effect(Swept(r, at), "ok") ELSE Effect(r, "IDEMPOTENCY_CONFLICT")

\* get and listBySession
MemoryRead(r, at) == Effect(Swept(r, at), "ok")

\* A candidate of claim, which swept every record of the scope before
MemoryClaimable(r, at) ==
    /\ r.state = "queued" /\ r.availableAt <= at
    /\ ~r.cancelRequested /\ r.claimCount < MaxClaims /\ ~PastDeadline(r, at)

\* claim, when it chose r: the candidate that was available first
MemoryClaim(r, w, lease, at) ==
    LET q == Swept(r, at)
    IN  Effect([q EXCEPT !.state = "running", !.claimCount = @ + 1, !.owner = w,
                         !.generation = @ + 1, !.leaseUntil = Capped(q, at + lease)], "ok")

MemoryHeartbeat(r, l, lease, at) ==
    LET q == Swept(r, at)
    IN  IF Holds(q, l, at)
        THEN Effect([q EXCEPT !.leaseUntil = Capped(q, at + lease)], "ok")
        ELSE Effect(q, "STALE_LEASE")

\* The lease test precedes the cancellation test.
MemoryComplete(r, l, outcome, at) ==
    LET q == Swept(r, at)
        done == [outcome |-> outcome, worker |-> l.owner, generation |-> l.generation]
    IN  IF r.state = "terminal"
        THEN Effect(r, IF r.completion = done THEN "ok" ELSE "COMPLETION_CONFLICT")
        ELSE IF ~Holds(q, l, at) THEN Effect(q, "STALE_LEASE")
        ELSE IF q.cancelRequested /\ outcome # "cancelled" THEN Effect(q, "CANCEL_REQUESTED")
        ELSE Effect([Finished(q, outcome) EXCEPT !.completion = done], "ok")

\* cancel does not sweep first.
MemoryCancel(r, at) ==
    IF r.state = "terminal" THEN r
    ELSE IF r.state = "queued" \/ r.leaseUntil <= at
    THEN Finished([r EXCEPT !.cancelRequested = TRUE], "cancelled")
    ELSE [r EXCEPT !.cancelRequested = TRUE]
=============================================================================
