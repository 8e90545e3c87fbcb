----------------------------- MODULE TaskStore ------------------------------
(***************************************************************************)
(* PostgresTaskStore (distributed-store.js).  Each action is one statement *)
(* or transaction, atomic at its commit.  `at' is the clock_timestamp()    *)
(* the statement read when it began: a statement that waited for a row     *)
(* lock commits with a reading up to MaxLag old.                           *)
(*                                                                         *)
(* The callers are unconstrained: any lease ever returned may be presented *)
(* again by heartbeat() or complete(), at any time, in any order and any   *)
(* number of times, which covers lost replies, retries, delayed and        *)
(* duplicated requests, and workers that crashed or were restarted.        *)
(* One scope and one origin session are modelled.                          *)
(***************************************************************************)
EXTENDS MemoryStore

CONSTANTS
    Task,       \* task ids
    Serves,     \* Serves[w]: the tasks of the pools worker w claims from
    Reported,   \* the outcomes workers report
    Timeout,    \* task timeouts in use, None for a row without a deadline
    LeaseMs,    \* lease duration
    MaxLag,     \* how old a statement's clock reading may be at its commit
    LockedSets, \* sets of rows other transactions may hold when a claim runs
    MaxClock    \* bound: Tick stops here

ASSUME StoreAssumption ==
    /\ Serves \in [Worker -> SUBSET Task]
    /\ Reported \subseteq Outcome
    /\ Timeout \subseteq Nat \cup {None}
    /\ LeaseMs \in Nat \ {0}
    /\ MaxLag \in Nat
    /\ MaxClock \in Nat
    /\ LockedSets \subseteq SUBSET Task

VARIABLES
    rows,       \* the table: a function on the ids present
    now,        \* the database clock
    issued      \* every lease a claim has returned

storeVars == <<rows, now, issued>>

Lease == [task : Task, owner : Worker, generation : Nat]

Instants == {i \in 0..now : now - i <= MaxLag}

SetRow(t, r) == rows' = [rows EXCEPT ![t] = r]

-----------------------------------------------------------------------------
\* A conflicting or repeated idempotency key returns the existing row or an
\* error and changes nothing; only the insert is a step.
Enqueue(t, timeout, at) ==
    /\ t \notin DOMAIN rows
    /\ LET deadline == IF timeout = None THEN None ELSE at + timeout
       IN  rows' = [u \in DOMAIN rows \cup {t} |->
                       IF u = t THEN NewRow(deadline, at) ELSE rows[u]]
    /\ UNCHANGED <<now, issued>>

\* The closing statement, by task (get, a missed heartbeat), by session
\* (listBySession) or as the batch a claim runs first.  Rows that are locked
\* elsewhere, or beyond the batch's LIMIT, stay for a later statement.
CloseTerminal(S, at) ==
    /\ S # {}
    /\ \A t \in S : Terminalizable(rows[t], at)
    /\ rows' = [t \in DOMAIN rows |-> IF t \in S THEN Closed(rows[t]) ELSE rows[t]]
    /\ UNCHANGED <<now, issued>>

RequeueExpired(S, at) ==
    /\ S # {}
    /\ \A t \in S : Requeueable(rows[t], at)
    /\ rows' = [t \in DOMAIN rows |->
                   IF t \in S THEN Requeued(rows[t], at) ELSE rows[t]]
    /\ UNCHANGED <<now, issued>>

Candidates(w, at) == {t \in DOMAIN rows \cap Serves[w] : Claimable(rows[t], at)}

Claim(w, t, at) ==
    /\ \E locked \in LockedSets :
          /\ t \in Candidates(w, at) \ locked
          /\ \A u \in Candidates(w, at) \ locked : Before(rows[t], rows[u])
    /\ SetRow(t, Granted(rows[t], w, at + LeaseMs, at))
    /\ issued' = issued \cup
          {[task |-> t, owner |-> w, generation |-> rows[t].generation + 1]}
    /\ UNCHANGED now

Heartbeat(l, at) ==
    /\ Holds(rows[l.task], l, at)
    /\ SetRow(l.task, Renewed(rows[l.task], at + LeaseMs))
    /\ UNCHANGED <<now, issued>>

Complete(l, outcome, at) ==
    /\ rows[l.task].state # "terminal"
    /\ CompleteReply(rows[l.task], l, outcome, at) = "ok"
    /\ SetRow(l.task, Published(rows[l.task], l, outcome))
    /\ UNCHANGED <<now, issued>>

Cancel(t, at) ==
    /\ rows[t].state # "terminal"
    /\ SetRow(t, CancelMarked(rows[t], at))
    /\ UNCHANGED <<now, issued>>

Tick ==
    /\ now < MaxClock
    /\ now' = now + 1
    /\ UNCHANGED <<rows, issued>>

-----------------------------------------------------------------------------
Init ==
    /\ rows = [t \in {} |-> NewRow(None, 0)]
    /\ now = 0
    /\ issued = {}

Statement(at) ==
    \/ \E t \in Task, d \in Timeout : Enqueue(t, d, at)
    \/ \E S \in SUBSET DOMAIN rows : CloseTerminal(S, at) \/ RequeueExpired(S, at)
    \/ \E w \in Worker, t \in Task : Claim(w, t, at)
    \/ \E l \in issued : Heartbeat(l, at)
    \/ \E l \in issued, o \in Reported : Complete(l, o, at)
    \/ \E t \in DOMAIN rows : Cancel(t, at)

Next == Tick \/ \E at \in Instants : Statement(at)

Spec == Init /\ [][Next]_storeVars

-----------------------------------------------------------------------------
TypeOK ==
    /\ DOMAIN rows \subseteq Task
    /\ rows \in [DOMAIN rows -> Row]
    /\ now \in Nat
    /\ issued \subseteq Lease

(* The table's CHECK constraints: no statement, in any interleaving, ever  *)
(* writes a row the schema would refuse.                                   *)
ChecksHold ==
    \A t \in DOMAIN rows : LET r == rows[t] IN
        /\ r.state = "running" <=> r.owner # None
        /\ r.state = "running" <=> r.leaseUntil # None
        /\ r.state = "terminal" <=> r.outcome # None

(* A published result belongs to the newest generation ever granted, so no *)
(* stale worker's result can stand once the task was claimed again.        *)
CompletionFenced ==
    \A t \in DOMAIN rows : rows[t].completion # NoCompletion =>
        /\ rows[t].state = "terminal"
        /\ rows[t].outcome = rows[t].completion.outcome
        /\ [task |-> t, owner |-> rows[t].completion.worker,
            generation |-> rows[t].completion.generation] \in issued
        /\ \A l \in issued : l.task = t =>
              l.generation <= rows[t].completion.generation

(* Once a cancellation was accepted on a task that had not ended, the task *)
(* can only end cancelled, whichever of its worker, the deadline and the   *)
(* claim limit ends it.                                                    *)
CancelWins ==
    \A t \in DOMAIN rows :
        rows[t].cancelRequested /\ rows[t].state = "terminal" =>
            rows[t].outcome = "cancelled"

(* One generation is never leased twice and a task is leased at most       *)
(* MaxClaims times, over every path that grants one.                       *)
LeasesUnique ==
    /\ \A l, k \in issued : l.task = k.task /\ l.generation = k.generation => l = k
    /\ \A l \in issued : l.generation <= MaxClaims

(* "The same at-least-once lease contract": a lease, a renewal, a result   *)
(* or a cancellation is granted or refused by both stores alike, on every  *)
(* row and at any instant, and leaves the same row behind when the next    *)
(* read has tidied up; whoever finds work in one finds it in the other.  A *)
(* task submitted anew, or again, is the same row in both.                 *)
StoresAgree ==
    \A at \in Instants :
        /\ \A d \in Timeout :
              MemoryEnqueue(d, at) = NewRow(IF d = None THEN None ELSE at + d, at)
        /\ \A t \in DOMAIN rows : LET r == rows[t] IN
              /\ MemoryRead(r, at).row = Housekept(r, at)
              /\ MemoryAgain(r, TRUE, at).row = Housekept(r, at)
              /\ MemoryAgain(r, FALSE, at).row = r
              /\ MemoryCancel(r, at) =
                    IF r.state = "terminal" THEN r ELSE CancelMarked(r, at)
        /\ \A w \in Worker : \A t \in DOMAIN rows \cap Serves[w] : LET r == rows[t] IN
              /\ MemoryClaimable(Swept(r, at), at) <=> t \in Candidates(w, at)
              /\ t \in Candidates(w, at) =>
                    MemoryClaim(r, w, LeaseMs, at).row = Granted(r, w, at + LeaseMs, at)
        /\ \A l \in issued : LET r == rows[l.task] IN
              /\ MemoryHeartbeat(r, l, LeaseMs, at).row =
                    IF Holds(r, l, at) THEN Renewed(r, at + LeaseMs) ELSE Housekept(r, at)
              /\ \A o \in Reported :
                    LET memory == MemoryComplete(r, l, o, at)
                        sql == CompleteReply(r, l, o, at)
                    IN  /\ memory.reply = "ok" <=> sql = "ok"
                        /\ r.state = "terminal" => memory.reply = sql /\ memory.row = r
                        /\ r.state # "terminal" => memory.row =
                              IF sql = "ok" THEN Published(r, l, o) ELSE Housekept(r, at)

-----------------------------------------------------------------------------
(* The store implements the ledger.                                        *)
Shown(r) == [phase      |-> r.state,
             generation |-> r.generation,
             cancelled  |-> r.cancelRequested,
             outcome    |-> r.outcome,
             publisher  |-> r.completion.generation]

Unknown == [phase |-> "absent", generation |-> 0, cancelled |-> FALSE,
            outcome |-> None, publisher |-> 0]

Entry(t) == IF t \in DOMAIN rows THEN Shown(rows[t]) ELSE Unknown

Promise == INSTANCE TaskLedger WITH ledger <- [t \in Task |-> Entry(t)]

(* Every behaviour of the store is one of TaskLedger's.                    *)
ImplementsLedger == Promise!Spec
=============================================================================
