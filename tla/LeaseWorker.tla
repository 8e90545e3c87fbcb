---------------------------- MODULE LeaseWorker -----------------------------
(***************************************************************************)
(* DistributedWorker (distributed-worker.js) over PostgresTaskStore: the   *)
(* claim loops, and for the task each loop leased its heartbeat loop, its  *)
(* lease and deadline guards, its execution and its completion retries.    *)
(*                                                                         *)
(* A request travels as a record through the statements it runs at the     *)
(* store; any number of steps lies between sending it, each statement and  *)
(* the reply.  A client may give up on a request at any point, by an error *)
(* or at a guard; the statements it had left may still run later, from     *)
(* `wire'.                                                                 *)
(*                                                                         *)
(* The waits between heartbeats, polls and retries are left open: they may *)
(* take any time, also none.                                               *)
(***************************************************************************)
EXTENDS TaskStore, FiniteSets

CONSTANTS
    Slot,         \* claim loops
    WorkerOf,     \* WorkerOf[s]: the worker that runs loop s
    Skew,         \* Skew[w]: w's monotonic clock minus the database clock
    HeartbeatMs,
    MaxLate,      \* how late the lease guard's timer may fire
    Steady,       \* workers that are never stopped
    MaxWire,      \* bound: abandoned requests that may still run
    LastEnqueue   \* bound: tasks are enqueued up to this instant

ASSUME WorkerAssumption ==
    /\ IsFiniteSet(Slot)
    /\ WorkerOf \in [Slot -> Worker]
    /\ Skew \in [Worker -> Nat]
    /\ HeartbeatMs \in Nat \ {0} /\ 3 * HeartbeatMs <= LeaseMs
    /\ None \notin Timeout /\ None \notin Slot /\ None \notin Lease
    /\ Steady \subseteq Worker
    /\ MaxLate \in Nat /\ MaxWire \in Nat /\ LastEnqueue \in Nat

VARIABLES
    slot,       \* slot[s]: what loop s is doing
    wire        \* requests their clients no longer wait for

workerVars == <<rows, now, issued, slot, wire>>

\* Faulty: Math.max and Math.min exchanged.
SafetyOfOne == 1

SafetyMs ==
    LET third == LeaseMs \div 3
        least == IF HeartbeatMs < third THEN HeartbeatMs ELSE third
    IN  IF least < 1 THEN 1 ELSE least

-----------------------------------------------------------------------------
(* Requests.  `stage' is the next statement the request has to run.        *)

Stage == {"sweep", "grant", "renew", "close", "requeue", "publish", "answered"}

NoReply == [code |-> None, lease |-> None, serverNow |-> 0, leaseUntil |-> 0,
            deadlineAt |-> 0, cancelRequested |-> FALSE]

Request(stage, w, l, outcome, sentAt) ==
    [stage |-> stage, worker |-> w, lease |-> l, outcome |-> outcome,
     sentAt |-> sentAt, reply |-> NoReply]

Coded(q, code) == [q EXCEPT !.stage = "answered", !.reply.code = code]

\* leaseView and heartbeatView of the row a statement has just written.
Viewed(q, code, l, r, at) ==
    [q EXCEPT !.stage = "answered",
              !.reply = [code            |-> code,
                         lease           |-> l,
                         serverNow       |-> at,
                         leaseUntil      |-> r.leaseUntil,
                         deadlineAt      |-> r.deadlineAt,
                         cancelRequested |-> r.cancelRequested]]

(* Below, q is the request loop c waits for or, with c = None, one its     *)
(* client gave up on.  Left(c, q, p) leaves it as p.                       *)
Left(c, q, p) ==
    IF c = None
    THEN /\ wire' = (wire \ {q}) \cup (IF p.stage = "answered" THEN {} ELSE {p})
         /\ UNCHANGED slot
    ELSE /\ slot' = [slot EXCEPT ![c].req = p]
         /\ UNCHANGED wire

\* claim(): first the closing batch, advisory and limited to rows nobody
\* locks, then the claim statement.
Sweep(c, q, at) ==
    /\ q.stage = "sweep"
    /\ Left(c, q, [q EXCEPT !.stage = "grant"])
    /\ \E locked \in LockedSets :
          LET S == {t \in DOMAIN rows \ locked : Terminalizable(rows[t], at)}
          IN  IF S = {} THEN UNCHANGED storeVars ELSE CloseTerminal(S, at)

Grant(c, q, at) ==
    /\ q.stage = "grant"
    /\ \/ \E t \in Task :
             /\ Claim(q.worker, t, at)
             /\ Left(c, q, Viewed(q, "granted",
                           [task |-> t, owner |-> q.worker,
                            generation |-> rows'[t].generation], rows'[t], at))
       \/ /\ \E locked \in LockedSets : Candidates(q.worker, at) \subseteq locked
          /\ Left(c, q, Coded(q, "nothing"))
          /\ UNCHANGED storeVars

\* heartbeat(): a missed renewal runs housekeepTask before it answers.
Renew(c, q, at) ==
    /\ q.stage = "renew"
    /\ IF Holds(rows[q.lease.task], q.lease, at)
       THEN /\ Heartbeat(q.lease, at)
            /\ Left(c, q, Viewed(q, "renewed", q.lease, rows'[q.lease.task], at))
       ELSE /\ Left(c, q, [q EXCEPT !.stage = "close"])
            /\ UNCHANGED storeVars

Housekeep(c, q, at) ==
    LET t == q.lease.task IN
    \/ /\ q.stage = "close"
       /\ Left(c, q, [q EXCEPT !.stage = "requeue"])
       /\ IF Terminalizable(rows[t], at)
          THEN CloseTerminal({t}, at) ELSE UNCHANGED storeVars
    \/ /\ q.stage = "requeue"
       /\ Left(c, q, Coded(q, "STALE_LEASE"))
       /\ IF Requeueable(rows[t], at)
          THEN RequeueExpired({t}, at) ELSE UNCHANGED storeVars

Publish(c, q, at) ==
    /\ q.stage = "publish"
    /\ LET r == rows[q.lease.task]
           code == CompleteReply(r, q.lease, q.outcome, at)
       IN  /\ Left(c, q, Coded(q, code))
           /\ IF code = "ok" /\ r.state # "terminal"
              THEN Complete(q.lease, q.outcome, at) ELSE UNCHANGED storeVars

\* The store runs the next statement of request q.  The statement's clock
\* reading is not before the request was sent.
Executes(c, q) ==
    \E at \in Instants :
        /\ at + Skew[q.worker] >= q.sentAt
        /\ \/ Sweep(c, q, at) \/ Grant(c, q, at) \/ Renew(c, q, at)
           \/ Housekeep(c, q, at) \/ Publish(c, q, at)

-----------------------------------------------------------------------------
(* One loop.                                                               *)

\* The monotonic clock of the worker that runs s.
LocalNow(s) == now + Skew[WorkerOf[s]]

\* Faulty: the remaining duration is counted from the reply's arrival.
MapFromReceipt(serverNow, target, sentAt, receivedAt) ==
    receivedAt + (target - serverNow)

\* A server instant on the local clock: the whole round trip is charged
\* against the remaining duration.
MapServerInstant(serverNow, target, sentAt, receivedAt) ==
    sentAt + (target - serverNow)

At(pc) == [pc |-> pc, lease |-> None, safeUntil |-> 0, deadlineAt |-> 0,
           outcome |-> None, abort |-> None, req |-> None]

Waiting(s) == slot[s].req # None
Answer(s)  == slot[s].req.reply
Answered(s) == Waiting(s) /\ slot[s].req.stage = "answered"

Send(s, stage, outcome) ==
    Request(stage, WorkerOf[s], slot[s].lease, outcome, LocalNow(s))

\* A record exists whose guards are armed.
Guarded(s) == slot[s].pc \in {"running", "aborted", "settled", "publishing"}

PastSafety(s) == LocalNow(s) >= slot[s].safeUntil

Becomes(s, v) == slot' = [slot EXCEPT ![s] = v]

\* What is left of the request a loop stops waiting for.
Abandoned(s) ==
    {q \in {slot[s].req} : q # None /\ q.stage # "answered"}

GivesUp(loops) ==
    LET left == UNION {Abandoned(s) : s \in loops}
    IN  wire' = IF Cardinality(wire \cup left) <= MaxWire THEN wire \cup left ELSE wire

\* loseLease, requestAbort with nothing in flight, and the end of runClaim:
\* the loop drops the record and goes on to its next claim.
Leave(s) == Becomes(s, At("idle")) /\ GivesUp({s}) /\ UNCHANGED storeVars

Keep(s, v) == Becomes(s, v) /\ UNCHANGED <<storeVars, wire>>

AskClaim(s) ==
    /\ slot[s].pc = "idle"
    /\ Keep(s, [At("claiming") EXCEPT !.req = Send(s, "sweep", None)])

\* validateLease: the instants of the lease on the worker's own clock.
Validated(a, sentAt, receivedAt) ==
    [lease      |-> a.lease,
     leaseUntil |-> MapServerInstant(a.serverNow, a.leaseUntil, sentAt, receivedAt),
     deadlineAt |-> MapServerInstant(a.serverNow, a.deadlineAt, sentAt, receivedAt)]

\* The head of runClaim.  The claim statement returns no cancelled row, and a
\* lease ends no later than its deadline, so the cancel and deadline tests that
\* precede the execution cannot succeed here.
ReceiveClaim(s) ==
    /\ slot[s].pc = "claiming" /\ Answered(s)
    /\ LET claim == Validated(Answer(s), slot[s].req.sentAt, LocalNow(s))
       IN  Keep(s, IF Answer(s).code = "nothing" \/ LocalNow(s) >= claim.leaseUntil - SafetyMs
                   THEN At("idle")
                   ELSE [At("running") EXCEPT !.lease      = claim.lease,
                                              !.safeUntil  = claim.leaseUntil - SafetyMs,
                                              !.deadlineAt = claim.deadlineAt])

SendBeat(s) ==
    /\ slot[s].pc = "running" /\ ~Waiting(s) /\ ~PastSafety(s)
    /\ Keep(s, [slot[s] EXCEPT !.req = Send(s, "renew", None)])

\* heartbeatLoop after its request has settled.  A cancellation seen while
\* the execution runs aborts it and nothing is published; seen while the
\* loop drains, it replaces the result.
BeatAnswered(s) ==
    /\ slot[s].pc \in {"running", "aborted", "settled"} /\ Answered(s)
    /\ LET a == Answer(s)
           safeUntil == MapServerInstant(a.serverNow, a.leaseUntil,
                                         slot[s].req.sentAt, LocalNow(s)) - SafetyMs
           renewed == [slot[s] EXCEPT !.safeUntil = safeUntil, !.req = None]
       IN  IF \/ a.code = "STALE_LEASE" \/ PastSafety(s)
              \/ LocalNow(s) >= safeUntil
              \/ slot[s].pc = "aborted"
              \/ slot[s].pc = "running" /\ a.cancelRequested
           THEN Keep(s, At("idle"))
           ELSE IF a.cancelRequested /\ slot[s].abort = None
           THEN Keep(s, [renewed EXCEPT !.abort = "cancel"])
           ELSE Keep(s, renewed)

\* execute() settles: its result, or an error, unless it was aborted first.
Settle(s, outcome) ==
    /\ slot[s].pc = "running"
    /\ Keep(s, [slot[s] EXCEPT !.pc = "settled", !.outcome = outcome])

\* What is published: the result, unless the task was cancelled or ran out of
\* time while the heartbeat was drained.
Final(s) ==
    CASE slot[s].abort = "cancel"   -> "cancelled"
      [] slot[s].abort = "deadline" -> "error"
      [] OTHER                      -> slot[s].outcome

\* The heartbeat is drained: publish unless the lease is no longer safe.
StartPublish(s) ==
    /\ slot[s].pc = "settled" /\ ~Waiting(s) /\ ~PastSafety(s)
    /\ Keep(s, [slot[s] EXCEPT !.pc      = "publishing",
                               !.outcome = Final(s),
                               !.req     = Send(s, "publish", Final(s))])

\* completeWithRetry: the same completion again after an error, and only a
\* cancelled one once the store asked for it.
PublishAnswered(s) ==
    /\ slot[s].pc = "publishing" /\ Answered(s)
    /\ Keep(s, IF Answer(s).code = "CANCEL_REQUESTED"
               THEN [slot[s] EXCEPT !.outcome = "cancelled", !.req = None]
               ELSE At("idle"))

Resend(s) ==
    /\ slot[s].pc = "publishing" /\ ~Waiting(s) /\ ~PastSafety(s)
    /\ Keep(s, [slot[s] EXCEPT !.req = Send(s, "publish", slot[s].outcome)])

\* A request fails for its client, whatever became of it at the store.
Fail(s) ==
    /\ Waiting(s)
    /\ IF slot[s].pc \in {"claiming", "aborted"}
       THEN Leave(s)
       ELSE /\ Becomes(s, [slot[s] EXCEPT !.req = None])
            /\ GivesUp({s})
            /\ UNCHANGED storeVars

\* The closing batch is advisory: when it fails the claim goes on.
SweepFails(s) ==
    /\ Waiting(s) /\ slot[s].req.stage = "sweep"
    /\ Keep(s, [slot[s] EXCEPT !.req.stage = "grant"])

\* leaseGuard, and every other place that finds the boundary reached.
GuardFires(s) == Guarded(s) /\ PastSafety(s) /\ Leave(s)

\* Faulty: the record is dropped while its heartbeat is still in flight.
DeadlineForgets(s) ==
    /\ slot[s].pc \in {"running", "settled"}
    /\ slot[s].abort = None
    /\ LocalNow(s) >= slot[s].deadlineAt
    /\ Keep(s, IF slot[s].pc = "settled"
               THEN [slot[s] EXCEPT !.abort = "deadline"]
               ELSE IF Waiting(s)
               THEN [At("aborted") EXCEPT !.req = slot[s].req]
               ELSE At("idle"))

DeadlineFires(s) ==
    /\ slot[s].pc \in {"running", "settled"}
    /\ slot[s].abort = None
    /\ LocalNow(s) >= slot[s].deadlineAt
    /\ Keep(s, IF slot[s].pc = "settled"
               THEN [slot[s] EXCEPT !.abort = "deadline"]
               ELSE IF Waiting(s)
               THEN [slot[s] EXCEPT !.pc = "aborted", !.abort = "deadline"]
               ELSE At("idle"))

\* dispose(), or a crash: the worker's loops end and every execution with
\* them; what they had asked the store may still run.
Stop(w) ==
    LET loops == {s \in Slot : WorkerOf[s] = w} IN
    /\ w \notin Steady
    /\ \E s \in loops : slot[s].pc # "off"
    /\ slot' = [s \in Slot |-> IF s \in loops THEN At("off") ELSE slot[s]]
    /\ GivesUp(loops)
    /\ UNCHANGED storeVars

Start(w) ==
    LET loops == {s \in Slot : WorkerOf[s] = w} IN
    /\ loops # {} /\ \A s \in loops : slot[s].pc = "off"
    /\ slot' = [s \in Slot |-> IF s \in loops THEN At("idle") ELSE slot[s]]
    /\ UNCHANGED <<storeVars, wire>>

-----------------------------------------------------------------------------
(* The rest of the system.                                                 *)

\* Coordinators: submissions, cancellations, and the housekeeping of get()
\* and listBySession().
Coordinate ==
    /\ \E at \in Instants :
          \/ \E t \in Task, d \in Timeout : now <= LastEnqueue /\ Enqueue(t, d, at)
          \/ \E t \in DOMAIN rows : Cancel(t, at)
          \/ \E t \in DOMAIN rows : CloseTerminal({t}, at) \/ RequeueExpired({t}, at)
    /\ UNCHANGED <<slot, wire>>

\* The store serves the request of loop s, or one its client gave up on.
Serve(s) == Waiting(s) /\ Executes(s, slot[s].req)

ServeAbandoned == \E q \in wire : Executes(None, q)

\* The lease guard's timer is at most MaxLate late.
WorkerTick ==
    /\ \A s \in Slot : Guarded(s) => LocalNow(s) < slot[s].safeUntil + MaxLate
    /\ Tick
    /\ UNCHANGED <<slot, wire>>

-----------------------------------------------------------------------------
WorkerInit ==
    /\ Init
    /\ slot = [s \in Slot |-> At("idle")]
    /\ wire = {}

Loop(s) ==
    \/ AskClaim(s) \/ ReceiveClaim(s) \/ SendBeat(s) \/ BeatAnswered(s)
    \/ StartPublish(s) \/ PublishAnswered(s) \/ Resend(s)
    \/ GuardFires(s) \/ DeadlineFires(s)

WorkerNext ==
    \/ \E s \in Slot : \/ Loop(s) \/ Serve(s) \/ Fail(s) \/ SweepFails(s)
                       \/ \E o \in Reported : Settle(s, o)
    \/ \E w \in Worker : Stop(w) \/ Start(w)
    \/ Coordinate \/ ServeAbandoned \/ WorkerTick

WorkerSpec == WorkerInit /\ [][WorkerNext]_workerVars

ServeSweep(s) == Waiting(s) /\ slot[s].req.stage = "sweep" /\ Serve(s)

\* The event loop of a steady worker runs what is ready, a request is answered
\* or runs into the pool's query_timeout, a closing batch that is tried at
\* every claim succeeds at last, and time passes.
LiveSpec ==
    /\ WorkerSpec
    /\ WF_workerVars(WorkerTick)
    /\ \A s \in Slot : WorkerOf[s] \in Steady =>
          /\ WF_workerVars(Loop(s))
          /\ WF_workerVars(Serve(s) \/ Fail(s))
          /\ SF_workerVars(ServeSweep(s))

-----------------------------------------------------------------------------
WorkerTypeOK ==
    /\ TypeOK
    /\ \A s \in Slot :
        /\ slot[s].pc \in {"off", "idle", "claiming", "running", "aborted",
                           "settled", "publishing"}
        /\ Guarded(s) <=> slot[s].lease \in issued
        /\ slot[s].outcome \in Outcome \cup {None}
        /\ slot[s].req # None => slot[s].req.stage \in Stage
    /\ Cardinality(wire) <= MaxWire

(* No two loops ever run the same task at once: an execution is aborted    *)
(* before the store may grant its task to anyone else, under any delay of  *)
(* requests and replies, any clock skew and any crash, provided the lease  *)
(* guard's timer is less than SafetyMs late.                               *)
ExclusiveExecution ==
    \A s, u \in Slot :
        s # u /\ slot[s].pc = "running" /\ slot[u].pc = "running" =>
            slot[s].lease.task # slot[u].lease.task

(* While an execution runs, its lease is the one the store would accept at *)
(* this instant: what the worker believes never outlives what the store    *)
(* granted.                                                                *)
ExecutorsHold ==
    \A s \in Slot : slot[s].pc = "running" =>
        Holds(rows[slot[s].lease.task], slot[s].lease, now)

(* A worker that reached publication before its boundary is never told its *)
(* work was for nothing: the store answers ok, or asks for a cancelled     *)
(* result, also when earlier attempts of the same completion were lost.    *)
OwnersAreNeverRefused ==
    \A s \in Slot : slot[s].pc = "publishing" /\ Answered(s) =>
        Answer(s).code \in {"ok", "CANCEL_REQUESTED"}

(* An acknowledged completion is the one the task ended with: its outcome, *)
(* by this lease, however often the same completion was sent before and    *)
(* however late the guards are.                                            *)
AcknowledgedIsDurable ==
    \A s \in Slot : slot[s].pc = "publishing" /\ Answered(s) /\ Answer(s).code = "ok" =>
        LET r == rows[slot[s].lease.task]
        IN  /\ r.outcome = slot[s].outcome
            /\ r.completion.generation = slot[s].lease.generation

(* Every task that was enqueued ends, as long as one worker stays up and   *)
(* whatever happens to executions, other workers, requests and replies.    *)
EveryTaskEnds ==
    \A t \in Task : t \in DOMAIN rows ~>
        t \in DOMAIN rows /\ rows[t].state = "terminal"
=============================================================================
