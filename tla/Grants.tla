------------------------------- MODULE Grants -------------------------------
(***************************************************************************)
(* The value an OrchestrationGrantLedger (orchestration.js) holds for one  *)
(* root task, and its methods: the tree of grants with their budgets, and  *)
(* the admission queue for the task's concurrency slots.                   *)
(*                                                                         *)
(* Each method is an operator that returns the value it leaves behind, so  *)
(* that a caller's turn, which no other code interrupts, is a composition  *)
(* of them.  waitForStart and waitForResume have two turns: the call, and  *)
(* its continuation once it was woken.                                     *)
(*                                                                         *)
(* A reservation token and the grant token it turns into are one Token.  A *)
(* task is cancelled at most once, so its epoch is `cancelled'.            *)
(***************************************************************************)
EXTENDS Integers, SequencesExt, FiniteSetsExt

CONSTANTS
    Token,              \* tokens the ledger may mint for children
    Root,               \* the root grant's token
    None,
    MaxDepth, MaxTaskNodes, MaxChildrenPerNode,
    MaxConcurrentNodes, MaxTotalModelRuns,
    Lifetime,           \* when the root grant expires
    Allocations,        \* what callers ask for a child
    MaxClock            \* bound: the clock stops here

ASSUME LedgerAssumption ==
    /\ IsFiniteSet(Token) /\ Root \notin Token /\ None \notin Token \cup {Root}
    /\ MaxDepth \in Nat
    /\ MaxTaskNodes \in Nat \ {0}
    /\ MaxChildrenPerNode \in 0 .. (MaxTaskNodes - 1)
    /\ MaxConcurrentNodes \in 1 .. MaxTaskNodes
    /\ MaxTotalModelRuns \in Nat \ {0}
    /\ Allocations \subseteq [nodes : Nat, runs : Nat, depth : Nat, expiresAt : Nat]
    /\ Lifetime \in Nat \ {0}
    /\ MaxClock \in Nat

VARIABLES
    ledger,     \* the value, as its callers leave it
    clock       \* the time they read

Node == Token \cup {Root}

\* A reservation is reserved, refunded or dropped (the code's `revoked'); a
\* grant is active, revoked or settled.
Status == {"unissued", "reserved", "refunded", "dropped",
           "active", "revoked", "settled"}

\* `above' is the chain of parentToken up to the root.
Grant == [status    : Status,
          parent    : Node \cup {None},
          above     : SUBSET Node,
          depth     : Nat,
          ceiling   : Nat,
          expiresAt : Nat,
          running   : BOOLEAN]    \* activeSlot

\* Credits left to a grant, or set aside for a reservation.
Budget == [nodes : Nat, runs : Nat, slots : Nat]

Request == [op : {"start", "resume"}, token : Node, aborted : BOOLEAN]

Unissued == [status |-> "unissued", parent |-> None, above |-> {}, depth |-> 0,
             ceiling |-> 0, expiresAt |-> 0, running |-> FALSE]

\* createRootGrant
NewLedger(expiresAt) ==
    [node      |-> [t \in Node |->
                       IF t = Root
                       THEN [Unissued EXCEPT !.status = "active",
                                             !.ceiling = MaxDepth,
                                             !.expiresAt = expiresAt]
                       ELSE Unissued],
     budget    |-> [t \in Node |->
                       IF t = Root
                       THEN [nodes |-> MaxTaskNodes - 1, runs |-> MaxTotalModelRuns,
                             slots |-> 0]
                       ELSE [nodes |-> 0, runs |-> 0, slots |-> 0]],
     cancelled |-> FALSE,
     active    |-> 0,        \* activeNodes
     waiters   |-> <<>>,     \* admissionWaiters
     woken     |-> <<>>,     \* waiters resolved and not yet continued
     permits   |-> 0]        \* admissionPermits

-----------------------------------------------------------------------------
(* Authority and budgets.                                                  *)

Children(L, t) == {u \in Token : L.node[u].parent = t}

\* #activeGrant
Authorized(L, t, at) ==
    /\ ~L.cancelled
    /\ L.node[t].status = "active"
    /\ at < L.node[t].expiresAt
    /\ \A u \in L.node[t].above : L.node[u].status = "active"

\* Faulty: open reservations are overlooked.
JoinedButForReservations(L, t) ==
    \A u \in Children(L, t) : L.node[u].status \notin {"active", "revoked"}

\* No published child is unsettled and no reservation is open.
Joined(L, t) ==
    \A u \in Children(L, t) :
        L.node[u].status \notin {"active", "revoked", "reserved"}

\* ask[u] is what the child of token u is to get.
Nodes(ask) == MapThenSumSet(LAMBDA u : ask[u].nodes, DOMAIN ask)
Runs(ask)  == MapThenSumSet(LAMBDA u : ask[u].runs, DOMAIN ask)

\* Faulty: model runs are not checked.
CanReserveUnpaid(L, p, ask, at) ==
    LET g == L.node[p]
        b == L.budget[p]
    IN  /\ Authorized(L, p, at)
        /\ g.depth < g.ceiling
        /\ b.slots + Cardinality(DOMAIN ask) <= MaxChildrenPerNode
        /\ \A u \in DOMAIN ask : L.node[u].status = "unissued"
        /\ Nodes(ask) <= b.nodes

CanReserve(L, p, ask, at) ==
    LET g == L.node[p]
        b == L.budget[p]
    IN  /\ Authorized(L, p, at)
        /\ g.depth < g.ceiling
        /\ b.slots + Cardinality(DOMAIN ask) <= MaxChildrenPerNode
        /\ \A u \in DOMAIN ask :
              /\ L.node[u].status = "unissued"
              /\ ask[u].nodes >= 1 /\ ask[u].runs >= 1
              /\ ask[u].depth <= g.ceiling - (g.depth + 1)
              /\ ask[u].depth = 0 => ask[u].nodes = 1
              /\ at < ask[u].expiresAt /\ ask[u].expiresAt <= g.expiresAt
        /\ Nodes(ask) <= b.nodes /\ Runs(ask) <= b.runs

Reserved(L, p, ask) ==
    LET g == L.node[p]
        b == L.budget[p]
    IN  [L EXCEPT
            !.node = [t \in Node |->
                IF t \in DOMAIN ask
                THEN [status    |-> "reserved",
                      parent    |-> p,
                      above     |-> g.above \cup {p},
                      depth     |-> g.depth + 1,
                      ceiling   |-> g.depth + 1 + ask[t].depth,
                      expiresAt |-> ask[t].expiresAt,
                      running   |-> FALSE]
                ELSE L.node[t]],
            !.budget = [t \in Node |->
                IF t \in DOMAIN ask
                THEN [nodes |-> ask[t].nodes, runs |-> ask[t].runs, slots |-> 0]
                ELSE IF t = p
                THEN [nodes |-> b.nodes - Nodes(ask), runs |-> b.runs - Runs(ask),
                      slots |-> b.slots + Cardinality(DOMAIN ask)]
                ELSE L.budget[t]]]

CanRefund(L, t, at) ==
    L.node[t].status = "reserved" /\ Authorized(L, L.node[t].parent, at)

\* Faulty: the parent keeps paying the child slot.
RefundedButForTheSlot(L, t) ==
    LET p == L.node[t].parent
        b == L.budget[t]
    IN  [L EXCEPT !.node[t].status  = "refunded",
                  !.budget[t]       = [@ EXCEPT !.nodes = 0, !.runs = 0],
                  !.budget[p].nodes = @ + b.nodes,
                  !.budget[p].runs  = @ + b.runs]

Refunded(L, t) ==
    LET p == L.node[t].parent
        b == L.budget[t]
    IN  [L EXCEPT !.node[t].status    = "refunded",
                  !.budget[t]         = [@ EXCEPT !.nodes = 0, !.runs = 0],
                  !.budget[p].nodes   = @ + b.nodes,
                  !.budget[p].runs    = @ + b.runs,
                  !.budget[p].slots   = @ - 1]

Charged(L, t, count) == [L EXCEPT !.budget[t].runs = @ - count]

\* Faulty: only t and its own children.
ForestOfChildren(L, t) == {t} \cup Children(L, t)

\* #revokeForest: t and what hangs below it, not descending into settled nodes.
Forest(L, t) ==
    {t} \cup {u \in Token :
                /\ t \in L.node[u].above
                /\ \A v \in L.node[u].above :
                      t \in L.node[v].above => L.node[v].status # "settled"}

Withdrawn(L, S) ==
    [L EXCEPT !.node = [u \in Node |->
        IF u \notin S THEN L.node[u]
        ELSE CASE L.node[u].status = "active"   -> [L.node[u] EXCEPT !.status = "revoked"]
               [] L.node[u].status = "reserved" -> [L.node[u] EXCEPT !.status = "dropped"]
               [] OTHER                         -> L.node[u]]]

\* cancelTask, with #cancelAdmission; continuations already woken go on.
Cancelled(L) == [Withdrawn(L, Node) EXCEPT !.cancelled = TRUE, !.waiters = <<>>]

-----------------------------------------------------------------------------
(* Admission.                                                              *)

\* Faulty: the newest waiter is promised the slot.
NotifiedNewest(L) ==
    IF L.waiters = <<>> THEN L
    ELSE [L EXCEPT !.woken   = Append(@, Last(L.waiters)),
                   !.waiters = Front(@),
                   !.permits = @ + 1]

\* #notifyAdmission: the oldest waiter is promised the slot.
Notified(L) ==
    IF L.waiters = <<>> THEN L
    ELSE [L EXCEPT !.woken   = Append(@, Head(L.waiters)),
                   !.waiters = Tail(@),
                   !.permits = @ + 1]

SlotFreed(L, t) ==
    Notified([L EXCEPT !.node[t].running = FALSE, !.active = @ - 1])

\* What #start demands beside a free slot
CanStart(L, t, at) ==
    /\ L.node[t].status = "reserved"
    /\ Authorized(L, L.node[t].parent, at)
    /\ at < L.node[t].expiresAt

\* What #resume demands beside a free slot
CanResume(L, t, at) ==
    /\ Authorized(L, t, at)
    /\ t # Root
    /\ ~L.node[t].running
    /\ Joined(L, t)

Entitled(L, op, t, at) == IF op = "start" THEN CanStart(L, t, at) ELSE CanResume(L, t, at)

SlotTaken(L, op, t) ==
    [L EXCEPT !.node[t]         = [@ EXCEPT !.status = "active", !.running = TRUE],
              !.budget[t].nodes = IF op = "start" THEN @ - 1 ELSE @,
              !.active          = @ + 1]

\* Nobody was promised a slot or waits for one.
Unclaimed(L) == L.waiters = <<>> /\ L.permits = 0

HasRoom(L) == L.active < MaxConcurrentNodes

Queued(L, q) == [L EXCEPT !.waiters = Append(@, q)]

\* The first turn of waitForStart and waitForResume.
Entered(L, op, t, at) ==
    IF at >= L.node[t].expiresAt THEN L
    ELSE IF ~Unclaimed(L) THEN Queued(L, [op |-> op, token |-> t, aborted |-> FALSE])
    ELSE IF ~Entitled(L, op, t, at) THEN L
    ELSE IF HasRoom(L) THEN SlotTaken(L, op, t)
    ELSE Queued(L, [op |-> op, token |-> t, aborted |-> FALSE])

\* Faulty: a refused continuation drops its promised slot.
ContinuedQuietly(L, at) ==
    LET q == Head(L.woken)
        M == [L EXCEPT !.woken = Tail(@), !.permits = @ - 1]
    IN  IF \/ q.aborted
           \/ at >= L.node[q.token].expiresAt
           \/ ~Entitled(M, q.op, q.token, at)
        THEN M
        ELSE IF HasRoom(M) THEN SlotTaken(M, q.op, q.token)
        ELSE Queued(M, q)

\* The continuation of the call that was woken first.
Continued(L, at) ==
    LET q == Head(L.woken)
        M == [L EXCEPT !.woken = Tail(@), !.permits = @ - 1]
    IN  IF \/ q.aborted
           \/ at >= L.node[q.token].expiresAt
           \/ ~Entitled(M, q.op, q.token, at)
        THEN Notified(M)
        ELSE IF HasRoom(M) THEN SlotTaken(M, q.op, q.token)
        ELSE Queued(M, q)

\* Faulty: a suspended grant frees a slot it does not hold.
SettledTwice(L, t) == SlotFreed([L EXCEPT !.node[t].status = "settled"], t)

Settled(L, t) ==
    LET M == [L EXCEPT !.node[t].status = "settled"]
    IN  IF L.node[t].running THEN SlotFreed(M, t) ELSE M
=============================================================================
