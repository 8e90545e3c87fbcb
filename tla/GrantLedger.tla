---------------------------- MODULE GrantLedger -----------------------------
(***************************************************************************)
(* OrchestrationGrantLedger for one root task, under callers that do       *)
(* anything its methods allow, in any order.                               *)
(***************************************************************************)
EXTENDS Grants

CONSTANT MaxCalls   \* bound: waiting calls at a time

ASSUME CallsAssumption == MaxCalls \in Nat

VARIABLES
    spent,      \* model runs charged so far
    arrival     \* what waits for a slot, in the order of the calls

ledgerVars == <<ledger, clock, spent, arrival>>

-----------------------------------------------------------------------------
(* The calls.                                                              *)

Becomes(L) == ledger' = L /\ UNCHANGED <<clock, spent>>

Reserve(p, ask) ==
    /\ CanReserve(ledger, p, ask, clock)
    /\ Becomes(Reserved(ledger, p, ask))
    /\ UNCHANGED arrival

Refund(t) ==
    /\ CanRefund(ledger, t, clock)
    /\ Becomes(Refunded(ledger, t))
    /\ UNCHANGED arrival

ConsumeModelRuns(t, count) ==
    /\ Authorized(ledger, t, clock)
    /\ count <= ledger.budget[t].runs
    /\ ledger' = Charged(ledger, t, count)
    /\ spent' = spent + count
    /\ UNCHANGED <<clock, arrival>>

\* start() and resume(), which never wait.
TakeNow(op, t) ==
    /\ Entitled(ledger, op, t, clock)
    /\ HasRoom(ledger) /\ Unclaimed(ledger)
    /\ Becomes(SlotTaken(ledger, op, t))
    /\ UNCHANGED arrival

\* waitForStart() and waitForResume().
Wait(op, t) ==
    LET L == Entered(ledger, op, t, clock)
    IN  /\ op = "start" => ledger.node[t].status # "unissued"
        /\ op = "resume" => ledger.node[t].status \in {"active", "revoked", "settled"}
        /\ Len(arrival) < MaxCalls
        /\ Becomes(L)
        /\ arrival' = IF L.waiters = ledger.waiters THEN arrival
                      ELSE Append(arrival, <<op, t>>)

ContinueCall ==
    LET L == Continued(ledger, clock)
    IN  /\ ledger.woken # <<>>
        /\ Becomes(L)
        /\ arrival' = IF L.waiters # <<>> /\ L.waiters = Append(ledger.waiters, Head(ledger.woken))
                      THEN arrival ELSE Tail(arrival)

\* The caller's signal aborts, or its waiter's expiry timer fires.
Abort(i) ==
    /\ i \in 1 .. Len(ledger.waiters)
    /\ Becomes([ledger EXCEPT !.waiters = RemoveAt(@, i)])
    /\ arrival' = RemoveAt(arrival, Len(ledger.woken) + i)

AbortWoken(i) ==
    /\ i \in 1 .. Len(ledger.woken)
    /\ ~ledger.woken[i].aborted
    /\ Becomes([ledger EXCEPT !.woken[i].aborted = TRUE])
    /\ UNCHANGED arrival

Suspend(t) ==
    /\ Authorized(ledger, t, clock) /\ t # Root /\ ledger.node[t].running
    /\ Becomes(SlotFreed(ledger, t))
    /\ UNCHANGED arrival

Settle(t) ==
    /\ ledger.node[t].status \in {"active", "revoked"}
    /\ Joined(ledger, t)
    /\ Becomes(Settled(ledger, t))
    /\ UNCHANGED arrival

Revoke(t) ==
    /\ ledger.node[t].status = "active"
    /\ Becomes(Withdrawn(ledger, Forest(ledger, t)))
    /\ UNCHANGED arrival

CancelTask ==
    /\ ~ledger.cancelled
    /\ Becomes(Cancelled(ledger))
    /\ arrival' = SubSeq(arrival, 1, Len(ledger.woken))

LedgerTick ==
    /\ clock < MaxClock
    /\ clock' = clock + 1
    /\ UNCHANGED <<ledger, spent, arrival>>

-----------------------------------------------------------------------------
LedgerInit ==
    /\ ledger = NewLedger(Lifetime)
    /\ clock = 0
    /\ spent = 0
    /\ arrival = <<>>

LedgerNext ==
    \/ \E p \in Node, S \in SUBSET Token :
          S # {} /\ \E ask \in [S -> Allocations] : Reserve(p, ask)
    \/ \E t \in Token : \/ Refund(t) \/ Suspend(t)
                        \/ \E op \in {"start", "resume"} : TakeNow(op, t) \/ Wait(op, t)
    \/ \E t \in Node : \/ Settle(t) \/ Revoke(t)
                       \/ \E n \in 1 .. MaxTotalModelRuns : ConsumeModelRuns(t, n)
    \/ \E i \in 1 .. MaxCalls : Abort(i) \/ AbortWoken(i)
    \/ ContinueCall \/ CancelTask \/ LedgerTick

LedgerSpec == LedgerInit /\ [][LedgerNext]_ledgerVars

-----------------------------------------------------------------------------
Runner == {t \in Node : ledger.node[t].running}

LedgerTypeOK ==
    /\ ledger.node \in [Node -> Grant]
    /\ ledger.budget \in [Node -> Budget]
    /\ ledger.cancelled \in BOOLEAN
    /\ ledger.active \in Nat /\ ledger.permits \in Nat
    /\ ledger.waiters \in Seq(Request) /\ ledger.woken \in Seq(Request)
    /\ clock \in Nat /\ spent \in Nat

(* The counters are exact, and slots in use together with slots promised   *)
(* to woken waiters never exceed the limit.                                *)
SlotsCounted ==
    /\ ledger.active = Cardinality(Runner)
    /\ ledger.permits = Len(ledger.woken)
    /\ ledger.active + ledger.permits <= MaxConcurrentNodes

(* Credits are neither created nor lost anywhere in the tree, whatever is  *)
(* reserved, refunded, started, revoked or cancelled: what all tokens hold *)
(* (a published one holds itself) and what was spent is the root's budget, *)
(* and a node has used one child slot per child it was not refunded.       *)
BudgetsConserved ==
    LET Itself(t) == IF ledger.node[t].status \in {"active", "revoked", "settled"}
                     THEN 1 ELSE 0
    IN  /\ MapThenSumSet(LAMBDA t : ledger.budget[t].nodes + Itself(t), Node) = MaxTaskNodes
        /\ MapThenSumSet(LAMBDA t : ledger.budget[t].runs, Node) + spent = MaxTotalModelRuns
        /\ \A t \in Node :
              /\ ledger.budget[t].slots <= MaxChildrenPerNode
              /\ ledger.budget[t].slots =
                    Cardinality({u \in Children(ledger, t) : ledger.node[u].status # "refunded"})

(* Nothing is live, or may still become live, below a grant that is not;   *)
(* and nobody has more depth or time than the grant above.                 *)
AuthorityFlowsDown ==
    \A u \in Token : LET g == ledger.node[u] IN
        /\ g.status \in {"active", "reserved"} =>
              /\ ~ledger.cancelled
              /\ \A v \in g.above : ledger.node[v].status = "active"
        /\ g.status # "unissued" =>
              /\ g.depth <= g.ceiling /\ g.ceiling <= ledger.node[g.parent].ceiling
              /\ g.expiresAt <= ledger.node[g.parent].expiresAt

(* What is settled stays joined: nothing below a settled grant holds a     *)
(* slot, is live or revoked and unsettled, or can be published later.      *)
SettledTreesAreJoined ==
    \A t \in Node, u \in Token :
        /\ ledger.node[t].status = "settled" => ~ledger.node[t].running
        /\ /\ ledger.node[t].status = "settled"
           /\ t \in ledger.node[u].above
           => /\ ledger.node[u].status \in {"settled", "refunded", "dropped"}
              /\ ~ledger.node[u].running

(* Somebody who waits always waits for somebody: a slot really is in use,  *)
(* or was promised to a call whose continuation is still to run.           *)
NobodyWaitsForNobody ==
    /\ SlotsCounted
    /\ ledger.waiters # <<>> => ledger.active + ledger.permits > 0

(* A slot given up, or a promise let go, is promised on in the same step   *)
(* while anybody waits (#notifyAdmission); and a call is queued only       *)
(* behind another, behind a promise, or when every slot is in use.  So a   *)
(* slot is free beside a waiter only if it was given up while nobody       *)
(* waited, and the first to wait came before a woken call had gone on.     *)
SlotsPassOn ==
    [][/\ ledger'.active + ledger'.permits < ledger.active + ledger.permits =>
             ledger'.waiters = <<>>
       /\ Len(ledger'.waiters) > Len(ledger.waiters) =>
             \/ ledger.waiters # <<>> \/ ledger.permits > 0
             \/ ledger.active = MaxConcurrentNodes]_ledgerVars

(* A slot is taken only by the call that has waited longest, and by a new  *)
(* caller only when nobody waits.                                          *)
NoOvertaking ==
    [][\A t \in Node : ~ledger.node[t].running /\ ledger'.node[t].running =>
          arrival = <<>> \/ Head(arrival)[2] = t]_ledgerVars
=============================================================================
