----------------------- MODULE ConfigProposalsProofs -----------------------
(***************************************************************************)
(* Receipts are true, and final unless contested, for any proposals,       *)
(* callers and times to live.                                              *)
(*                                                                         *)
(* The argument is about who may still write a proposal's state.  A flight *)
(* is alone in its kind (FlightsAreAlone), so a conflict it reports was    *)
(* not undone by a later one; and of a proposal that is neither expired    *)
(* nor contested, a call's write is the next state (InOrder), because what *)
(* the call read before its audit is what it finds after it.               *)
(***************************************************************************)
EXTENDS ConfigProposals, FiniteSetTheorems, TLAPS

Kind == {"apply", "rollback"}
State == Settled \cup {"pending", "approved"}
Known == [state : State, expected : Settings, expires : Nat, after : Settings \cup {Nothing}]
Overlay == [state : {"staged"}, objects : SUBSET Object, expires : Nat]
Answer == [answer : {"committed"}, after : Settings]
Reply == Answer \cup [answer : {"conflict"}] \cup {Nothing}

Waiting ==
    [at : {"creating"}, p : Proposal, expected : Settings, expires : Nat]
        \cup [at : {"expiring", "approving"}, p : Proposal]
        \cup [at : {"intending"}, p : Proposal, kind : Kind]
        \cup [at : {"transacting"}, p : Proposal, kind : Kind, reply : Reply]
Aside ==
    {Idle} \cup [at : {"disposing"}, s : Subject, expires : Nat]
           \cup [at : {"staging"}, s : Subject, candidate : Overlay]

TypeInv ==
    /\ now \in Nat
    /\ proposals \in [Proposal -> Known \cup {None}]
    /\ overlays \in [Subject -> Overlay \cup {None}]
    /\ call \in [Caller -> Waiting \cup Aside]
    /\ settings \in Settings
    /\ carriedOut \in [Proposal -> [Kind -> Answer \cup {Nothing}]]

Concerns(c, place, p) == call[c].at = place /\ call[c].p = p
Flying(c, p, k) == call[c].at \in {"intending", "transacting"} /\ call[c].p = p /\ call[c].kind = k

\* A proposal is created once; every other call is about one that exists.
Placed ==
    \A p \in Proposal, c \in Caller :
        /\ Concerns(c, "creating", p) =>
              Is(p, "absent") /\ \A d \in Caller : Concerns(d, "creating", p) => d = c
        /\ Concerns(c, "expiring", p) => ~Is(p, "absent") /\ Expired(p)
        /\ Concerns(c, "approving", p) => ~Is(p, "absent")
        /\ \A k \in Kind : Flying(c, p, k) => ~Is(p, "absent")

\* A mutation has one flight at a time, and no flight under the verdict it is
\* yet to report.
FlightsAreAlone ==
    \A p \in Proposal, c \in Caller :
        /\ \A k \in Kind, d \in Caller : Flying(c, p, k) /\ Flying(d, p, k) => c = d
        /\ Flying(c, p, "apply") => ~Is(p, "conflict")
        /\ Flying(c, p, "rollback") => ~Is(p, "rollback-conflict")

\* An answer still holds when its call continues.
RepliesHold ==
    \A c \in Caller :
        At(c, "transacting") =>
            /\ call[c].reply.answer = "committed" => carriedOut[call[c].p][call[c].kind] # Nothing
            /\ call[c].reply.answer = "conflict" => carriedOut[call[c].p][call[c].kind] = Nothing

\* Of a proposal neither expired nor contested, a call finds the state it read.
InOrder ==
    \A p \in Proposal :
        ~Is(p, "absent") /\ ~Expired(p) /\ p \notin contested =>
            \A c \in Caller :
                /\ Concerns(c, "approving", p) =>
                      Is(p, "pending") /\ \A d \in Caller : Concerns(d, "approving", p) => d = c
                /\ Flying(c, p, "apply") => Is(p, "approved")
                /\ Flying(c, p, "rollback") => Is(p, "committed")

IInv == TypeInv /\ Placed /\ FlightsAreAlone /\ RepliesHold /\ ReceiptsAreTrue /\ InOrder

-----------------------------------------------------------------------------
LEMMA Shapes ==
    /\ \A k \in Aside : k.at \in {"idle", "disposing", "staging"}
    /\ \A k \in Waiting : k.at \notin {"idle", "disposing", "staging"}
    /\ \A k \in Waiting : k.p \in Proposal
    /\ \A k \in Waiting : k.at \in {"intending", "transacting"} => k.kind \in Kind
    /\ \A k \in Waiting : k.at = "transacting" => k.reply \in Reply
    /\ \A k \in Waiting : k.at = "creating" => k.expected \in Settings /\ k.expires \in Nat
    /\ Idle \in Aside
BY DEF Aside, Waiting, Idle

LEMMA Answers ==
    /\ Nothing.answer = "none" /\ Nothing \in Reply
    /\ \A r \in Answer : r.answer = "committed" /\ r \in Reply /\ r # Nothing /\ r.after \in Settings
    /\ \A r \in Reply : r = Nothing \/ r.answer = "committed" \/ r.answer = "conflict"
    /\ \A r \in Reply : r.answer = "committed" => r \in Answer
    /\ [answer |-> "conflict"] \in Reply /\ [answer |-> "conflict"] # Nothing
<1>1. Nothing.answer = "none"
  BY DEF Nothing
<1>2. \A r \in Answer : r.answer = "committed" /\ r.after \in Settings
  BY DEF Answer
<1>3. \A r \in [answer : {"conflict"}] : r.answer = "conflict"
  OBVIOUS
<1>4. [answer |-> "conflict"] \in [answer : {"conflict"}]
  OBVIOUS
<1> QED
  BY <1>1, <1>2, <1>3, <1>4 DEF Reply

LEMMA States ==
    /\ None.state = "absent" /\ "absent" \notin State
    /\ \A k \in Known : k.state \in State /\ k.expires \in Nat
BY DEF None, Known, State, Settled

LEMMA InitIInv == Init => IInv
<1> SUFFICES ASSUME Init PROVE IInv
  OBVIOUS
<1>1. \A c \in Caller : call[c].at = "idle"
  BY DEF Init, Idle
<1>2. TypeInv
  BY Shapes DEF Init, TypeInv, Settings, Kind
<1>3. ReceiptsAreTrue
  BY States DEF Init, ReceiptsAreTrue, Is
<1>4. Placed /\ FlightsAreAlone /\ RepliesHold /\ InOrder
  BY <1>1 DEF Placed, FlightsAreAlone, RepliesHold, InOrder, Concerns, Flying, At
<1> QED
  BY <1>2, <1>3, <1>4 DEF IInv

\* A call that leaves its proposal alone, or has to do with none
LEMMA AsideIInv ==
    ASSUME IInv, NEW c \in Caller, NEW k \in Aside, call' = [call EXCEPT ![c] = k],
           UNCHANGED <<now, proposals, settings, carriedOut>>,
           overlays' \in [Subject -> Overlay \cup {None}], contested \subseteq contested'
    PROVE  IInv'
<1>1. \A d \in Caller : call'[d] = IF d = c THEN k ELSE call[d]
  BY DEF IInv, TypeInv
<1>2. k.at \in {"idle", "disposing", "staging"}
  BY Shapes
<1>3. TypeInv'
  BY DEF IInv, TypeInv
<1>4. Placed'
  BY <1>1, <1>2 DEF IInv, Placed, Concerns, Flying, Is, Expired
<1>5. FlightsAreAlone'
  BY <1>1, <1>2 DEF IInv, FlightsAreAlone, Flying, Is
<1>6. RepliesHold'
  BY <1>1, <1>2 DEF IInv, RepliesHold, At
<1>7. ReceiptsAreTrue'
  BY DEF IInv, ReceiptsAreTrue, Is
<1>8. InOrder'
  BY <1>1, <1>2 DEF IInv, InOrder, Concerns, Flying, Is, Expired
<1> QED
  BY <1>3, <1>4, <1>5, <1>6, <1>7, <1>8 DEF IInv

-----------------------------------------------------------------------------
(* One lemma per turn that concerns a proposal.                            *)

\* A call about a proposal begins: what IInv must hear of the new call.
LEMMA EntersIInv ==
    ASSUME IInv, NEW c \in Caller, NEW k \in Waiting, call' = [call EXCEPT ![c] = k],
           ~At(c, "intending"), ~At(c, "transacting"),
           UNCHANGED <<now, proposals, overlays, settings, carriedOut>>,
           contested \subseteq contested', k.at \in {"creating", "expiring", "approving", "intending"},
           k.at = "creating" =>
              Is(k.p, "absent") /\ \A d \in Caller : ~Concerns(d, "creating", k.p),
           k.at = "expiring" => ~Is(k.p, "absent") /\ Expired(k.p),
           k.at = "approving" =>
              /\ Is(k.p, "pending")
              /\ k.p \in contested' \/ \A d \in Caller : ~Concerns(d, "approving", k.p),
           k.at = "intending" =>
              /\ k.kind = "apply" => Is(k.p, "approved")
              /\ k.kind = "rollback" => Is(k.p, "committed")
              /\ \A d \in Caller : ~Flying(d, k.p, k.kind)
    PROVE  IInv'
<1>1. \A d \in Caller : call'[d] = IF d = c THEN k ELSE call[d]
  BY DEF IInv, TypeInv
<1>2. k.p \in Proposal /\ (k.at = "intending" => k.kind \in Kind)
  BY Shapes
<1>3. TypeInv'
  BY DEF IInv, TypeInv
<1>4. Placed'
  BY <1>1, <1>2 DEF IInv, Placed, Concerns, Flying, Is, Expired, Kind
<1>5. FlightsAreAlone'
  BY <1>1, <1>2 DEF IInv, FlightsAreAlone, Flying, Is
<1>6. RepliesHold'
  BY <1>1, <1>2 DEF IInv, RepliesHold, At
<1>7. ReceiptsAreTrue'
  BY DEF IInv, ReceiptsAreTrue, Is
<1>8. InOrder'
  BY <1>1, <1>2 DEF IInv, InOrder, Concerns, Flying, Is, Expired
<1> QED
  BY <1>3, <1>4, <1>5, <1>6, <1>7, <1>8 DEF IInv

LEMMA BeginsIInv ==
    ASSUME IInv, NEW c \in Caller,
           Create(c) \/ Expire(c) \/ Approve(c) \/ Apply(c) \/ RollBack(c)
    PROVE  IInv'
<1>0. ~At(c, "intending") /\ ~At(c, "transacting")
  BY DEF Create, Expire, Approve, Apply, RollBack, At
<1>1. CASE Create(c)
  <2>1. PICK p \in Proposal, e \in Expiries :
           /\ Is(p, "absent") /\ \A d \in Caller : ~(At(d, "creating") /\ call[d].p = p)
           /\ Awaits(c, [at |-> "creating", p |-> p, expected |-> settings, expires |-> e])
    BY <1>1 DEF Create
  <2>2. e \in Nat
    BY AuthorityAssumption DEF Expiries, IInv, TypeInv
  <2> DEFINE k == [at |-> "creating", p |-> p, expected |-> settings, expires |-> e]
  <2>3. k \in Waiting /\ k.at = "creating" /\ k.p = p
    BY <2>2 DEF Waiting, IInv, TypeInv
  <2>4. call' = [call EXCEPT ![c] = k] /\ \A d \in Caller : ~Concerns(d, "creating", p)
    BY <2>1 DEF Awaits, Concerns, At
  <2> HIDE DEF k
  <2> QED
    BY <1>0, <1>1, <2>1, <2>3, <2>4, EntersIInv DEF Create
<1>2. CASE Expire(c)
  <2>1. PICK p \in Proposal :
           /\ Is(p, "pending") \/ Is(p, "approved")
           /\ Expired(p) /\ Awaits(c, [at |-> "expiring", p |-> p])
    BY <1>2 DEF Expire
  <2> DEFINE k == [at |-> "expiring", p |-> p]
  <2>2. k \in Waiting /\ k.at = "expiring" /\ k.p = p /\ call' = [call EXCEPT ![c] = k]
    BY <2>1 DEF Waiting, Awaits
  <2>3. ~Is(p, "absent")
    BY <2>1 DEF Is
  <2> HIDE DEF k
  <2> QED
    BY <1>0, <1>2, <2>1, <2>2, <2>3, EntersIInv DEF Expire
<1>3. CASE Approve(c)
  <2>1. PICK p \in Proposal :
           /\ Is(p, "pending") /\ Awaits(c, [at |-> "approving", p |-> p])
           /\ contested' = contested \cup
                 {q \in {p} : \E d \in Caller : At(d, "approving") /\ call[d].p = p}
    BY <1>3 DEF Approve
  <2> DEFINE k == [at |-> "approving", p |-> p]
  <2>2. k \in Waiting /\ k.at = "approving" /\ k.p = p /\ call' = [call EXCEPT ![c] = k]
    BY <2>1 DEF Waiting, Awaits
  <2>3. p \in contested' \/ \A d \in Caller : ~Concerns(d, "approving", p)
    BY <2>1 DEF Concerns, At
  <2> HIDE DEF k
  <2> QED
    BY <1>0, <1>3, <2>1, <2>2, <2>3, EntersIInv DEF Approve
<1>4. ASSUME NEW p \in Proposal, NEW kind \in Kind, ~InFlight(p, kind),
             Awaits(c, [at |-> "intending", p |-> p, kind |-> kind]),
             kind = "apply" => Is(p, "approved"), kind = "rollback" => Is(p, "committed"),
             UNCHANGED <<now, proposals, overlays, settings, carriedOut, contested>>
      PROVE  IInv'
  <2> DEFINE k == [at |-> "intending", p |-> p, kind |-> kind]
  <2>1. /\ k \in Waiting /\ k.at = "intending" /\ k.p = p /\ k.kind = kind
        /\ call' = [call EXCEPT ![c] = k]
    BY <1>4 DEF Waiting, Awaits
  <2>2. \A d \in Caller : ~Flying(d, p, kind)
    BY <1>4 DEF InFlight, Flying
  <2> HIDE DEF k
  <2> QED
    BY <1>0, <1>4, <2>1, <2>2, EntersIInv
<1>5. CASE Apply(c)
  BY <1>4, <1>5 DEF Apply, Kind
<1>6. CASE RollBack(c)
  BY <1>4, <1>6 DEF RollBack, Kind
<1> QED
  BY <1>1, <1>2, <1>3, <1>5, <1>6

LEMMA CreatedIInv ==
    ASSUME IInv, NEW c \in Caller, Created(c)
    PROVE  IInv'
<1> DEFINE p == call[c].p
           new == [state |-> "pending", expected |-> call[c].expected,
                   expires |-> call[c].expires, after |-> Nothing]
<1>1. call[c] \in Waiting /\ p \in Proposal /\ Is(p, "absent") /\ Concerns(c, "creating", p)
  BY Shapes DEF Created, At, IInv, TypeInv, Placed, Concerns
<1>2. new \in Known /\ new.state = "pending"
  BY <1>1, Shapes DEF Created, At, Known, State
<1>3. /\ proposals' = [proposals EXCEPT ![p] = new] /\ call' = [call EXCEPT ![c] = Idle]
      /\ UNCHANGED <<now, overlays, settings, carriedOut, contested>>
  BY DEF Created, Returns
<1> HIDE DEF p, new
<1>4. /\ \A d \in Caller : call'[d] = IF d = c THEN Idle ELSE call[d]
      /\ \A q \in Proposal : proposals'[q] = IF q = p THEN new ELSE proposals[q]
  BY <1>1, <1>3 DEF IInv, TypeInv
<1>5. Idle.at = "idle"
  BY DEF Idle
<1>6. TypeInv'
  BY <1>1, <1>2, <1>3, Shapes DEF IInv, TypeInv
<1>7. Placed'
  BY <1>1, <1>2, <1>3, <1>4, <1>5 DEF IInv, Placed, Concerns, Flying, Is, Expired
<1>8. FlightsAreAlone'
  BY <1>1, <1>2, <1>3, <1>4, <1>5 DEF IInv, FlightsAreAlone, Flying, Is
<1>9. RepliesHold'
  BY <1>3, <1>4, <1>5 DEF IInv, RepliesHold, At
<1>10. ReceiptsAreTrue'
  BY <1>2, <1>3, <1>4 DEF IInv, ReceiptsAreTrue, Is
<1>11. InOrder'
  BY <1>1, <1>2, <1>3, <1>4, <1>5 DEF IInv, InOrder, Placed, Kind, Concerns, Flying, Is, Expired
<1> QED
  BY <1>6, <1>7, <1>8, <1>9, <1>10, <1>11 DEF IInv

\* A call writes its proposal's state and returns: what must hold of the
\* receipt, and of the calls that still concern the proposal.
LEMMA WritesIInv ==
    ASSUME IInv, NEW c \in Caller, call[c] \in Waiting, NEW p \in Proposal, p = call[c].p,
           ~Is(p, "absent"), call' = [call EXCEPT ![c] = Idle],
           NEW new \in Known, new.expires = proposals[p].expires,
           proposals' = [proposals EXCEPT ![p] = new],
           UNCHANGED <<now, overlays, settings, carriedOut, contested>>,
           new.state = "committed" => carriedOut[p].apply # Nothing,
           new.state = "conflict" =>
              /\ carriedOut[p].apply = Nothing
              /\ \A d \in Caller \ {c} : ~Flying(d, p, "apply"),
           new.state = "rolled-back" => carriedOut[p].rollback # Nothing,
           new.state = "rollback-conflict" =>
              /\ carriedOut[p].rollback = Nothing
              /\ \A d \in Caller \ {c} : ~Flying(d, p, "rollback"),
           ~Expired(p) /\ p \notin contested =>
              \A d \in Caller \ {c} : /\ ~Concerns(d, "approving", p)
                                      /\ \A k \in Kind : ~Flying(d, p, k)
    PROVE  IInv'
<1>1. /\ \A d \in Caller : call'[d] = IF d = c THEN Idle ELSE call[d]
      /\ \A q \in Proposal : proposals'[q] = IF q = p THEN new ELSE proposals[q]
  BY DEF IInv, TypeInv
<1>2. Idle.at = "idle" /\ new.state # "absent"
  BY States DEF Idle
<1>3. TypeInv'
  BY Shapes DEF IInv, TypeInv
<1>4. Placed'
  BY <1>1, <1>2 DEF IInv, Placed, Concerns, Flying, Is, Expired
<1>5. FlightsAreAlone'
  BY <1>1, <1>2 DEF IInv, FlightsAreAlone, Flying, Is
<1>6. RepliesHold'
  BY <1>1, <1>2 DEF IInv, RepliesHold, At
<1>7. ReceiptsAreTrue'
  BY <1>1 DEF IInv, ReceiptsAreTrue, Is
<1>8. InOrder'
  BY <1>1, <1>2 DEF IInv, InOrder, Kind, Concerns, Flying, Is, Expired
<1> QED
  BY <1>3, <1>4, <1>5, <1>6, <1>7, <1>8 DEF IInv

LEMMA HasExpiredIInv ==
    ASSUME IInv, NEW c \in Caller, HasExpired(c)
    PROVE  IInv'
<1> DEFINE p == call[c].p
           new == [proposals[p] EXCEPT !.state = "expired"]
<1>1. call[c] \in Waiting /\ p \in Proposal /\ Concerns(c, "expiring", p)
  BY Shapes DEF HasExpired, At, IInv, TypeInv, Concerns
<1>2. ~Is(p, "absent") /\ Expired(p)
  BY <1>1 DEF IInv, Placed
<1>3. proposals[p] \in Known
  BY <1>1, <1>2, States DEF IInv, TypeInv, Is
<1>4. new \in Known /\ new.state = "expired" /\ new.expires = proposals[p].expires
  BY <1>3 DEF Known, State, Settled
<1>5. /\ proposals' = [proposals EXCEPT ![p] = new] /\ call' = [call EXCEPT ![c] = Idle]
      /\ UNCHANGED <<now, overlays, settings, carriedOut, contested>>
  BY DEF HasExpired, Becomes, Returns
<1> HIDE DEF new
<1> QED
  BY <1>1, <1>2, <1>4, <1>5, WritesIInv

LEMMA ApprovedIInv ==
    ASSUME IInv, NEW c \in Caller, Approved(c)
    PROVE  IInv'
<1> DEFINE p == call[c].p
           new == [proposals[p] EXCEPT !.state = "approved"]
<1>1. call[c] \in Waiting /\ p \in Proposal /\ Concerns(c, "approving", p)
  BY Shapes DEF Approved, At, IInv, TypeInv, Concerns
<1>2. ~Is(p, "absent")
  BY <1>1 DEF IInv, Placed
<1>3. ~Expired(p) /\ p \notin contested =>
         \A d \in Caller \ {c} : /\ ~Concerns(d, "approving", p)
                                 /\ \A k \in Kind : ~Flying(d, p, k)
  BY <1>1, <1>2 DEF IInv, InOrder, Is, Kind
<1>4. proposals[p] \in Known
  BY <1>1, <1>2, States DEF IInv, TypeInv, Is
<1>5. new \in Known /\ new.state = "approved" /\ new.expires = proposals[p].expires
  BY <1>4 DEF Known, State
<1>6. /\ proposals' = [proposals EXCEPT ![p] = new] /\ call' = [call EXCEPT ![c] = Idle]
      /\ UNCHANGED <<now, overlays, settings, carriedOut, contested>>
  BY DEF Approved, Becomes, Returns
<1> HIDE DEF new
<1> QED
  BY <1>1, <1>2, <1>3, <1>5, <1>6, WritesIInv

LEMMA TransactedIInv ==
    ASSUME IInv, NEW c \in Caller, Transacted(c)
    PROVE  IInv'
<1> DEFINE p == call[c].p
           kind == call[c].kind
           reply == call[c].reply
<1>1. /\ call[c] \in Waiting /\ p \in Proposal /\ kind \in Kind
      /\ reply \in Reply /\ reply # Nothing /\ At(c, "transacting") /\ Flying(c, p, kind)
  BY Shapes DEF Transacted, At, IInv, TypeInv, Flying
<1>2. ~Is(p, "absent")
  BY <1>1 DEF IInv, Placed
<1>3. proposals[p] \in Known
  BY <1>1, <1>2, States DEF IInv, TypeInv, Is
<1>4. \A d \in Caller \ {c} : ~Flying(d, p, kind)
  BY <1>1 DEF IInv, FlightsAreAlone
<1>5. ~Expired(p) /\ p \notin contested =>
         \A d \in Caller \ {c} : /\ ~Concerns(d, "approving", p)
                                 /\ \A k \in Kind : ~Flying(d, p, k)
  BY <1>1, <1>2, <1>4 DEF IInv, InOrder, Is, Kind
<1>6. /\ reply.answer = "committed" => carriedOut[p][kind] # Nothing /\ reply.after \in Settings
      /\ reply.answer # "committed" => carriedOut[p][kind] = Nothing
  BY <1>1, Answers DEF IInv, RepliesHold
<1>7. /\ call' = [call EXCEPT ![c] = Idle]
      /\ UNCHANGED <<now, overlays, settings, carriedOut, contested>>
  BY DEF Transacted, Returns
<1>8. CASE kind = "apply" /\ reply.answer = "committed"
  <2> DEFINE new == [proposals[p] EXCEPT !.state = "committed", !.after = reply.after]
  <2>1. new \in Known /\ new.state = "committed" /\ new.expires = proposals[p].expires
    BY <1>3, <1>6, <1>8 DEF Known, State, Settled
  <2>2. proposals' = [proposals EXCEPT ![p] = new]
    BY <1>8 DEF Transacted
  <2> HIDE DEF new
  <2> QED
    BY <1>1, <1>2, <1>5, <1>6, <1>7, <1>8, <2>1, <2>2, WritesIInv
<1>9. ASSUME NEW v \in {"conflict", "rolled-back", "rollback-conflict"}, Becomes(p, v),
             v = "conflict" => kind = "apply" /\ reply.answer # "committed",
             v = "rolled-back" => kind = "rollback" /\ reply.answer = "committed",
             v = "rollback-conflict" => kind = "rollback" /\ reply.answer # "committed"
      PROVE  IInv'
  <2> DEFINE new == [proposals[p] EXCEPT !.state = v]
  <2>1. new \in Known /\ new.state = v /\ new.expires = proposals[p].expires
    BY <1>3, <1>9 DEF Known, State, Settled
  <2>2. proposals' = [proposals EXCEPT ![p] = new]
    BY <1>9 DEF Becomes
  <2>3. /\ new.state # "committed"
        /\ new.state = "conflict" =>
              carriedOut[p].apply = Nothing /\ \A d \in Caller \ {c} : ~Flying(d, p, "apply")
        /\ new.state = "rolled-back" => carriedOut[p].rollback # Nothing
        /\ new.state = "rollback-conflict" =>
              carriedOut[p].rollback = Nothing /\ \A d \in Caller \ {c} : ~Flying(d, p, "rollback")
    BY <1>4, <1>6, <1>9, <2>1
  <2> HIDE DEF new, kind, reply
  <2> QED
    BY <1>1, <1>2, <1>5, <1>7, <2>1, <2>2, <2>3, WritesIInv
<1> QED
  BY <1>8, <1>9 DEF Transacted

\* The provider carries out at most the mutation asked for, and only once.
CarriesOutOnly(p, kind) ==
    /\ carriedOut' \in [Proposal -> [Kind -> Answer \cup {Nothing}]]
    /\ \A q \in Proposal, l \in Kind :
          carriedOut'[q][l] # carriedOut[q][l] =>
             q = p /\ l = kind /\ carriedOut[q][l] = Nothing

\* A flight goes on: to the provider, which may carry its mutation out.
LEMMA FliesIInv ==
    ASSUME IInv, NEW c \in Caller, NEW p \in Proposal, NEW kind \in Kind, Flying(c, p, kind),
           NEW k \in Waiting, k.at = "transacting", k.p = p, k.kind = kind,
           call' = [call EXCEPT ![c] = k], settings' \in Settings,
           UNCHANGED <<now, proposals, overlays, contested>>,
           CarriesOutOnly(p, kind),
           k.reply.answer = "committed" => carriedOut'[p][kind] # Nothing,
           k.reply.answer = "conflict" => carriedOut'[p][kind] = Nothing
    PROVE  IInv'
<1>1. \A d \in Caller : call'[d] = IF d = c THEN k ELSE call[d]
  BY DEF IInv, TypeInv
<1>2. \A d \in Caller, q \in Proposal, l \in Kind : Flying(d, q, l)' <=> Flying(d, q, l)
  BY <1>1 DEF Flying
<1>3. \A d \in Caller, q \in Proposal, place \in {"creating", "expiring", "approving"} :
         Concerns(d, place, q)' <=> Concerns(d, place, q)
  BY <1>1 DEF Concerns, Flying
<1>4. TypeInv'
  BY DEF IInv, TypeInv, CarriesOutOnly
<1>5. Placed'
  BY <1>2, <1>3 DEF IInv, Placed, Is, Expired
<1>6. FlightsAreAlone'
  BY <1>2 DEF IInv, FlightsAreAlone, Is, Kind
<1>7. RepliesHold'
  <2> SUFFICES ASSUME NEW d \in Caller, At(d, "transacting")'
               PROVE  /\ call'[d].reply.answer = "committed" =>
                            carriedOut'[call'[d].p][call'[d].kind] # Nothing
                      /\ call'[d].reply.answer = "conflict" =>
                            carriedOut'[call'[d].p][call'[d].kind] = Nothing
    BY DEF RepliesHold
  <2>1. CASE d = c
    BY <1>1, <2>1
  <2>2. CASE d # c
    <3>1. /\ call'[d] = call[d] /\ At(d, "transacting") /\ call[d] \in Waiting
          /\ call[d].p \in Proposal /\ call[d].kind \in Kind
      BY <1>1, <2>2, Shapes DEF At, IInv, TypeInv
    <3>2. ~(call[d].p = p /\ call[d].kind = kind)
      BY <2>2, <3>1 DEF IInv, FlightsAreAlone, Flying, At
    <3> QED
      BY <3>1, <3>2 DEF IInv, RepliesHold, CarriesOutOnly
  <2> QED
    BY <2>1, <2>2
<1>8. ReceiptsAreTrue'
  BY DEF IInv, ReceiptsAreTrue, FlightsAreAlone, CarriesOutOnly, Is, Kind
<1>9. InOrder'
  BY <1>2, <1>3 DEF IInv, InOrder, Is, Expired, Kind
<1> QED
  BY <1>4, <1>5, <1>6, <1>7, <1>8, <1>9 DEF IInv

LEMMA FlightIInv ==
    ASSUME IInv, NEW c \in Caller, Intended(c) \/ Transact(c)
    PROVE  IInv'
<1> DEFINE p == call[c].p
           kind == call[c].kind
<1>1. call[c] \in Waiting /\ p \in Proposal /\ kind \in Kind /\ Flying(c, p, kind)
  BY Shapes DEF Intended, Transact, At, IInv, TypeInv, Flying
<1>2. CASE Intended(c)
  <2> DEFINE k == [at |-> "transacting", p |-> p, kind |-> kind, reply |-> Nothing]
  <2>1. /\ k \in Waiting /\ k.at = "transacting" /\ k.p = p /\ k.kind = kind
        /\ k.reply = Nothing /\ call' = [call EXCEPT ![c] = k]
    BY <1>1, <1>2, Answers DEF Intended, Awaits, Waiting
  <2>2. /\ settings' \in Settings /\ UNCHANGED <<now, proposals, overlays, contested, carriedOut>>
        /\ carriedOut \in [Proposal -> [Kind -> Answer \cup {Nothing}]]
    BY <1>2 DEF Intended, IInv, TypeInv
  <2>3. CarriesOutOnly(p, kind)
    BY <2>2 DEF CarriesOutOnly
  <2> HIDE DEF k, p, kind
  <2> QED
    BY <1>1, <2>1, <2>2, <2>3, Answers, FliesIInv
<1>3. CASE Transact(c)
  <2> DEFINE next == Changed(settings, p, kind)
             done == [answer |-> "committed", after |-> next]
             refused == [answer |-> "conflict"]
  <2>1. call[c] \in [at : {"transacting"}, p : Proposal, kind : Kind, reply : Reply]
    BY <1>1, <1>3 DEF Transact, At, Waiting
  <2>2. next \in Settings /\ done \in Answer
    BY <1>1 DEF Changed, Settings, Answer, IInv, TypeInv
  <2>3. /\ carriedOut \in [Proposal -> [Kind -> Answer \cup {Nothing}]] /\ settings \in Settings
        /\ UNCHANGED <<now, proposals, overlays, contested>>
    BY <1>3 DEF Transact, IInv, TypeInv
  <2>4. ASSUME NEW r \in Reply, call' = [call EXCEPT ![c].reply = r], settings' \in Settings,
               \/ carriedOut' = carriedOut
               \/ carriedOut[p][kind] = Nothing /\ carriedOut' = [carriedOut EXCEPT ![p][kind] = done],
               r.answer = "committed" => carriedOut'[p][kind] # Nothing,
               r.answer = "conflict" => carriedOut'[p][kind] = Nothing
        PROVE  IInv'
    <3> DEFINE k == [call[c] EXCEPT !.reply = r]
    <3>1. /\ k \in Waiting /\ k.at = "transacting" /\ k.p = p /\ k.kind = kind /\ k.reply = r
      BY <2>1, <2>4 DEF Waiting
    <3>2. call' = [call EXCEPT ![c] = k]
      BY <2>4
    <3>3. CarriesOutOnly(p, kind)
      BY <1>1, <2>2, <2>3, <2>4 DEF CarriesOutOnly
    <3>4. /\ k.reply.answer = "committed" => carriedOut'[p][kind] # Nothing
          /\ k.reply.answer = "conflict" => carriedOut'[p][kind] = Nothing
      BY <2>4, <3>1
    <3>5. settings' \in Settings
      BY <2>4
    <3> HIDE DEF k, p, kind
    <3> QED
      BY <1>1, <2>3, <3>1, <3>2, <3>3, <3>4, <3>5, FliesIInv
  <2>5. CASE /\ carriedOut[p][kind] # Nothing
             /\ call' = [call EXCEPT ![c].reply = carriedOut[p][kind]]
             /\ UNCHANGED <<settings, carriedOut>>
    <3>1. carriedOut[p][kind] \in Answer
      BY <1>1, <2>3, <2>5
    <3> QED
      BY <2>3, <2>4, <2>5, <3>1, Answers
  <2>6. CASE /\ carriedOut[p][kind] = Nothing /\ settings' = next
             /\ carriedOut' = [carriedOut EXCEPT ![p][kind] = done]
             /\ call' = [call EXCEPT ![c].reply = done]
    <3>1. carriedOut'[p][kind] = done
      BY <1>1, <2>3, <2>6
    <3> QED
      BY <2>2, <2>4, <2>6, <3>1, Answers
  <2>7. CASE /\ carriedOut[p][kind] = Nothing /\ call' = [call EXCEPT ![c].reply = refused]
             /\ UNCHANGED <<settings, carriedOut>>
    BY <2>3, <2>4, <2>7, Answers
  <2> QED
    BY <1>3, <2>5, <2>6, <2>7 DEF Transact
<1> QED
  BY <1>2, <1>3

LEMMA TickIInv == IInv /\ Tick => IInv'
<1> SUFFICES ASSUME IInv, Tick PROVE IInv'
  OBVIOUS
<1>1. \A p \in Proposal : ~Is(p, "absent") /\ Expired(p) => Expired(p)'
  <2> SUFFICES ASSUME NEW p \in Proposal, ~Is(p, "absent"), Expired(p) PROVE Expired(p)'
    OBVIOUS
  <2>1. proposals[p].expires \in Nat /\ now \in Nat /\ now' = now + 1 /\ proposals' = proposals
    BY States DEF Tick, IInv, TypeInv, Is
  <2> QED
    BY <2>1 DEF Expired
<1>2. TypeInv'
  BY DEF Tick, IInv, TypeInv
<1>3. Placed'
  BY <1>1 DEF Tick, IInv, Placed, Concerns, Flying, Is
<1>4. FlightsAreAlone' /\ RepliesHold' /\ ReceiptsAreTrue'
  BY DEF Tick, IInv, FlightsAreAlone, RepliesHold, ReceiptsAreTrue, Flying, At, Is
<1>5. InOrder'
  BY <1>1 DEF Tick, IInv, InOrder, Concerns, Flying, Is
<1> QED
  BY <1>2, <1>3, <1>4, <1>5 DEF IInv

-----------------------------------------------------------------------------
(* The overlays' turns leave proposals alone.                              *)

LEMMA OverlaysIInv ==
    ASSUME IInv, NEW c \in Caller,
           Dispose(c) \/ Disposed(c) \/ Stage(c) \/ HasStaged(c) \/ Fails(c)
    PROVE  IInv'
<1>1. Expiries \subseteq Nat /\ 0 \in Nat
  BY AuthorityAssumption DEF Expiries, IInv, TypeInv
<1>2. ASSUME NEW s \in Subject, NEW base \in Overlay \cup {None}, NEW e \in Nat,
             NEW o \in Staged(s, base, e)
      PROVE  o \in Overlay
  <2> DEFINE expiry == IF base = None \/ e < base.expires THEN e ELSE base.expires
  <2>1. expiry \in Nat
    BY <1>2 DEF Overlay
  <2>2. PICK objects \in SUBSET Object :
           o = [state |-> "staged", objects |-> objects, expires |-> expiry]
    BY <1>2 DEF Staged, Edited
  <2> HIDE DEF expiry
  <2> QED
    BY <2>1, <2>2 DEF Overlay
<1>3. ASSUME NEW s \in Subject, NEW e \in Nat
      PROVE  [at |-> "disposing", s |-> s, expires |-> e] \in Aside
  BY DEF Aside
<1>4. ASSUME NEW s \in Subject, NEW o \in Overlay
      PROVE  [at |-> "staging", s |-> s, candidate |-> o] \in Aside
  BY DEF Aside
<1>5. overlays \in [Subject -> Overlay \cup {None}]
  BY DEF IInv, TypeInv
<1>6. CASE Dispose(c)
  <2>1. PICK k \in Aside : call' = [call EXCEPT ![c] = k]
    BY <1>1, <1>3, <1>6 DEF Dispose, Awaits
  <2>2. contested \subseteq contested'
    BY <1>6 DEF Dispose, Contested
  <2> QED
    BY <1>5, <1>6, <2>1, <2>2, AsideIInv DEF Dispose
<1>7. CASE Stage(c)
  <2>1. PICK s \in Subject, e \in Expiries :
           /\ contested' = Contested(s)
           /\ \E o \in Staged(s, overlays[s], e) :
                 Awaits(c, [at |-> "staging", s |-> s, candidate |-> o])
    BY <1>7 DEF Stage
  <2>2. Staged(s, overlays[s], e) \subseteq Overlay
    BY <1>1, <1>2, <1>5
  <2>3. PICK k \in Aside : call' = [call EXCEPT ![c] = k]
    BY <1>4, <2>1, <2>2 DEF Awaits
  <2>4. contested \subseteq contested'
    BY <2>1 DEF Contested
  <2> QED
    BY <1>5, <1>7, <2>3, <2>4, AsideIInv DEF Stage
<1>8. CASE Disposed(c)
  <2>1. call[c] \in Aside /\ call[c].at = "disposing"
    BY <1>8, Shapes DEF Disposed, At, IInv, TypeInv
  <2>2. call[c].s \in Subject /\ call[c].expires \in Nat
    BY <2>1 DEF Aside, Idle
  <2>3. overlays' \in [Subject -> Overlay \cup {None}]
    BY <1>5, <1>8, <2>2 DEF Disposed
  <2>4. PICK k \in Aside : call' = [call EXCEPT ![c] = k]
    <3>1. CASE Returns(c)
      BY <3>1, Shapes DEF Returns
    <3>2. CASE \E o \in Staged(call[c].s, None, call[c].expires) :
                  Awaits(c, [at |-> "staging", s |-> call[c].s, candidate |-> o])
      BY <1>2, <1>4, <2>2, <3>2 DEF Awaits
    <3> QED
      BY <1>8, <3>1, <3>2 DEF Disposed
  <2> QED
    BY <1>8, <2>3, <2>4, AsideIInv DEF Disposed
<1>9. CASE HasStaged(c)
  <2>1. call[c] \in Aside /\ call[c].at = "staging"
    BY <1>9, Shapes DEF HasStaged, At, IInv, TypeInv
  <2>2. call[c].candidate \in Overlay
    BY <2>1 DEF Aside, Idle
  <2>3. overlays' \in [Subject -> Overlay \cup {None}]
    BY <1>5, <1>9, <2>2 DEF HasStaged
  <2> QED
    BY <1>9, <2>3, Shapes, AsideIInv DEF HasStaged, Returns
<1>10. CASE Fails(c)
  BY <1>5, <1>10, Shapes, AsideIInv DEF Fails, Returns
<1> QED
  BY <1>6, <1>7, <1>8, <1>9, <1>10

-----------------------------------------------------------------------------
LEMMA NextIInv == IInv /\ [Next]_vars => IInv'
<1> SUFFICES ASSUME IInv, [Next]_vars PROVE IInv'
  OBVIOUS
<1>1. ASSUME UNCHANGED vars PROVE IInv'
  BY <1>1 DEF vars, IInv, TypeInv, Placed, FlightsAreAlone, RepliesHold, ReceiptsAreTrue, InOrder,
              Concerns, Flying, Is, Expired, At
<1> QED
  BY <1>1, BeginsIInv, CreatedIInv, HasExpiredIInv, ApprovedIInv, FlightIInv, TransactedIInv,
     OverlaysIInv, TickIInv DEF Next

THEOREM Invariance == Spec => []IInv
<1>1. Init => IInv
  BY InitIInv
<1>2. IInv /\ [Next]_vars => IInv'
  BY NextIInv
<1> QED
  BY <1>1, <1>2, PTL DEF Spec

\* A receipt says what the settings' store did: the flight that wrote it was
\* alone, and no later one undoes what it reported.
THEOREM ReceiptsStayTrue == Spec => []ReceiptsAreTrue
<1>1. IInv => ReceiptsAreTrue
  BY DEF IInv
<1> QED
  BY <1>1, Invariance, PTL

\* The state of a settled proposal that is neither expired nor contested only
\* moves from committed to what a rollback reports.
THEOREM UncontestedStays == Spec => UncontestedIsFinal
<1> DEFINE Stays == \A p \in Proposal : Moved(p) => Expired(p) \/ p \in contested
<1>1. ASSUME IInv, [Next]_vars, NEW p \in Proposal, Moved(p), ~Expired(p), p \notin contested
      PROVE  FALSE
  <2>1. /\ ~Is(p, "absent") /\ ~Is(p, "pending") /\ ~Is(p, "approved")
        /\ proposals'[p].state # proposals[p].state
    BY <1>1 DEF Moved, Settled, Is
  <2>2. PICK c \in Caller : /\ \/ Created(c) \/ HasExpired(c) \/ Approved(c) \/ Transacted(c)
                            /\ call[c].p = p
    <3>1. proposals' # proposals
      BY <2>1
    <3>2. PICK c \in Caller : Created(c) \/ HasExpired(c) \/ Approved(c) \/ Transacted(c)
      BY <1>1, <3>1 DEF Next, vars, Create, Expire, Approve, Apply, RollBack, Intended, Transact,
                        Dispose, Disposed, Stage, HasStaged, Fails, Tick
    <3>3. \A q \in Proposal : q # call[c].p => proposals'[q] = proposals[q]
      BY <1>1, <3>2 DEF Created, HasExpired, Approved, Transacted, Becomes, IInv, TypeInv
    <3> QED
      BY <2>1, <3>2, <3>3
  <2>3. ~Created(c)
    BY <1>1, <2>1, <2>2 DEF Created, At, IInv, Placed, Concerns
  <2>4. ~HasExpired(c)
    BY <1>1, <2>2 DEF HasExpired, At, IInv, Placed, Concerns
  <2>5. ~Approved(c)
    BY <1>1, <2>1, <2>2 DEF Approved, At, IInv, InOrder, Concerns
  <2>6. Transacted(c)
    BY <2>2, <2>3, <2>4, <2>5
  <2>7. call[c].kind = "rollback" /\ Is(p, "committed")
    BY <1>1, <2>1, <2>2, <2>6 DEF Transacted, At, IInv, InOrder, Flying
  <2>8. \E v \in {"rolled-back", "rollback-conflict"} : Becomes(p, v)
    BY <2>2, <2>6, <2>7 DEF Transacted
  <2>9. proposals'[p].state \in {"rolled-back", "rollback-conflict"}
    <3>1. proposals[p] \in Known
      BY <1>1, <2>1, States DEF IInv, TypeInv, Is
    <3> QED
      BY <1>1, <2>8, <3>1 DEF Becomes, IInv, TypeInv, Known
  <2> QED
    BY <1>1, <2>7, <2>9 DEF Moved
<1>2. IInv /\ [Next]_vars => [Stays]_vars
  BY <1>1
<1> QED
  BY <1>2, Invariance, PTL DEF Spec, UncontestedIsFinal

-----------------------------------------------------------------------------
(* Overlays.  Nobody else concerned with an uncontested subject, its       *)
(* overlay is still the one that the candidate was made from.              *)

About(c, s) == call[c].at \in {"disposing", "staging"} /\ call[c].s = s

BuildsOn(old, new) ==
    /\ new.expires <= old.expires
    /\ Cardinality(old.objects \ new.objects) <= 1

OverlaysInOrder ==
    \A s \in Subject, c \in Caller :
        About(c, s) /\ s \notin contested =>
            /\ \A d \in Caller : About(d, s) => d = c
            /\ At(c, "staging") /\ overlays[s] # None => BuildsOn(overlays[s], call[c].candidate)

LEMMA StagedBuildsOn ==
    ASSUME IsFiniteSet(Object), NEW s \in Subject, NEW base \in Overlay, NEW e \in Nat,
           base # None, NEW o \in Staged(s, base, e)
    PROVE  BuildsOn(base, o)
<1> DEFINE expiry == IF base = None \/ e < base.expires THEN e ELSE base.expires
<1>1. expiry <= base.expires
  BY DEF Overlay
<1>2. PICK n \in Edited(base) : o = [state |-> "staged", objects |-> n, expires |-> expiry]
  BY DEF Staged
<1> HIDE DEF expiry
<1>3. o.objects = n /\ o.expires = expiry
  BY <1>2
<1>4. Cardinality((n \ base.objects) \cup (base.objects \ n)) <= 1 /\ n \subseteq Object
  BY <1>2 DEF Edited
<1> DEFINE gone == base.objects \ n
           moved == (n \ base.objects) \cup (base.objects \ n)
<1>5. gone \subseteq moved /\ moved \subseteq Object
  BY <1>4 DEF Overlay
<1>6. IsFiniteSet(moved)
  BY <1>5, FS_Subset
<1>7. Cardinality(gone) <= Cardinality(moved) /\ Cardinality(gone) \in Nat /\ Cardinality(moved) \in Nat
  BY <1>5, <1>6, FS_Subset, FS_CardinalityType
<1>8. Cardinality(gone) <= 1
  BY <1>4, <1>7
<1> QED
  BY <1>1, <1>3, <1>8 DEF BuildsOn

LEMMA InitOverlays == Init => OverlaysInOrder
BY DEF Init, OverlaysInOrder, About, Idle

\* Turns that concern proposals
LEMMA ProposalsKeepOverlays ==
    ASSUME UNCHANGED overlays, contested \subseteq contested', OverlaysInOrder,
           \A d \in Caller : call'[d] = call[d] \/ call'[d].at \notin {"disposing", "staging"}
    PROVE  OverlaysInOrder'
BY DEF OverlaysInOrder, About, At

\* A call about s begins
LEMMA BeginsOverlays ==
    ASSUME TypeInv, OverlaysInOrder, NEW c \in Caller, NEW k, call' = [call EXCEPT ![c] = k],
           ~\E s \in Subject : About(c, s), UNCHANGED overlays, contested' = Contested(k.s), k.s \in Subject,
           k.at = "staging" /\ overlays[k.s] # None => BuildsOn(overlays[k.s], k.candidate)
    PROVE  OverlaysInOrder'
<1>1. \A d \in Caller : call'[d] = IF d = c THEN k ELSE call[d]
  BY DEF TypeInv
<1>2. \A t : t \in contested' <=> t \in contested \/ (t = k.s /\ \E d \in Caller : About(d, k.s))
  BY DEF Contested, About
<1> QED
  BY <1>1, <1>2 DEF OverlaysInOrder, About, At

LEMMA NextOverlays ==
    ASSUME IsFiniteSet(Object), IInv, OverlaysInOrder, [Next]_vars
    PROVE  OverlaysInOrder' /\ \A s \in Subject :
              overlays[s] # None /\ overlays'[s] # None /\ s \notin contested =>
                 overlays'[s] = overlays[s] \/ BuildsOn(overlays[s], overlays'[s])
<1> DEFINE Built == \A s \in Subject :
              overlays[s] # None /\ overlays'[s] # None /\ s \notin contested =>
                 overlays'[s] = overlays[s] \/ BuildsOn(overlays[s], overlays'[s])
<1>0. /\ call \in [Caller -> Waiting \cup Aside] /\ overlays \in [Subject -> Overlay \cup {None}]
      /\ Expiries \subseteq Nat
  BY AuthorityAssumption DEF Expiries, IInv, TypeInv
<1>1. ASSUME UNCHANGED overlays PROVE Built
  BY <1>1
<1>2. ASSUME NEW c \in Caller,
             \/ Create(c) \/ Created(c) \/ Expire(c) \/ HasExpired(c) \/ Approve(c) \/ Approved(c)
             \/ Apply(c) \/ RollBack(c) \/ Intended(c) \/ Transact(c) \/ Transacted(c) \/ Fails(c)
      PROVE  OverlaysInOrder' /\ Built
  <2>1. UNCHANGED overlays /\ contested \subseteq contested'
    BY <1>2 DEF Create, Created, Expire, HasExpired, Approve, Approved, Apply, RollBack, Intended,
                Transact, Transacted, Fails
  <2>2. /\ \A d \in Caller \ {c} : call'[d] = call[d]
        /\ call'[c].at \notin {"disposing", "staging"}
    <3>1. CASE Create(c) \/ Expire(c) \/ Approve(c) \/ Apply(c) \/ RollBack(c) \/ Intended(c)
      BY <1>0, <3>1 DEF Create, Expire, Approve, Apply, RollBack, Intended, Awaits
    <3>2. CASE Created(c) \/ HasExpired(c) \/ Approved(c) \/ Transacted(c) \/ Fails(c)
      BY <1>0, <3>2 DEF Created, HasExpired, Approved, Transacted, Fails, Returns, Idle
    <3>3. CASE Transact(c)
      <4>1. call[c] \in [at : {"transacting"}, p : Proposal, kind : Kind, reply : Reply]
        BY <1>0, <3>3, Shapes DEF Transact, At, Waiting
      <4>2. \E r : call' = [call EXCEPT ![c].reply = r]
        BY <3>3 DEF Transact
      <4> QED
        BY <1>0, <4>1, <4>2
    <3> QED
      BY <1>2, <3>1, <3>2, <3>3
  <2> QED
    BY <1>1, <2>1, <2>2, ProposalsKeepOverlays
<1>3. ASSUME NEW c \in Caller, Dispose(c) PROVE OverlaysInOrder' /\ Built
  <2>1. PICK s \in Subject, e \in Nat :
           contested' = Contested(s) /\ Awaits(c, [at |-> "disposing", s |-> s, expires |-> e])
    BY <1>0, <1>3 DEF Dispose
  <2> DEFINE k == [at |-> "disposing", s |-> s, expires |-> e]
  <2>2. k.at = "disposing" /\ k.s = s /\ call' = [call EXCEPT ![c] = k] /\ UNCHANGED overlays
    BY <1>3, <2>1 DEF Awaits, Dispose
  <2>3. ~\E t \in Subject : About(c, t)
    BY <1>3 DEF Dispose, At, About
  <2> HIDE DEF k
  <2>4. OverlaysInOrder'
    BY <2>1, <2>2, <2>3, BeginsOverlays DEF IInv
  <2> QED
    BY <1>1, <2>2, <2>4
<1>4. ASSUME NEW c \in Caller, Stage(c) PROVE OverlaysInOrder' /\ Built
  <2>1. PICK s \in Subject, e \in Expiries :
           /\ contested' = Contested(s)
           /\ \E o \in Staged(s, overlays[s], e) :
                 Awaits(c, [at |-> "staging", s |-> s, candidate |-> o])
    BY <1>4 DEF Stage
  <2>2. PICK o \in Staged(s, overlays[s], e) :
           Awaits(c, [at |-> "staging", s |-> s, candidate |-> o])
    BY <2>1
  <2>3. overlays[s] # None => BuildsOn(overlays[s], o)
    BY <1>0, StagedBuildsOn
  <2> DEFINE k == [at |-> "staging", s |-> s, candidate |-> o]
  <2>4. /\ k.at = "staging" /\ k.s = s /\ k.candidate = o
        /\ call' = [call EXCEPT ![c] = k] /\ UNCHANGED overlays
    BY <1>4, <2>2 DEF Awaits, Stage
  <2>5. ~\E t \in Subject : About(c, t)
    BY <1>4 DEF Stage, At, About
  <2> HIDE DEF k
  <2>6. OverlaysInOrder'
    BY <2>1, <2>3, <2>4, <2>5, BeginsOverlays DEF IInv
  <2> QED
    BY <1>1, <2>4, <2>6
<1>5. ASSUME NEW c \in Caller, Disposed(c) PROVE OverlaysInOrder' /\ Built
  <2>1. call[c] \in Aside /\ About(c, call[c].s) /\ At(c, "disposing") /\ call[c].s \in Subject
    <3>1. call[c] \in Aside /\ call[c].at = "disposing"
      BY <1>0, <1>5, Shapes DEF Disposed, At
    <3> QED
      BY <3>1 DEF Aside, Idle, About, At
  <2>2. /\ overlays' = [overlays EXCEPT ![call[c].s] = None] /\ contested' = contested
        /\ \A d \in Caller \ {c} : call'[d] = call[d]
        /\ \A t \in Subject : About(c, t)' => t = call[c].s
    <3>1. CASE Returns(c)
      BY <1>0, <1>5, <3>1 DEF Disposed, Returns, Idle, About
    <3>2. CASE \E o \in Staged(call[c].s, None, call[c].expires) :
                  Awaits(c, [at |-> "staging", s |-> call[c].s, candidate |-> o])
      BY <1>0, <1>5, <3>2 DEF Disposed, Awaits, About
    <3> QED
      BY <1>5, <3>1, <3>2 DEF Disposed
  <2>3. OverlaysInOrder'
    BY <1>0, <2>1, <2>2 DEF OverlaysInOrder, About, At
  <2>4. Built
    BY <1>0, <2>1, <2>2
  <2> QED
    BY <2>3, <2>4
<1>6. ASSUME NEW c \in Caller, HasStaged(c) PROVE OverlaysInOrder' /\ Built
  <2>1. call[c] \in Aside /\ About(c, call[c].s) /\ At(c, "staging") /\ call[c].s \in Subject
    <3>1. call[c] \in Aside /\ call[c].at = "staging"
      BY <1>0, <1>6, Shapes DEF HasStaged, At
    <3> QED
      BY <3>1 DEF Aside, Idle, About, At
  <2>2. /\ overlays' = [overlays EXCEPT ![call[c].s] = call[c].candidate] /\ contested' = contested
        /\ \A d \in Caller : call'[d] = IF d = c THEN Idle ELSE call[d]
    BY <1>0, <1>6 DEF HasStaged, Returns
  <2>3. Idle.at = "idle"
    BY DEF Idle
  <2>4. OverlaysInOrder'
    BY <1>0, <2>1, <2>2, <2>3 DEF OverlaysInOrder, About, At
  <2>5. Built
    BY <1>0, <2>1, <2>2 DEF OverlaysInOrder
  <2> QED
    BY <2>4, <2>5
<1>7. ASSUME Tick \/ UNCHANGED vars PROVE OverlaysInOrder' /\ Built
  BY <1>1, <1>7, ProposalsKeepOverlays DEF Tick, vars
<1> HIDE DEF Built
<1>8. OverlaysInOrder' /\ Built
  BY <1>2, <1>3, <1>4, <1>5, <1>6, <1>7 DEF Next
<1> QED
  BY <1>8 DEF Built

\* Whoever stages an uncontested overlay extends what the last one left, by
\* one object at a time and never its life.
THEOREM UncontestedBuildsUp ==
    ASSUME IsFiniteSet(Object)
    PROVE  Spec => UncontestedOverlaysBuildUp
<1> DEFINE Builds ==
       \A s \in Subject :
          overlays[s] # None /\ overlays'[s] # None /\ s \notin contested =>
              /\ overlays'[s].expires <= overlays[s].expires
              /\ Cardinality(overlays[s].objects \ overlays'[s].objects) <= 1
<1>1. Init => OverlaysInOrder
  BY InitOverlays
<1>2. IInv /\ OverlaysInOrder /\ [Next]_vars => OverlaysInOrder'
  BY NextOverlays
<1>3. IInv /\ OverlaysInOrder /\ [Next]_vars => [Builds]_vars
  <2> SUFFICES ASSUME IInv, OverlaysInOrder, [Next]_vars, NEW s \in Subject,
                      overlays[s] # None, overlays'[s] # None, s \notin contested
               PROVE  BuildsOn(overlays[s], overlays'[s])
    BY DEF BuildsOn
  <2>1. overlays[s] \in Overlay
    BY DEF IInv, TypeInv
  <2>2. overlays[s].expires <= overlays[s].expires
    BY <2>1 DEF Overlay
  <2>3. overlays[s].objects \ overlays[s].objects = {} /\ Cardinality({}) = 0
    BY FS_EmptySet
  <2>4. BuildsOn(overlays[s], overlays[s])
    BY <2>2, <2>3 DEF BuildsOn
  <2> QED
    BY <2>4, NextOverlays
<1> QED
  BY <1>1, <1>2, <1>3, Invariance, PTL DEF Spec, UncontestedOverlaysBuildUp
=============================================================================
