--------------------------- MODULE ConfigProposals ---------------------------
(***************************************************************************)
(* ConfigProposalAuthority (config-proposals.js): proposals to change the  *)
(* settings are created, approved, applied once and rolled back once, and  *)
(* a subject's overlay is staged and disposed of, by callers whose turns   *)
(* interleave at every await of the audit sink and of the settings'        *)
(* transaction provider.                                                   *)
(*                                                                         *)
(* The provider compares and swaps the whole settings and answers a        *)
(* mutation it has carried out before with its first answer.  A call that  *)
(* fails has taken effect or never will.  A digest is the settings it is   *)
(* of: the proposals whose changes are in.  Other editors of the settings  *)
(* are like proposals.                                                     *)
(***************************************************************************)
EXTENDS Integers, FiniteSets

CONSTANTS
    Proposal, Subject, Object, Caller,
    MaxTtl,     \* MAX_TTL_MS
    MaxObjects, \* MAX_OVERLAY_OBJECTS
    MaxClock    \* bound

ASSUME AuthorityAssumption ==
    /\ MaxTtl \in Nat \ {0} /\ MaxObjects \in Nat \ {0}
    /\ MaxClock \in Nat

VARIABLES
    now,
    proposals,
    overlays,
    call,       \* where each caller awaits
    settings,   \* the provider's
    carriedOut, \* the provider's answers, by mutation
    contested   \* ghost: proposals approved, overlays changed by two calls at once

vars == <<now, proposals, overlays, call, settings, carriedOut, contested>>

Settings == SUBSET Proposal
None == [state |-> "absent"]
Nothing == [answer |-> "none"]

Settled == {"committed", "conflict", "expired", "rolled-back", "rollback-conflict"}
Final == Settled \ {"committed"}

Idle == [at |-> "idle"]
At(c, place) == call[c].at = place
Returns(c) == call' = [call EXCEPT ![c] = Idle]
Awaits(c, k) == call' = [call EXCEPT ![c] = k]

\* #expiry
Expiries == now + 1 .. now + MaxTtl

\* pathOps, and the provider's inverse of them
Changed(S, p, kind) == IF kind = "apply" THEN S \cup {p} ELSE S \ {p}

Is(p, state) == proposals[p].state = state
Expired(p) == proposals[p].expires <= now
Becomes(p, state) == proposals' = [proposals EXCEPT ![p].state = state]

\* Faulty: the flight is only known while the transaction runs.
InFlightOnceSent(p, kind) ==
    \E c \in Caller : /\ call[c].at = "transacting"
                      /\ call[c].p = p /\ call[c].kind = kind

\* The call that carries out a mutation; others that ask for it await its promise.
InFlight(p, kind) ==
    \E c \in Caller : /\ call[c].at \in {"intending", "transacting"}
                      /\ call[c].p = p /\ call[c].kind = kind

-----------------------------------------------------------------------------
(* Persistent proposals.                                                   *)

Create(c) ==
    /\ At(c, "idle")
    /\ \E p \in Proposal, e \in Expiries :
          /\ Is(p, "absent")
          /\ \A d \in Caller : ~(At(d, "creating") /\ call[d].p = p)
          /\ Awaits(c, [at |-> "creating", p |-> p, expected |-> settings, expires |-> e])
    /\ UNCHANGED <<now, proposals, overlays, settings, carriedOut, contested>>

Created(c) ==
    /\ At(c, "creating")
    /\ proposals' = [proposals EXCEPT ![call[c].p] =
                        [state |-> "pending", expected |-> call[c].expected,
                         expires |-> call[c].expires, after |-> Nothing]]
    /\ Returns(c)
    /\ UNCHANGED <<now, overlays, settings, carriedOut, contested>>

\* #expireProposal, called first by an approval or an application
Expire(c) ==
    /\ At(c, "idle")
    /\ \E p \in Proposal :
          /\ Is(p, "pending") \/ Is(p, "approved")
          /\ Expired(p)
          /\ Awaits(c, [at |-> "expiring", p |-> p])
    /\ UNCHANGED <<now, proposals, overlays, settings, carriedOut, contested>>

HasExpired(c) ==
    /\ At(c, "expiring")
    /\ Becomes(call[c].p, "expired")
    /\ Returns(c)
    /\ UNCHANGED <<now, overlays, settings, carriedOut, contested>>

Approve(c) ==
    /\ At(c, "idle")
    /\ \E p \in Proposal :
          /\ Is(p, "pending") /\ ~Expired(p)
          /\ Awaits(c, [at |-> "approving", p |-> p])
          /\ contested' = contested \cup
                {q \in {p} : \E d \in Caller : At(d, "approving") /\ call[d].p = p}
    /\ UNCHANGED <<now, proposals, overlays, settings, carriedOut>>

Approved(c) ==
    /\ At(c, "approving")
    /\ Becomes(call[c].p, "approved")
    /\ Returns(c)
    /\ UNCHANGED <<now, overlays, settings, carriedOut, contested>>

\* Faulty: a conflict is tried again.
ApplyAfterConflict(c) ==
    /\ At(c, "idle")
    /\ \E p \in Proposal :
          /\ Is(p, "approved") \/ Is(p, "conflict")
          /\ ~Expired(p) /\ ~InFlight(p, "apply")
          /\ Awaits(c, [at |-> "intending", p |-> p, kind |-> "apply"])
    /\ UNCHANGED <<now, proposals, overlays, settings, carriedOut, contested>>

\* applyPersistent.  A retry of a settled proposal only reads its receipt.  The
\* await of an #expireProposal that has nothing to do ends before a flight's own.
Apply(c) ==
    /\ At(c, "idle")
    /\ \E p \in Proposal :
          /\ Is(p, "approved") /\ ~Expired(p) /\ ~InFlight(p, "apply")
          /\ Awaits(c, [at |-> "intending", p |-> p, kind |-> "apply"])
    /\ UNCHANGED <<now, proposals, overlays, settings, carriedOut, contested>>

RollBack(c) ==
    /\ At(c, "idle")
    /\ \E p \in Proposal :
          /\ Is(p, "committed") /\ ~InFlight(p, "rollback")
          /\ Awaits(c, [at |-> "intending", p |-> p, kind |-> "rollback"])
    /\ UNCHANGED <<now, proposals, overlays, settings, carriedOut, contested>>

Intended(c) ==
    /\ At(c, "intending")
    /\ Awaits(c, [at |-> "transacting", p |-> call[c].p, kind |-> call[c].kind,
                  reply |-> Nothing])
    /\ UNCHANGED <<now, proposals, overlays, settings, carriedOut, contested>>

\* The provider carries the mutation out, or answers as it did before.
Transact(c) ==
    /\ At(c, "transacting") /\ call[c].reply = Nothing
    /\ LET p == call[c].p
           k == call[c].kind
           expected == IF k = "apply" THEN proposals[p].expected ELSE proposals[p].after
           next == Changed(settings, p, k)
           reply == [answer |-> "committed", after |-> next]
       IN  \/ /\ carriedOut[p][k] # Nothing
              /\ call' = [call EXCEPT ![c].reply = carriedOut[p][k]]
              /\ UNCHANGED <<settings, carriedOut>>
           \/ /\ carriedOut[p][k] = Nothing /\ settings = expected
              /\ settings' = next
              /\ carriedOut' = [carriedOut EXCEPT ![p][k] = reply]
              /\ call' = [call EXCEPT ![c].reply = reply]
           \/ /\ carriedOut[p][k] = Nothing /\ settings # expected
              /\ call' = [call EXCEPT ![c].reply = [answer |-> "conflict"]]
              /\ UNCHANGED <<settings, carriedOut>>
    /\ UNCHANGED <<now, proposals, overlays, contested>>

\* The rest of #applyOnce and #rollbackOnce
Transacted(c) ==
    /\ At(c, "transacting") /\ call[c].reply # Nothing
    /\ LET p == call[c].p
           committed == call[c].reply.answer = "committed"
       IN  \/ /\ call[c].kind = "apply" /\ committed
              /\ proposals' = [proposals EXCEPT ![p].state = "committed",
                                                ![p].after = call[c].reply.after]
           \/ call[c].kind = "apply" /\ ~committed /\ Becomes(p, "conflict")
           \/ call[c].kind = "rollback" /\ committed /\ Becomes(p, "rolled-back")
           \/ call[c].kind = "rollback" /\ ~committed /\ Becomes(p, "rollback-conflict")
    /\ Returns(c)
    /\ UNCHANGED <<now, overlays, settings, carriedOut, contested>>

-----------------------------------------------------------------------------
(* Overlays.                                                               *)

Contested(s) ==
    contested \cup {t \in {s} : \E c \in Caller : call[c].at \in {"disposing", "staging"}
                                                /\ call[c].s = t}
Stale(s) == overlays[s] # None /\ overlays[s].expires <= now

\* #expireOverlay, for a caller that goes on to stage, and for one that does not
Dispose(c) ==
    /\ At(c, "idle")
    /\ \E s \in Subject :
          /\ overlays[s] # None /\ contested' = Contested(s)
          /\ \/ Awaits(c, [at |-> "disposing", s |-> s, expires |-> 0])
             \/ /\ Stale(s)
                /\ \E e \in Expiries :
                      Awaits(c, [at |-> "disposing", s |-> s, expires |-> e])
    /\ UNCHANGED <<now, proposals, overlays, settings, carriedOut>>

\* One operation, add, set_enabled or remove, on a copy of the overlay's objects
Edited(base) ==
    {o \in SUBSET Object :
        /\ Cardinality(o) <= MaxObjects
        /\ base = None => Cardinality(o) = 1
        /\ base # None => Cardinality((o \ base.objects) \cup (base.objects \ o)) <= 1}

\* Faulty: every stage sets its own expiry.
StagedAfresh(s, base, expires) ==
    {[state |-> "staged", objects |-> o, expires |-> expires] : o \in Edited(base)}

\* The candidate of stageEphemeral, from what it read
Staged(s, base, expires) ==
    LET expiry == IF base = None \/ expires < base.expires THEN expires ELSE base.expires
    IN  {[state |-> "staged", objects |-> o, expires |-> expiry] : o \in Edited(base)}

Disposed(c) ==
    /\ At(c, "disposing")
    /\ LET s == call[c].s
       IN  /\ overlays' = [overlays EXCEPT ![s] = None]
           /\ \/ call[c].expires = 0 /\ Returns(c)
              \/ /\ call[c].expires # 0
                 /\ \E o \in Staged(s, None, call[c].expires) :
                       Awaits(c, [at |-> "staging", s |-> s, candidate |-> o])
    /\ UNCHANGED <<now, proposals, settings, carriedOut, contested>>

Stage(c) ==
    /\ At(c, "idle")
    /\ \E s \in Subject, e \in Expiries :
          /\ ~Stale(s) /\ contested' = Contested(s)
          /\ \E o \in Staged(s, overlays[s], e) :
                Awaits(c, [at |-> "staging", s |-> s, candidate |-> o])
    /\ UNCHANGED <<now, proposals, overlays, settings, carriedOut>>

HasStaged(c) ==
    /\ At(c, "staging")
    /\ overlays' = [overlays EXCEPT ![call[c].s] = call[c].candidate]
    /\ Returns(c)
    /\ UNCHANGED <<now, proposals, settings, carriedOut, contested>>

-----------------------------------------------------------------------------
\* The audit append is refused, or the provider's answer is lost.
Fails(c) ==
    /\ ~At(c, "idle")
    /\ Returns(c)
    /\ UNCHANGED <<now, proposals, overlays, settings, carriedOut, contested>>

Tick ==
    /\ now < MaxClock
    /\ now' = now + 1
    /\ UNCHANGED <<proposals, overlays, call, settings, carriedOut, contested>>

Init ==
    /\ now = 0
    /\ proposals = [p \in Proposal |-> None]
    /\ overlays = [s \in Subject |-> None]
    /\ call = [c \in Caller |-> Idle]
    /\ settings = {}
    /\ carriedOut = [p \in Proposal |-> [k \in {"apply", "rollback"} |-> Nothing]]
    /\ contested = {}

Next ==
    \/ \E c \in Caller :
          \/ Create(c) \/ Created(c) \/ Expire(c) \/ HasExpired(c)
          \/ Approve(c) \/ Approved(c) \/ Apply(c) \/ RollBack(c)
          \/ Intended(c) \/ Transact(c) \/ Transacted(c)
          \/ Dispose(c) \/ Disposed(c) \/ Stage(c) \/ HasStaged(c) \/ Fails(c)
    \/ Tick

Spec == Init /\ [][Next]_vars

-----------------------------------------------------------------------------
AuthorityTypeOK ==
    /\ now \in 0 .. MaxClock
    /\ \A p \in Proposal :
          \/ proposals[p] = None
          \/ /\ proposals[p].state \in Settled \cup {"pending", "approved"}
             /\ proposals[p].expected \in Settings
             /\ Is(p, "committed") => proposals[p].after \in Settings
    /\ \A s \in Subject :
          \/ overlays[s] = None
          \/ overlays[s].objects \in SUBSET Object /\ Cardinality(overlays[s].objects) <= MaxObjects
    /\ settings \in Settings
    /\ \A p \in Proposal :
          p \in settings <=> carriedOut[p].apply # Nothing /\ carriedOut[p].rollback = Nothing

(* What a receipt says of the settings is so, whatever was retried after   *)
(* an answer was lost, approved twice or expired meanwhile: a conflict is   *)
(* "never reported as committed", nor a commit as a conflict.              *)
ReceiptsAreTrue ==
    \A p \in Proposal :
        /\ Is(p, "committed") => carriedOut[p].apply # Nothing
        /\ Is(p, "conflict") => carriedOut[p].apply = Nothing
        /\ Is(p, "rolled-back") => carriedOut[p].rollback # Nothing
        /\ Is(p, "rollback-conflict") => carriedOut[p].rollback = Nothing

Moved(p) ==
    /\ proposals[p].state \in Settled
    /\ proposals'[p].state # proposals[p].state
    /\ ~(Is(p, "committed") /\ proposals'[p].state \in {"rolled-back", "rollback-conflict"})

(* "Apply an approved proposal once; exact retries return the cached       *)
(* receipt": of a proposal that has not expired and was not approved by    *)
(* two calls at once, the receipt is final, and a rollback's is too.       *)
UncontestedIsFinal ==
    [][\A p \in Proposal : Moved(p) => Expired(p) \/ p \in contested]_vars

(* A subject's calls that do not overlap find each other's work: what one  *)
(* staged stays until a call removes it or the overlay is disposed of, and *)
(* the overlay is "non-extensible", though each stage brings its own expiry *)
(* and the disposal of an expired one awaits before its successor is built. *)
UncontestedOverlaysBuildUp ==
    [][\A s \in Subject :
          overlays[s] # None /\ overlays'[s] # None /\ s \notin contested =>
              /\ overlays'[s].expires <= overlays[s].expires
              /\ Cardinality(overlays[s].objects \ overlays'[s].objects) <= 1]_vars
=============================================================================
