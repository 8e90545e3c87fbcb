----------------------------- MODULE SettingsTab -----------------------------
(***************************************************************************)
(* The settings tab's controller (config-controller.ts), the tab that      *)
(* calls it (TaskDispatcherSettingsTab.tsx) and the host's settings        *)
(* (createDispatcherConfigController), which count revisions from zero in  *)
(* every process.  Policies are sets of edits made to the deployment's.    *)
(***************************************************************************)
EXTENDS Naturals

CONSTANTS
    Edit,
    None,
    MaxSaves,    \* bound: saves under way
    MaxRevision, \* bound
    MaxRestarts  \* bound

VARIABLES
    host,  \* the settings: value and revision of this process
    snap,  \* state.snapshot
    draft, \* state.draft
    view,  \* the other fields of state, and whether a tab is mounted
    load,  \* the load that has not been superseded
    saves  \* saves under way; "orphan" ones are of an earlier connection

vars == <<host, snap, draft, view, load, saves>>

Policy == SUBSET Edit
Snapshot == [value : Policy, revision : 0 .. MaxRevision, process : 0 .. MaxRestarts]
Phase == {"loading", "ready", "unavailable", "error"}

\* Replies of the host, the failure of a call among them
Pending == [is |-> "pending"]
Failed == [is |-> "failed"]
Conflict == [is |-> "conflict"]
Ok(s) == [is |-> "ok", snapshot |-> s]

-----------------------------------------------------------------------------
(* The controller.                                                         *)

\* load: supersedes the load under way.
Load(preserve) == load' = [preserve |-> preserve, reply |-> Pending]

Mount ==
    /\ ~view.mounted
    /\ view' = [view EXCEPT !.mounted = TRUE, !.phase = IF snap = None THEN "loading" ELSE @]
    /\ IF snap = None THEN Load(FALSE) ELSE UNCHANGED load
    /\ UNCHANGED <<host, snap, draft, saves>>

Unmount ==
    /\ view.mounted
    /\ view' = [view EXCEPT !.mounted = FALSE]
    /\ UNCHANGED <<host, snap, draft, load, saves>>

\* The tab shows an error and a button instead of the form.
Retry ==
    /\ view.mounted /\ view.phase # "loading"
    /\ snap = None \/ draft = None \/ view.phase = "error"
    /\ Load(FALSE)
    /\ view' = [view EXCEPT !.phase = IF snap = None THEN "loading" ELSE @]
    /\ UNCHANGED <<host, snap, draft, saves>>

\* accept
Accept(s, preserve, conflicted) ==
    /\ snap' = s
    /\ draft' = IF preserve /\ draft # None THEN draft ELSE s.value
    /\ view' = [view EXCEPT !.phase = "ready", !.saving = FALSE, !.conflicted = conflicted,
                            !.dirty = preserve /\ draft # None /\ draft # s.value]

Loaded ==
    /\ load # None /\ load.reply # Pending
    /\ load' = None
    /\ \/ load.reply # Failed /\ Accept(load.reply.snapshot, load.preserve, load.preserve)
       \/ /\ load.reply = Failed
          /\ \E phase \in {"error", "unavailable"} : view' = [view EXCEPT !.phase = phase]
          /\ UNCHANGED <<snap, draft>>
    /\ UNCHANGED <<host, saves>>

\* refreshAfterReconnect, after a lost connection or a restart of the host
Refresh ==
    /\ snap' = None
    /\ view' = [view EXCEPT !.phase = "loading", !.saving = FALSE,
                            !.conflicted = view.dirty /\ draft # None]
    /\ Load(view.dirty /\ draft # None)
    /\ UNCHANGED draft

Reconnect ==
    /\ Refresh
    /\ saves' = [i \in 1 .. MaxSaves |->
                    IF saves[i] = None THEN None ELSE [saves[i] EXCEPT !.orphan = TRUE]]
    /\ UNCHANGED host

Restart ==
    /\ host.process < MaxRestarts
    /\ host' = [host EXCEPT !.process = @ + 1, !.revision = 0]
    /\ Refresh
    /\ saves' = [i \in 1 .. MaxSaves |-> None]

-----------------------------------------------------------------------------
(* The form, shown by a mounted tab with a snapshot and a draft.           *)

Form ==
    /\ view.mounted /\ view.phase \notin {"loading", "error"}
    /\ snap # None /\ draft # None /\ ~view.saving

Change(d) ==
    /\ Form
    /\ draft' = d
    /\ view' = [view EXCEPT !.dirty = d # snap.value, !.conflicted = FALSE]
    /\ UNCHANGED <<host, snap, load, saves>>

EditDraft == \E e \in Edit : Change(IF e \in draft THEN draft \ {e} ELSE draft \cup {e})
Discard == view.dirty /\ Change(snap.value)
Reset == Change({})

Save ==
    /\ Form /\ view.dirty
    /\ \E i \in 1 .. MaxSaves :
          /\ saves[i] = None
          /\ saves' = [saves EXCEPT ![i] = [value |-> draft, seen |-> snap, reply |-> Pending,
                                            orphan |-> FALSE]]
    /\ view' = [view EXCEPT !.saving = TRUE, !.conflicted = FALSE]
    /\ UNCHANGED <<host, snap, draft, load>>

Saved(i) ==
    /\ saves[i] # None /\ saves[i].reply # Pending
    /\ saves' = [saves EXCEPT ![i] = None]
    /\ \/ saves[i].orphan /\ UNCHANGED <<snap, draft, view, load>>
       \/ /\ ~saves[i].orphan /\ saves[i].reply = Conflict
          /\ view' = [view EXCEPT !.saving = FALSE, !.conflicted = TRUE]
          /\ Load(TRUE)
          /\ UNCHANGED <<snap, draft>>
       \/ /\ ~saves[i].orphan /\ saves[i].reply = Failed
          /\ \E phase \in {view.phase, "unavailable"} :
                view' = [view EXCEPT !.saving = FALSE, !.phase = phase]
          /\ UNCHANGED <<snap, draft, load>>
       \/ /\ ~saves[i].orphan /\ saves[i].reply.is = "ok"
          /\ Accept(saves[i].reply.snapshot, FALSE, FALSE)
          /\ UNCHANGED load
    /\ UNCHANGED host

-----------------------------------------------------------------------------
(* The host and the connection.                                            *)

AnswerLoad ==
    /\ load # None /\ load.reply = Pending
    /\ \E r \in {Ok(host), Failed} : load' = [load EXCEPT !.reply = r]
    /\ UNCHANGED <<host, snap, draft, view, saves>>

\* Faulty: the revision is not compared.
CommitSaveUnchecked(i) ==
    /\ saves[i] # None /\ saves[i].reply = Pending
    /\ host.revision < MaxRevision
    /\ host' = [host EXCEPT !.value = saves[i].value, !.revision = @ + 1]
    /\ saves' = [saves EXCEPT ![i].reply = Ok(host')]
    /\ UNCHANGED <<snap, draft, view, load>>

\* save: settings.replace compares the revision.
CommitSave(i) ==
    /\ saves[i] # None /\ saves[i].reply = Pending
    /\ host.revision < MaxRevision
    /\ LET stored == [host EXCEPT !.value = saves[i].value, !.revision = @ + 1]
       IN  \/ /\ saves[i].seen.revision = host.revision
              /\ host' = stored
              /\ \E r \in {Ok(stored), Failed} : saves' = [saves EXCEPT ![i].reply = r]
           \/ /\ saves[i].seen.revision # host.revision
              /\ saves' = [saves EXCEPT ![i].reply = Conflict]
              /\ UNCHANGED host
           \/ saves' = [saves EXCEPT ![i].reply = Failed] /\ UNCHANGED host
    /\ UNCHANGED <<snap, draft, view, load>>

\* Another tab, a tool or a manual edit
EditElsewhere ==
    /\ host.revision < MaxRevision
    /\ \E v \in Policy : host' = [host EXCEPT !.value = v, !.revision = @ + 1]
    /\ UNCHANGED <<snap, draft, view, load, saves>>

Init ==
    /\ host = [value |-> {}, revision |-> 0, process |-> 0]
    /\ snap = None /\ draft = None /\ load = None
    /\ view = [phase |-> "loading", mounted |-> FALSE, dirty |-> FALSE,
               saving |-> FALSE, conflicted |-> FALSE]
    /\ saves = [i \in 1 .. MaxSaves |-> None]

Next ==
    \/ Mount \/ Unmount \/ Retry \/ Loaded \/ Reconnect \/ Restart
    \/ EditDraft \/ Discard \/ Reset \/ Save
    \/ AnswerLoad \/ EditElsewhere
    \/ \E i \in 1 .. MaxSaves : Saved(i) \/ CommitSave(i)

Spec == Init /\ [][Next]_vars

-----------------------------------------------------------------------------
(* "A conflicting tab or manual edit is refused rather than overwritten":  *)
(* what a save replaces is what its user was looking at, also when the     *)
(* host restarted and counts its revisions anew.                           *)
NothingUnseenIsOverwritten ==
    [][\A i \in 1 .. MaxSaves :
          /\ saves[i] # None /\ saves'[i] # None /\ saves[i].reply = Pending
          /\ host' # host
          /\ saves'[i].reply # Pending
          => host = saves[i].seen]_vars

(* "A dirty draft survives for explicit reconciliation": no answer of a    *)
(* load replaces it.                                                       *)
DraftsSurviveReloads ==
    [][load # None /\ load.reply # Pending /\ load' = None /\ view.dirty => draft' = draft]_vars
=============================================================================
