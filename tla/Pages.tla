-------------------------------- MODULE Pages --------------------------------
(***************************************************************************)
(* The plugin's two pages in the browser, the dashboard and the settings   *)
(* tab.  They share no state, so a behaviour follows one of them and the   *)
(* other rests.                                                            *)
(***************************************************************************)
EXTENDS Dashboard

CONSTANTS Edit, None, MaxSaves, MaxRevision, MaxRestarts

VARIABLES page, settings, snap, draft, view, load, saves

tab == <<settings, snap, draft, view, load, saves>>

Tab == INSTANCE SettingsTab WITH host <- settings

PagesInit == Init /\ Tab!Init /\ page \in {"tasks", "settings"}

PagesNext ==
    /\ UNCHANGED page
    /\ \/ page = "tasks" /\ Next /\ UNCHANGED tab
       \/ page = "settings" /\ Tab!Next /\ UNCHANGED vars

PagesSpec == PagesInit /\ [][PagesNext]_<<vars, tab, page>> /\ Fairness

(* A save of the settings page replaces what its user was looking at       *)
(* (SettingsTab).                                                          *)
NothingUnseenIsOverwritten == Tab!NothingUnseenIsOverwritten
=============================================================================
