----------------------------- MODULE MCDashboard -----------------------------
(* A browser looks at session 1; the second task may be of another one.    *)
EXTENDS Pages

MCHome == [t \in TaskId |-> IF t = 2 THEN Session ELSE {1}]
MCSessionOf == [v \in Viewer |-> v]
=============================================================================
