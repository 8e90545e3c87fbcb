---------------------------- MODULE MCLocalTasks ----------------------------
(* Two tasks of one workspace and a third of a nested one; or tasks of one *)
(* lane in workspaces apart.                                               *)
EXTENDS LocalTasks, TLC

CONSTANTS t1, t2, outer, inner

MCNested == [t \in Task |-> IF t = t1 THEN inner ELSE outer]
MCApart == [t \in Task |-> t]
MCOverlaps == {<<inner, outer>>}
MCOneLane == [t \in Task |-> "lane"]
MCOwnLanes == [t \in Task |-> IF t = t1 THEN "inner" ELSE "outer"]
=============================================================================
