--------------------------- MODULE MCPlanGateway ----------------------------
(* PlanGateway on small sets of tasks and connections.                      *)
EXTENDS PlanGateway, TLC

CONSTANTS t1, t2, s1, s2

MCTwoTasks == {t1, t2}
MCCallers  == {t1}
MCSessions == {s1, s2}
MCOneSession == {s1}

(* Connections have no order and no role; tasks differ by their callback.   *)
SessionSymmetry == Permutations({s1, s2})
=============================================================================
