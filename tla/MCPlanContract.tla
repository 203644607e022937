--------------------------- MODULE MCPlanContract ---------------------------
(* PlanContract with two joints of about two turns, a turn being 16 ticks.  *)
EXTENDS PlanContract

CONSTANTS shoulder, wrist

MCJoints == {shoulder, wrist}
Pair(a, b) == [j \in MCJoints |-> IF j = shoulder THEN a ELSE b]

(* The wrist has less than a turn, so that some branches cannot be lifted.  *)
MCLo == Pair(-17, -6)
MCHi == Pair(17, 5)

MCSettings(home, force, steps) ==
  [hardware |-> FALSE, home |-> home, force |-> force, steps |-> steps,
   speed |-> Pair(1, 5), accel |-> Pair(3, 1), shortest |-> 2]

(* The homes are a tick more than MatchTol apart.                           *)
MCConfig ==
  [e \in Envs |->
     CASE e = "dev" -> MCSettings(Pair(0, 0), 2, 4)
       [] e = "sim" -> MCSettings(Pair(4, -2), 1, 3)
       [] e = "real" -> [MCSettings(Pair(0, 0), 2, 4) EXCEPT !.hardware = TRUE]]

(* Inside the limits, on them, within the gateway's tolerance, beyond it.   *)
MCReferences ==
  {NoRef, Pair(0, 0), Pair(8, -1), Pair(-17, 5), Pair(19, 0), Pair(0, 8)}
MCForces == 0..2

(* Branches at and around pi, where a turn more or less is as near, at the   *)
(* limits, a tolerance beyond them, one turn away from one another, and two  *)
(* that differ by less than DupTol, of which only one can be turned to the   *)
(* lower limit of the shoulder.                                             *)
MCRaw == {Pair(0, 0), Pair(16, 0), Pair(8, 6), Pair(-8, 9), Pair(2, 7),
          Pair(33, 5), Pair(15, -10), Pair(13, 6)}
=============================================================================
