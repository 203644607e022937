-------------------------- MODULE MCSessionRegistry --------------------------
(* SessionRegistry with the two clients of the project.                     *)
EXTENDS SessionRegistry

CONSTANTS algorithm, motion, c1, c2, c3

MCMotion    == {motion}
MCAlgorithm == {algorithm}
MCNobody    == {}
MCConns     == {c1, c2, c3}
=============================================================================
