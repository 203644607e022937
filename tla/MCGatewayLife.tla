---------------------------- MODULE MCGatewayLife ----------------------------
(* GatewayLife with two processes on one database and two modules.          *)
EXTENDS GatewayLife

CONSTANTS p1, p2, c1, c2

MCProcs  == {p1, p2}
MCOne    == {p1}
MCConns  == {c1, c2}
=============================================================================
