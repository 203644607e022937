---------------------------- MODULE MCSortingLoop ----------------------------
(* SortingLoop with two task ids.                                           *)
EXTENDS SortingLoop

CONSTANTS n1, n2

MCNames == {n1, n2}
=============================================================================
