----------------------------- MODULE MCDispatch -----------------------------
(* Dispatch with two task ids and two TaskState objects.                    *)
EXTENDS Dispatch

CONSTANTS n1, n2, o1, o2

MCNames   == {n1, n2}
MCTwoObjs == {o1, o2}
MCOneName == {n1}
=============================================================================
