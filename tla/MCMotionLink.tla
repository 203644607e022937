---------------------------- MODULE MCMotionLink ----------------------------
(* MotionLink with two descriptors.                                         *)
EXTENDS MotionLink

CONSTANTS f1, f2

MCFds == {f1, f2}
=============================================================================
