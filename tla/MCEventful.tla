----------------------------- MODULE MCEventful -----------------------------
(***************************************************************************)
(* Instances of Eventful for TLC.                                          *)
(***************************************************************************)
EXTENDS Eventful

CONSTANTS t1, i1, p1, r1, r2
=============================================================================
