------------------------------- MODULE MCGitter -------------------------------
(* Instances of Gitter for TLC. *)
EXTENDS Gitter

CONSTANTS g1, g2, r1, r2, t1
=============================================================================
