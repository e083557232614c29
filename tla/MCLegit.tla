------------------------------- MODULE MCLegit -------------------------------
(* Legit with four players and games of three. *)
EXTENDS Legit, TLC

CONSTANTS p1, p2, p3, p4
=============================================================================
