------------------------------ MODULE MCShipgate ------------------------------
(* Shipgate with up to two ships and one player. *)
EXTENDS Shipgate, TLC

CONSTANTS ship1, ship2, player1

\* Ships are interchangeable, and players are.
Interchange == Permutations(Ships) \cup Permutations(Players)
===============================================================================
