-------------------------------- MODULE MCLocks --------------------------------
(* Locks with two blocks. *)
EXTENDS Locks, TLC

CONSTANTS b1, b2, c1, c2, c3, l1, l2, l3

MCHome == c1 :> b1 @@ c2 :> b1 @@ c3 :> b2
MCBlockOf == [l \in Lobbies |-> IF l = l3 THEN b2 ELSE b1]
===============================================================================
