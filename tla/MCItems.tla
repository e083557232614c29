-------------------------------- MODULE MCItems --------------------------------
(* Items with two players. *)
EXTENDS Items, TLC

CONSTANTS p1, p2, saber, mate

MCStart == p1 :> <<[id |-> NoId, kind |-> saber, n |-> 1], [id |-> NoId, kind |-> mate, n |-> 2]>>
           @@ p2 :> <<>>
===============================================================================
