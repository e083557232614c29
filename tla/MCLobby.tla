------------------------------- MODULE MCLobby -------------------------------
(* Lobby on small instances: three players, one or two default lobbies and games. *)
EXTENDS Lobby, TLC

CONSTANTS c1, c2, c3, d1, d2, g1, g2

MCSymmetry == Permutations({g1, g2}) \cup Permutations({c2, c3})
MCUnlike == Permutations({c2, c3})
MCOneLobby == d1 :> 1
MCLobbyOrder == d1 :> 1 @@ d2 :> 2
=============================================================================
