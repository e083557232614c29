----------------------------- MODULE MCCharacters -----------------------------
(* Characters with small sets for TLC. *)
EXTENDS Characters
===============================================================================
