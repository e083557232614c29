-------------------------------- MODULE Rooms --------------------------------
(***************************************************************************)
(* What a block promises its players, without slots, counters or lists:    *)
(* each player is in at most one room, a room never holds more players     *)
(* than it has places, and a room that is shut lets nobody in while those  *)
(* inside may leave.  Lobby implements it.                                 *)
(***************************************************************************)
EXTENDS Naturals, FiniteSets

CONSTANTS Clients, AllRooms, Nowhere, Capacity(_)

VARIABLES where,    \* the room each player is in
          shut      \* the rooms that admit nobody

Init == where = [c \in Clients |-> Nowhere] /\ shut = {}

In(r) == {c \in Clients : where[c] = r}

\* A player without a room, or coming from another one, takes a place in r.
Enter(c, r) ==
    /\ where[c] # r /\ r \notin shut
    /\ Cardinality(In(r)) < Capacity(r)
    /\ where' = [where EXCEPT ![c] = r]
    /\ shut' \in SUBSET AllRooms

Leave(c) ==
    /\ where[c] # Nowhere
    /\ where' = [where EXCEPT ![c] = Nowhere]
    /\ shut' \in SUBSET AllRooms

\* Rooms are shut and opened by those inside: an empty room's door does not move.
Doors ==
    /\ shut' \in SUBSET AllRooms
    /\ \A r \in AllRooms : (r \in shut) # (r \in shut') => In(r) # {}
    /\ UNCHANGED where

Next == (\E c \in Clients : Leave(c) \/ \E r \in AllRooms : Enter(c, r)) \/ Doors

Spec == Init /\ [][Next]_<<where, shut>>
=============================================================================
