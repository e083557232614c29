----------------------------- MODULE LobbyProofs -----------------------------
(***************************************************************************)
(* Proofs about Lobby, for any number of players, lobbies and places, for  *)
(* clients that keep to the game's menus and for clients that do not.      *)
(*                                                                         *)
(* The table of a lobby and the players' own view of it are changed by     *)
(* three operations only (entering, moving, being removed): the lemmas     *)
(* below show that each preserves Membership and Counts.  What is left of  *)
(* a handler is bookkeeping on the list of lobbies.                        *)
(***************************************************************************)
EXTENDS Lobby, FiniteSetTheorems, WellFoundedInduction, TLAPS

\* Who sits where, by the lobby's table and by the player's own fields.
Seats ==
    /\ slot \in [LobbyRefs -> [Slots -> Clients \cup {NoClient}]]
    /\ num \in [LobbyRefs -> Nat]
    /\ leader \in [LobbyRefs -> Slots]
    /\ cur \in [Clients -> LobbyRefs \cup {NoLobby}]
    /\ cid \in [Clients -> Slots]
    /\ joined \in [Clients -> Nat]
    /\ now \in Nat
    /\ Membership
    /\ Counts

\* The block's list of lobbies.
DefaultsListed == \A l \in DefaultLobbies : st[l] = "listed"
List ==
    /\ st \in [LobbyRefs -> {"free", "pending", "listed"}]
    /\ pos \in [LobbyRefs -> Nat]
    /\ numGames \in Nat
    /\ GamesCounted
    /\ DefaultsListed

\* The rest of the state.
Others ==
    /\ conn \in [Clients -> BOOLEAN]
    /\ bursting \in [Clients -> BOOLEAN]
    /\ pending \in [Clients -> GameRefs \cup {NoLobby}]
    /\ lid \in [GameRefs -> Nat]
    /\ flags \in [LobbyRefs -> SUBSET LobbyFlags]
    /\ queue \in [LobbyRefs -> SUBSET Clients]
    /\ hung \in BOOLEAN

\* The inductive invariant.
IInv == Seats /\ List /\ Others /\ NoDangling

LessNat == {p \in Nat \X Nat : p[1] < p[2]}

\* Every non-empty set of naturals has a least element.
LEMMA Least ==
    ASSUME NEW S \in SUBSET Nat, S # {}
    PROVE  \E x \in S : \A y \in S : x <= y
<1>1. IsWellFoundedOn(LessNat, Nat)
  <2>1. OpToRel(<, Nat) = LessNat
    BY DEF OpToRel, LessNat
  <2> QED BY <2>1, NatLessThanWellFounded
<1>2. PICK x \in S : \A y \in S : <<y, x>> \notin LessNat
  BY <1>1, WFMin
<1>3. ASSUME NEW y \in S PROVE x <= y
  <2>1. x \in Nat /\ y \in Nat
    OBVIOUS
  <2>2. ASSUME y < x PROVE FALSE
    <3>1. <<y, x>> \in Nat \X Nat /\ <<y, x>>[1] < <<y, x>>[2]
      BY <2>1, <2>2
    <3> QED BY <3>1, <1>2 DEF LessNat
  <2> QED BY <2>1, <2>2
<1> QED BY <1>3

LEMMA SlotsFinite ==
    /\ LobbyMax \in Nat /\ GameMax \in Nat /\ 2 <= GameMax /\ GameMax <= LobbyMax
    /\ IsFiniteSet(Slots) /\ Slots \subseteq Nat
    /\ 0 \in Slots /\ 1 \in Slots
    /\ \A l : Cap(l) \in Nat /\ Cap(l) <= LobbyMax /\ 2 <= Cap(l)
<1>1. LobbyMax \in Nat /\ GameMax \in Nat /\ 2 <= GameMax /\ GameMax <= LobbyMax
  BY SizesAssumption
<1>2. IsFiniteSet(Slots)
  BY <1>1, FS_Interval DEF Slots
<1>3. \A l : Cap(l) \in Nat /\ Cap(l) <= LobbyMax /\ 2 <= Cap(l)
  BY <1>1 DEF Cap
<1> QED BY <1>1, <1>2, <1>3 DEF Slots

LEMMA OccupiedFinite ==
    \A l : IsFiniteSet(Occupied(l)) /\ Cardinality(Occupied(l)) \in Nat
<1> SUFFICES ASSUME NEW l PROVE IsFiniteSet(Occupied(l)) /\ Cardinality(Occupied(l)) \in Nat
  OBVIOUS
<1>1. Occupied(l) \in SUBSET Slots
  BY DEF Occupied
<1> QED BY <1>1, SlotsFinite, FS_Subset, FS_CardinalityType

\* A lobby that does not count as full has a free place, and lobby_add_client_locked
\* gives one: it never reaches its "something went terribly wrong".
LEMMA PlaceIsFree ==
    ASSUME Seats, NEW l \in LobbyRefs, num[l] < Cap(l)
    PROVE  Place(l) \in Free(l)
<1>1. Free(l) # {}
  <2>1. SUFFICES ASSUME Free(l) = {} PROVE FALSE
    OBVIOUS
  <2>2. 0 .. (Cap(l) - 1) \subseteq Occupied(l)
    BY <2>1, SlotsFinite DEF Free, Occupied, Slots
  <2>3. Cardinality(0 .. (Cap(l) - 1)) = Cap(l)
    BY FS_Interval, SlotsFinite
  <2>4. Cap(l) <= Cardinality(Occupied(l))
    BY <2>2, <2>3, FS_Subset, OccupiedFinite
  <2>5. Cardinality(Occupied(l)) = num[l]
    BY DEF Seats, Counts
  <2> QED BY <2>4, <2>5, SlotsFinite DEF Seats
<1>2. CASE l \in GameRefs /\ SlotOneFirst /\ slot[l][1] = NoClient
  BY <1>2, SlotsFinite DEF Place, Free, Cap
<1>3. CASE ~(l \in GameRefs /\ SlotOneFirst /\ slot[l][1] = NoClient)
  <2>1. Free(l) \in SUBSET Nat
    BY SlotsFinite DEF Free
  <2>2. \E i \in Free(l) : \A j \in Free(l) : i <= j
    BY <1>1, <2>1, Least
  <2> QED BY <1>3, <2>2 DEF Place
<1> QED BY <1>2, <1>3

\* lobby_elect_leader_locked finds, among those it may choose, one who joined first.
LEMMA ElectedIsFirst ==
    ASSUME Seats, NEW l \in LobbyRefs, Candidates(l) # {}
    PROVE  /\ Elected(l) \in Candidates(l)
           /\ \A j \in Candidates(l) : joined[slot[l][Elected(l)]] <= joined[slot[l][j]]
<1> DEFINE since(i) == joined[slot[l][i]]
           T == {since(i) : i \in Candidates(l)}
<1>1. \A i \in Candidates(l) : since(i) \in Nat
  BY DEF Candidates, Seats
<1>2. PICK t \in T : \A u \in T : t <= u
  <2>1. T \in SUBSET Nat /\ T # {}
    BY <1>1
  <2> HIDE DEF T
  <2> QED BY <2>1, Least
<1> DEFINE F == {i \in Candidates(l) : since(i) = t}
<1>3. PICK i \in F : \A j \in F : i <= j
  <2>1. F \in SUBSET Nat /\ F # {}
    BY SlotsFinite DEF Candidates
  <2> HIDE DEF F
  <2> QED BY <2>1, Least
<1>4. i \in Candidates(l) /\ \A j \in Candidates(l) :
          since(i) < since(j) \/ (since(i) = since(j) /\ i <= j)
  <2>1. i \in Candidates(l) /\ since(i) = t
    BY <1>3
  <2>2. ASSUME NEW j \in Candidates(l)
        PROVE  since(i) < since(j) \/ (since(i) = since(j) /\ i <= j)
    <3>1. t <= since(j)
      BY <1>2
    <3>2. CASE since(j) = t
      BY <3>2, <2>1, <1>3
    <3>3. CASE since(j) # t
      <4>1. t \in Nat /\ since(j) \in Nat
        BY <1>1, <2>1
      <4> HIDE DEF since
      <4> QED BY <3>1, <3>3, <2>1, <4>1
    <3> QED BY <3>2, <3>3
  <2> QED BY <2>1, <2>2
<1>5. /\ Elected(l) \in Candidates(l)
      /\ \A j \in Candidates(l) : since(Elected(l)) < since(j)
                                  \/ (since(Elected(l)) = since(j) /\ Elected(l) <= j)
  BY <1>4 DEF Elected
<1>6. ASSUME NEW j \in Candidates(l) PROVE since(Elected(l)) <= since(j)
  <2>1. since(Elected(l)) \in Nat /\ since(j) \in Nat
    BY <1>1, <1>5
  <2> HIDE DEF since
  <2> QED BY <2>1, <1>5
<1> QED BY <1>5, <1>6

\* Whoever it finds, leader_id stays a place of the lobby.
LEMMA LeaderIsPlace ==
    ASSUME Seats, NEW l \in LobbyRefs, NEW c \in Clients
    PROVE  LeaderWithout(l, c) \in Slots
<1>1. CASE cid[c] # leader[l]
  BY <1>1 DEF LeaderWithout, Seats
<1>2. CASE Candidates(l) = {}
  BY <1>2, SlotsFinite DEF LeaderWithout, Seats
<1>3. CASE Candidates(l) # {}
  BY <1>3, ElectedIsFirst DEF LeaderWithout, Candidates, Seats
<1> QED BY <1>1, <1>2, <1>3

-----------------------------------------------------------------------------
(* The operations on seats.                                                 *)

\* A table none of whose places is occupied is the empty one.
LEMMA NoneOccupied ==
    ASSUME NEW s \in [Slots -> Clients \cup {NoClient}],
           Cardinality({i \in Slots : s[i] # NoClient}) = 0
    PROVE  s = Empty
<1>1. {i \in Slots : s[i] # NoClient} = {}
  <2>1. IsFiniteSet({i \in Slots : s[i] # NoClient})
    BY SlotsFinite, FS_Subset
  <2> QED BY <2>1, FS_EmptySet
<1> QED BY <1>1 DEF Empty

\* lobby_add_client_locked keeps seats and counts in step.
LEMMA EnterSeats ==
    ASSUME Seats, NEW c \in Clients, NEW l \in LobbyRefs, cur[c] = NoLobby,
           Enter(c, l), now' = now
    PROVE  /\ Seats'
           /\ cur' = [cur EXCEPT ![c] = l]
           /\ \A m \in LobbyRefs \ {l} : slot'[m] = slot[m]
<1> DEFINE i == Place(l)
<1>1. i \in Free(l) /\ i \in Slots /\ i < Cap(l) /\ slot[l][i] = NoClient
  <2>1. num[l] < Cap(l)
    BY DEF Enter
  <2> QED BY <2>1, PlaceIsFree DEF Free
<1>2. /\ slot' = [slot EXCEPT ![l][i] = c]
      /\ num' = [num EXCEPT ![l] = @ + 1]
      /\ leader' = [leader EXCEPT ![l] = LeaderWith(l, i)]
      /\ cur' = [cur EXCEPT ![c] = l]
      /\ cid' = [cid EXCEPT ![c] = i]
      /\ joined' = [joined EXCEPT ![c] = now]
      /\ num[l] < Cap(l)
  BY DEF Enter
<1> HIDE DEF i
<1>3. NoClient \notin Clients /\ NoLobby \notin LobbyRefs
  BY ClientsAssumption, LobbiesAssumption
<1>4. LeaderWith(l, i) \in Slots
  BY <1>1 DEF LeaderWith, Seats
<1>5. /\ slot' \in [LobbyRefs -> [Slots -> Clients \cup {NoClient}]]
      /\ num' \in [LobbyRefs -> Nat]
      /\ leader' \in [LobbyRefs -> Slots]
      /\ cur' \in [Clients -> LobbyRefs \cup {NoLobby}]
      /\ cid' \in [Clients -> Slots]
      /\ joined' \in [Clients -> Nat]
      /\ now' \in Nat
  BY <1>1, <1>2, <1>4 DEF Seats
<1>6. \A m \in LobbyRefs : \A k \in Slots :
          slot'[m][k] = IF m = l /\ k = i THEN c ELSE slot[m][k]
  BY <1>1, <1>2 DEF Seats
<1>7. Membership'
  <2>1. \A d \in Clients : cur[d] # NoLobby =>
            cid[d] < Cap(cur[d]) /\ slot[cur[d]][cid[d]] = d
    BY DEF Seats, Membership
  <2>2. \A m \in LobbyRefs : \A k \in Slots : slot[m][k] # NoClient =>
            cur[slot[m][k]] = m /\ cid[slot[m][k]] = k
    BY DEF Seats, Membership
  <2>3. ASSUME NEW d \in Clients, cur'[d] # NoLobby
        PROVE  cid'[d] < Cap(cur'[d]) /\ slot'[cur'[d]][cid'[d]] = d
    <3>1. CASE d = c
      BY <3>1, <1>1, <1>2, <1>6 DEF Seats
    <3>2. CASE d # c
      <4>1. cur'[d] = cur[d] /\ cid'[d] = cid[d] /\ cur[d] \in LobbyRefs /\ cid[d] \in Slots
        BY <3>2, <2>3, <1>2 DEF Seats
      <4>2. slot[cur[d]][cid[d]] = d
        BY <4>1, <2>1, <2>3
      <4>3. ~(cur[d] = l /\ cid[d] = i)
        BY <4>2, <1>1, <1>3
      <4> QED BY <4>1, <4>2, <4>3, <2>1, <2>3, <1>6
    <3> QED BY <3>1, <3>2
  <2>4. ASSUME NEW m \in LobbyRefs, NEW k \in Slots, slot'[m][k] # NoClient
        PROVE  cur'[slot'[m][k]] = m /\ cid'[slot'[m][k]] = k
    <3>1. CASE m = l /\ k = i
      BY <3>1, <1>6, <1>2 DEF Seats
    <3>2. CASE ~(m = l /\ k = i)
      <4>1. slot'[m][k] = slot[m][k] /\ slot[m][k] \in Clients
        BY <3>2, <1>6, <2>4 DEF Seats
      <4>2. slot[m][k] # c
        BY <4>1, <2>2, <2>4, <1>3
      <4> QED BY <4>1, <4>2, <2>2, <2>4, <1>2 DEF Seats
    <3> QED BY <3>1, <3>2
  <2> QED BY <2>3, <2>4 DEF Membership, Cap
<1>8. Counts'
  <2>1. \A m \in LobbyRefs : num[m] = Cardinality(Occupied(m)) /\ num[m] <= Cap(m)
    BY DEF Seats, Counts
  <2>2. ASSUME NEW m \in LobbyRefs
        PROVE  num'[m] = Cardinality(Occupied(m)') /\ num'[m] <= Cap(m)
    <3>1. CASE m = l
      <4>1. Occupied(m)' = Occupied(m) \cup {i} /\ i \notin Occupied(m)
        BY <3>1, <1>1, <1>3, <1>6 DEF Occupied
      <4>2. Cardinality(Occupied(m)') = Cardinality(Occupied(m)) + 1
        BY <4>1, OccupiedFinite, FS_AddElement
      <4> QED BY <3>1, <4>2, <2>1, <1>2, SlotsFinite DEF Seats
    <3>2. CASE m # l
      <4>1. Occupied(m)' = Occupied(m)
        BY <3>2, <1>6 DEF Occupied
      <4> QED BY <3>2, <4>1, <2>1, <1>2 DEF Seats
    <3> QED BY <3>1, <3>2
  <2> QED BY <2>2 DEF Counts, Cap
<1>9. \A m \in LobbyRefs \ {l} : slot'[m] = slot[m]
  BY <1>2 DEF Seats
<1> QED BY <1>2, <1>5, <1>7, <1>8, <1>9 DEF Seats

\* lobby_remove_client_locked of the lobby a player is in keeps seats and counts in
\* step, and the lobby whose last player leaves has an empty table.
LEMMA RemoveSeats ==
    ASSUME Seats, NEW c \in Clients, NEW l \in LobbyRefs, cur[c] = l,
           RemovePlayer(c), now' = now
    PROVE  /\ Seats'
           /\ cur' = [cur EXCEPT ![c] = NoLobby]
           /\ \A m \in LobbyRefs \ {l} : slot'[m] = slot[m]
           /\ num[l] = 1 => slot'[l] = Empty
<1> DEFINE i == cid[c]
<1>1. NoClient \notin Clients /\ NoLobby \notin LobbyRefs
  BY ClientsAssumption, LobbiesAssumption
<1>2. i \in Slots /\ slot[l][i] = c
  BY <1>1 DEF Seats, Membership
<1>3. /\ slot' = [slot EXCEPT ![l][i] = NoClient]
      /\ num' = [num EXCEPT ![l] = @ - 1]
      /\ leader' = [leader EXCEPT ![l] = LeaderWithout(l, c)]
      /\ cur' = [cur EXCEPT ![c] = NoLobby]
      /\ cid' = [cid EXCEPT ![c] = 0]
      /\ joined' = [joined EXCEPT ![c] = 0]
  BY DEF RemovePlayer
<1> HIDE DEF i
<1>4. \A m \in LobbyRefs : \A k \in Slots :
          slot'[m][k] = IF m = l /\ k = i THEN NoClient ELSE slot[m][k]
  BY <1>2, <1>3 DEF Seats
<1>5. /\ Occupied(l)' = Occupied(l) \ {i}
      /\ i \in Occupied(l)
      /\ Cardinality(Occupied(l)') = Cardinality(Occupied(l)) - 1
      /\ Cardinality(Occupied(l)') \in Nat
  <2>1. Occupied(l)' = Occupied(l) \ {i} /\ i \in Occupied(l)
    BY <1>1, <1>2, <1>4 DEF Occupied
  <2> QED BY <2>1, OccupiedFinite, FS_RemoveElement, FS_CardinalityType
<1>6. \A m \in LobbyRefs : num[m] = Cardinality(Occupied(m)) /\ num[m] <= Cap(m) /\ num[m] \in Nat
  BY DEF Seats, Counts
<1>7. num'[l] = num[l] - 1 /\ num'[l] \in Nat /\ num'[l] = Cardinality(Occupied(l)')
  BY <1>3, <1>5, <1>6 DEF Seats
<1>8. /\ slot' \in [LobbyRefs -> [Slots -> Clients \cup {NoClient}]]
      /\ num' \in [LobbyRefs -> Nat]
      /\ leader' \in [LobbyRefs -> Slots]
      /\ cur' \in [Clients -> LobbyRefs \cup {NoLobby}]
      /\ cid' \in [Clients -> Slots]
      /\ joined' \in [Clients -> Nat]
      /\ now' \in Nat
  <2>1. LeaderWithout(l, c) \in Slots
    BY LeaderIsPlace
  <2> QED BY <2>1, <1>2, <1>3, <1>7, SlotsFinite DEF Seats
<1>9. Membership'
  <2>1. \A d \in Clients : cur[d] # NoLobby =>
            cid[d] < Cap(cur[d]) /\ slot[cur[d]][cid[d]] = d
    BY DEF Seats, Membership
  <2>2. \A m \in LobbyRefs : \A k \in Slots : slot[m][k] # NoClient =>
            cur[slot[m][k]] = m /\ cid[slot[m][k]] = k
    BY DEF Seats, Membership
  <2>3. ASSUME NEW d \in Clients, cur'[d] # NoLobby
        PROVE  cid'[d] < Cap(cur'[d]) /\ slot'[cur'[d]][cid'[d]] = d
    <3>1. d # c /\ cur'[d] = cur[d] /\ cid'[d] = cid[d] /\ cur[d] \in LobbyRefs /\ cid[d] \in Slots
      BY <2>3, <1>3 DEF Seats
    <3>2. slot[cur[d]][cid[d]] = d /\ ~(cur[d] = l /\ cid[d] = i)
      BY <3>1, <2>1, <2>3, <1>2
    <3> QED BY <3>1, <3>2, <2>1, <2>3, <1>4
  <2>4. ASSUME NEW m \in LobbyRefs, NEW k \in Slots, slot'[m][k] # NoClient
        PROVE  cur'[slot'[m][k]] = m /\ cid'[slot'[m][k]] = k
    <3>1. ~(m = l /\ k = i) /\ slot'[m][k] = slot[m][k] /\ slot[m][k] \in Clients
      BY <2>4, <1>4 DEF Seats
    <3>2. slot[m][k] # c
      BY <3>1, <2>2, <2>4 DEF i
    <3> QED BY <3>1, <3>2, <2>2, <2>4, <1>3 DEF Seats
  <2> QED BY <2>3, <2>4 DEF Membership, Cap
<1>10. Counts'
  <2>1. ASSUME NEW m \in LobbyRefs
        PROVE  num'[m] = Cardinality(Occupied(m)') /\ num'[m] <= Cap(m)
    <3>1. CASE m = l
      BY <3>1, <1>6, <1>7, SlotsFinite
    <3>2. CASE m # l
      <4>1. Occupied(m)' = Occupied(m)
        BY <3>2, <1>4 DEF Occupied
      <4> QED BY <3>2, <4>1, <1>3, <1>6 DEF Seats
    <3> QED BY <3>1, <3>2
  <2> QED BY <2>1 DEF Counts, Cap
<1>11. ASSUME num[l] = 1 PROVE slot'[l] = Empty
  <2>1. Cardinality({k \in Slots : slot'[l][k] # NoClient}) = 0
    BY <1>7, <1>11 DEF Occupied
  <2>2. slot'[l] \in [Slots -> Clients \cup {NoClient}]
    BY <1>8
  <2> QED BY <2>1, <2>2, NoneOccupied
<1>12. \A m \in LobbyRefs \ {l} : slot'[m] = slot[m]
  BY <1>3 DEF Seats
<1> QED BY <1>3, <1>8, <1>9, <1>10, <1>11, <1>12 DEF Seats

\* So does the change of lobby in lobby_change_lobby, for both lobbies at once.
LEMMA MoveSeats ==
    ASSUME Seats, NEW c \in Clients, NEW old \in LobbyRefs, NEW req \in LobbyRefs,
           cur[c] = old, old # req, Move(c, req), now' = now
    PROVE  /\ Seats'
           /\ cur' = [cur EXCEPT ![c] = req]
           /\ \A m \in LobbyRefs \ {old, req} : slot'[m] = slot[m]
           /\ num[old] = 1 => slot'[old] = Empty
<1> DEFINE i == Place(req)
           j == cid[c]
<1>1. NoClient \notin Clients /\ NoLobby \notin LobbyRefs
  BY ClientsAssumption, LobbiesAssumption
<1>2. i \in Slots /\ i < Cap(req) /\ slot[req][i] = NoClient /\ num[req] < Cap(req)
  <2>1. num[req] < Cap(req)
    BY DEF Move
  <2> QED BY <2>1, PlaceIsFree DEF Free
<1>3. j \in Slots /\ slot[old][j] = c
  BY <1>1 DEF Seats, Membership
<1>4. /\ slot' = [slot EXCEPT ![req][i] = c, ![old][j] = NoClient]
      /\ num' = [num EXCEPT ![req] = @ + 1, ![old] = @ - 1]
      /\ leader' = [leader EXCEPT ![req] = LeaderWith(req, i), ![old] = LeaderWithout(old, c)]
      /\ cur' = [cur EXCEPT ![c] = req]
      /\ cid' = [cid EXCEPT ![c] = i]
      /\ joined' = [joined EXCEPT ![c] = now]
  BY DEF Move
<1> HIDE DEF i, j
<1>5. \A m \in LobbyRefs : \A k \in Slots :
          slot'[m][k] = IF m = old /\ k = j THEN NoClient
                        ELSE IF m = req /\ k = i THEN c
                        ELSE slot[m][k]
  BY <1>2, <1>3, <1>4 DEF Seats
<1>6. \A m \in LobbyRefs : num[m] = Cardinality(Occupied(m)) /\ num[m] <= Cap(m) /\ num[m] \in Nat
  BY DEF Seats, Counts
<1>7. /\ num'[old] = num[old] - 1
      /\ num'[old] \in Nat
      /\ num'[old] = Cardinality(Occupied(old)')
  <2>1. Occupied(old)' = Occupied(old) \ {j} /\ j \in Occupied(old)
    BY <1>1, <1>3, <1>5 DEF Occupied
  <2>2. /\ Cardinality(Occupied(old)') = Cardinality(Occupied(old)) - 1
        /\ Cardinality(Occupied(old)') \in Nat
    BY <2>1, OccupiedFinite, FS_RemoveElement, FS_CardinalityType
  <2>3. num'[old] = num[old] - 1
    BY <1>4 DEF Seats
  <2> QED BY <2>2, <2>3, <1>6
<1>8. /\ num'[req] = num[req] + 1
      /\ num'[req] = Cardinality(Occupied(req)')
  <2>1. Occupied(req)' = Occupied(req) \cup {i} /\ i \notin Occupied(req)
    BY <1>1, <1>2, <1>5 DEF Occupied
  <2>2. Cardinality(Occupied(req)') = Cardinality(Occupied(req)) + 1
    BY <2>1, OccupiedFinite, FS_AddElement
  <2>3. num'[req] = num[req] + 1
    BY <1>4 DEF Seats
  <2> QED BY <2>2, <2>3, <1>6
<1>9. /\ slot' \in [LobbyRefs -> [Slots -> Clients \cup {NoClient}]]
      /\ num' \in [LobbyRefs -> Nat]
      /\ leader' \in [LobbyRefs -> Slots]
      /\ cur' \in [Clients -> LobbyRefs \cup {NoLobby}]
      /\ cid' \in [Clients -> Slots]
      /\ joined' \in [Clients -> Nat]
      /\ now' \in Nat
  <2>1. LeaderWithout(old, c) \in Slots
    BY LeaderIsPlace
  <2>2. LeaderWith(req, i) \in Slots
    BY <1>2 DEF LeaderWith, Seats
  <2>3. num' \in [LobbyRefs -> Nat]
    BY <1>4, <1>6, <1>7, <1>8 DEF Seats
  <2>4. slot' \in [LobbyRefs -> [Slots -> Clients \cup {NoClient}]]
    BY <1>4, <1>2, <1>3 DEF Seats
  <2> QED BY <2>1, <2>2, <2>3, <2>4, <1>2, <1>4 DEF Seats
<1>10. Membership'
  <2>1. \A d \in Clients : cur[d] # NoLobby =>
            cid[d] < Cap(cur[d]) /\ slot[cur[d]][cid[d]] = d
    BY DEF Seats, Membership
  <2>2. \A m \in LobbyRefs : \A k \in Slots : slot[m][k] # NoClient =>
            cur[slot[m][k]] = m /\ cid[slot[m][k]] = k
    BY DEF Seats, Membership
  <2>3. ASSUME NEW d \in Clients, cur'[d] # NoLobby
        PROVE  cid'[d] < Cap(cur'[d]) /\ slot'[cur'[d]][cid'[d]] = d
    <3>1. CASE d = c
      <4>1. cur'[d] = req /\ cid'[d] = i
        BY <3>1, <1>4 DEF Seats
      <4> QED BY <3>1, <4>1, <1>2, <1>5
    <3>2. CASE d # c
      <4>1. cur'[d] = cur[d] /\ cid'[d] = cid[d] /\ cur[d] \in LobbyRefs /\ cid[d] \in Slots
        BY <3>2, <2>3, <1>4 DEF Seats
      <4>2. slot[cur[d]][cid[d]] = d /\ cid[d] < Cap(cur[d])
        BY <4>1, <2>1, <2>3
      <4>3. ~(cur[d] = req /\ cid[d] = i) /\ ~(cur[d] = old /\ cid[d] = j)
        BY <3>2, <4>2, <1>1, <1>2, <1>3
      <4> QED BY <4>1, <4>2, <4>3, <1>5
    <3> QED BY <3>1, <3>2
  <2>4. ASSUME NEW m \in LobbyRefs, NEW k \in Slots, slot'[m][k] # NoClient
        PROVE  cur'[slot'[m][k]] = m /\ cid'[slot'[m][k]] = k
    <3>1. CASE m = req /\ k = i
      BY <3>1, <1>4, <1>5 DEF Seats
    <3>2. CASE ~(m = req /\ k = i)
      <4>1. slot'[m][k] = slot[m][k] /\ slot[m][k] \in Clients /\ ~(m = old /\ k = j)
        BY <3>2, <2>4, <1>5 DEF Seats
      <4>2. slot[m][k] # c
        BY <4>1, <2>2, <2>4 DEF j
      <4> QED BY <4>1, <4>2, <2>2, <2>4, <1>4 DEF Seats
    <3> QED BY <3>1, <3>2
  <2> QED BY <2>3, <2>4 DEF Membership, Cap
<1>11. Counts'
  <2>1. ASSUME NEW m \in LobbyRefs
        PROVE  num'[m] = Cardinality(Occupied(m)') /\ num'[m] <= Cap(m)
    <3>1. CASE m = old
      BY <3>1, <1>6, <1>7, SlotsFinite
    <3>2. CASE m = req
      BY <3>2, <1>2, <1>6, <1>8, SlotsFinite
    <3>3. CASE m # old /\ m # req
      <4>1. Occupied(m)' = Occupied(m)
        BY <3>3, <1>5 DEF Occupied
      <4> QED BY <3>3, <4>1, <1>4, <1>6 DEF Seats
    <3> QED BY <3>1, <3>2, <3>3
  <2> QED BY <2>1 DEF Counts, Cap
<1>12. ASSUME num[old] = 1 PROVE slot'[old] = Empty
  <2>1. Cardinality({k \in Slots : slot'[old][k] # NoClient}) = 0
    BY <1>7, <1>12 DEF Occupied
  <2>2. slot'[old] \in [Slots -> Clients \cup {NoClient}]
    BY <1>9
  <2> QED BY <2>1, <2>2, NoneOccupied
<1>13. \A m \in LobbyRefs \ {old, req} : slot'[m] = slot[m]
  BY <1>4 DEF Seats
<1> QED BY <1>4, <1>9, <1>10, <1>11, <1>12, <1>13 DEF Seats

-----------------------------------------------------------------------------
(* The list.                                                                *)

\* Relist adds and removes what it says, and the block's game count follows.
LEMMA RelistList ==
    ASSUME List, NEW new \in SUBSET GameRefs, NEW gone \in SUBSET Games,
           NEW dropped \in SUBSET GameRefs,
           new \cap Games = {}, dropped \cap Games = {}, new \cap dropped = {},
           \A x, y \in gone : x = y,
           Relist(new, gone, dropped)
    PROVE  /\ List'
           /\ \A l \in LobbyRefs : st'[l] = IF l \in gone \cup dropped THEN "free"
                                           ELSE IF l \in new THEN "listed" ELSE st[l]
<1>1. /\ DefaultLobbies \cap GameRefs = {}
      /\ IsFiniteSet(GameRefs)
      /\ IsFiniteSet(LobbyRefs)
      /\ GameRefs \subseteq LobbyRefs /\ DefaultLobbies \subseteq LobbyRefs
      /\ gone \subseteq GameRefs /\ Games \subseteq GameRefs
  <2>1. IsFiniteSet(DefaultLobbies) /\ IsFiniteSet(GameRefs) /\ DefaultLobbies \cap GameRefs = {}
    BY LobbiesAssumption
  <2>2. IsFiniteSet(LobbyRefs)
    BY <2>1, FS_Union DEF LobbyRefs
  <2> QED BY <2>1, <2>2 DEF LobbyRefs, Games
<1>2. /\ st' = [l \in LobbyRefs |-> IF l \in gone \cup dropped THEN "free"
                                    ELSE IF l \in new THEN "listed" ELSE st[l]]
      /\ numGames' = (numGames + Cardinality(new)) - Cardinality(gone)
  BY DEF Relist
<1>3. \A l \in LobbyRefs : st'[l] = IF l \in gone \cup dropped THEN "free"
                                    ELSE IF l \in new THEN "listed" ELSE st[l]
  BY <1>2
<1>4. st' \in [LobbyRefs -> {"free", "pending", "listed"}]
  BY <1>2 DEF List
<1>5. pos' \in [LobbyRefs -> Nat]
  <2> DEFINE p(l) == IF l \in new THEN Cardinality(Listed) + 1 ELSE pos[l]
             before(l) == {g \in gone : pos[g] < p(l)}
  <2>1. pos' = [l \in LobbyRefs |-> IF l \in gone THEN 0 ELSE p(l) - Cardinality(before(l))]
    BY DEF Relist
  <2>2. Cardinality(Listed) \in Nat
    <3>1. Listed \in SUBSET LobbyRefs
      BY DEF Listed
    <3> QED BY <3>1, <1>1, FS_Subset, FS_CardinalityType
  <2>3. ASSUME NEW l \in LobbyRefs PROVE p(l) - Cardinality(before(l)) \in Nat
    <3>1. p(l) \in Nat
      BY <2>2 DEF List
    <3>2. CASE before(l) = {}
      <4>1. Cardinality(before(l)) = 0
        BY <3>2, FS_EmptySet
      <4> HIDE DEF p, before
      <4> QED BY <3>1, <4>1
    <3>3. CASE before(l) # {}
      <4>1. PICK g \in gone : pos[g] < p(l) /\ before(l) = {g}
        BY <3>3
      <4>2. pos[g] \in Nat /\ Cardinality(before(l)) = 1
        BY <4>1, <1>1, FS_Singleton DEF List
      <4> HIDE DEF p, before
      <4> QED BY <3>1, <4>1, <4>2
    <3> QED BY <3>2, <3>3
  <2> HIDE DEF p, before
  <2> QED BY <2>1, <2>3
<1>6. GamesCounted' /\ numGames' \in Nat
  <2>1. Games' = (Games \cup new) \ gone
    BY <1>1, <1>3 DEF Games
  <2>2. IsFiniteSet(Games) /\ IsFiniteSet(new) /\ IsFiniteSet(gone)
    BY <1>1, FS_Subset
  <2>3. IsFiniteSet(Games \cup new) /\ Cardinality(Games \cup new) = Cardinality(Games) + Cardinality(new)
    <3>1. Games \cap new = {} /\ Cardinality(Games \cap new) = 0
      BY FS_EmptySet
    <3>2. IsFiniteSet(Games \cup new)
      BY <2>2, FS_Union
    <3>3. Cardinality(Games \cup new) =
              Cardinality(Games) + Cardinality(new) - Cardinality(Games \cap new)
      BY <2>2, FS_Union
    <3>4. Cardinality(Games) \in Nat /\ Cardinality(new) \in Nat
      BY <2>2, FS_CardinalityType
    <3> QED BY <3>1, <3>2, <3>3, <3>4
  <2>4. Cardinality((Games \cup new) \ gone) = Cardinality(Games \cup new) - Cardinality(gone)
    <3>1. (Games \cup new) \cap gone = gone
      OBVIOUS
    <3> QED BY <3>1, <2>3, FS_Difference
  <2>5. Cardinality((Games \cup new) \ gone) \in Nat
    BY <2>3, FS_Difference, FS_CardinalityType
  <2>6. numGames = Cardinality(Games)
    BY DEF List, GamesCounted
  <2>7. numGames' = Cardinality(Games')
    BY <1>2, <2>1, <2>3, <2>4, <2>6
  <2> QED BY <2>1, <2>5, <2>7 DEF GamesCounted
<1>7. DefaultsListed'
  BY <1>1, <1>3 DEF DefaultsListed, List
<1> QED BY <1>3, <1>4, <1>5, <1>6, <1>7 DEF List

\* The game a player leaves empty is in the list, and nobody is in it any more.
LEMMA EmptiedIsListed ==
    ASSUME IInv, NEW c \in Clients, NEW l \in LobbyRefs, cur[c] = l
    PROVE  /\ Emptied(l) \in SUBSET Games
           /\ Emptied(l) \subseteq {l}
           /\ \A x \in Emptied(l) : num[l] = 1
           /\ st[l] = "listed" /\ conn[c]
           /\ Emptied(l) \cap DefaultLobbies = {}
<1>1. NoLobby \notin LobbyRefs /\ DefaultLobbies \cap GameRefs = {}
  BY LobbiesAssumption
<1>2. st[l] = "listed" /\ conn[c]
  BY <1>1 DEF IInv, NoDangling
<1> QED BY <1>1, <1>2 DEF Emptied, Games

\* An unused id exists whenever a game can be created, and the one chosen is unused.
LEMMA NextIdIsUnused ==
    ASSUME List, lid \in [GameRefs -> Nat]
    PROVE  NextId \in Nat /\ \A l \in Games : lid[l] # NextId
<1> DEFINE used == {lid[l] : l \in Games}
           top == Cardinality(GameRefs) + 1
           unused == {n \in 1 .. top : n \notin used}
<1>1. IsFiniteSet(GameRefs) /\ Cardinality(GameRefs) \in Nat /\ Games \subseteq GameRefs
  BY LobbiesAssumption, FS_CardinalityType DEF Games
<1>2. unused # {}
  <2>1. IsFiniteSet(Games) /\ Cardinality(Games) <= Cardinality(GameRefs)
    BY <1>1, FS_Subset
  <2>2. IsFiniteSet(used) /\ Cardinality(used) <= Cardinality(Games)
    <3> DEFINE f == [l \in Games |-> lid[l]]
    <3>1. f \in Surjection(Games, used)
      BY DEF Surjection
    <3> HIDE DEF f
    <3> QED BY <2>1, <3>1, FS_Surjection
  <2>3. Cardinality(used) < top /\ Cardinality(1 .. top) = top
    <3>1. Cardinality(used) \in Nat /\ Cardinality(Games) \in Nat
      BY <2>1, <2>2, FS_CardinalityType
    <3>2. Cardinality(1 .. top) = top
      BY <1>1, FS_Interval
    <3> HIDE DEF used
    <3> QED BY <1>1, <2>1, <2>2, <3>1, <3>2
  <2>4. ~(1 .. top \subseteq used)
    <3>1. Cardinality(used) \in Nat /\ top \in Nat
      BY <1>1, <2>2, FS_CardinalityType
    <3> SUFFICES ASSUME 1 .. top \subseteq used PROVE FALSE
      OBVIOUS
    <3>2. Cardinality(1 .. top) <= Cardinality(used)
      BY <2>2, FS_Subset
    <3> HIDE DEF used, top
    <3> QED BY <2>3, <3>1, <3>2
  <2> QED BY <2>4
<1>3. PICK n \in unused : \A m \in unused : n <= m
  <2>1. unused \in SUBSET Nat
    BY <1>1
  <2> HIDE DEF unused
  <2> QED BY <1>2, <2>1, Least
<1>4. n \in 1 .. top /\ \A l \in Games : lid[l] # n
  BY <1>3
<1>5. \A k \in 1 .. n - 1 : \E l \in Games : lid[l] = k
  <2>1. ASSUME NEW k \in 1 .. n - 1, k \notin used PROVE FALSE
    <3>1. k \in unused /\ k < n
      BY <1>1, <1>4, <2>1
    <3> QED BY <1>3, <1>4, <1>1, <3>1
  <2> QED BY <2>1
<1>6. /\ NextId \in 1 .. top
      /\ \A l \in Games : lid[l] # NextId
  BY <1>4, <1>5 DEF NextId
<1> QED BY <1>1, <1>6

-----------------------------------------------------------------------------
(* The handlers, by the operation on seats they are made of.                *)

\* How the lobby a player moves to comes to be in the list: it was there, or it is the
\* game just created, or the one that waited for its creator.
Opened(c, req, new) ==
    \/ new = {} /\ st[req] = "listed" /\ pending' = pending
    \/ new = {req} /\ st[req] = "free" /\ pending' = pending
    \/ new = {req} /\ pending[c] = req /\ pending' = [pending EXCEPT ![c] = NoLobby]

LEMMA MoveStep ==
    ASSUME IInv, NEW c \in Clients, NEW old \in LobbyRefs, NEW req \in LobbyRefs,
           NEW new \in SUBSET GameRefs,
           cur[c] = old, old # req, Opened(c, req, new), Move(c, req),
           Relist(new, Emptied(old), {}),
           flags' = FlagsAfterMove(req, Emptied(old)),
           queue' = QueueAfter(queue, Emptied(old)),
           lid' \in [GameRefs -> Nat],
           UNCHANGED <<conn, now, hung>>
    PROVE  IInv'
<1> DEFINE gone == Emptied(old)
<1>1. NoLobby \notin LobbyRefs /\ GameRefs \subseteq LobbyRefs
  BY LobbiesAssumption DEF LobbyRefs
<1>2. /\ gone \in SUBSET Games /\ gone \subseteq {old}
      /\ \A x \in gone : num[old] = 1
      /\ st[old] = "listed" /\ conn[c]
  BY EmptiedIsListed
<1>3. /\ Seats'
      /\ cur' = [cur EXCEPT ![c] = req]
      /\ \A m \in LobbyRefs \ {old, req} : slot'[m] = slot[m]
      /\ num[old] = 1 => slot'[old] = Empty
  BY MoveSeats DEF IInv
<1>4. flags' = FlagsAfterMove(req, gone) /\ queue' = QueueAfter(queue, gone) /\ Relist(new, gone, {})
  OBVIOUS
<1> HIDE DEF gone
<1>5. \A d \in Clients : pending[d] # NoLobby => conn[d] /\ st[pending[d]] = "pending"
  BY DEF IInv, NoDangling
<1>6. /\ List'
      /\ \A l \in LobbyRefs : st'[l] = IF l \in gone THEN "free"
                                      ELSE IF l \in new THEN "listed" ELSE st[l]
  <2>1. new \cap Games = {}
    <3>1. CASE new = {req} /\ st[req] = "free"
      BY <3>1 DEF Games
    <3>2. CASE new = {req} /\ pending[c] = req
      BY <3>2, <1>1, <1>5 DEF Games
    <3> QED BY <3>1, <3>2 DEF Opened
  <2>2. \A x, y \in gone : x = y
    BY <1>2
  <2> QED BY <2>1, <2>2, <1>2, <1>4, RelistList DEF IInv
<1>7. Others'
  <2>1. bursting' \in [Clients -> BOOLEAN]
    BY DEF Move, IInv, Others
  <2>2. flags' \in [LobbyRefs -> SUBSET LobbyFlags]
    BY <1>4 DEF FlagsAfterMove, IInv, Others, LobbyFlags
  <2>3. queue' \in [LobbyRefs -> SUBSET Clients]
    BY <1>4 DEF QueueAfter, IInv, Others
  <2>4. pending' \in [Clients -> GameRefs \cup {NoLobby}]
    BY DEF Opened, IInv, Others
  <2> QED BY <2>1, <2>2, <2>3, <2>4 DEF IInv, Others
<1>8. NoDangling'
  <2>1. ASSUME NEW d \in Clients, cur'[d] # NoLobby PROVE conn'[d] /\ st'[cur'[d]] = "listed"
    <3>1. CASE d = c
      <4>1. cur'[d] = req /\ req \notin gone
        BY <3>1, <1>2, <1>3 DEF IInv, Seats
      <4>2. st[req] = "listed" \/ req \in new
        BY DEF Opened
      <4> QED BY <3>1, <4>1, <4>2, <1>2, <1>6
    <3>2. CASE d # c
      <4>1. cur'[d] = cur[d] /\ cur[d] \in LobbyRefs /\ st[cur[d]] = "listed" /\ conn[d]
        BY <3>2, <2>1, <1>3 DEF IInv, Seats, NoDangling
      <4>2. cur'[d] \notin gone
        <5> SUFFICES ASSUME cur'[d] \in gone PROVE FALSE
          OBVIOUS
        <5>1. cur'[d] = old /\ slot'[old] = Empty
          BY <1>2, <1>3
        <5>2. slot'[old][cid'[d]] = d /\ cid'[d] \in Slots
          BY <5>1, <1>1, <1>3 DEF Seats, Membership
        <5> QED BY <5>1, <5>2, ClientsAssumption DEF Empty
      <4> QED BY <4>1, <4>2, <1>6
    <3> QED BY <3>1, <3>2
  <2>2. ASSUME NEW d \in Clients, pending'[d] # NoLobby
        PROVE  conn'[d] /\ st'[pending'[d]] = "pending"
    <3>1. pending'[d] = pending[d] /\ pending[d] \in GameRefs
      BY <2>2 DEF Opened, IInv, Others
    <3>2. conn[d] /\ st[pending[d]] = "pending"
      BY <3>1, <2>2, <1>5
    <3>3. pending[d] \notin gone
      BY <3>2, <1>2
    <3>4. pending[d] \notin new
      <4>1. CASE new = {req} /\ pending[c] = req /\ pending' = [pending EXCEPT ![c] = NoLobby]
        <5>1. d # c
          BY <4>1, <2>2 DEF IInv, Others
        <5> QED BY <5>1, <4>1, <3>1, <2>2 DEF IInv, NoDangling
      <4>2. CASE new = {req} /\ st[req] = "free"
        BY <4>2, <3>2
      <4> QED BY <4>1, <4>2 DEF Opened
    <3> QED BY <3>1, <3>2, <3>3, <3>4, <1>1, <1>6
  <2>3. ASSUME NEW d \in Clients, NEW e \in Clients, pending'[d] = pending'[e]
        PROVE  d = e \/ pending'[d] = NoLobby
    BY <2>3 DEF Opened, IInv, Others, NoDangling
  <2>4. ASSUME NEW l \in LobbyRefs, st'[l] # "listed"
        PROVE  slot'[l] = Empty /\ queue'[l] = {} /\ flags'[l] = {}
    <3>1. CASE l \in gone
      BY <3>1, <1>2, <1>3, <1>4 DEF FlagsAfterMove, QueueAfter
    <3>2. CASE l \notin gone
      <4>1. st[l] # "listed" /\ l # req /\ l # old
        BY <3>2, <2>4, <1>2, <1>6 DEF Opened
      <4>2. slot[l] = Empty /\ queue[l] = {} /\ flags[l] = {}
        BY <4>1 DEF IInv, NoDangling
      <4> QED BY <3>2, <4>1, <4>2, <1>3, <1>4 DEF FlagsAfterMove, QueueAfter
    <3> QED BY <3>1, <3>2
  <2> QED BY <2>1, <2>2, <2>3, <2>4 DEF NoDangling
<1> QED BY <1>3, <1>6, <1>7, <1>8 DEF IInv

\* The game, if any, that a handler lists without letting anybody in.
Listing(c) ==
    \/ UNCHANGED <<st, pos, numGames, pending>>
    \/ \E g \in GameRefs :
          /\ Relist({g}, {}, {})
          /\ \/ st[g] = "free" /\ pending' = pending
             \/ pending[c] = g /\ pending' = [pending EXCEPT ![c] = NoLobby]

LEMMA EnterStep ==
    ASSUME IInv, NEW c \in Clients, NEW l \in DefaultLobbies,
           cur[c] = NoLobby, conn[c], Enter(c, l), Listing(c),
           lid' \in [GameRefs -> Nat],
           UNCHANGED <<conn, bursting, flags, queue, now, hung>>
    PROVE  IInv'
<1>1. /\ NoLobby \notin LobbyRefs /\ GameRefs \subseteq LobbyRefs
      /\ l \in LobbyRefs /\ st[l] = "listed"
  BY LobbiesAssumption DEF LobbyRefs, IInv, List, DefaultsListed
<1>2. /\ Seats'
      /\ cur' = [cur EXCEPT ![c] = l]
      /\ \A m \in LobbyRefs \ {l} : slot'[m] = slot[m]
  BY <1>1, EnterSeats DEF IInv
<1>3. \A d \in Clients : pending[d] # NoLobby => conn[d] /\ st[pending[d]] = "pending"
  BY DEF IInv, NoDangling
<1>4. CASE UNCHANGED <<st, pos, numGames, pending>>
  <2>1. List'
    BY <1>4 DEF IInv, List, GamesCounted, Games, DefaultsListed
  <2>2. Others'
    BY <1>4 DEF IInv, Others
  <2>3. NoDangling'
    BY <1>1, <1>2, <1>4 DEF IInv, Seats, NoDangling
  <2> QED BY <1>2, <2>1, <2>2, <2>3 DEF IInv
<1>5. ASSUME NEW g \in GameRefs, Relist({g}, {}, {}),
             \/ st[g] = "free" /\ pending' = pending
             \/ pending[c] = g /\ pending' = [pending EXCEPT ![c] = NoLobby]
      PROVE  IInv'
  <2>1. st[g] # "listed" /\ g \in LobbyRefs
    BY <1>1, <1>3, <1>5
  <2>2. /\ List'
        /\ \A m \in LobbyRefs : st'[m] = IF m = g THEN "listed" ELSE st[m]
    <3>1. {g} \cap Games = {}
      BY <2>1 DEF Games
    <3> QED BY <3>1, <1>5, RelistList DEF IInv
  <2>3. Others'
    BY <1>5 DEF IInv, Others
  <2>4. NoDangling'
    <3>1. ASSUME NEW d \in Clients, cur'[d] # NoLobby PROVE conn'[d] /\ st'[cur'[d]] = "listed"
      BY <3>1, <1>1, <1>2, <2>2 DEF IInv, Seats, NoDangling
    <3>2. ASSUME NEW d \in Clients, pending'[d] # NoLobby
          PROVE  conn'[d] /\ st'[pending'[d]] = "pending"
      <4>1. pending'[d] = pending[d] /\ pending[d] \in LobbyRefs
        BY <3>2, <1>1, <1>5 DEF IInv, Others
      <4>2. pending[d] # g
        BY <3>2, <4>1, <1>3, <1>5 DEF IInv, Others, NoDangling
      <4> QED BY <3>2, <4>1, <4>2, <1>3, <2>2
    <3>3. ASSUME NEW d \in Clients, NEW e \in Clients, pending'[d] = pending'[e]
          PROVE  d = e \/ pending'[d] = NoLobby
      BY <3>3, <1>5 DEF IInv, Others, NoDangling
    <3>4. ASSUME NEW m \in LobbyRefs, st'[m] # "listed"
          PROVE  slot'[m] = Empty /\ queue'[m] = {} /\ flags'[m] = {}
      BY <3>4, <1>1, <1>2, <2>2 DEF IInv, NoDangling
    <3> QED BY <3>1, <3>2, <3>3, <3>4 DEF NoDangling
  <2> QED BY <1>2, <2>2, <2>3, <2>4 DEF IInv
<1> QED BY <1>4, <1>5 DEF Listing

\* A player leaves its lobby: by itself, or because its connection ends, and then the
\* game it was creating goes too.
Parting(c, dropped) ==
    \/ dropped = {} /\ UNCHANGED <<conn, pending>>
    \/ /\ dropped = {pending[c]} \ {NoLobby}
       /\ conn' = [conn EXCEPT ![c] = FALSE]
       /\ pending' = [pending EXCEPT ![c] = NoLobby]

LEMMA PartingKeepsPending ==
    ASSUME IInv, NEW c \in Clients, NEW dropped, Parting(c, dropped)
    PROVE  /\ dropped \in SUBSET GameRefs
           /\ \A x \in dropped : st[x] = "pending"
           /\ pending' \in [Clients -> GameRefs \cup {NoLobby}]
           /\ conn' \in [Clients -> BOOLEAN]
           /\ \A d \in Clients \ {c} : conn'[d] = conn[d]
           /\ \A d \in Clients : pending'[d] # NoLobby =>
                  /\ conn'[d] /\ pending'[d] = pending[d]
                  /\ st[pending[d]] = "pending" /\ pending[d] \notin dropped
           /\ \A d, e \in Clients : pending'[d] = pending'[e] => d = e \/ pending'[d] = NoLobby
<1>1. /\ pending \in [Clients -> GameRefs \cup {NoLobby}]
      /\ conn \in [Clients -> BOOLEAN]
      /\ \A d \in Clients : pending[d] # NoLobby => conn[d] /\ st[pending[d]] = "pending"
      /\ \A d, e \in Clients : pending[d] = pending[e] => d = e \/ pending[d] = NoLobby
  BY DEF IInv, Others, NoDangling
<1>2. CASE dropped = {} /\ UNCHANGED <<conn, pending>>
  BY <1>1, <1>2
<1>3. CASE /\ dropped = {pending[c]} \ {NoLobby}
           /\ conn' = [conn EXCEPT ![c] = FALSE]
           /\ pending' = [pending EXCEPT ![c] = NoLobby]
  BY <1>1, <1>3
<1> QED BY <1>2, <1>3 DEF Parting

LEMMA RemoveStep ==
    ASSUME IInv, NEW c \in Clients, NEW l \in LobbyRefs, cur[c] = l,
           NEW dropped, Parting(c, dropped),
           RemovePlayer(c), Relist({}, Emptied(l), dropped),
           lid' \in [GameRefs -> Nat],
           bursting' \in [Clients -> BOOLEAN],
           UNCHANGED <<now, hung>>
    PROVE  IInv'
<1> DEFINE gone == Emptied(l)
<1>1. NoLobby \notin LobbyRefs /\ GameRefs \subseteq LobbyRefs
  BY LobbiesAssumption DEF LobbyRefs
<1>2. /\ gone \in SUBSET Games /\ gone \subseteq {l}
      /\ \A x \in gone : num[l] = 1
      /\ st[l] = "listed"
  BY EmptiedIsListed
<1>3. /\ Seats'
      /\ cur' = [cur EXCEPT ![c] = NoLobby]
      /\ \A m \in LobbyRefs \ {l} : slot'[m] = slot[m]
      /\ num[l] = 1 => slot'[l] = Empty
  BY RemoveSeats DEF IInv
<1>4. /\ flags' = [m \in LobbyRefs |->
                     IF m \in gone THEN {}
                     ELSE IF m = l /\ bursting[c] THEN flags[m] \ {"BURSTING"}
                     ELSE flags[m]]
      /\ \/ \E handled \in SUBSET queue[l] : queue' = QueueAfter(Drained(l, handled), gone)
         \/ queue' = QueueAfter(queue, gone)
      /\ Relist({}, gone, dropped)
  BY DEF RemovePlayer
<1> HIDE DEF gone
<1>5. /\ dropped \in SUBSET GameRefs
      /\ \A x \in dropped : st[x] = "pending"
      /\ pending' \in [Clients -> GameRefs \cup {NoLobby}]
      /\ conn' \in [Clients -> BOOLEAN]
      /\ \A d \in Clients \ {c} : conn'[d] = conn[d]
      /\ \A d \in Clients : pending'[d] # NoLobby =>
             /\ conn'[d] /\ pending'[d] = pending[d]
             /\ st[pending[d]] = "pending" /\ pending[d] \notin dropped
      /\ \A d, e \in Clients : pending'[d] = pending'[e] => d = e \/ pending'[d] = NoLobby
  BY PartingKeepsPending
<1>6. /\ List'
      /\ \A m \in LobbyRefs : st'[m] = IF m \in gone \cup dropped THEN "free" ELSE st[m]
  <2>1. dropped \cap Games = {}
    BY <1>5 DEF Games
  <2>2. \A x, y \in gone : x = y
    BY <1>2
  <2>3. Relist({}, gone, dropped)
    BY <1>4
  <2> QED BY <2>1, <2>2, <2>3, <1>2, <1>5, RelistList DEF IInv
<1>7. /\ queue' \in [LobbyRefs -> SUBSET Clients]
      /\ \A m \in LobbyRefs : st[m] # "listed" => queue'[m] = {}
  <2> DEFINE Sound(q) == /\ \A m \in LobbyRefs : q[m] \in SUBSET Clients
                         /\ \A m \in LobbyRefs : st[m] # "listed" => q[m] = {}
  <2>1. Sound(queue) /\ \A m \in LobbyRefs : st[m] # "listed" => flags[m] = {}
    BY DEF IInv, Others, NoDangling
  <2>2. \A handled \in SUBSET queue[l] : Sound(Drained(l, handled))
    BY <2>1 DEF Drained
  <2>3. ASSUME NEW q, Sound(q)
        PROVE  /\ QueueAfter(q, gone) \in [LobbyRefs -> SUBSET Clients]
               /\ \A m \in LobbyRefs : st[m] # "listed" => QueueAfter(q, gone)[m] = {}
    <3>1. \A m \in LobbyRefs : QueueAfter(q, gone)[m] = IF m \in gone THEN {} ELSE q[m]
      BY DEF QueueAfter
    <3>2. QueueAfter(q, gone) \in [LobbyRefs -> SUBSET Clients]
      BY <2>3 DEF QueueAfter
    <3> QED BY <2>3, <3>1, <3>2
  <2> HIDE DEF Sound
  <2> QED BY <2>1, <2>2, <2>3, <1>4
<1>8. \A m \in gone : queue'[m] = {} /\ flags'[m] = {}
  <2>1. \A m \in gone : m \in LobbyRefs
    BY <1>2
  <2> QED BY <2>1, <1>4 DEF QueueAfter
<1>9. Others'
  <2>1. flags' \in [LobbyRefs -> SUBSET LobbyFlags]
    BY <1>4 DEF IInv, Others
  <2> QED BY <2>1, <1>5, <1>7 DEF IInv, Others
<1>10. NoDangling'
  <2>1. ASSUME NEW d \in Clients, cur'[d] # NoLobby PROVE conn'[d] /\ st'[cur'[d]] = "listed"
    <3>1. /\ d # c /\ cur'[d] = cur[d] /\ cur[d] \in LobbyRefs
          /\ st[cur[d]] = "listed" /\ conn[d]
      BY <2>1, <1>3 DEF IInv, Seats, NoDangling
    <3>2. cur'[d] \notin gone
      <4> SUFFICES ASSUME cur'[d] \in gone PROVE FALSE
        OBVIOUS
      <4>1. cur'[d] = l /\ slot'[l] = Empty
        BY <1>2, <1>3
      <4>2. slot'[l][cid'[d]] = d /\ cid'[d] \in Slots
        BY <4>1, <1>1, <1>3 DEF Seats, Membership
      <4> QED BY <4>1, <4>2, ClientsAssumption DEF Empty
    <3> QED BY <3>1, <3>2, <1>5, <1>6
  <2>2. ASSUME NEW d \in Clients, pending'[d] # NoLobby
        PROVE  conn'[d] /\ st'[pending'[d]] = "pending"
    <3>1. /\ conn'[d] /\ pending'[d] = pending[d] /\ pending[d] \in LobbyRefs
          /\ st[pending[d]] = "pending" /\ pending[d] \notin dropped
      BY <2>2, <1>1, <1>5
    <3>2. pending[d] \notin gone
      BY <3>1, <1>2
    <3> QED BY <3>1, <3>2, <1>6
  <2>3. ASSUME NEW m \in LobbyRefs, st'[m] # "listed"
        PROVE  slot'[m] = Empty /\ queue'[m] = {} /\ flags'[m] = {}
    <3>1. CASE m \in gone
      BY <3>1, <1>2, <1>3, <1>8
    <3>2. CASE m \notin gone
      <4>1. st[m] # "listed" /\ m # l
        BY <3>2, <2>3, <1>2, <1>5, <1>6
      <4> QED BY <3>2, <4>1, <1>3, <1>4, <1>7 DEF IInv, NoDangling
    <3> QED BY <3>1, <3>2
  <2> QED BY <2>1, <2>2, <2>3, <1>5 DEF NoDangling
<1> QED BY <1>3, <1>6, <1>9, <1>10 DEF IInv

LEMMA SeatsUnchanged ==
    ASSUME Seats, UNCHANGED <<cur, cid, joined, slot, num, leader>>, now' \in Nat
    PROVE  Seats'
<1>1. Membership'
  <2>1. Membership
    BY DEF Seats
  <2> QED BY <2>1 DEF Membership, Cap
<1>2. Counts'
  <2>1. Counts
    BY DEF Seats
  <2> QED BY <2>1 DEF Counts, Occupied, Cap
<1> QED BY <1>1, <1>2 DEF Seats

\* A handler that moves nobody and lists nothing: flags, packets, a connection.
LEMMA QuietStep ==
    ASSUME IInv,
           UNCHANGED <<cur, cid, joined, slot, num, leader, listVars, pending>>,
           conn' \in [Clients -> BOOLEAN], \A c \in Clients : conn[c] => conn'[c],
           bursting' \in [Clients -> BOOLEAN],
           flags' \in [LobbyRefs -> SUBSET LobbyFlags],
           queue' \in [LobbyRefs -> SUBSET Clients],
           \A l \in LobbyRefs : st[l] # "listed" => flags'[l] = {} /\ queue'[l] = {},
           now' \in Nat, hung' \in BOOLEAN
    PROVE  IInv'
<1>1. Seats'
  BY SeatsUnchanged DEF IInv
<1>2. List'
  BY DEF IInv, List, GamesCounted, Games, DefaultsListed, listVars
<1>3. Others'
  BY DEF IInv, Others, listVars
<1>4. NoDangling'
  BY DEF IInv, NoDangling, listVars
<1> QED BY <1>1, <1>2, <1>3, <1>4 DEF IInv

\* A handler that destroys an unlisted game without moving anybody.
LEMMA DropStep ==
    ASSUME IInv, NEW c \in Clients, NEW dropped \in SUBSET GameRefs,
           dropped = {pending[c]} \ {NoLobby},
           pending' = [pending EXCEPT ![c] = NoLobby],
           Relist({}, {}, dropped),
           \/ UNCHANGED conn
           \/ cur[c] = NoLobby /\ conn' = [conn EXCEPT ![c] = FALSE],
           bursting' \in [Clients -> BOOLEAN],
           lid' \in [GameRefs -> Nat],
           UNCHANGED <<cur, cid, joined, roomVars, now, hung>>
    PROVE  IInv'
<1>1. \A d \in Clients : pending[d] # NoLobby =>
          pending[d] \in LobbyRefs /\ conn[d] /\ st[pending[d]] = "pending"
  BY DEF IInv, Others, NoDangling, LobbyRefs
<1>2. Seats'
  BY SeatsUnchanged DEF IInv, Seats, roomVars
<1>3. /\ List'
      /\ \A l \in LobbyRefs : st'[l] = IF l \in dropped THEN "free" ELSE st[l]
  <2>1. dropped \cap Games = {}
    BY <1>1 DEF Games
  <2> QED BY <2>1, RelistList DEF IInv
<1>4. Others'
  BY DEF IInv, Others, roomVars
<1>5. NoDangling'
  <2>1. ASSUME NEW d \in Clients, cur'[d] # NoLobby PROVE conn'[d] /\ st'[cur'[d]] = "listed"
    <3>1. cur[d] \in LobbyRefs /\ conn[d] /\ st[cur[d]] = "listed"
      BY <2>1 DEF IInv, Seats, NoDangling
    <3>2. cur[d] \notin dropped
      BY <3>1, <1>1
    <3>3. conn'[d]
      BY <2>1, <3>1 DEF IInv, Others
    <3> QED BY <3>1, <3>2, <3>3, <1>3
  <2>2. ASSUME NEW d \in Clients, pending'[d] # NoLobby
        PROVE  conn'[d] /\ st'[pending'[d]] = "pending"
    <3>1. d # c /\ pending'[d] = pending[d]
      BY <2>2 DEF IInv, Others
    <3>2. pending[d] \notin dropped
      BY <3>1, <2>2 DEF IInv, NoDangling
    <3>3. conn'[d]
      BY <3>1, <2>2, <1>1 DEF IInv, Others
    <3> QED BY <3>1, <3>2, <3>3, <2>2, <1>1, <1>3
  <2>3. ASSUME NEW d \in Clients, NEW e \in Clients, pending'[d] = pending'[e]
        PROVE  d = e \/ pending'[d] = NoLobby
    BY <2>3 DEF IInv, Others, NoDangling
  <2>4. ASSUME NEW l \in LobbyRefs, st'[l] # "listed"
        PROVE  slot'[l] = Empty /\ queue'[l] = {} /\ flags'[l] = {}
    <3>1. st[l] # "listed"
      BY <2>4, <1>1, <1>3
    <3> QED BY <3>1 DEF IInv, NoDangling, roomVars
  <2> QED BY <2>1, <2>2, <2>3, <2>4 DEF NoDangling
<1> QED BY <1>2, <1>3, <1>4, <1>5 DEF IInv

LEMMA CreatePendingStep ==
    ASSUME IInv, NEW c \in Clients, NEW l \in LobbyRefs, CreatePending(c, l)
    PROVE  IInv'
<1>1. /\ conn[c] /\ l \in GameRefs /\ st[l] = "free"
      /\ st' = [st EXCEPT ![l] = "pending"]
      /\ lid' = [lid EXCEPT ![l] = NextId]
      /\ pending' = [pending EXCEPT ![c] = l]
      /\ UNCHANGED <<conn, cur, cid, joined, bursting, pos, numGames, roomVars, now, hung>>
  BY DEF CreatePending, AtMenu, Running
<1>2. DefaultLobbies \cap GameRefs = {} /\ NoLobby \notin LobbyRefs /\ GameRefs \subseteq LobbyRefs
  BY LobbiesAssumption DEF LobbyRefs
<1>3. Seats'
  BY <1>1, SeatsUnchanged DEF IInv, Seats, roomVars
<1>4. List'
  <2>1. Games' = Games
    BY <1>1, <1>2 DEF Games, IInv, List
  <2>2. DefaultsListed'
    BY <1>1, <1>2 DEF IInv, List, DefaultsListed, LobbyRefs
  <2> QED BY <1>1, <2>1, <2>2 DEF IInv, List, GamesCounted
<1>5. Others'
  <2>1. NextId \in Nat
    BY NextIdIsUnused DEF IInv, Others
  <2> QED BY <1>1, <2>1 DEF IInv, Others, roomVars
<1>6. NoDangling'
  <2>1. \A m \in LobbyRefs : st'[m] = IF m = l THEN "pending" ELSE st[m]
    BY <1>1 DEF IInv, List
  <2>2. \A d \in Clients : pending'[d] = IF d = c THEN l ELSE pending[d]
    BY <1>1 DEF IInv, Others
  <2>3. \A d \in Clients : pending[d] # l
    BY <1>1, <1>2 DEF IInv, NoDangling
  <2>4. ASSUME NEW d \in Clients, cur'[d] # NoLobby PROVE conn'[d] /\ st'[cur'[d]] = "listed"
    BY <2>1, <2>4, <1>1 DEF IInv, Seats, NoDangling
  <2>5. ASSUME NEW d \in Clients, pending'[d] # NoLobby
        PROVE  conn'[d] /\ st'[pending'[d]] = "pending"
    BY <2>1, <2>2, <2>5, <1>1, <1>2 DEF IInv, Others, NoDangling
  <2>6. ASSUME NEW d \in Clients, NEW e \in Clients, pending'[d] = pending'[e]
        PROVE  d = e \/ pending'[d] = NoLobby
    BY <2>2, <2>3, <2>6 DEF IInv, NoDangling
  <2>7. ASSUME NEW m \in LobbyRefs, st'[m] # "listed"
        PROVE  slot'[m] = Empty /\ queue'[m] = {} /\ flags'[m] = {}
    BY <2>1, <2>7, <1>1 DEF IInv, NoDangling, roomVars
  <2> QED BY <2>4, <2>5, <2>6, <2>7 DEF NoDangling
<1> QED BY <1>3, <1>4, <1>5, <1>6 DEF IInv

-----------------------------------------------------------------------------
(* The theorems.                                                            *)

LEMMA Initially == Init => IInv
<1> SUFFICES ASSUME Init PROVE IInv
  OBVIOUS
<1>1. /\ NoClient \notin Clients /\ NoLobby \notin LobbyRefs
      /\ DefaultLobbies \cap GameRefs = {}
      /\ LobbyOrder \in [DefaultLobbies -> Nat \ {0}]
      /\ DefaultLobbies \subseteq LobbyRefs /\ GameRefs \subseteq LobbyRefs
  BY ClientsAssumption, LobbiesAssumption DEF LobbyRefs
<1>2. Seats
  <2>1. Membership
    BY <1>1, SlotsFinite DEF Init, Membership, Empty
  <2>2. Counts
    <3>1. ASSUME NEW l \in LobbyRefs PROVE num[l] = Cardinality(Occupied(l)) /\ num[l] <= Cap(l)
      <4>1. Occupied(l) = {}
        BY DEF Init, Occupied, Empty
      <4>2. Cardinality(Occupied(l)) = 0
        BY <4>1, FS_EmptySet
      <4> QED BY <4>2, SlotsFinite DEF Init
    <3> QED BY <3>1 DEF Counts
  <2>3. slot \in [LobbyRefs -> [Slots -> Clients \cup {NoClient}]]
    BY DEF Init, Empty
  <2> QED BY <2>1, <2>2, <2>3, SlotsFinite DEF Init, Seats
<1>3. List
  <2>1. GamesCounted
    <3>1. Games = {}
      BY <1>1 DEF Init, Games, LobbyRefs
    <3> QED BY <3>1, FS_EmptySet DEF Init, GamesCounted
  <2>2. DefaultsListed
    BY <1>1 DEF Init, DefaultsListed
  <2>3. st \in [LobbyRefs -> {"free", "pending", "listed"}] /\ pos \in [LobbyRefs -> Nat]
    BY <1>1 DEF Init
  <2> QED BY <2>1, <2>2, <2>3 DEF Init, List
<1>4. Others
  BY DEF Init, Others
<1>5. NoDangling
  BY <1>1 DEF Init, NoDangling
<1> QED BY <1>2, <1>3, <1>4, <1>5 DEF IInv

\* The change of lobby that ends in a thread waiting for itself leaves the emptied game
\* in the list.
LEMMA HungMoveStep ==
    ASSUME IInv, NEW c \in Clients, NEW old \in LobbyRefs, NEW req \in DefaultLobbies,
           cur[c] = old, old # req, Move(c, req),
           UNCHANGED <<conn, pending, listVars, flags, queue, now>>, hung' \in BOOLEAN
    PROVE  IInv'
<1>1. NoLobby \notin LobbyRefs /\ req \in LobbyRefs /\ st[req] = "listed"
  BY LobbiesAssumption DEF LobbyRefs, IInv, List, DefaultsListed
<1>2. /\ Seats'
      /\ cur' = [cur EXCEPT ![c] = req]
      /\ \A m \in LobbyRefs \ {old, req} : slot'[m] = slot[m]
  BY <1>1, MoveSeats DEF IInv
<1>3. conn[c] /\ st[old] = "listed"
  BY <1>1 DEF IInv, NoDangling
<1>4. List'
  BY DEF IInv, List, GamesCounted, Games, DefaultsListed, listVars
<1>5. Others'
  BY DEF IInv, Others, Move, listVars
<1>6. NoDangling'
  BY <1>1, <1>2, <1>3 DEF IInv, Seats, NoDangling, listVars
<1> QED BY <1>2, <1>4, <1>5, <1>6 DEF IInv

\* Every handler keeps the invariant.
LEMMA Inductive == IInv /\ [Next]_vars => IInv'
<1> SUFFICES ASSUME IInv, [Next]_vars PROVE IInv'
  OBVIOUS
<1>1. /\ NoLobby \notin LobbyRefs /\ DefaultLobbies \subseteq LobbyRefs
      /\ GameRefs \subseteq LobbyRefs /\ DefaultLobbies \cap GameRefs = {}
  BY LobbiesAssumption DEF LobbyRefs
<1>2. /\ cur \in [Clients -> LobbyRefs \cup {NoLobby}]
      /\ conn \in [Clients -> BOOLEAN]
      /\ bursting \in [Clients -> BOOLEAN]
      /\ pending \in [Clients -> GameRefs \cup {NoLobby}]
      /\ lid \in [GameRefs -> Nat]
      /\ flags \in [LobbyRefs -> SUBSET LobbyFlags]
      /\ queue \in [LobbyRefs -> SUBSET Clients]
      /\ hung \in BOOLEAN /\ now \in Nat
  BY DEF IInv, Seats, Others
<1>3. NextId \in Nat
  BY NextIdIsUnused DEF IInv, Others
<1>4. \A l \in LobbyRefs : st[l] # "listed" => queue[l] = {} /\ flags[l] = {}
  BY DEF IInv, NoDangling
<1>5. \A c \in Clients : cur[c] # NoLobby => conn[c] /\ st[cur[c]] = "listed"
  BY DEF IInv, NoDangling
<1>6. \A l \in DefaultLobbies : st[l] = "listed"
  BY DEF IInv, List, DefaultsListed
<1>7. ASSUME NEW c \in Clients, Connect(c) PROVE IInv'
  <2>1. conn' \in [Clients -> BOOLEAN] /\ \A d \in Clients : conn[d] => conn'[d]
    BY <1>2, <1>7 DEF Connect
  <2> QED BY <2>1, <1>2, <1>4, <1>7, QuietStep DEF Connect, listVars, roomVars
<1>8. ASSUME NEW c \in Clients, CharData(c) PROVE IInv'
  <2>1. PICK l \in DefaultLobbies : Enter(c, l)
    BY <1>8 DEF CharData, AddToAny
  <2>2. /\ conn[c] /\ cur[c] = NoLobby
        /\ UNCHANGED <<conn, bursting, pending, st, pos, numGames, lid, flags, queue, now, hung>>
    BY <1>8 DEF CharData, AddToAny, Running, listVars
  <2>3. Listing(c) /\ lid' \in [GameRefs -> Nat]
    BY <2>2, <1>2 DEF Listing
  <2> QED BY <2>1, <2>2, <2>3, EnterStep
<1>9. ASSUME NEW c \in Clients, LeaveGame(c) PROVE IInv'
  <2>1. cur[c] \in LobbyRefs
    BY <1>1, <1>2, <1>9 DEF LeaveGame, InGame
  <2>2. /\ RemovePlayer(c)
        /\ Relist({}, Emptied(cur[c]), {})
        /\ lid' \in [GameRefs -> Nat]
        /\ UNCHANGED <<conn, bursting, pending, now, hung>>
    BY <1>2, <1>9 DEF LeaveGame, Destroy
  <2>3. Parting(c, {}) /\ bursting' \in [Clients -> BOOLEAN]
    BY <2>2, <1>2 DEF Parting
  <2> QED BY <2>1, <2>2, <2>3, RemoveStep
<1>10. ASSUME NEW c \in Clients, NEW req \in LobbyRefs, ChangeLobby(c, req) PROVE IInv'
  <2>1. cur[c] \in LobbyRefs /\ cur[c] # req /\ req \in DefaultLobbies /\ Move(c, req)
    BY <1>2, <1>10 DEF ChangeLobby
  <2>2. UNCHANGED <<conn, pending, now>>
    BY <1>10 DEF ChangeLobby
  <2>3. CASE RelockBlocks /\ Emptied(cur[c]) # {}
    <3>1. hung' = TRUE /\ UNCHANGED <<listVars, flags, queue>>
      BY <2>3, <1>10 DEF ChangeLobby
    <3> QED BY <2>1, <2>2, <3>1, HungMoveStep
  <2>4. CASE ~(RelockBlocks /\ Emptied(cur[c]) # {})
    <3>1. /\ Relist({}, Emptied(cur[c]), {})
          /\ lid' \in [GameRefs -> Nat]
          /\ flags' = FlagsAfterMove(req, Emptied(cur[c]))
          /\ queue' = QueueAfter(queue, Emptied(cur[c]))
          /\ UNCHANGED hung
      BY <2>4, <1>2, <1>10 DEF ChangeLobby, Destroy
    <3>2. Opened(c, req, {})
      BY <2>1, <2>2, <1>6 DEF Opened
    <3> QED BY <2>1, <2>2, <3>1, <3>2, MoveStep
  <2> QED BY <2>3, <2>4
<1>11. ASSUME NEW c \in Clients, NEW req \in LobbyRefs, EnterLobby(c, req) PROVE IInv'
  <2>1. PICK l \in DefaultLobbies : Enter(c, l)
    BY <1>11 DEF EnterLobby, AddToAny
  <2>2. /\ conn[c] /\ cur[c] = NoLobby
        /\ UNCHANGED <<conn, bursting, pending, st, pos, numGames, lid, flags, queue, now, hung>>
    BY <1>11 DEF EnterLobby, AddToAny, Running, listVars
  <2>3. Listing(c) /\ lid' \in [GameRefs -> Nat]
    BY <2>2, <1>2 DEF Listing
  <2> QED BY <2>1, <2>2, <2>3, EnterStep
<1>12. ASSUME NEW c \in Clients, NEW req \in LobbyRefs, JoinGame(c, req) PROVE IInv'
  <2>1. /\ cur[c] \in LobbyRefs /\ cur[c] # req /\ st[req] = "listed" /\ Move(c, req)
        /\ Relist({}, Emptied(cur[c]), {})
        /\ lid' \in [GameRefs -> Nat]
        /\ flags' = FlagsAfterMove(req, Emptied(cur[c]))
        /\ queue' = QueueAfter(queue, Emptied(cur[c]))
        /\ UNCHANGED <<conn, pending, now, hung>>
    BY <1>2, <1>12 DEF JoinGame, Destroy, Lookup, Games
  <2>2. Opened(c, req, {})
    BY <2>1 DEF Opened
  <2> QED BY <2>1, <2>2, MoveStep
<1>13. ASSUME NEW c \in Clients, NEW l \in LobbyRefs, CreateGame(c, l) PROVE IInv'
  <2>1. /\ cur[c] \in LobbyRefs /\ l \in GameRefs /\ st[l] = "free" /\ Move(c, l)
        /\ Relist({l}, Emptied(cur[c]), {})
        /\ lid' \in [GameRefs -> Nat]
        /\ flags' = FlagsAfterMove(l, Emptied(cur[c]))
        /\ queue' = QueueAfter(queue, Emptied(cur[c]))
        /\ UNCHANGED <<conn, pending, now, hung>>
    BY <1>2, <1>3, <1>13 DEF CreateGame
  <2>2. Opened(c, l, {l})
    BY <2>1 DEF Opened
  <2>3. cur[c] # l
    BY <2>1, <1>1, <1>5
  <2> QED BY <2>1, <2>2, <2>3, MoveStep
<1>14. ASSUME NEW c \in Clients, NEW l \in LobbyRefs, CreatePending(c, l) PROVE IInv'
  BY <1>14, CreatePendingStep
<1>15. ASSUME NEW c \in Clients, GameType(c) PROVE IInv'
  <2> DEFINE l == pending[c]
  <2>1. /\ cur[c] \in LobbyRefs /\ l \in GameRefs /\ Move(c, l)
        /\ pending' = [pending EXCEPT ![c] = NoLobby]
        /\ Relist({l}, Emptied(cur[c]), {})
        /\ lid' \in [GameRefs -> Nat]
        /\ flags' = FlagsAfterMove(l, Emptied(cur[c]))
        /\ queue' = QueueAfter(queue, Emptied(cur[c]))
        /\ UNCHANGED <<conn, now, hung>>
    BY <1>2, <1>15 DEF GameType
  <2>2. Opened(c, l, {l})
    BY <2>1 DEF Opened
  <2>3. cur[c] # l
    BY <2>1, <1>1, <1>5 DEF IInv, NoDangling
  <2> HIDE DEF l
  <2> QED BY <2>1, <2>2, <2>3, <1>1, MoveStep
<1>16. ASSUME NEW c \in Clients, GameTypeRefused(c) PROVE IInv'
  <2>1. /\ pending[c] \in GameRefs
        /\ pending' = [pending EXCEPT ![c] = NoLobby]
        /\ Relist({}, {}, {pending[c]})
        /\ lid' \in [GameRefs -> Nat]
        /\ UNCHANGED <<conn, cur, cid, joined, bursting, roomVars, now, hung>>
    BY <1>2, <1>16 DEF GameTypeRefused
  <2>2. {pending[c]} = {pending[c]} \ {NoLobby} /\ {pending[c]} \in SUBSET GameRefs
    BY <2>1, <1>1
  <2> QED BY <2>1, <2>2, <1>2, DropStep
<1>17. ASSUME NEW c \in Clients, RejoinGame(c) PROVE IInv'
  <2>1. /\ cur[c] \in LobbyRefs /\ st[cur[c]] = "listed"
        /\ flags' = [flags EXCEPT ![cur[c]] = @ \cup {"BURSTING"}]
        /\ bursting' = [bursting EXCEPT ![c] = TRUE]
        /\ UNCHANGED <<conn, cur, cid, joined, pending, listVars, slot, num, leader, queue, now, hung>>
    BY <1>1, <1>5, <1>17 DEF RejoinGame, InGame
  <2>2. /\ flags' \in [LobbyRefs -> SUBSET LobbyFlags]
        /\ bursting' \in [Clients -> BOOLEAN]
    BY <2>1, <1>2 DEF LobbyFlags
  <2>3. \A l \in LobbyRefs : st[l] # "listed" => flags'[l] = {} /\ queue'[l] = {}
    BY <2>1, <1>2, <1>4
  <2> QED BY <2>1, <2>2, <2>3, <1>2, QuietStep
<1>18. ASSUME NEW c \in Clients, JoinNowhere(c) PROVE IInv'
  <2>1. PICK l \in DefaultLobbies : Enter(c, l)
    BY <1>18 DEF JoinNowhere, AddToAny
  <2>2. /\ conn[c] /\ cur[c] = NoLobby
        /\ UNCHANGED <<conn, bursting, flags, queue, now, hung>>
    BY <1>18 DEF JoinNowhere, AddToAny, Running
  <2>3. Listing(c) /\ lid' \in [GameRefs -> Nat]
    <3>1. CASE UNCHANGED <<listVars, pending>>
      BY <3>1, <1>2 DEF Listing, listVars
    <3>2. ASSUME NEW g \in GameRefs, st[g] = "free", Relist({g}, {}, {}),
                 lid' = [lid EXCEPT ![g] = NextId], UNCHANGED pending
          PROVE  Listing(c) /\ lid' \in [GameRefs -> Nat]
      BY <3>2, <1>2, <1>3 DEF Listing
    <3>3. CASE /\ pending[c] # NoLobby
               /\ Relist({pending[c]}, {}, {})
               /\ pending' = [pending EXCEPT ![c] = NoLobby]
               /\ UNCHANGED lid
      BY <3>3, <1>2 DEF Listing
    <3> QED BY <3>1, <3>2, <3>3, <1>18 DEF JoinNowhere
  <2> QED BY <2>1, <2>2, <2>3, EnterStep
<1>19. ASSUME NEW c \in Clients, DoneBurst(c) PROVE IInv'
  <2>1. PICK handled \in SUBSET queue[cur[c]] : queue' = Drained(cur[c], handled)
    BY <1>19 DEF DoneBurst
  <2>2. /\ cur[c] \in LobbyRefs
        /\ flags' = [flags EXCEPT ![cur[c]] = @ \ {"BURSTING"}]
        /\ bursting' = [bursting EXCEPT ![c] = FALSE]
        /\ UNCHANGED <<conn, cur, cid, joined, pending, listVars, slot, num, leader, now, hung>>
    BY <1>1, <1>19 DEF DoneBurst, InGame
  <2>3. flags' \in [LobbyRefs -> SUBSET LobbyFlags] /\ bursting' \in [Clients -> BOOLEAN]
    BY <2>2, <1>2
  <2>4. queue' \in [LobbyRefs -> SUBSET Clients]
    BY <2>1, <2>2, <1>2 DEF Drained
  <2>5. \A l \in LobbyRefs : st[l] # "listed" => flags'[l] = {} /\ queue'[l] = {}
    BY <2>1, <2>2, <1>2, <1>4 DEF Drained
  <2> QED BY <2>2, <2>3, <2>4, <2>5, <1>2, QuietStep
<1>20. ASSUME NEW c \in Clients, Delay(c) PROVE IInv'
  <2>1. /\ cur[c] \in LobbyRefs /\ st[cur[c]] = "listed"
        /\ UNCHANGED <<clientVars, listVars, slot, num, leader, flags, now>>
    BY <1>2, <1>5, <1>20 DEF Delay
  <2>2. /\ queue' = queue \/ queue' = [queue EXCEPT ![cur[c]] = @ \cup {c}]
        /\ hung' \in BOOLEAN
    BY <1>2, <1>20 DEF Delay
  <2>3. queue' \in [LobbyRefs -> SUBSET Clients]
    BY <2>1, <2>2, <1>2
  <2>4. \A l \in LobbyRefs : st[l] # "listed" => flags'[l] = {} /\ queue'[l] = {}
    BY <2>1, <2>2, <1>2, <1>4
  <2> QED BY <2>1, <2>2, <2>3, <2>4, <1>2, QuietStep DEF clientVars
<1>21. ASSUME NEW c \in Clients, NEW f \in SUBSET LobbyFlags,
              cur[c] \in LobbyRefs, SetFlags(cur[c], f)
       PROVE  IInv'
  <2>1. /\ flags' = [flags EXCEPT ![cur[c]] = f]
        /\ UNCHANGED <<clientVars, listVars, slot, num, leader, queue, now, hung>>
    BY <1>21 DEF SetFlags
  <2>2. flags' \in [LobbyRefs -> SUBSET LobbyFlags]
    BY <2>1, <1>2
  <2>3. \A l \in LobbyRefs : st[l] # "listed" => flags'[l] = {} /\ queue'[l] = {}
    BY <2>1, <1>1, <1>2, <1>4, <1>5, <1>21
  <2> QED BY <2>1, <2>2, <2>3, <1>2, QuietStep DEF clientVars
<1>22. ASSUME NEW c \in Clients, QuestList(c) \/ QuestEndList(c) \/ QuestStart(c) PROVE IInv'
  <2>1. cur[c] \in LobbyRefs
    BY <1>2, <1>22 DEF QuestList, QuestEndList, QuestStart, AtQuests
  <2>2. flags[cur[c]] \in SUBSET LobbyFlags /\ {"QUESTSEL", "QUESTING"} \subseteq LobbyFlags
    BY <2>1, <1>2 DEF LobbyFlags
  <2>3. PICK f \in SUBSET LobbyFlags : SetFlags(cur[c], f)
    BY <2>2, <1>22 DEF QuestList, QuestEndList, QuestStart
  <2> QED BY <2>1, <2>3, <1>21
<1>23. ASSUME NEW c \in Clients, Disconnect(c) PROVE IInv'
  <2> DEFINE dropped == {pending[c]} \ {NoLobby}
  <2>1. /\ conn' = [conn EXCEPT ![c] = FALSE]
        /\ pending' = [pending EXCEPT ![c] = NoLobby]
        /\ bursting' \in [Clients -> BOOLEAN]
        /\ lid' \in [GameRefs -> Nat]
        /\ dropped \in SUBSET GameRefs
        /\ UNCHANGED <<now, hung>>
    BY <1>2, <1>23 DEF Disconnect
  <2>2. CASE cur[c] = NoLobby
    <3>1. Relist({}, {}, dropped) /\ UNCHANGED <<cur, cid, joined, roomVars>>
      BY <2>2, <1>23 DEF Disconnect
    <3> QED BY <2>1, <2>2, <3>1, DropStep
  <2>3. CASE cur[c] # NoLobby
    <3>1. cur[c] \in LobbyRefs /\ RemovePlayer(c) /\ Relist({}, Emptied(cur[c]), dropped)
      BY <2>3, <1>2, <1>23 DEF Disconnect
    <3>2. Parting(c, dropped)
      BY <2>1 DEF Parting
    <3> HIDE DEF dropped
    <3> QED BY <2>1, <3>1, <3>2, RemoveStep
  <2> QED BY <2>2, <2>3
<1>24. CASE Tick
  BY <1>2, <1>4, <1>24, QuietStep DEF Tick, clientVars, roomVars
<1>25. CASE UNCHANGED vars
  BY <1>2, <1>4, <1>25, QuietStep DEF vars, clientVars, roomVars
<1> QED
  BY <1>7, <1>8, <1>9, <1>10, <1>11, <1>12, <1>13, <1>14, <1>15, <1>16, <1>17, <1>18,
     <1>19, <1>20, <1>22, <1>23, <1>24, <1>25 DEF Next

LEMMA Invariant == Spec => []IInv
BY Initially, Inductive, PTL DEF Spec

\* Every variable keeps its type, whatever the clients send.
THEOREM TypeCorrect == Spec => []TypeOK
<1>1. IInv => TypeOK
  BY DEF IInv, Seats, List, Others, TypeOK, TypePlayers, TypeList, TypeRooms
<1> QED BY <1>1, Invariant, PTL

\* A lobby's table of clients and the players' own cur_lobby and client_id always agree:
\* lobby_remove_client_locked never finds a client "not where it said it was".
THEOREM MembershipHolds == Spec => []Membership
<1>1. IInv => Membership
  BY DEF IInv, Seats
<1> QED BY <1>1, Invariant, PTL

\* num_clients is the number of occupied places and never exceeds max_clients.
THEOREM CountsHold == Spec => []Counts
<1>1. IInv => Counts
  BY DEF IInv, Seats
<1> QED BY <1>1, Invariant, PTL

\* No player or pending game outlives the lobby it points to, and a freed lobby holds
\* neither players nor packets nor flags.
THEOREM NothingDangles == Spec => []NoDangling
<1>1. IInv => NoDangling
  BY DEF IInv
<1> QED BY <1>1, Invariant, PTL

\* The block's game count is the number of games in its list.
THEOREM GamesAreCounted == Spec => []GamesCounted
<1>1. IInv => GamesCounted
  BY DEF IInv, List
<1> QED BY <1>1, Invariant, PTL

-----------------------------------------------------------------------------
(* Leaders.                                                                 *)

\* What a step may do to leader_id: nothing, the first player of an empty lobby takes
\* it, or the place of the leader that leaves is vacated.
LeaderMoves ==
    \A l \in LobbyRefs :
        \/ leader'[l] = leader[l]
        \/ slot[l] = Empty
        \/ slot'[l][leader[l]] = NoClient

LEMMA EmptyCount ==
    ASSUME Seats, NEW l \in LobbyRefs, num[l] = 0
    PROVE  slot[l] = Empty
<1>1. Cardinality({i \in Slots : slot[l][i] # NoClient}) = 0
  BY DEF Seats, Counts, Occupied
<1>2. slot[l] \in [Slots -> Clients \cup {NoClient}]
  BY DEF Seats
<1> QED BY <1>1, <1>2, NoneOccupied

LEMMA EnterLeader ==
    ASSUME Seats, NEW c \in Clients, NEW l \in LobbyRefs, Enter(c, l)
    PROVE  LeaderMoves
<1>1. leader' = [leader EXCEPT ![l] = LeaderWith(l, Place(l))]
  BY DEF Enter
<1>2. num[l] # 0 => leader'[l] = leader[l]
  BY <1>1 DEF LeaderWith, Seats
<1>3. \A m \in LobbyRefs : m # l => leader'[m] = leader[m]
  BY <1>1 DEF Seats
<1> QED BY <1>2, <1>3, EmptyCount DEF LeaderMoves

LEMMA RemoveLeader ==
    ASSUME Seats, NEW c \in Clients, cur[c] \in LobbyRefs, RemovePlayer(c)
    PROVE  LeaderMoves
<1> DEFINE l == cur[c]
<1>1. /\ leader' = [leader EXCEPT ![l] = LeaderWithout(l, c)]
      /\ slot' = [slot EXCEPT ![l][cid[c]] = NoClient]
  BY DEF RemovePlayer
<1>2. l \in LobbyRefs /\ cid[c] \in Slots
  BY DEF Seats
<1> HIDE DEF l
<1>3. cid[c] # leader[l] => leader'[l] = leader[l]
  BY <1>1, <1>2 DEF LeaderWithout, Seats
<1>4. slot'[l][cid[c]] = NoClient
  BY <1>1, <1>2 DEF Seats
<1>5. \A m \in LobbyRefs : m # l => leader'[m] = leader[m]
  BY <1>1, <1>2 DEF Seats
<1> QED BY <1>3, <1>4, <1>5 DEF LeaderMoves

LEMMA MoveLeader ==
    ASSUME Seats, NEW c \in Clients, NEW req \in LobbyRefs,
           cur[c] \in LobbyRefs, cur[c] # req, Move(c, req)
    PROVE  LeaderMoves
<1> DEFINE l == cur[c]
           i == Place(req)
<1>1. /\ leader' = [leader EXCEPT ![req] = LeaderWith(req, i), ![l] = LeaderWithout(l, c)]
      /\ slot' = [slot EXCEPT ![req][i] = c, ![l][cid[c]] = NoClient]
  BY DEF Move
<1>2. l \in LobbyRefs /\ cid[c] \in Slots /\ l # req
  BY DEF Seats
<1> HIDE DEF l, i
<1>3. cid[c] # leader[l] => leader'[l] = leader[l]
  BY <1>1, <1>2 DEF LeaderWithout, Seats
<1>4. slot'[l][cid[c]] = NoClient
  BY <1>1, <1>2 DEF Seats
<1>5. num[req] # 0 => leader'[req] = leader[req]
  BY <1>1, <1>2 DEF LeaderWith, Seats
<1>6. \A m \in LobbyRefs : m # l /\ m # req => leader'[m] = leader[m]
  BY <1>1, <1>2 DEF Seats
<1> QED BY <1>2, <1>3, <1>4, <1>5, <1>6, EmptyCount DEF LeaderMoves

\* A lobby changes its leader only when the leader leaves it, or when its first player
\* enters: whoever leads keeps leading for as long as it stays.
THEOREM LeadersStay == Spec => LeaderStays
<1>1. ASSUME IInv, [Next]_vars PROVE LeaderMoves
  <2>1. Seats /\ cur \in [Clients -> LobbyRefs \cup {NoLobby}]
    BY <1>1 DEF IInv, Seats
  <2>2. /\ DefaultLobbies \subseteq LobbyRefs /\ GameRefs \subseteq LobbyRefs
        /\ NoLobby \notin LobbyRefs
    BY LobbiesAssumption DEF LobbyRefs
  <2>3. \A c \in Clients :
            /\ cur[c] # NoLobby => st[cur[c]] = "listed"
            /\ pending[c] # NoLobby => st[pending[c]] = "pending"
    BY <1>1 DEF IInv, NoDangling
  <2>4. ASSUME UNCHANGED leader PROVE LeaderMoves
    BY <2>4 DEF LeaderMoves
  <2>5. ASSUME NEW c \in Clients, NEW req, AddToAny(c, req) PROVE LeaderMoves
    BY <2>1, <2>2, <2>5, EnterLeader DEF AddToAny
  <2>6. ASSUME NEW c \in Clients, CharData(c) \/ JoinNowhere(c) PROVE LeaderMoves
    BY <2>5, <2>6 DEF CharData, JoinNowhere
  <2>7. ASSUME NEW c \in Clients, LeaveGame(c) PROVE LeaderMoves
    BY <2>1, <2>2, <2>7, RemoveLeader DEF LeaveGame, InGame
  <2>8. ASSUME NEW c \in Clients, Disconnect(c) PROVE LeaderMoves
    <3>1. UNCHANGED leader \/ (cur[c] # NoLobby /\ RemovePlayer(c))
      BY <2>8 DEF Disconnect, roomVars
    <3> QED BY <2>1, <2>4, <3>1, RemoveLeader
  <2>9. ASSUME NEW c \in Clients, NEW l \in LobbyRefs, EnterLobby(c, l) PROVE LeaderMoves
    BY <2>5, <2>9 DEF EnterLobby
  <2>10. ASSUME NEW c \in Clients, NEW l \in LobbyRefs, ChangeLobby(c, l) PROVE LeaderMoves
    BY <2>1, <2>10, MoveLeader DEF ChangeLobby
  <2>11. ASSUME NEW c \in Clients, NEW l \in LobbyRefs, JoinGame(c, l) PROVE LeaderMoves
    BY <2>1, <2>11, MoveLeader DEF JoinGame
  <2>12. ASSUME NEW c \in Clients, NEW l \in LobbyRefs, CreateGame(c, l) PROVE LeaderMoves
    <3>1. cur[c] # NoLobby /\ st[l] = "free" /\ Move(c, l)
      BY <2>12 DEF CreateGame
    <3>2. cur[c] \in LobbyRefs /\ cur[c] # l
      BY <2>1, <2>3, <3>1
    <3> QED BY <2>1, <3>1, <3>2, MoveLeader
  <2>13. ASSUME NEW c \in Clients, GameType(c) PROVE LeaderMoves
    <3>1. cur[c] # NoLobby /\ pending[c] # NoLobby /\ Move(c, pending[c])
      BY <2>13 DEF GameType
    <3>2. cur[c] \in LobbyRefs /\ cur[c] # pending[c]
      BY <2>1, <2>3, <3>1
    <3>3. pending[c] \in LobbyRefs
      BY <2>2, <3>1, <1>1 DEF IInv, Others
    <3> QED BY <2>1, <3>1, <3>2, <3>3, MoveLeader
  <2>14. ASSUME NEW c \in Clients,
                \/ Connect(c) \/ GameTypeRefused(c) \/ RejoinGame(c) \/ DoneBurst(c)
                \/ Delay(c) \/ QuestList(c) \/ QuestEndList(c) \/ QuestStart(c)
         PROVE  LeaderMoves
    <3>1. CASE Connect(c) \/ GameTypeRefused(c)
      BY <2>4, <3>1 DEF Connect, GameTypeRefused, roomVars
    <3>2. CASE RejoinGame(c) \/ DoneBurst(c) \/ Delay(c)
      BY <2>4, <3>2 DEF RejoinGame, DoneBurst, Delay
    <3>3. CASE QuestList(c) \/ QuestEndList(c) \/ QuestStart(c)
      BY <2>4, <3>3 DEF QuestList, QuestEndList, QuestStart, SetFlags
    <3> QED BY <2>14, <3>1, <3>2, <3>3
  <2>15. ASSUME NEW c \in Clients, NEW l \in LobbyRefs, CreatePending(c, l) PROVE LeaderMoves
    BY <2>4, <2>15 DEF CreatePending, roomVars
  <2>16. CASE Tick
    BY <2>4, <2>16 DEF Tick, roomVars
  <2>17. CASE UNCHANGED vars
    BY <2>4, <2>17 DEF vars, roomVars
  <2> QED BY <1>1, <2>6, <2>7, <2>8, <2>9, <2>10, <2>11, <2>12, <2>13, <2>14, <2>15,
             <2>16, <2>17 DEF Next
<1>2. ASSUME IInv, LeaderMoves, NEW l \in LobbyRefs, NEW c \in Clients,
             slot[l][leader[l]] = c, slot'[l][leader[l]] = c
      PROVE  leader'[l] = leader[l]
  <2>1. leader[l] \in Slots /\ c # NoClient
    BY <1>2, ClientsAssumption DEF IInv, Seats
  <2> QED BY <1>2, <2>1 DEF LeaderMoves, Empty
<1>3. IInv /\ [Next]_vars =>
          [\A l \in LobbyRefs : \A c \in Clients :
              /\ slot[l][leader[l]] = c
              /\ slot'[l][leader[l]] = c
              => leader'[l] = leader[l]]_vars
  BY <1>1, <1>2
<1> QED BY <1>3, Invariant, PTL DEF Spec, LeaderStays
=============================================================================
