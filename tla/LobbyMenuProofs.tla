--------------------------- MODULE LobbyMenuProofs ----------------------------
(***************************************************************************)
(* More proofs about Lobby: what becomes of delayed packets, of a game's   *)
(* id and of its leadership whatever the clients send, and, for clients    *)
(* that keep to the game's menus, that a game closes and opens with its    *)
(* bursts, that it goes with its last player, and that a block keeps the   *)
(* promises of Rooms; and, whatever the clients send, about the list of    *)
(* lobbies: games are put at its end and taken out of its middle, and it   *)
(* keeps an order without holes, in which each lobby has its own place.    *)
(***************************************************************************)
EXTENDS LobbyProofs

LEMMA Refs ==
    /\ NoLobby \notin LobbyRefs /\ NoLobby \notin GameRefs
    /\ DefaultLobbies \subseteq LobbyRefs /\ GameRefs \subseteq LobbyRefs
    /\ DefaultLobbies \cap GameRefs = {}
BY LobbiesAssumption DEF LobbyRefs

-----------------------------------------------------------------------------
(* Delayed packets.                                                         *)

\* What a change of lobby does to flags and queues keeps packets and bursts together.
LEMMA MoveKeepsPackets ==
    ASSUME NoPacketLeftBehind, NEW req, NEW gone,
           flags' = FlagsAfterMove(req, gone), queue' = QueueAfter(queue, gone)
    PROVE  NoPacketLeftBehind'
BY DEF NoPacketLeftBehind, FlagsAfterMove, QueueAfter

LEMMA RemoveKeepsPackets ==
    ASSUME NoPacketLeftBehind, NEW c, RemovePlayer(c)
    PROVE  NoPacketLeftBehind'
<1> DEFINE l == cur[c]
           gone == Emptied(l)
<1>1. /\ flags' = [m \in LobbyRefs |->
                     IF m \in gone THEN {}
                     ELSE IF m = l /\ bursting[c] THEN flags[m] \ {"BURSTING"}
                     ELSE flags[m]]
      /\ \/ bursting[c] /\ \E handled \in SUBSET queue[l] :
                queue' = QueueAfter(Drained(l, handled), gone)
         \/ ~bursting[c] /\ queue' = QueueAfter(queue, gone)
  BY DEF RemovePlayer
<1> HIDE DEF l, gone
<1>2. ASSUME bursting[c], NEW handled, queue' = QueueAfter(Drained(l, handled), gone)
      PROVE  NoPacketLeftBehind'
  BY <1>1, <1>2 DEF NoPacketLeftBehind, QueueAfter, Drained
<1>3. CASE ~bursting[c] /\ queue' = QueueAfter(queue, gone)
  BY <1>1, <1>3 DEF NoPacketLeftBehind, QueueAfter
<1> QED BY <1>1, <1>2, <1>3

\* Packets are delayed only while somebody bursts: whoever ends a burst, by DONE_BURST,
\* by leaving or by disconnecting, leaves none behind in any lobby.
THEOREM PacketsFollowBursts == Spec => []NoPacketLeftBehind
<1>1. Init => NoPacketLeftBehind
  BY DEF Init, NoPacketLeftBehind
<1>2. ASSUME IInv, NoPacketLeftBehind, [Next]_vars PROVE NoPacketLeftBehind'
  <2>1. ASSUME UNCHANGED <<flags, queue>> PROVE NoPacketLeftBehind'
    BY <1>2, <2>1 DEF NoPacketLeftBehind
  <2>2. /\ flags \in [LobbyRefs -> SUBSET LobbyFlags]
        /\ queue \in [LobbyRefs -> SUBSET Clients]
        /\ cur \in [Clients -> LobbyRefs \cup {NoLobby}]
    BY <1>2 DEF IInv, Seats, Others
  <2>3. ASSUME NEW c \in Clients, CharData(c) \/ JoinNowhere(c) PROVE NoPacketLeftBehind'
    BY <2>1, <2>3 DEF CharData, JoinNowhere, AddToAny
  <2>4. ASSUME NEW c \in Clients, LeaveGame(c) PROVE NoPacketLeftBehind'
    BY <1>2, <2>4, RemoveKeepsPackets DEF LeaveGame
  <2>5. ASSUME NEW c \in Clients, Disconnect(c) PROVE NoPacketLeftBehind'
    <3>1. UNCHANGED <<flags, queue>> \/ RemovePlayer(c)
      BY <2>5 DEF Disconnect, roomVars
    <3> QED BY <1>2, <2>1, <3>1, RemoveKeepsPackets
  <2>6. ASSUME NEW c \in Clients, NEW l \in LobbyRefs, EnterLobby(c, l)
        PROVE  NoPacketLeftBehind'
    BY <2>1, <2>6 DEF EnterLobby, AddToAny
  <2>7. ASSUME NEW c \in Clients, NEW l \in LobbyRefs, ChangeLobby(c, l)
        PROVE  NoPacketLeftBehind'
    <3>1. \/ UNCHANGED <<flags, queue>>
          \/ /\ flags' = FlagsAfterMove(l, Emptied(cur[c]))
             /\ queue' = QueueAfter(queue, Emptied(cur[c]))
      BY <2>7 DEF ChangeLobby
    <3> QED BY <1>2, <2>1, <3>1, MoveKeepsPackets
  <2>8. ASSUME NEW c \in Clients, NEW l \in LobbyRefs, JoinGame(c, l) \/ CreateGame(c, l)
        PROVE  NoPacketLeftBehind'
    <3>1. /\ flags' = FlagsAfterMove(l, Emptied(cur[c]))
          /\ queue' = QueueAfter(queue, Emptied(cur[c]))
      BY <2>8 DEF JoinGame, CreateGame
    <3> QED BY <1>2, <3>1, MoveKeepsPackets
  <2>9. ASSUME NEW c \in Clients, GameType(c) PROVE NoPacketLeftBehind'
    <3>1. /\ flags' = FlagsAfterMove(pending[c], Emptied(cur[c]))
          /\ queue' = QueueAfter(queue, Emptied(cur[c]))
      BY <2>9 DEF GameType
    <3> QED BY <1>2, <3>1, MoveKeepsPackets
  <2>10. ASSUME NEW c \in Clients, NEW l \in LobbyRefs, CreatePending(c, l)
         PROVE  NoPacketLeftBehind'
    BY <2>1, <2>10 DEF CreatePending, roomVars
  <2>11. ASSUME NEW c \in Clients, Connect(c) \/ GameTypeRefused(c) PROVE NoPacketLeftBehind'
    BY <2>1, <2>11 DEF Connect, GameTypeRefused, roomVars
  <2>12. ASSUME NEW c \in Clients, RejoinGame(c) PROVE NoPacketLeftBehind'
    <3>1. flags' = [flags EXCEPT ![cur[c]] = @ \cup {"BURSTING"}] /\ queue' = queue
      BY <2>12 DEF RejoinGame
    <3> QED BY <1>2, <2>2, <3>1 DEF NoPacketLeftBehind
  <2>13. ASSUME NEW c \in Clients, DoneBurst(c) PROVE NoPacketLeftBehind'
    <3>1. PICK handled \in SUBSET queue[cur[c]] : queue' = Drained(cur[c], handled)
      BY <2>13 DEF DoneBurst
    <3>2. flags' = [flags EXCEPT ![cur[c]] = @ \ {"BURSTING"}]
      BY <2>13 DEF DoneBurst
    <3> QED BY <1>2, <2>2, <3>1, <3>2 DEF NoPacketLeftBehind, Drained
  <2>14. ASSUME NEW c \in Clients, Delay(c) PROVE NoPacketLeftBehind'
    <3>1. /\ "BURSTING" \in flags[cur[c]] /\ flags' = flags
          /\ queue' = queue \/ queue' = [queue EXCEPT ![cur[c]] = @ \cup {c}]
      BY <2>14 DEF Delay
    <3> QED BY <1>2, <2>2, <3>1 DEF NoPacketLeftBehind
  <2>15. ASSUME NEW c \in Clients, QuestList(c) \/ QuestEndList(c) \/ QuestStart(c)
         PROVE  NoPacketLeftBehind'
    <3>1. /\ queue' = queue
          /\ \/ flags' = [flags EXCEPT ![cur[c]] = flags[cur[c]] \cup {"QUESTSEL"}]
             \/ flags' = [flags EXCEPT ![cur[c]] = flags[cur[c]] \ {"QUESTSEL"}]
             \/ flags' = [flags EXCEPT ![cur[c]] = flags[cur[c]] \cup {"QUESTING"}]
      BY <2>15 DEF QuestList, QuestEndList, QuestStart, SetFlags
    <3>2. \A l \in LobbyRefs : "BURSTING" \in flags[l] => "BURSTING" \in flags'[l]
      BY <2>2, <3>1
    <3> QED BY <1>2, <3>1, <3>2 DEF NoPacketLeftBehind
  <2>16. CASE Tick \/ UNCHANGED vars
    BY <2>1, <2>16 DEF Tick, vars, roomVars
  <2> QED BY <1>2, <2>3, <2>4, <2>5, <2>6, <2>7, <2>8, <2>9, <2>10, <2>11, <2>12, <2>13,
             <2>14, <2>15, <2>16 DEF Next
<1> QED BY <1>1, <1>2, Invariant, PTL DEF Spec

-----------------------------------------------------------------------------
(* Ids.                                                                     *)

\* "Select an unused ID" is true of every game but one: two games in the list get the
\* same id only when a PC player's game is listed that waited for its type meanwhile.
THEOREM OnlyWaitingSharesIds == Spec => SharedIdsWaited
<1> DEFINE Waiting == \A c \in Clients : pending[c] # NoLobby => c \in PCClients
           Waited == \E c \in PCClients :
               pending[c] # NoLobby /\ st[pending[c]] = "pending" /\ st'[pending[c]] = "listed"
<1>1. Spec => []Waiting
  <2>1. Init => Waiting
    BY DEF Init
  <2>2. ASSUME IInv, Waiting, [Next]_vars PROVE Waiting'
    <3>1. pending \in [Clients -> GameRefs \cup {NoLobby}]
      BY <2>2 DEF IInv, Others
    <3>2. ASSUME UNCHANGED pending PROVE Waiting'
      BY <2>2, <3>2
    <3>3. ASSUME NEW c \in Clients, pending' = [pending EXCEPT ![c] = NoLobby] PROVE Waiting'
      BY <2>2, <3>1, <3>3
    <3>4. ASSUME NEW c \in Clients, NEW l \in LobbyRefs, CreatePending(c, l) PROVE Waiting'
      <4>1. c \in PCClients /\ pending' = [pending EXCEPT ![c] = l]
        BY <3>4 DEF CreatePending
      <4> QED BY <2>2, <3>1, <4>1
    <3>5. ASSUME NEW c \in Clients,
                 GameType(c) \/ GameTypeRefused(c) \/ Disconnect(c) \/ JoinNowhere(c)
          PROVE  Waiting'
      <4>1. pending' = [pending EXCEPT ![c] = NoLobby] \/ UNCHANGED pending
        BY <3>5 DEF GameType, GameTypeRefused, Disconnect, JoinNowhere
      <4> QED BY <3>2, <3>3, <4>1
    <3>6. ASSUME NEW c \in Clients,
                 \/ Connect(c) \/ CharData(c) \/ LeaveGame(c) \/ RejoinGame(c) \/ DoneBurst(c)
                 \/ Delay(c) \/ QuestList(c) \/ QuestEndList(c) \/ QuestStart(c)
          PROVE  UNCHANGED pending
      BY <3>6 DEF Connect, CharData, LeaveGame, RejoinGame, DoneBurst, Delay, QuestList,
                  QuestEndList, QuestStart, SetFlags, clientVars
    <3>7. ASSUME NEW c \in Clients, NEW l \in LobbyRefs,
                 ChangeLobby(c, l) \/ EnterLobby(c, l) \/ JoinGame(c, l) \/ CreateGame(c, l)
          PROVE  UNCHANGED pending
      BY <3>7 DEF ChangeLobby, EnterLobby, JoinGame, CreateGame
    <3>8. CASE Tick \/ UNCHANGED vars
      BY <3>2, <3>8 DEF Tick, vars, clientVars
    <3> HIDE DEF Waiting
    <3> QED BY <2>2, <3>2, <3>4, <3>5, <3>6, <3>7, <3>8 DEF Next
  <2> HIDE DEF Waiting
  <2> QED BY <2>1, <2>2, Invariant, PTL DEF Spec
<1>2. ASSUME IInv, Waiting, UniqueIds, [Next]_vars PROVE UniqueIds' \/ Waited
  <2>1. /\ pending \in [Clients -> GameRefs \cup {NoLobby}]
        /\ lid \in [GameRefs -> Nat]
        /\ st \in [LobbyRefs -> {"free", "pending", "listed"}]
        /\ cur \in [Clients -> LobbyRefs \cup {NoLobby}]
        /\ \A c \in Clients : pending[c] # NoLobby => st[pending[c]] = "pending"
    BY <1>2 DEF IInv, Seats, List, Others, NoDangling
  <2>2. ASSUME UNCHANGED <<st, lid>> PROVE UniqueIds'
    BY <1>2, <2>2 DEF UniqueIds, Games
  <2>3. ASSUME NEW gone \in SUBSET GameRefs, NEW dropped \in SUBSET GameRefs,
               Relist({}, gone, dropped),
               \A l \in GameRefs : lid'[l] = IF l \in gone \cup dropped THEN 0 ELSE lid[l]
        PROVE  UniqueIds'
    <3>1. \A l \in GameRefs : /\ st'[l] = IF l \in gone \cup dropped THEN "free" ELSE st[l]
                              /\ lid'[l] = IF l \in gone \cup dropped THEN 0 ELSE lid[l]
      BY <2>3, Refs DEF Relist
    <3> QED BY <1>2, <3>1 DEF UniqueIds, Games
  <2>4. ASSUME NEW l \in GameRefs, st[l] = "free", NEW gone \in SUBSET GameRefs,
               Relist({l}, gone, {}),
               \A m \in GameRefs :
                   lid'[m] = IF m \in gone THEN 0 ELSE IF m = l THEN NextId ELSE lid[m]
        PROVE  UniqueIds'
    <3>1. \A m \in GameRefs :
              /\ st'[m] = IF m \in gone THEN "free" ELSE IF m = l THEN "listed" ELSE st[m]
              /\ lid'[m] = IF m \in gone THEN 0 ELSE IF m = l THEN NextId ELSE lid[m]
      BY <2>4, Refs DEF Relist
    <3>2. \A m \in Games : lid[m] # NextId
      BY <1>2, NextIdIsUnused DEF IInv, Others
    <3> QED BY <1>2, <3>1, <3>2 DEF UniqueIds, Games
  <2>5. ASSUME NEW c \in Clients, pending[c] # NoLobby, NEW gone \in SUBSET Games,
               Relist({pending[c]}, gone, {})
        PROVE  Waited
    <3>1. pending[c] \in LobbyRefs /\ st[pending[c]] = "pending" /\ c \in PCClients
      BY <1>2, <2>1, <2>5, Refs
    <3>2. pending[c] \notin gone
      BY <2>5, <3>1 DEF Games
    <3>3. st'[pending[c]] = "listed"
      BY <2>5, <3>1, <3>2 DEF Relist
    <3> QED BY <2>5, <3>1, <3>3
  <2>6. \A c \in Clients : Emptied(cur[c]) \in SUBSET GameRefs
    BY DEF Emptied
  <2>7. ASSUME NEW c \in Clients, CharData(c) PROVE UniqueIds'
    BY <2>2, <2>7 DEF CharData, listVars
  <2>8. ASSUME NEW c \in Clients, LeaveGame(c) PROVE UniqueIds'
    <3>1. /\ Relist({}, Emptied(cur[c]), {})
          /\ lid' = [l \in GameRefs |-> IF l \in Emptied(cur[c]) THEN 0 ELSE lid[l]]
      BY <2>8 DEF LeaveGame, Destroy
    <3> QED BY <2>3, <2>6, <3>1
  <2>9. ASSUME NEW c \in Clients, Disconnect(c) PROVE UniqueIds'
    <3> DEFINE gone == IF cur[c] = NoLobby THEN {} ELSE Emptied(cur[c])
               dropped == {pending[c]} \ {NoLobby}
    <3>1. /\ Relist({}, gone, dropped)
          /\ lid' = [l \in GameRefs |-> IF l \in gone \cup dropped THEN 0 ELSE lid[l]]
      BY <2>9 DEF Disconnect
    <3>2. gone \in SUBSET GameRefs /\ dropped \in SUBSET GameRefs
      BY <2>1, <2>6
    <3> HIDE DEF gone, dropped
    <3> QED BY <2>3, <3>1, <3>2
  <2>10. ASSUME NEW c \in Clients, NEW l \in LobbyRefs, EnterLobby(c, l) PROVE UniqueIds'
    BY <2>2, <2>10 DEF EnterLobby, listVars
  <2>11. ASSUME NEW c \in Clients, NEW l \in LobbyRefs, ChangeLobby(c, l) \/ JoinGame(c, l)
         PROVE  UniqueIds'
    <3>1. \/ UNCHANGED <<st, lid>>
          \/ /\ Relist({}, Emptied(cur[c]), {})
             /\ lid' = [m \in GameRefs |-> IF m \in Emptied(cur[c]) THEN 0 ELSE lid[m]]
      BY <2>11 DEF ChangeLobby, JoinGame, Destroy, listVars
    <3> QED BY <2>2, <2>3, <2>6, <3>1
  <2>12. ASSUME NEW c \in Clients, NEW l \in LobbyRefs, CreateGame(c, l) PROVE UniqueIds'
    <3>1. /\ l \in GameRefs /\ st[l] = "free" /\ Relist({l}, Emptied(cur[c]), {})
          /\ lid' = [m \in GameRefs |-> IF m \in Emptied(cur[c]) THEN 0
                                        ELSE IF m = l THEN NextId ELSE lid[m]]
      BY <2>12 DEF CreateGame
    <3> QED BY <2>4, <2>6, <3>1
  <2>13. ASSUME NEW c \in Clients, NEW l \in LobbyRefs, CreatePending(c, l) PROVE UniqueIds'
    <3>1. /\ l \in GameRefs /\ st[l] = "free"
          /\ st' = [st EXCEPT ![l] = "pending"] /\ lid' = [lid EXCEPT ![l] = NextId]
      BY <2>13 DEF CreatePending
    <3>2. Games' = Games /\ \A m \in Games : lid'[m] = lid[m]
      BY <2>1, <3>1, Refs DEF Games
    <3> QED BY <1>2, <3>2 DEF UniqueIds
  <2>14. ASSUME NEW c \in Clients, GameType(c) PROVE Waited
    <3>1. /\ pending[c] # NoLobby /\ cur[c] \in LobbyRefs
          /\ Relist({pending[c]}, Emptied(cur[c]), {})
      BY <2>1, <2>14 DEF GameType
    <3>2. Emptied(cur[c]) \in SUBSET Games
      BY <1>2, <3>1, EmptiedIsListed
    <3> QED BY <2>5, <3>1, <3>2
  <2>15. ASSUME NEW c \in Clients, GameTypeRefused(c) PROVE UniqueIds'
    <3>1. /\ pending[c] \in GameRefs /\ Relist({}, {}, {pending[c]})
          /\ lid' = [lid EXCEPT ![pending[c]] = 0]
      BY <2>1, <2>15 DEF GameTypeRefused
    <3>2. \A l \in GameRefs : lid'[l] = IF l \in {} \cup {pending[c]} THEN 0 ELSE lid[l]
      BY <2>1, <3>1
    <3> QED BY <2>3, <3>1, <3>2
  <2>16. ASSUME NEW c \in Clients, JoinNowhere(c) PROVE UniqueIds' \/ Waited
    <3>1. CASE UNCHANGED listVars
      BY <2>2, <3>1 DEF listVars
    <3>2. ASSUME NEW l \in GameRefs, st[l] = "free", Relist({l}, {}, {}),
                 lid' = [lid EXCEPT ![l] = NextId]
          PROVE  UniqueIds'
      <4>1. \A m \in GameRefs : lid'[m] = IF m \in {} THEN 0
                                         ELSE IF m = l THEN NextId ELSE lid[m]
        BY <2>1, <3>2
      <4> QED BY <2>4, <3>2, <4>1
    <3>3. CASE pending[c] # NoLobby /\ Relist({pending[c]}, {}, {})
      BY <2>5, <3>3
    <3> HIDE DEF Waited
    <3> QED BY <2>16, <3>1, <3>2, <3>3 DEF JoinNowhere
  <2>17. ASSUME NEW c \in Clients,
                \/ Connect(c) \/ RejoinGame(c) \/ DoneBurst(c) \/ Delay(c)
                \/ QuestList(c) \/ QuestEndList(c) \/ QuestStart(c)
         PROVE  UniqueIds'
    <3>1. UNCHANGED <<st, lid>>
      BY <2>17 DEF Connect, RejoinGame, DoneBurst, Delay, QuestList, QuestEndList,
                   QuestStart, SetFlags, listVars
    <3> QED BY <2>2, <3>1
  <2>18. CASE Tick \/ UNCHANGED vars
    BY <2>2, <2>18 DEF Tick, vars, listVars
  <2> HIDE DEF Waited, Waiting
  <2> QED BY <1>2, <2>7, <2>8, <2>9, <2>10, <2>11, <2>12, <2>13, <2>14, <2>15, <2>16, <2>17,
             <2>18 DEF Next
<1>3. IInv /\ Waiting /\ [Next]_vars => [UniqueIds => UniqueIds' \/ Waited]_vars
  BY <1>2
<1> HIDE DEF Waiting
<1> QED BY <1>1, <1>3, Invariant, PTL DEF Spec, SharedIdsWaited

-----------------------------------------------------------------------------
(* Leaders.                                                                 *)

\* The ways a step can seat, unseat or move a player.
Stays ==
    /\ UNCHANGED <<cur, slot, cid, num>>
    /\ \A l \in LobbyRefs : flags'[l] # flags[l] => Members(l) # {}
Enters(c, l) == l \in DefaultLobbies /\ cur[c] = NoLobby /\ Enter(c, l) /\ UNCHANGED flags
Leaves(c) == cur[c] \in LobbyRefs /\ RemovePlayer(c)
Moves(c, l) ==
    /\ cur[c] \in LobbyRefs /\ cur[c] # l /\ Move(c, l)
    /\ flags[l] = {}
    /\ ~AnyOrder => cur[c] \in DefaultLobbies
SeatStep ==
    \/ Stays
    \/ \E c \in Clients : Leaves(c)
    \/ \E c \in Clients : \E l \in LobbyRefs : Enters(c, l) \/ Moves(c, l)

LEMMA StepsSeat ==
    ASSUME IInv, [Next]_vars
    PROVE  SeatStep
<1>1. /\ cur \in [Clients -> LobbyRefs \cup {NoLobby}]
      /\ pending \in [Clients -> GameRefs \cup {NoLobby}]
      /\ \A c \in Clients : /\ cur[c] # NoLobby => st[cur[c]] = "listed"
                            /\ pending[c] # NoLobby => st[pending[c]] = "pending"
      /\ \A l \in LobbyRefs : st[l] # "listed" => flags[l] = {}
      /\ flags \in [LobbyRefs -> SUBSET LobbyFlags]
  BY DEF IInv, Seats, Others, NoDangling
<1>2. ASSUME NEW c \in Clients, NEW req, AddToAny(c, req), cur[c] = NoLobby PROVE SeatStep
  BY <1>2, Refs DEF AddToAny, SeatStep, Enters
<1>3. ASSUME NEW c \in Clients, CharData(c) \/ JoinNowhere(c) PROVE SeatStep
  BY <1>2, <1>3 DEF CharData, JoinNowhere
<1>4. ASSUME NEW c \in Clients, LeaveGame(c) PROVE SeatStep
  BY <1>1, <1>4, Refs DEF LeaveGame, InGame, SeatStep, Leaves
<1>5. ASSUME NEW c \in Clients, Disconnect(c) PROVE SeatStep
  <2>1. UNCHANGED <<cur, cid, roomVars>> \/ (cur[c] # NoLobby /\ RemovePlayer(c))
    BY <1>5 DEF Disconnect
  <2> QED BY <1>1, <2>1 DEF SeatStep, Leaves, Stays, roomVars
<1>6. ASSUME NEW c \in Clients, NEW l \in LobbyRefs, EnterLobby(c, l) PROVE SeatStep
  BY <1>2, <1>6 DEF EnterLobby
<1>7. ASSUME NEW c \in Clients, NEW l \in LobbyRefs, ChangeLobby(c, l) \/ JoinGame(c, l)
      PROVE  SeatStep
  <2>1. /\ cur[c] # NoLobby /\ cur[c] # l /\ Move(c, l) /\ flags[l] = {}
        /\ ~AnyOrder => cur[c] \in DefaultLobbies
    BY <1>7 DEF ChangeLobby, JoinGame, AtMenu, Open
  <2> QED BY <1>1, <2>1 DEF SeatStep, Moves
<1>8. ASSUME NEW c \in Clients, NEW l \in LobbyRefs, CreateGame(c, l) PROVE SeatStep
  <2>1. /\ cur[c] # NoLobby /\ st[l] = "free" /\ Move(c, l)
        /\ ~AnyOrder => cur[c] \in DefaultLobbies
    BY <1>8 DEF CreateGame, AtMenu
  <2>2. cur[c] # l /\ flags[l] = {} /\ cur[c] \in LobbyRefs
    BY <1>1, <2>1
  <2> QED BY <2>1, <2>2 DEF SeatStep, Moves
<1>9. ASSUME NEW c \in Clients, GameType(c) PROVE SeatStep
  <2>1. /\ cur[c] # NoLobby /\ pending[c] # NoLobby /\ Move(c, pending[c])
        /\ ~AnyOrder => cur[c] \in DefaultLobbies
    BY <1>9 DEF GameType, AtMenu
  <2>2. /\ cur[c] # pending[c] /\ flags[pending[c]] = {} /\ cur[c] \in LobbyRefs
        /\ pending[c] \in LobbyRefs
    BY <1>1, <2>1, Refs
  <2> QED BY <2>1, <2>2 DEF SeatStep, Moves
<1>10. ASSUME NEW c \in Clients,
              \/ Connect(c) \/ GameTypeRefused(c) \/ RejoinGame(c) \/ DoneBurst(c)
              \/ Delay(c) \/ QuestList(c) \/ QuestEndList(c) \/ QuestStart(c)
       PROVE  SeatStep
  <2>1. CASE Connect(c) \/ GameTypeRefused(c)
    BY <2>1 DEF Connect, GameTypeRefused, roomVars, SeatStep, Stays
  <2>2. ASSUME NEW f, flags' = [flags EXCEPT ![cur[c]] = f], UNCHANGED <<cur, slot, cid, num>>
        PROVE  SeatStep
    <3>1. \A l \in LobbyRefs : flags'[l] # flags[l] => l = cur[c]
      BY <1>1, <2>2
    <3>2. c \in Members(cur[c])
      BY DEF Members
    <3> QED BY <2>2, <3>1, <3>2 DEF SeatStep, Stays
  <2>3. CASE RejoinGame(c)
    BY <2>2, <2>3 DEF RejoinGame
  <2>4. CASE DoneBurst(c)
    BY <2>2, <2>4 DEF DoneBurst
  <2>5. CASE Delay(c)
    BY <2>5 DEF Delay, clientVars, SeatStep, Stays
  <2>6. CASE QuestList(c) \/ QuestEndList(c) \/ QuestStart(c)
    BY <2>2, <2>6 DEF QuestList, QuestEndList, QuestStart, SetFlags, clientVars
  <2> QED BY <1>10, <2>1, <2>3, <2>4, <2>5, <2>6
<1>11. ASSUME NEW c \in Clients, NEW l \in LobbyRefs, CreatePending(c, l) PROVE SeatStep
  BY <1>11 DEF CreatePending, roomVars, SeatStep, Stays
<1>12. CASE Tick \/ UNCHANGED vars
  BY <1>12 DEF Tick, vars, clientVars, roomVars, SeatStep, Stays
<1> QED BY <1>3, <1>4, <1>5, <1>6, <1>7, <1>8, <1>9, <1>10, <1>11, <1>12 DEF Next

\* Who stays in a lobby over a step, and those of them who were there before this second.
Left(l) == {c \in Clients : cur[c] = l /\ cur'[c] = l}
Earlier(l) == {c \in Left(l) : joined[c] < now}

\* What happens to the leadership of a lobby whose leader goes.
LEMMA LeaderGoes ==
    ASSUME IInv, NEW l \in LobbyRefs, NEW old \in Clients,
           cur[old] = l, cid[old] = leader[l],
           leader'[l] = LeaderWithout(l, old),
           \A i \in Slots \ {leader[l]} : slot'[l][i] = slot[l][i],
           cur'[old] # l, \A c \in Clients \ {old} : cur'[c] = cur[c],
           Earlier(l) # {}
    PROVE  /\ slot'[l][leader'[l]] \in Earlier(l)
           /\ \A c \in Left(l) : joined[slot'[l][leader'[l]]] <= joined[c]
<1> DEFINE left == Left(l)
           earlier == Earlier(l)
<1>0. left = {c \in Clients : cur[c] = l /\ cur'[c] = l} /\ earlier = {c \in left : joined[c] < now}
  BY DEF Left, Earlier
<1> HIDE DEF left, earlier
<1>1. /\ joined \in [Clients -> Nat] /\ now \in Nat
      /\ cid \in [Clients -> Slots] /\ leader \in [LobbyRefs -> Slots]
      /\ slot \in [LobbyRefs -> [Slots -> Clients \cup {NoClient}]]
  BY DEF IInv, Seats
<1>2. /\ \A c \in Clients : cur[c] = l => cid[c] < Cap(l) /\ slot[l][cid[c]] = c
      /\ \A i \in Slots : slot[l][i] # NoClient => cur[slot[l][i]] = l /\ cid[slot[l][i]] = i
  BY Refs DEF IInv, Seats, Membership
<1>3. ASSUME NEW c \in left
      PROVE  /\ cid[c] \in Slots /\ cid[c] # leader[l] /\ cid[c] < Cap(l)
             /\ slot[l][cid[c]] = c
  <2>1. c \in Clients /\ cur[c] = l /\ c # old
    BY <1>0, <1>3
  <2>2. slot[l][cid[c]] = c /\ slot[l][cid[old]] = old
    BY <1>2, <2>1
  <2> QED BY <1>1, <1>2, <2>1, <2>2
<1>4. \A c \in earlier : cid[c] \in Candidates(l)
  BY <1>0, <1>3, ClientsAssumption DEF Candidates
<1>5. Candidates(l) # {}
  BY <1>4 DEF earlier
<1>6. /\ leader'[l] = Elected(l) /\ Elected(l) \in Candidates(l)
      /\ \A j \in Candidates(l) : joined[slot[l][Elected(l)]] <= joined[slot[l][j]]
  BY <1>5, ElectedIsFirst DEF LeaderWithout, IInv
<1> DEFINE e == slot[l][Elected(l)]
<1>7. /\ Elected(l) \in Slots /\ Elected(l) # leader[l] /\ e # NoClient /\ e \in Clients
      /\ joined[e] < now /\ slot'[l][leader'[l]] = e
  BY <1>1, <1>6 DEF Candidates
<1>8. e \in left
  <2>1. cur[e] = l /\ cid[e] = Elected(l)
    BY <1>2, <1>7
  <2> HIDE DEF e
  <2>2. e # old
    BY <2>1, <1>7
  <2> QED BY <2>1, <2>2, <1>0, <1>7 DEF e
<1>9. ASSUME NEW c \in left PROVE joined[e] <= joined[c]
  <2>1. c \in Clients /\ joined[c] \in Nat /\ joined[e] \in Nat
    BY <1>0, <1>1, <1>7, <1>9
  <2>2. CASE c \in earlier
    <3>1. cid[c] \in Candidates(l) /\ slot[l][cid[c]] = c
      BY <1>3, <1>4, <2>2
    <3> QED BY <1>6, <3>1
  <2>3. CASE c \notin earlier
    <3>1. ~(joined[c] < now)
      BY <1>0, <1>9, <2>3
    <3> HIDE DEF e
    <3> QED BY <3>1, <2>1, <1>1, <1>7
  <2> QED BY <2>2, <2>3
<1> HIDE DEF e
<1>10. e \in earlier
  BY <1>0, <1>7, <1>8
<1> QED BY <1>7, <1>9, <1>10 DEF left, earlier

\* When the leader of a game leaves it, in whichever way, the game passes to the player who
\* has been in it longest, unless everybody left came in this very second.
THEOREM LeadershipPasses == Spec => LeaderPasses
<1> DEFINE Passes(l) ==
        LET old == slot[l][leader[l]]
            left == {c \in Clients : cur[c] = l /\ cur'[c] = l}
            earlier == {c \in left : joined[c] < now}
        IN
        (old # NoClient /\ cur'[old] # l /\ earlier # {}) =>
            /\ slot'[l][leader'[l]] \in earlier
            /\ \A c \in left : joined[slot'[l][leader'[l]]] <= joined[c]
<1>1. ASSUME IInv, [Next]_vars, NEW l \in Games PROVE Passes(l)
  <2> DEFINE old == slot[l][leader[l]]
             left == {c \in Clients : cur[c] = l /\ cur'[c] = l}
             earlier == {c \in left : joined[c] < now}
  <2>1. SUFFICES ASSUME old # NoClient, cur'[old] # l, earlier # {}
                 PROVE  /\ slot'[l][leader'[l]] \in earlier
                        /\ \A c \in left : joined[slot'[l][leader'[l]]] <= joined[c]
    OBVIOUS
  <2>2. /\ cur \in [Clients -> LobbyRefs \cup {NoLobby}]
        /\ cid \in [Clients -> Slots] /\ leader \in [LobbyRefs -> Slots]
        /\ slot \in [LobbyRefs -> [Slots -> Clients \cup {NoClient}]]
        /\ l \in LobbyRefs /\ l \in GameRefs
    BY <1>1, Refs DEF IInv, Seats, Games
  <2>3. old \in Clients /\ cur[old] = l /\ cid[old] = leader[l]
    BY <2>1, <2>2, <1>1 DEF IInv, Seats, Membership
  <2> HIDE DEF old
  <2>4. PICK c \in Clients :
            Leaves(c) \/ \E r \in LobbyRefs : Enters(c, r) \/ Moves(c, r)
    BY <1>1, <2>1, <2>3, StepsSeat DEF SeatStep, Stays
  <2>5. ASSUME NEW r, cur' = [cur EXCEPT ![c] = r] PROVE c = old
    BY <2>1, <2>2, <2>3, <2>5
  <2>6. /\ c = old
        /\ leader'[l] = LeaderWithout(l, old)
        /\ \A i \in Slots \ {leader[l]} : slot'[l][i] = slot[l][i]
        /\ \A d \in Clients \ {old} : cur'[d] = cur[d]
    <3>1. CASE Leaves(c)
      <4>1. /\ slot' = [slot EXCEPT ![cur[c]][cid[c]] = NoClient]
            /\ leader' = [leader EXCEPT ![cur[c]] = LeaderWithout(cur[c], c)]
            /\ cur' = [cur EXCEPT ![c] = NoLobby]
        BY <3>1 DEF Leaves, RemovePlayer
      <4>2. c = old
        BY <4>1, <2>5
      <4> QED BY <4>1, <4>2, <2>2, <2>3
    <3>2. ASSUME NEW r \in LobbyRefs, Enters(c, r) PROVE FALSE
      <4>1. cur' = [cur EXCEPT ![c] = r] /\ cur[c] = NoLobby
        BY <3>2 DEF Enters, Enter
      <4> QED BY <4>1, <2>2, <2>3, <2>5, Refs
    <3>3. ASSUME NEW r \in LobbyRefs, Moves(c, r)
          PROVE  /\ c = old
                 /\ leader'[l] = LeaderWithout(l, old)
                 /\ \A i \in Slots \ {leader[l]} : slot'[l][i] = slot[l][i]
                 /\ \A d \in Clients \ {old} : cur'[d] = cur[d]
      <4> DEFINE i == Place(r)
      <4>1. /\ slot' = [slot EXCEPT ![r][i] = c, ![cur[c]][cid[c]] = NoClient]
            /\ leader' = [leader EXCEPT ![r] = LeaderWith(r, i),
                                        ![cur[c]] = LeaderWithout(cur[c], c)]
            /\ cur' = [cur EXCEPT ![c] = r]
            /\ cur[c] # r
        BY <3>3 DEF Moves, Move
      <4> HIDE DEF i
      <4>2. c = old
        BY <4>1, <2>5
      <4> QED BY <4>1, <4>2, <2>2, <2>3
    <3> QED BY <2>4, <3>1, <3>2, <3>3
  <2>7. left = Left(l) /\ earlier = Earlier(l)
    BY DEF Left, Earlier
  <2> HIDE DEF left, earlier
  <2> QED BY <1>1, <2>1, <2>2, <2>3, <2>6, <2>7, LeaderGoes
<1>2. IInv /\ [Next]_vars => [\A l \in Games : Passes(l)]_vars
  BY <1>1
<1> QED BY <1>2, Invariant, PTL DEF Spec, LeaderPasses

-----------------------------------------------------------------------------
(* Clients that keep to the game's menus.                                   *)

\* What makes NoEmptyGame and BurstSound inductive: a game counts its players, and who
\* is loading is in a game, alone in that, and the reason why the game is closed.
Peopled == \A l \in Games : num[l] >= 1
Loading ==
    /\ \A c \in Clients : bursting[c] => InGame(c)
    /\ \A c, d \in Clients : bursting[c] /\ bursting[d] /\ cur[c] = cur[d] => c = d
    /\ \A l \in LobbyRefs :
          "BURSTING" \in flags[l] <=> \E c \in Clients : bursting[c] /\ cur[c] = l
MenuInv == IInv /\ Peopled /\ Loading

\* A lobby with players in it counts at least one.
LEMMA Counted ==
    ASSUME Seats, NEW c \in Clients, NEW l \in LobbyRefs, cur[c] = l
    PROVE  num[l] >= 1 /\ num[l] \in Nat
<1>1. cid[c] \in Slots /\ slot[l][cid[c]] = c
  BY Refs DEF Seats, Membership
<1>2. cid[c] \in Occupied(l)
  BY <1>1, ClientsAssumption DEF Occupied
<1>3. Cardinality(Occupied(l)) \in Nat /\ Cardinality(Occupied(l)) # 0
  BY <1>2, OccupiedFinite, FS_EmptySet
<1> QED BY <1>3 DEF Seats, Counts

\* A change of lobby as the menus allow it: from a default lobby, and into a game only
\* when it is open.
LEMMA MenuMove ==
    ASSUME MenuInv, NEW c \in Clients, cur[c] \in DefaultLobbies, ~bursting[c],
           NEW req \in LobbyRefs, NEW new \in SUBSET {req},
           flags[req] = {}, Move(c, req),
           Relist(new, {}, {}), flags' = FlagsAfterMove(req, {})
    PROVE  Peopled' /\ Loading'
<1>1. /\ cur \in [Clients -> LobbyRefs \cup {NoLobby}]
      /\ num \in [LobbyRefs -> Nat]
      /\ bursting \in [Clients -> BOOLEAN]
      /\ flags \in [LobbyRefs -> SUBSET LobbyFlags]
  BY DEF MenuInv, IInv, Seats, Others
<1>2. /\ num' = [num EXCEPT ![req] = @ + 1, ![cur[c]] = @ - 1]
      /\ cur' = [cur EXCEPT ![c] = req]
      /\ bursting' = [bursting EXCEPT ![c] = @ \/ req \in GameRefs]
  BY DEF Move
<1>3. Peopled'
  <2>1. \A l \in GameRefs : st'[l] = IF l \in new THEN "listed" ELSE st[l]
    BY Refs DEF Relist
  <2>2. \A l \in GameRefs : num'[l] = IF l = req THEN num[l] + 1 ELSE num[l]
    BY <1>1, <1>2, Refs
  <2>3. \A l \in GameRefs : num[l] \in Nat
    BY <1>1, Refs
  <2> QED BY <2>1, <2>2, <2>3 DEF MenuInv, Peopled, Games
<1>4. Loading'
  <2>1. \A l \in LobbyRefs : flags'[l] = IF l = req /\ req \in GameRefs
                                         THEN flags[l] \cup {"BURSTING"} ELSE flags[l]
    BY DEF FlagsAfterMove
  <2>2. /\ \A d \in Clients \ {c} : cur'[d] = cur[d] /\ bursting'[d] = bursting[d]
        /\ cur'[c] = req /\ bursting'[c] = (req \in GameRefs)
    BY <1>1, <1>2
  <2>3. \A d \in Clients : bursting[d] => cur[d] # req
    BY DEF MenuInv, Loading
  <2>4. ASSUME NEW d \in Clients, bursting'[d] PROVE cur'[d] \in GameRefs
    BY <2>2, <2>4 DEF MenuInv, Loading, InGame
  <2>5. ASSUME NEW d \in Clients, NEW e \in Clients, bursting'[d], bursting'[e],
               cur'[d] = cur'[e]
        PROVE  d = e
    BY <2>2, <2>3, <2>5 DEF MenuInv, Loading
  <2>6. ASSUME NEW l \in LobbyRefs
        PROVE  "BURSTING" \in flags'[l] <=> \E d \in Clients : bursting'[d] /\ cur'[d] = l
    <3>1. CASE l = req /\ req \in GameRefs
      BY <3>1, <2>1, <2>2
    <3>2. CASE ~(l = req /\ req \in GameRefs)
      <4>1. flags'[l] = flags[l]
        BY <3>2, <2>1
      <4>2. \A d \in Clients : (bursting'[d] /\ cur'[d] = l) <=> (bursting[d] /\ cur[d] = l)
        BY <3>2, <2>2
      <4> QED BY <4>1, <4>2 DEF MenuInv, Loading
    <3> QED BY <3>1, <3>2
  <2> QED BY <2>4, <2>5, <2>6 DEF Loading, InGame
<1> QED BY <1>3, <1>4

LEMMA MenuEnter ==
    ASSUME MenuInv, NEW c \in Clients, cur[c] = NoLobby, NEW req,
           AddToAny(c, req), UNCHANGED listVars
    PROVE  Peopled' /\ Loading'
<1>1. PICK l \in DefaultLobbies : Enter(c, l)
  BY DEF AddToAny
<1>2. /\ cur \in [Clients -> LobbyRefs \cup {NoLobby}] /\ num \in [LobbyRefs -> Nat]
      /\ num' = [num EXCEPT ![l] = @ + 1] /\ cur' = [cur EXCEPT ![c] = l]
      /\ UNCHANGED <<bursting, flags, st>>
  BY <1>1 DEF MenuInv, IInv, Seats, Enter, AddToAny, listVars
<1>3. ~bursting[c]
  BY Refs DEF MenuInv, Loading, InGame
<1>4. Peopled'
  <2>1. \A g \in Games : num'[g] = num[g]
    BY <1>2, Refs DEF Games
  <2> QED BY <1>2, <2>1 DEF MenuInv, Peopled, Games
<1>5. Loading'
  <2>1. \A d \in Clients : bursting[d] => cur'[d] = cur[d]
    BY <1>2, <1>3
  <2>2. \A d \in Clients : bursting[d] => cur[d] \in GameRefs
    BY DEF MenuInv, Loading, InGame
  <2> QED BY <1>2, <2>1, <2>2 DEF MenuInv, Loading, InGame
<1> QED BY <1>4, <1>5

LEMMA MenuRemove ==
    ASSUME MenuInv, NEW c \in Clients, cur[c] \in LobbyRefs, NEW dropped,
           dropped \cap Games = {}, RemovePlayer(c), now' = now,
           Relist({}, Emptied(cur[c]), dropped),
           \/ ~bursting[c] /\ bursting' = bursting
           \/ bursting' = [bursting EXCEPT ![c] = FALSE]
    PROVE  Peopled' /\ Loading'
<1> DEFINE l == cur[c]
           gone == Emptied(l)
<1>1. /\ cur \in [Clients -> LobbyRefs \cup {NoLobby}] /\ num \in [LobbyRefs -> Nat]
      /\ bursting \in [Clients -> BOOLEAN] /\ flags \in [LobbyRefs -> SUBSET LobbyFlags]
  BY DEF MenuInv, IInv, Seats, Others
<1>2. /\ num' = [num EXCEPT ![l] = @ - 1]
      /\ flags' = [m \in LobbyRefs |-> IF m \in gone THEN {}
                                       ELSE IF m = l /\ bursting[c] THEN flags[m] \ {"BURSTING"}
                                       ELSE flags[m]]
      /\ st' = [m \in LobbyRefs |-> IF m \in gone \cup dropped THEN "free" ELSE st[m]]
  <2>1. st' = [m \in LobbyRefs |-> IF m \in gone \cup dropped THEN "free"
                                   ELSE IF m \in {} THEN "listed" ELSE st[m]]
    BY DEF Relist
  <2> QED BY <2>1 DEF RemovePlayer
<1>3. /\ Seats'
      /\ cur' = [cur EXCEPT ![c] = NoLobby]
      /\ num[l] = 1 => slot'[l] = Empty
  BY RemoveSeats DEF MenuInv, IInv
<1>4. /\ \A m \in gone : m = l /\ num[l] = 1
      /\ l \in GameRefs /\ num[l] = 1 => l \in gone
  BY DEF Emptied
<1>5. l \in LobbyRefs /\ num[l] >= 1 /\ num[l] \in Nat
  BY Counted DEF MenuInv, IInv
<1>6. \A d \in Clients \ {c} : cur[d] \in LobbyRefs => cur[d] \notin gone
  <2>1. SUFFICES ASSUME NEW d \in Clients \ {c}, cur[d] \in gone PROVE FALSE
    OBVIOUS
  <2>2. cur'[d] = l /\ slot'[l] = Empty
    BY <2>1, <1>1, <1>3, <1>4
  <2>3. slot'[l][cid'[d]] = d /\ cid'[d] \in Slots
    BY <2>2, <1>3, <1>5, Refs DEF Seats, Membership
  <2> QED BY <2>2, <2>3, ClientsAssumption DEF Empty
<1> HIDE DEF gone
<1>7. Peopled'
  <2>1. ASSUME NEW g \in GameRefs, st'[g] = "listed" PROVE num'[g] >= 1
    <3>1. g \notin gone /\ st[g] = "listed" /\ g \in LobbyRefs
      BY <2>1, <1>2, Refs
    <3>2. num[g] >= 1 /\ num[g] \in Nat
      BY <3>1, <1>1 DEF MenuInv, Peopled, Games
    <3>3. CASE g = l
      <4>1. num[l] # 1 /\ num'[l] = num[l] - 1
        BY <3>1, <3>3, <1>1, <1>2, <1>4, <1>5
      <4> QED BY <4>1, <3>2, <3>3
    <3>4. CASE g # l
      BY <3>1, <3>2, <3>4, <1>1, <1>2
    <3> QED BY <3>3, <3>4
  <2> QED BY <2>1 DEF Peopled, Games
<1>8. Loading'
  <2>1. /\ \A d \in Clients \ {c} : cur'[d] = cur[d] /\ bursting'[d] = bursting[d]
        /\ cur'[c] = NoLobby /\ ~bursting'[c]
    BY <1>1, <1>3
  <2>2. ASSUME NEW m \in LobbyRefs
        PROVE  "BURSTING" \in flags'[m] <=> \E d \in Clients : bursting'[d] /\ cur'[d] = m
    <3>1. "BURSTING" \in flags[m] <=> \E d \in Clients : bursting[d] /\ cur[d] = m
      BY DEF MenuInv, Loading
    <3>2. CASE m \in gone
      <4>1. flags'[m] = {}
        BY <3>2, <1>2
      <4>2. \A d \in Clients : ~(bursting'[d] /\ cur'[d] = m)
        BY <3>2, <1>6, <2>1, Refs
      <4> QED BY <4>1, <4>2
    <3>3. CASE m \notin gone /\ m = l /\ bursting[c]
      <4>1. "BURSTING" \notin flags'[m]
        BY <3>3, <1>2
      <4>2. \A d \in Clients : ~(bursting'[d] /\ cur'[d] = m)
        BY <3>3, <2>1, Refs DEF MenuInv, Loading
      <4> QED BY <4>1, <4>2
    <3>4. CASE m \notin gone /\ ~(m = l /\ bursting[c])
      <4>1. flags'[m] = flags[m]
        BY <3>4, <1>2
      <4>2. \A d \in Clients : (bursting'[d] /\ cur'[d] = m) <=> (bursting[d] /\ cur[d] = m)
        BY <3>4, <2>1, Refs
      <4> QED BY <4>1, <4>2, <3>1
    <3> QED BY <3>2, <3>3, <3>4
  <2> QED BY <2>1, <2>2 DEF MenuInv, Loading, InGame
<1> QED BY <1>7, <1>8

\* A handler that moves nobody, lists nothing and ends or begins no burst.
LEMMA MenuQuiet ==
    ASSUME MenuInv, UNCHANGED <<cur, num, bursting>>,
           Games' = Games,
           \A l \in LobbyRefs : "BURSTING" \in flags'[l] <=> "BURSTING" \in flags[l]
    PROVE  Peopled' /\ Loading'
BY DEF MenuInv, Peopled, Loading, InGame

LEMMA MenuInductive ==
    ASSUME ~AnyOrder, MenuInv, [Next]_vars
    PROVE  MenuInv'
<1>1. IInv'
  BY Inductive DEF MenuInv
<1>2. /\ cur \in [Clients -> LobbyRefs \cup {NoLobby}]
      /\ bursting \in [Clients -> BOOLEAN]
      /\ pending \in [Clients -> GameRefs \cup {NoLobby}]
      /\ flags \in [LobbyRefs -> SUBSET LobbyFlags]
      /\ st \in [LobbyRefs -> {"free", "pending", "listed"}]
      /\ \A c \in Clients : pending[c] # NoLobby => st[pending[c]] = "pending"
      /\ \A l \in LobbyRefs : st[l] # "listed" => flags[l] = {}
      /\ \A c \in Clients : bursting[c] => InGame(c)
  BY DEF MenuInv, IInv, Seats, List, Others, NoDangling, Loading
<1>3. \A c \in Clients : cur[c] \in DefaultLobbies => ~bursting[c] /\ Emptied(cur[c]) = {}
  BY <1>2, Refs DEF InGame, Emptied
<1>4. ASSUME UNCHANGED <<cur, num, bursting, st, flags>> PROVE Peopled' /\ Loading'
  BY <1>4, MenuQuiet DEF Games
<1>5. ASSUME NEW c \in Clients, CharData(c) PROVE Peopled' /\ Loading'
  BY <1>5, MenuEnter DEF CharData, MenuInv
<1>6. ASSUME NEW c \in Clients, LeaveGame(c) PROVE Peopled' /\ Loading'
  <2>1. /\ cur[c] \in LobbyRefs /\ ~bursting[c] /\ bursting' = bursting /\ now' = now
        /\ RemovePlayer(c) /\ Relist({}, Emptied(cur[c]), {})
    BY <1>6, Refs DEF LeaveGame, InGame, Destroy
  <2> QED BY <2>1, MenuRemove
<1>7. ASSUME NEW c \in Clients, Disconnect(c) PROVE Peopled' /\ Loading'
  <2> DEFINE dropped == {pending[c]} \ {NoLobby}
  <2>1. /\ bursting' = [bursting EXCEPT ![c] = FALSE] /\ now' = now
        /\ dropped \cap Games = {}
    BY <1>2, <1>7 DEF Disconnect, Games
  <2>2. CASE cur[c] = NoLobby
    <3>1. /\ Relist({}, {}, dropped) /\ UNCHANGED <<cur, num, flags>>
      BY <1>7, <2>2 DEF Disconnect, roomVars
    <3>2. bursting' = bursting
      BY <1>2, <2>1, <2>2, Refs DEF InGame
    <3>3. Games' = Games
      BY <2>1, <3>1, Refs DEF Relist, Games
    <3> QED BY <3>1, <3>2, <3>3, MenuQuiet
  <2>3. CASE cur[c] # NoLobby
    <3>1. RemovePlayer(c) /\ Relist({}, Emptied(cur[c]), dropped) /\ cur[c] \in LobbyRefs
      BY <1>2, <1>7, <2>3 DEF Disconnect
    <3> HIDE DEF dropped
    <3> QED BY <2>1, <3>1, MenuRemove
  <2> QED BY <2>2, <2>3
<1>8. ASSUME NEW c \in Clients, NEW l \in LobbyRefs, ChangeLobby(c, l)
      PROVE  Peopled' /\ Loading'
  <2>1. cur[c] \in DefaultLobbies /\ flags[l] = {} /\ Move(c, l)
    BY <1>8 DEF ChangeLobby, AtMenu, Open
  <2>2. Relist({}, {}, {}) /\ flags' = FlagsAfterMove(l, {})
    BY <1>3, <1>8, <2>1 DEF ChangeLobby, Destroy
  <2> QED BY <1>3, <2>1, <2>2, MenuMove
<1>9. ASSUME NEW c \in Clients, NEW l \in LobbyRefs, EnterLobby(c, l)
      PROVE  Peopled' /\ Loading'
  BY <1>9, MenuEnter DEF EnterLobby, MenuInv
<1>10. ASSUME NEW c \in Clients, NEW l \in LobbyRefs, JoinGame(c, l)
       PROVE  Peopled' /\ Loading'
  <2>1. cur[c] \in DefaultLobbies /\ flags[l] = {} /\ Move(c, l)
    BY <1>10 DEF JoinGame, AtMenu, Open
  <2>2. Relist({}, {}, {}) /\ flags' = FlagsAfterMove(l, {})
    BY <1>3, <1>10, <2>1 DEF JoinGame, Destroy
  <2> QED BY <1>3, <2>1, <2>2, MenuMove
<1>11. ASSUME NEW c \in Clients, NEW l \in LobbyRefs, CreateGame(c, l)
       PROVE  Peopled' /\ Loading'
  <2>1. cur[c] \in DefaultLobbies /\ st[l] = "free" /\ Move(c, l)
    BY <1>11 DEF CreateGame, AtMenu
  <2>2. flags[l] = {}
    BY <1>2, <2>1
  <2>3. Relist({l}, {}, {}) /\ flags' = FlagsAfterMove(l, {})
    BY <1>3, <1>11, <2>1 DEF CreateGame
  <2> QED BY <1>3, <2>1, <2>2, <2>3, MenuMove
<1>12. ASSUME NEW c \in Clients, GameType(c) PROVE Peopled' /\ Loading'
  <2>1. cur[c] \in DefaultLobbies /\ pending[c] # NoLobby /\ Move(c, pending[c])
    BY <1>12 DEF GameType, AtMenu
  <2>2. pending[c] \in LobbyRefs /\ flags[pending[c]] = {}
    BY <1>2, <2>1, Refs
  <2>3. Relist({pending[c]}, {}, {}) /\ flags' = FlagsAfterMove(pending[c], {})
    BY <1>3, <1>12, <2>1 DEF GameType
  <2> QED BY <1>3, <2>1, <2>2, <2>3, MenuMove
<1>13. ASSUME NEW c \in Clients, NEW l \in LobbyRefs, CreatePending(c, l)
       PROVE  Peopled' /\ Loading'
  <2>1. /\ l \in GameRefs /\ st[l] = "free" /\ st' = [st EXCEPT ![l] = "pending"]
        /\ UNCHANGED <<cur, num, bursting, flags>>
    BY <1>13 DEF CreatePending, roomVars
  <2>2. Games' = Games
    BY <1>2, <2>1, Refs DEF Games
  <2> QED BY <2>1, <2>2, MenuQuiet
<1>14. ASSUME NEW c \in Clients, GameTypeRefused(c) PROVE Peopled' /\ Loading'
  <2>1. /\ pending[c] # NoLobby /\ Relist({}, {}, {pending[c]})
        /\ UNCHANGED <<cur, num, bursting, flags>>
    BY <1>14 DEF GameTypeRefused, roomVars
  <2>2. Games' = Games
    BY <1>2, <2>1, Refs DEF Relist, Games
  <2> QED BY <2>1, <2>2, MenuQuiet
<1>15. ASSUME NEW c \in Clients, DoneBurst(c) PROVE Peopled' /\ Loading'
  <2>1. /\ bursting[c] /\ cur[c] \in LobbyRefs
        /\ flags' = [flags EXCEPT ![cur[c]] = @ \ {"BURSTING"}]
        /\ bursting' = [bursting EXCEPT ![c] = FALSE]
        /\ UNCHANGED <<cur, num, st>>
    BY <1>15, Refs DEF DoneBurst, InGame, listVars
  <2>2. Peopled'
    BY <2>1 DEF MenuInv, Peopled, Games
  <2>3. \A d \in Clients : bursting'[d] <=> bursting[d] /\ d # c
    BY <1>2, <2>1
  <2>4. ASSUME NEW l \in LobbyRefs
        PROVE  "BURSTING" \in flags'[l] <=> \E d \in Clients : bursting'[d] /\ cur'[d] = l
    <3>1. CASE l = cur[c]
      BY <3>1, <1>2, <2>1, <2>3 DEF MenuInv, Loading
    <3>2. CASE l # cur[c]
      BY <3>2, <1>2, <2>1, <2>3 DEF MenuInv, Loading
    <3> QED BY <3>1, <3>2
  <2>5. /\ \A d \in Clients : bursting'[d] => cur'[d] \in GameRefs
        /\ \A d, e \in Clients : bursting'[d] /\ bursting'[e] /\ cur'[d] = cur'[e] => d = e
    BY <2>1, <2>3 DEF MenuInv, Loading, InGame
  <2> QED BY <2>2, <2>4, <2>5 DEF Loading, InGame
<1>16. ASSUME NEW c \in Clients, Connect(c) \/ Delay(c) PROVE Peopled' /\ Loading'
  BY <1>4, <1>16 DEF Connect, Delay, clientVars, listVars, roomVars
<1>17. ASSUME NEW c \in Clients, RejoinGame(c) \/ JoinNowhere(c) PROVE FALSE
  BY <1>17 DEF RejoinGame, JoinNowhere
<1>18. ASSUME NEW c \in Clients, QuestList(c) \/ QuestEndList(c) \/ QuestStart(c)
       PROVE  Peopled' /\ Loading'
  <2>1. /\ UNCHANGED <<cur, num, bursting, st>>
        /\ \/ flags' = [flags EXCEPT ![cur[c]] = flags[cur[c]] \cup {"QUESTSEL"}]
           \/ flags' = [flags EXCEPT ![cur[c]] = flags[cur[c]] \ {"QUESTSEL"}]
           \/ flags' = [flags EXCEPT ![cur[c]] = flags[cur[c]] \cup {"QUESTING"}]
    BY <1>18 DEF QuestList, QuestEndList, QuestStart, SetFlags, clientVars, listVars
  <2>2. \A l \in LobbyRefs : "BURSTING" \in flags'[l] <=> "BURSTING" \in flags[l]
    BY <1>2, <2>1
  <2>3. Games' = Games
    BY <2>1 DEF Games
  <2> QED BY <2>1, <2>2, <2>3, MenuQuiet
<1>19. ASSUME Tick \/ UNCHANGED vars PROVE Peopled' /\ Loading'
  BY <1>4, <1>19 DEF Tick, vars, clientVars, listVars, roomVars
<1>20. Peopled' /\ Loading'
  BY <1>5, <1>6, <1>7, <1>8, <1>9, <1>10, <1>11, <1>12, <1>13, <1>14, <1>15, <1>16, <1>17,
     <1>18, <1>19 DEF Next
<1> QED BY <1>1, <1>20 DEF MenuInv

LEMMA MenuInvariant ==
    ASSUME ~AnyOrder
    PROVE  Spec => []MenuInv
<1>1. Init => MenuInv
  <2>1. Init => Peopled /\ Loading
    BY Refs DEF Init, Peopled, Loading, Games
  <2> QED BY <2>1, Initially DEF MenuInv
<1>2. MenuInv /\ [Next]_vars => MenuInv'
  BY MenuInductive
<1> QED BY <1>1, <1>2, PTL DEF Spec

\* A game goes with its last player, whichever way that one leaves it, as long as clients
\* keep to the menus.  (One in no lobby may list a game with nobody in it otherwise.)
THEOREM GamesArePeopled ==
    ASSUME ~AnyOrder
    PROVE  Spec => []NoEmptyGame
<1>1. MenuInv => NoEmptyGame
  <2>1. SUFFICES ASSUME MenuInv, NEW l \in Games PROVE Members(l) # {}
    BY DEF NoEmptyGame
  <2>2. l \in LobbyRefs /\ Cardinality(Occupied(l)) >= 1
    BY <2>1, Refs DEF MenuInv, Peopled, IInv, Seats, Counts, Games
  <2>3. Occupied(l) # {}
    BY <2>2, FS_EmptySet
  <2>4. PICK i \in Slots : slot[l][i] # NoClient
    BY <2>3 DEF Occupied
  <2>5. slot[l][i] \in Clients /\ cur[slot[l][i]] = l
    BY <2>1, <2>2, <2>4 DEF MenuInv, IInv, Seats, Membership
  <2> QED BY <2>5 DEF Members
<1> QED BY <1>1, MenuInvariant, PTL

\* A game is closed for bursting exactly as long as one of its players, and only one, is
\* loading, as long as clients keep to the menus.
THEOREM BurstsAreSound ==
    ASSUME ~AnyOrder
    PROVE  Spec => []BurstSound
<1>1. MenuInv => BurstSound
  <2>1. SUFFICES ASSUME MenuInv, NEW l \in Games
                 PROVE  /\ Cardinality({c \in Members(l) : bursting[c]}) <= 1
                        /\ ("BURSTING" \in flags[l]) = ({c \in Members(l) : bursting[c]} # {})
    BY DEF BurstSound
  <2> DEFINE loading == {c \in Members(l) : bursting[c]}
  <2>2. Cardinality(loading) <= 1
    <3>1. CASE loading = {}
      BY <3>1, FS_EmptySet
    <3>2. ASSUME NEW c \in loading PROVE Cardinality(loading) <= 1
      <4>1. \A d \in loading : d = c
        BY <2>1, <3>2 DEF Members, MenuInv, Loading
      <4>2. loading = {c}
        BY <3>2, <4>1
      <4>3. Cardinality({c}) = 1
        BY FS_Singleton
      <4> HIDE DEF loading
      <4> QED BY <4>2, <4>3
    <3> QED BY <3>1, <3>2
  <2>3. ("BURSTING" \in flags[l]) <=> loading # {}
    BY <2>1, Refs DEF Members, MenuInv, Loading, Games
  <2> QED BY <2>2, <2>3
<1> QED BY <1>1, MenuInvariant, PTL

-----------------------------------------------------------------------------
(* Rooms.                                                                   *)

\* A default lobby is never closed: only games burst or play quests.
DefaultsOpen == \A l \in DefaultLobbies : flags[l] = {}

LEMMA DefaultsStayOpen ==
    ASSUME ~AnyOrder
    PROVE  Spec => []DefaultsOpen
<1>1. Init => DefaultsOpen
  BY Refs DEF Init, DefaultsOpen
<1>2. ASSUME IInv, DefaultsOpen, [Next]_vars PROVE DefaultsOpen'
  <2>1. ASSUME UNCHANGED flags PROVE DefaultsOpen'
    BY <1>2, <2>1 DEF DefaultsOpen
  <2>2. ASSUME NEW g \in GameRefs, NEW f, flags' = [flags EXCEPT ![g] = f] PROVE DefaultsOpen'
    BY <1>2, <2>2, Refs DEF DefaultsOpen, IInv, Others
  <2>3. ASSUME NEW req, NEW gone, flags' = FlagsAfterMove(req, gone) PROVE DefaultsOpen'
    BY <1>2, <2>3, Refs DEF DefaultsOpen, FlagsAfterMove
  <2>4. ASSUME NEW c, RemovePlayer(c) PROVE DefaultsOpen'
    BY <1>2, <2>4, Refs DEF DefaultsOpen, RemovePlayer
  <2>5. ASSUME NEW c \in Clients, CharData(c) \/ JoinNowhere(c) PROVE DefaultsOpen'
    BY <2>1, <2>5 DEF CharData, JoinNowhere, AddToAny
  <2>6. ASSUME NEW c \in Clients, LeaveGame(c) PROVE DefaultsOpen'
    BY <2>4, <2>6 DEF LeaveGame
  <2>7. ASSUME NEW c \in Clients, Disconnect(c) PROVE DefaultsOpen'
    BY <2>1, <2>4, <2>7 DEF Disconnect, roomVars
  <2>8. ASSUME NEW c \in Clients, NEW l \in LobbyRefs, EnterLobby(c, l) PROVE DefaultsOpen'
    BY <2>1, <2>8 DEF EnterLobby, AddToAny
  <2>9. ASSUME NEW c \in Clients, NEW l \in LobbyRefs, ChangeLobby(c, l) PROVE DefaultsOpen'
    BY <2>1, <2>3, <2>9 DEF ChangeLobby
  <2>10. ASSUME NEW c \in Clients, NEW l \in LobbyRefs, JoinGame(c, l) \/ CreateGame(c, l)
         PROVE  DefaultsOpen'
    BY <2>3, <2>10 DEF JoinGame, CreateGame
  <2>11. ASSUME NEW c \in Clients, GameType(c) PROVE DefaultsOpen'
    BY <2>3, <2>11 DEF GameType
  <2>12. ASSUME NEW c \in Clients, RejoinGame(c) \/ DoneBurst(c) PROVE DefaultsOpen'
    BY <2>2, <2>12 DEF RejoinGame, DoneBurst, InGame
  <2>13. ASSUME NEW c \in Clients, QuestList(c) \/ QuestEndList(c) \/ QuestStart(c)
         PROVE  DefaultsOpen'
    BY <2>2, <2>13 DEF QuestList, QuestEndList, QuestStart, SetFlags, AtQuests, InGame
  <2>14. ASSUME NEW c \in Clients, Connect(c) \/ GameTypeRefused(c) \/ Delay(c)
         PROVE  DefaultsOpen'
    BY <2>1, <2>14 DEF Connect, GameTypeRefused, Delay, roomVars
  <2>15. ASSUME NEW c \in Clients, NEW l \in LobbyRefs, CreatePending(c, l)
         PROVE  DefaultsOpen'
    BY <2>1, <2>15 DEF CreatePending, roomVars
  <2>16. ASSUME Tick \/ UNCHANGED vars PROVE DefaultsOpen'
    BY <2>1, <2>16 DEF Tick, vars, roomVars
  <2> QED BY <1>2, <2>5, <2>6, <2>7, <2>8, <2>9, <2>10, <2>11, <2>12, <2>13, <2>14, <2>15,
             <2>16 DEF Next
<1> QED BY <1>1, <1>2, Invariant, PTL DEF Spec

\* num_clients counts the players, not just the places.
LEMMA MembersCounted ==
    ASSUME Seats, NEW l \in LobbyRefs
    PROVE  Cardinality(Members(l)) = num[l]
<1>1. /\ \A c \in Members(l) : cid[c] \in Occupied(l) /\ slot[l][cid[c]] = c
      /\ \A i \in Occupied(l) : slot[l][i] \in Members(l) /\ cid[slot[l][i]] = i
  BY Refs, ClientsAssumption DEF Seats, Membership, Members, Occupied
<1> DEFINE f == [i \in Occupied(l) |-> slot[l][i]]
<1>2. f \in Bijection(Occupied(l), Members(l))
  <2>1. f \in Injection(Occupied(l), Members(l))
    BY <1>1 DEF Injection, IsInjective
  <2>2. f \in Surjection(Occupied(l), Members(l))
    BY <1>1 DEF Surjection
  <2> QED BY <2>1, <2>2 DEF Bijection
<1> HIDE DEF f
<1>3. Cardinality(Members(l)) = Cardinality(Occupied(l))
  BY <1>2, OccupiedFinite, FS_Bijection DEF ExistsBijection
<1> QED BY <1>3 DEF Seats, Counts

\* A block whose clients keep to the menus keeps the promises of Rooms: a player is in one
\* lobby or game at most, none holds more players than it has places, nobody enters a game
\* that is loading or chooses or plays a quest, and only those inside close or open it.
THEOREM RoomsImplemented ==
    ASSUME ~AnyOrder
    PROVE  Spec => ImplementsRooms
<1>1. Init => R!Init
  BY DEF Init, R!Init, Shut
<1>2. ASSUME IInv, DefaultsOpen, [Next]_vars PROVE [R!Next]_<<cur, Shut>>
  <2>1. Shut' \in SUBSET LobbyRefs
    BY DEF Shut
  <2>2. ASSUME NEW c \in Clients, NEW l \in LobbyRefs, cur[c] # l, flags[l] = {},
               num[l] < Cap(l), cur' = [cur EXCEPT ![c] = l]
        PROVE  R!Next
    <3>1. l \notin Shut
      BY <2>2 DEF Shut
    <3>2. R!Cardinality(R!In(l)) < Cap(l)
      <4>1. R!In(l) = Members(l)
        BY DEF R!In, Members
      <4>2. Cardinality(R!In(l)) = R!Cardinality(R!In(l))
        BY DEF Cardinality, R!Cardinality
      <4> QED BY <1>2, <2>2, <4>1, <4>2, MembersCounted DEF IInv
    <3>3. R!Enter(c, l)
      BY <2>1, <2>2, <3>1, <3>2 DEF R!Enter
    <3> QED BY <3>3 DEF R!Next
  <2>3. ASSUME Stays PROVE [R!Next]_<<cur, Shut>>
    <3>1. \A l \in LobbyRefs : (l \in Shut) # (l \in Shut') => R!In(l) # {}
      BY <2>3 DEF Stays, Shut, R!In, Members
    <3>2. R!Doors
      BY <2>1, <2>3, <3>1 DEF R!Doors, Stays
    <3> QED BY <3>2 DEF R!Next
  <2>4. ASSUME NEW c \in Clients, Leaves(c) PROVE R!Next
    <3>1. cur[c] # NoLobby /\ cur' = [cur EXCEPT ![c] = NoLobby]
      BY <2>4, Refs DEF Leaves, RemovePlayer
    <3>2. R!Leave(c)
      BY <2>1, <3>1 DEF R!Leave
    <3> QED BY <3>2 DEF R!Next
  <2>5. ASSUME NEW c \in Clients, NEW l \in LobbyRefs, Enters(c, l) PROVE R!Next
    <3>1. /\ cur[c] # l /\ flags[l] = {} /\ num[l] < Cap(l)
          /\ cur' = [cur EXCEPT ![c] = l]
      BY <1>2, <2>5, Refs DEF Enters, Enter, DefaultsOpen
    <3> QED BY <2>2, <3>1
  <2>6. ASSUME NEW c \in Clients, NEW l \in LobbyRefs, Moves(c, l) PROVE R!Next
    <3>1. /\ cur[c] # l /\ flags[l] = {} /\ num[l] < Cap(l)
          /\ cur' = [cur EXCEPT ![c] = l]
      BY <2>6 DEF Moves, Move
    <3> QED BY <2>2, <3>1
  <2> QED BY <1>2, <2>3, <2>4, <2>5, <2>6, StepsSeat DEF SeatStep
<1> QED BY <1>1, <1>2, Invariant, DefaultsStayOpen, PTL DEF Spec, ImplementsRooms, R!Spec

-----------------------------------------------------------------------------
(* The list of lobbies.                                                     *)

\* The list as an order: places are those of a list of this length, no two lobbies share
\* one, and what is not listed has none.
Ordered ==
    /\ \A l \in Listed : pos[l] \in 1 .. Cardinality(Listed)
    /\ \A l, m \in Listed : pos[l] = pos[m] => l = m
    /\ \A l \in LobbyRefs \ Listed : pos[l] = 0

LEMMA Sets ==
    /\ NoLobby \notin LobbyRefs /\ DefaultLobbies \subseteq LobbyRefs
    /\ GameRefs \subseteq LobbyRefs /\ DefaultLobbies \cap GameRefs = {}
    /\ IsFiniteSet(Listed) /\ Cardinality(Listed) \in Nat
<1>1. /\ NoLobby \notin LobbyRefs /\ DefaultLobbies \subseteq LobbyRefs
      /\ GameRefs \subseteq LobbyRefs /\ DefaultLobbies \cap GameRefs = {}
  BY LobbiesAssumption DEF LobbyRefs
<1>2. IsFiniteSet(LobbyRefs)
  BY LobbiesAssumption, FS_Union DEF LobbyRefs
<1>3. Listed \in SUBSET LobbyRefs
  BY DEF Listed
<1> QED BY <1>1, <1>2, <1>3, FS_Subset, FS_CardinalityType

\* An order has no holes.
LEMMA NoHoles ==
    ASSUME Ordered
    PROVE  {pos[l] : l \in Listed} = 1 .. Cardinality(Listed)
<1> DEFINE f == [l \in Listed |-> pos[l]]
           n == Cardinality(Listed)
<1>1. f \in Injection(Listed, 1 .. n)
  BY DEF Ordered, Injection, IsInjective
<1>2. IsFiniteSet(1 .. n) /\ Cardinality(1 .. n) = n
  BY Sets, FS_Interval
<1> HIDE DEF f
<1>3. f \in Surjection(Listed, 1 .. n)
  BY <1>1, <1>2, FS_Injection
<1>4. \A k \in 1 .. n : \E l \in Listed : f[l] = k
  BY <1>3 DEF Surjection
<1> QED BY <1>4 DEF f, Ordered

\* How many of at most one destroyed games were before place p.
LEMMA Before ==
    ASSUME NEW gone, NEW p,
           gone = {} \/ \E g : gone = {g}
    PROVE  /\ gone = {} => Cardinality({g \in gone : pos[g] < p}) = 0
           /\ \A g : gone = {g} =>
                  Cardinality({x \in gone : pos[x] < p}) = IF pos[g] < p THEN 1 ELSE 0
<1>1. ASSUME NEW g, gone = {g}
      PROVE  Cardinality({x \in gone : pos[x] < p}) = IF pos[g] < p THEN 1 ELSE 0
  <2>1. CASE pos[g] < p
    <3>1. {x \in gone : pos[x] < p} = {g}
      BY <1>1, <2>1
    <3> QED BY <2>1, <3>1, FS_Singleton
  <2>2. CASE ~(pos[g] < p)
    <3>1. {x \in gone : pos[x] < p} = {}
      BY <1>1, <2>2
    <3> QED BY <2>2, <3>1, FS_EmptySet
  <2> QED BY <2>1, <2>2
<1>2. ASSUME gone = {} PROVE Cardinality({g \in gone : pos[g] < p}) = 0
  <2>1. {g \in gone : pos[g] < p} = {}
    BY <1>2
  <2> QED BY <2>1, FS_EmptySet
<1> QED BY <1>1, <1>2

\* Putting a game at the end, and taking one out, keep the order.
LEMMA RelistOrdered ==
    ASSUME List, Ordered,
           NEW new \in SUBSET GameRefs, new \cap Listed = {},
           new = {} \/ \E g \in GameRefs : new = {g},
           NEW gone \in SUBSET GameRefs, gone \subseteq Listed,
           gone = {} \/ \E g \in Listed : gone = {g},
           NEW dropped \in SUBSET GameRefs, dropped \cap (Listed \cup new) = {},
           Relist(new, gone, dropped)
    PROVE  Ordered'
<1> DEFINE n == Cardinality(Listed)
           p(l) == IF l \in new THEN n + 1 ELSE pos[l]
           q(l) == p(l) - Cardinality({g \in gone : pos[g] < p(l)})
<1>1. /\ pos \in [LobbyRefs -> Nat] /\ n \in Nat
      /\ \A l \in Listed : pos[l] \in 1 .. n
      /\ \A l, m \in Listed : pos[l] = pos[m] => l = m
      /\ \A l \in LobbyRefs \ Listed : pos[l] = 0
      /\ Listed \subseteq LobbyRefs /\ GameRefs \subseteq LobbyRefs
  BY Sets DEF List, Ordered, Listed
<1>2. /\ \A l \in LobbyRefs : st'[l] = IF l \in gone \cup dropped THEN "free"
                                       ELSE IF l \in new THEN "listed" ELSE st[l]
      /\ \A l \in LobbyRefs : pos'[l] = IF l \in gone THEN 0 ELSE q(l)
  BY DEF Relist
<1>3. Listed' = (Listed \cup new) \ gone
  BY <1>1, <1>2 DEF Listed
<1>4. gone = {} \/ \E g : gone = {g}
  OBVIOUS
<1>5. CASE gone = {}
  <2>1. \A l \in LobbyRefs : pos'[l] = p(l)
    <3>1. \A l \in LobbyRefs : p(l) \in Nat
      BY <1>1
    <3>2. ASSUME NEW l \in LobbyRefs PROVE q(l) = p(l)
      <4>1. Cardinality({g \in gone : pos[g] < p(l)}) = 0
        BY <1>5, Before
      <4> QED BY <3>1, <4>1
    <3> QED BY <1>2, <1>5, <3>2
  <2>2. CASE new = {}
    <3>1. Listed' = Listed
      BY <1>3, <1>5, <2>2
    <3> QED BY <1>1, <2>1, <2>2, <3>1 DEF Ordered
  <2>3. ASSUME NEW g \in GameRefs, new = {g} PROVE Ordered'
    <3>1. Listed' = Listed \cup {g} /\ g \notin Listed
      BY <1>3, <1>5, <2>3
    <3>2. Cardinality(Listed') = n + 1
      BY <3>1, Sets, FS_AddElement
    <3>3. \A l \in LobbyRefs : pos'[l] = IF l = g THEN n + 1 ELSE pos[l]
      BY <2>1, <2>3
    <3>4. \A l \in Listed' : pos'[l] \in 1 .. Cardinality(Listed')
      BY <1>1, <3>1, <3>2, <3>3
    <3>5. \A l, m \in Listed' : pos'[l] = pos'[m] => l = m
      BY <1>1, <3>1, <3>3
    <3>6. \A l \in LobbyRefs \ Listed' : pos'[l] = 0
      BY <1>1, <3>1, <3>3
    <3> QED BY <3>4, <3>5, <3>6 DEF Ordered
  <2> QED BY <2>2, <2>3
<1>6. ASSUME NEW h \in Listed, gone = {h} PROVE Ordered'
  <2>1. pos[h] \in 1 .. n
    BY <1>1, <1>6
  <2>2. ASSUME NEW l \in LobbyRefs
        PROVE  pos'[l] = IF l = h THEN 0 ELSE IF pos[h] < p(l) THEN p(l) - 1 ELSE p(l)
    <3>1. p(l) \in Nat
      BY <1>1
    <3>2. Cardinality({x \in gone : pos[x] < p(l)}) = IF pos[h] < p(l) THEN 1 ELSE 0
      BY <1>6, Before
    <3>3. pos'[l] = IF l = h THEN 0
                    ELSE p(l) - Cardinality({x \in gone : pos[x] < p(l)})
      BY <1>2, <1>6
    <3> HIDE DEF p
    <3> QED BY <3>1, <3>2, <3>3
  <2>3. \A l \in LobbyRefs \ Listed : l \notin new => pos'[l] = 0
    BY <1>1, <2>1, <2>2
  <2>4. CASE new = {}
    <3>1. Listed' = Listed \ {h}
      BY <1>3, <1>6, <2>4
    <3>2. Cardinality(Listed') = n - 1
      BY <3>1, Sets, FS_RemoveElement
    <3>3. \A l \in Listed' : pos'[l] = IF pos[h] < pos[l] THEN pos[l] - 1 ELSE pos[l]
      BY <1>1, <2>2, <2>4, <3>1
    <3>4. \A l \in Listed' : pos'[l] \in 1 .. Cardinality(Listed')
      <4>1. ASSUME NEW l \in Listed' PROVE pos'[l] \in 1 .. n - 1
        <5>1. l \in Listed /\ pos[l] # pos[h] /\ pos[l] \in 1 .. n
          BY <1>1, <1>6, <3>1
        <5> HIDE DEF n
        <5> QED BY <1>1, <2>1, <3>3, <5>1
      <4> QED BY <3>2, <4>1
    <3>5. ASSUME NEW l \in Listed', NEW m \in Listed', pos'[l] = pos'[m] PROVE l = m
      <4>1. /\ l \in Listed /\ m \in Listed /\ pos[l] # pos[h] /\ pos[m] # pos[h]
            /\ pos[l] \in Nat /\ pos[m] \in Nat /\ pos[h] \in Nat
        BY <1>1, <1>6, <3>1
      <4>2. pos[l] = pos[m]
        BY <3>3, <3>5, <4>1
      <4> QED BY <1>1, <4>1, <4>2
    <3>6. \A l \in LobbyRefs \ Listed' : pos'[l] = 0
      BY <2>2, <2>3, <2>4, <3>1
    <3> QED BY <3>4, <3>5, <3>6 DEF Ordered
  <2>5. ASSUME NEW g \in GameRefs, new = {g} PROVE Ordered'
    <3>1. Listed' = (Listed \cup {g}) \ {h} /\ g \notin Listed /\ g # h
      BY <1>3, <1>6, <2>5
    <3>2. Cardinality(Listed') = n
      <4>1. IsFiniteSet(Listed \cup {g}) /\ Cardinality(Listed \cup {g}) = n + 1
        BY <3>1, Sets, FS_AddElement
      <4>2. Cardinality((Listed \cup {g}) \ {h}) = Cardinality(Listed \cup {g}) - 1
        BY <1>6, <4>1, FS_RemoveElement
      <4> QED BY <1>1, <3>1, <4>1, <4>2
    <3>3. pos'[g] = n
      <4>1. p(g) = n + 1 /\ g \in LobbyRefs
        BY <1>1, <2>5
      <4> HIDE DEF p, n
      <4> QED BY <1>1, <2>1, <2>2, <3>1, <4>1
    <3>4. \A l \in Listed \ {h} : pos'[l] = IF pos[h] < pos[l] THEN pos[l] - 1 ELSE pos[l]
      BY <1>1, <2>2, <2>5, <3>1
    <3>5. ASSUME NEW l \in Listed \ {h} PROVE pos'[l] \in 1 .. n - 1
      <4>1. pos[l] # pos[h] /\ pos[l] \in 1 .. n
        BY <1>1, <1>6, <3>5
      <4> HIDE DEF n
      <4> QED BY <1>1, <2>1, <3>4, <4>1
    <3>6. \A l \in Listed' : pos'[l] \in 1 .. Cardinality(Listed')
      <4>1. n >= 1
        BY <1>1, <2>1
      <4> HIDE DEF n
      <4> QED BY <1>1, <3>1, <3>2, <3>3, <3>5, <4>1
    <3>7. ASSUME NEW l \in Listed', NEW m \in Listed', pos'[l] = pos'[m] PROVE l = m
      <4>1. CASE l = g \/ m = g
        <5> HIDE DEF n
        <5> QED BY <1>1, <3>1, <3>3, <3>5, <3>7, <4>1
      <4>2. CASE l # g /\ m # g
        <5>1. /\ l \in Listed \ {h} /\ m \in Listed \ {h}
              /\ pos[l] # pos[h] /\ pos[m] # pos[h]
              /\ pos[l] \in Nat /\ pos[m] \in Nat /\ pos[h] \in Nat
          BY <1>1, <1>6, <3>1, <4>2
        <5>2. pos[l] = pos[m]
          BY <3>4, <3>7, <5>1
        <5> QED BY <1>1, <5>1, <5>2
      <4> QED BY <4>1, <4>2
    <3>8. \A l \in LobbyRefs \ Listed' : pos'[l] = 0
      BY <2>2, <2>3, <2>5, <3>1
    <3> QED BY <3>6, <3>7, <3>8 DEF Ordered
  <2> QED BY <2>4, <2>5
<1> QED BY <1>5, <1>6

LEMMA OrderedAtFirst == Init => Ordered
<1> SUFFICES ASSUME Init PROVE Ordered
  OBVIOUS
<1> DEFINE n == Cardinality(DefaultLobbies)
<1>1. Listed = DefaultLobbies
  BY Sets DEF Init, Listed, LobbyRefs
<1>2. \A l \in DefaultLobbies : pos[l] = LobbyOrder[l]
  BY Sets DEF Init
<1>3. \A l \in LobbyRefs \ Listed : pos[l] = 0
  BY <1>1 DEF Init
<1>4. LobbyOrder \in Surjection(DefaultLobbies, 1 .. n)
  BY OrderAssumption, LobbiesAssumption DEF Surjection
<1>5. LobbyOrder \in Injection(DefaultLobbies, 1 .. n)
  <2>1. IsFiniteSet(DefaultLobbies) /\ n \in Nat
    BY LobbiesAssumption, FS_CardinalityType
  <2>2. Cardinality(1 .. n) = n
    BY <2>1, FS_Interval
  <2> QED BY <1>4, <2>1, <2>2, FS_Surjection
<1>6. \A l, m \in DefaultLobbies : LobbyOrder[l] = LobbyOrder[m] => l = m
  BY <1>5 DEF Injection, IsInjective
<1>7. \A l \in DefaultLobbies : LobbyOrder[l] \in 1 .. n
  BY OrderAssumption
<1> QED BY <1>1, <1>2, <1>3, <1>6, <1>7 DEF Ordered

\* The block's list of lobbies has no holes and no lobby twice, and its game count is the
\* number of games in it, whatever was created, listed late, emptied or thrown away.
THEOREM ListIsAccounted == Spec => []Accounting
<1>1. ASSUME IInv, Ordered, [Next]_vars PROVE Ordered'
  <2>1. /\ cur \in [Clients -> LobbyRefs \cup {NoLobby}]
        /\ pending \in [Clients -> GameRefs \cup {NoLobby}]
        /\ st \in [LobbyRefs -> {"free", "pending", "listed"}]
        /\ \A c \in Clients : pending[c] # NoLobby => st[pending[c]] = "pending"
        /\ List
    BY <1>1 DEF IInv, Seats, List, Others, NoDangling
  <2>2. ASSUME UNCHANGED <<st, pos>> PROVE Ordered'
    BY <1>1, <2>2 DEF Ordered, Listed
  <2>3. ASSUME NEW gone, gone = {} \/ \E c \in Clients : cur[c] \in LobbyRefs /\ gone = Emptied(cur[c])
        PROVE  /\ gone \in SUBSET GameRefs /\ gone \subseteq Listed
               /\ gone = {} \/ \E g \in Listed : gone = {g}
    <3>1. ASSUME NEW c \in Clients, cur[c] \in LobbyRefs, gone = Emptied(cur[c])
          PROVE  /\ gone \in SUBSET GameRefs /\ gone \subseteq Listed
                 /\ gone = {} \/ \E g \in Listed : gone = {g}
      <4>1. Emptied(cur[c]) \in SUBSET Games
        BY <1>1, <3>1, EmptiedIsListed
      <4>2. Games \subseteq Listed /\ Games \subseteq GameRefs
        BY Sets DEF Games, Listed
      <4>3. gone = {} \/ gone = {cur[c]}
        BY <3>1 DEF Emptied
      <4> QED BY <3>1, <4>1, <4>2, <4>3
    <3> QED BY <2>3, <3>1
  <2>4. ASSUME NEW new \in SUBSET GameRefs, NEW dropped \in SUBSET GameRefs, NEW gone,
               gone = {} \/ \E c \in Clients : cur[c] \in LobbyRefs /\ gone = Emptied(cur[c]),
               \/ new = {} /\ \A g \in dropped : st[g] = "pending"
               \/ dropped = {} /\ \E g \in GameRefs : new = {g} /\ st[g] # "listed",
               Relist(new, gone, dropped)
        PROVE  Ordered'
    <3>1. /\ new \cap Listed = {} /\ dropped \cap (Listed \cup new) = {}
          /\ new = {} \/ \E g \in GameRefs : new = {g}
      BY <2>4 DEF Listed
    <3>2. /\ gone \in SUBSET GameRefs /\ gone \subseteq Listed
          /\ gone = {} \/ \E g \in Listed : gone = {g}
      BY <2>3, <2>4
    <3> QED BY <1>1, <2>1, <2>4, <3>1, <3>2, RelistOrdered
  <2>5. ASSUME NEW c \in Clients, CharData(c) PROVE Ordered'
    BY <2>2, <2>5 DEF CharData, listVars
  <2>6. ASSUME NEW c \in Clients, LeaveGame(c) PROVE Ordered'
    <3>1. cur[c] \in LobbyRefs /\ Relist({}, Emptied(cur[c]), {})
      BY <2>1, <2>6, Sets DEF LeaveGame, InGame, Destroy
    <3> QED BY <2>4, <3>1
  <2>7. ASSUME NEW c \in Clients, NEW l \in LobbyRefs, ChangeLobby(c, l) \/ JoinGame(c, l)
        PROVE  Ordered'
    <3>1. /\ cur[c] \in LobbyRefs
          /\ UNCHANGED <<st, pos>> \/ Relist({}, Emptied(cur[c]), {})
      BY <2>1, <2>7 DEF ChangeLobby, JoinGame, Destroy, listVars
    <3> QED BY <2>2, <2>4, <3>1
  <2>8. ASSUME NEW c \in Clients, NEW l \in LobbyRefs, EnterLobby(c, l) PROVE Ordered'
    BY <2>2, <2>8 DEF EnterLobby, listVars
  <2>9. ASSUME NEW c \in Clients, NEW l \in LobbyRefs, CreateGame(c, l) PROVE Ordered'
    <3>1. /\ l \in GameRefs /\ st[l] = "free" /\ cur[c] \in LobbyRefs
          /\ Relist({l}, Emptied(cur[c]), {})
      BY <2>1, <2>9 DEF CreateGame
    <3> QED BY <2>4, <3>1
  <2>10. ASSUME NEW c \in Clients, NEW l \in LobbyRefs, CreatePending(c, l) PROVE Ordered'
    <3>1. st' = [st EXCEPT ![l] = "pending"] /\ st[l] = "free" /\ pos' = pos
      BY <2>10 DEF CreatePending
    <3>2. Listed' = Listed
      BY <2>1, <3>1 DEF Listed
    <3> QED BY <1>1, <3>1, <3>2 DEF Ordered
  <2>11. ASSUME NEW c \in Clients, GameType(c) PROVE Ordered'
    <3>1. /\ pending[c] \in GameRefs /\ st[pending[c]] # "listed" /\ cur[c] \in LobbyRefs
          /\ Relist({pending[c]}, Emptied(cur[c]), {})
      BY <2>1, <2>11 DEF GameType
    <3> QED BY <2>4, <3>1
  <2>12. ASSUME NEW c \in Clients, GameTypeRefused(c) PROVE Ordered'
    <3>1. /\ pending[c] \in GameRefs /\ st[pending[c]] = "pending"
          /\ Relist({}, {}, {pending[c]})
      BY <2>1, <2>12 DEF GameTypeRefused
    <3> QED BY <2>4, <3>1
  <2>13. ASSUME NEW c \in Clients, JoinNowhere(c) PROVE Ordered'
    <3>1. ASSUME NEW l \in GameRefs, st[l] # "listed", Relist({l}, {}, {}) PROVE Ordered'
      BY <2>4, <3>1
    <3>2. \/ UNCHANGED <<st, pos>>
          \/ \E l \in GameRefs : st[l] = "free" /\ Relist({l}, {}, {})
          \/ pending[c] # NoLobby /\ Relist({pending[c]}, {}, {})
      BY <2>13 DEF JoinNowhere, listVars
    <3> QED BY <2>1, <2>2, <3>1, <3>2
  <2>14. ASSUME NEW c \in Clients, Disconnect(c) PROVE Ordered'
    <3> DEFINE gone == IF cur[c] = NoLobby THEN {} ELSE Emptied(cur[c])
               dropped == {pending[c]} \ {NoLobby}
    <3>1. Relist({}, gone, dropped)
      BY <2>14 DEF Disconnect
    <3>2. gone = {} \/ (cur[c] \in LobbyRefs /\ gone = Emptied(cur[c]))
      BY <2>1
    <3>3. dropped \in SUBSET GameRefs /\ \A g \in dropped : st[g] = "pending"
      BY <2>1
    <3> HIDE DEF gone, dropped
    <3> QED BY <2>4, <3>1, <3>2, <3>3
  <2>15. ASSUME NEW c \in Clients,
                \/ Connect(c) \/ RejoinGame(c) \/ DoneBurst(c) \/ Delay(c)
                \/ QuestList(c) \/ QuestEndList(c) \/ QuestStart(c)
         PROVE  Ordered'
    <3>1. UNCHANGED listVars
      BY <2>15 DEF Connect, RejoinGame, DoneBurst, Delay, QuestList, QuestEndList, QuestStart,
                   SetFlags
    <3> QED BY <2>2, <3>1 DEF listVars
  <2>16. CASE Tick \/ UNCHANGED vars
    BY <2>2, <2>16 DEF Tick, vars, listVars
  <2> QED BY <1>1, <2>5, <2>6, <2>7, <2>8, <2>9, <2>10, <2>11, <2>12, <2>13, <2>14, <2>15,
             <2>16 DEF Next
<1>2. IInv /\ Ordered => Accounting
  <2>1. SUFFICES ASSUME IInv, Ordered PROVE Accounting
    OBVIOUS
  <2>2. GamesCounted
    BY <2>1 DEF IInv, List
  <2>3. {pos[l] : l \in Listed} = 1 .. Cardinality(Listed)
    BY <2>1, NoHoles
  <2> QED BY <2>1, <2>2, <2>3 DEF Accounting, Ordered
<1> QED BY <1>1, <1>2, OrderedAtFirst, Invariant, PTL DEF Spec
=============================================================================
