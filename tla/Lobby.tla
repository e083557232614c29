-------------------------------- MODULE Lobby ---------------------------------
(***************************************************************************)
(* One block of the ship server: its lobbies, the games its players create *)
(* and the players' way through them (ship_server/src/lobby.c, block.c).   *)
(*                                                                         *)
(* A block's clients are served by one thread, so a packet handler is one  *)
(* step.  What makes the component hard is not the interleaving of its     *)
(* instructions but the order of its events: players create, join and      *)
(* leave games, disconnect while they are still loading ("bursting"), sit  *)
(* on a menu with a half created game, and leave packets behind in the     *)
(* queue of a lobby whose burst is not over.                               *)
(*                                                                         *)
(* Locks are taken by the handlers but matter here only where the thread   *)
(* takes a lock it already holds (RelockBlocks).                           *)
(***************************************************************************)
EXTENDS Naturals, FiniteSets

CONSTANTS
    Clients,        \* ship_client_t objects
    PCClients,      \* those on version PC: they choose a game type before a game is listed
    V1Clients,      \* those on version DCV1: they see only the first lobbies
    DefaultLobbies, \* the lobbies the block was started with
    V1Lobbies,      \* those of them with a lobby_id of at most 10
    LobbyOrder,     \* their place in the block's list, 1 ..
    GameRefs,       \* lobby_t objects games are made of (bounds what malloc gives)
    NoClient, NoLobby,
    LobbyMax,       \* LOBBY_MAX_CLIENTS: places in a default lobby
    GameMax,        \* max_clients of a game
    SlotOneFirst,   \* the block's players are on a version before GameCube
    AnyOrder,       \* TRUE: clients may send any packet in any state;
                    \* FALSE: they follow the game's own menus
    RelockBlocks,   \* TRUE: a thread that locks a lobby's default mutex twice blocks
                    \* (glibc); FALSE: the second lock returns an error (BSD)
    MaxTime         \* bound on the clock, in seconds

LobbyRefs == DefaultLobbies \cup GameRefs

ASSUME ClientsAssumption ==
    /\ PCClients \subseteq Clients
    /\ V1Clients \subseteq Clients
    /\ NoClient \notin Clients

ASSUME LobbiesAssumption ==
    /\ V1Lobbies \subseteq DefaultLobbies
    /\ DefaultLobbies \cap GameRefs = {}
    /\ IsFiniteSet(DefaultLobbies) /\ IsFiniteSet(GameRefs)
    /\ NoLobby \notin LobbyRefs
    /\ LobbyOrder \in [DefaultLobbies -> Nat \ {0}]

\* block_server_start puts them in the list one after the other.
ASSUME OrderAssumption ==
    {LobbyOrder[l] : l \in DefaultLobbies} = 1 .. Cardinality(DefaultLobbies)

ASSUME SizesAssumption ==
    /\ LobbyMax \in Nat /\ GameMax \in Nat
    /\ 2 <= GameMax /\ GameMax <= LobbyMax
    /\ SlotOneFirst \in BOOLEAN /\ AnyOrder \in BOOLEAN /\ RelockBlocks \in BOOLEAN
    /\ MaxTime \in Nat

Slots == 0 .. (LobbyMax - 1)
LobbyFlags == {"BURSTING", "QUESTING", "QUESTSEL"}

VARIABLES
    conn,       \* conn[c]: the connection exists (its ship_client_t is allocated)
    cur,        \* c->cur_lobby
    cid,        \* c->client_id
    joined,     \* c->join_time, which is read only while c is in a lobby: 0 else
    bursting,   \* c->flags & CLIENT_FLAG_BURSTING
    pending,    \* c->create_lobby
    st,         \* lobby_t: "free", "pending" (allocated, in no list) or "listed"
    pos,        \* place in block->lobbies, 0 when not listed
    lid,        \* l->lobby_id of a game, counted from 0x20
    slot,       \* l->clients
    num,        \* l->num_clients
    leader,     \* l->leader_id
    flags,      \* l->flags
    queue,      \* l->pkt_queue: the sources of its delayed packets
    numGames,   \* block->num_games
    now,        \* time(NULL)
    hung        \* the block's thread waits for a lock that it holds itself

clientVars == <<conn, cur, cid, joined, bursting, pending>>
listVars == <<st, pos, lid, numGames>>
roomVars == <<slot, num, leader, flags, queue>>
vars == <<clientVars, listVars, roomVars, now, hung>>

TypePlayers ==
    /\ conn \in [Clients -> BOOLEAN]
    /\ cur \in [Clients -> LobbyRefs \cup {NoLobby}]
    /\ cid \in [Clients -> Slots]
    /\ joined \in [Clients -> Nat]
    /\ bursting \in [Clients -> BOOLEAN]
    /\ pending \in [Clients -> GameRefs \cup {NoLobby}]
TypeList ==
    /\ st \in [LobbyRefs -> {"free", "pending", "listed"}]
    /\ pos \in [LobbyRefs -> Nat]
    /\ lid \in [GameRefs -> Nat]
    /\ numGames \in Nat
TypeRooms ==
    /\ slot \in [LobbyRefs -> [Slots -> Clients \cup {NoClient}]]
    /\ num \in [LobbyRefs -> Nat]
    /\ leader \in [LobbyRefs -> Slots]
    /\ flags \in [LobbyRefs -> SUBSET LobbyFlags]
    /\ queue \in [LobbyRefs -> SUBSET Clients]
TypeOK == TypePlayers /\ TypeList /\ TypeRooms /\ now \in Nat /\ hung \in BOOLEAN

Empty == [i \in Slots |-> NoClient]
Listed == {l \in LobbyRefs : st[l] = "listed"}
Games == {l \in GameRefs : st[l] = "listed"}
InGame(c) == cur[c] \in GameRefs

Init ==
    /\ conn = [c \in Clients |-> FALSE]
    /\ cur = [c \in Clients |-> NoLobby]
    /\ cid = [c \in Clients |-> 0]
    /\ joined = [c \in Clients |-> 0]
    /\ bursting = [c \in Clients |-> FALSE]
    /\ pending = [c \in Clients |-> NoLobby]
    /\ st = [l \in LobbyRefs |-> IF l \in DefaultLobbies THEN "listed" ELSE "free"]
    /\ pos = [l \in LobbyRefs |-> IF l \in DefaultLobbies THEN LobbyOrder[l] ELSE 0]
    /\ lid = [l \in GameRefs |-> 0]
    /\ slot = [l \in LobbyRefs |-> Empty]
    /\ num = [l \in LobbyRefs |-> 0]
    /\ leader = [l \in LobbyRefs |-> 0]
    /\ flags = [l \in LobbyRefs |-> {}]
    /\ queue = [l \in LobbyRefs |-> {}]
    /\ numGames = 0
    /\ now = 0
    /\ hung = FALSE

-----------------------------------------------------------------------------
(* Places and leaders.                                                      *)
(* A definition marked "Fault:" is no part of the model.  It is the mistake   *)
(* that the definition after it must not make, and a property has to notice. *)

Cap(l) == IF l \in GameRefs THEN GameMax ELSE LobbyMax
Free(l) == {i \in Slots : i < Cap(l) /\ slot[l][i] = NoClient}
Members(l) == {c \in Clients : cur[c] = l}

\* Fault: takes the count of players for the first free place.
PlaceByCount(l) == num[l]
\* The place lobby_add_client_locked gives: place 1 first in a DC or PC game, else
\* the lowest free one.
Place(l) ==
    IF l \in GameRefs /\ SlotOneFirst /\ slot[l][1] = NoClient
    THEN 1
    ELSE CHOOSE i \in Free(l) : \A j \in Free(l) : i <= j

\* lobby_elect_leader_locked: of those who joined before the current second, other
\* than the old leader, the one who has been there longest; place 0 when there is none.
Candidates(l) ==
    {i \in Slots : /\ i < Cap(l) /\ i # leader[l] /\ slot[l][i] # NoClient
                   /\ joined[slot[l][i]] < now}
\* Fault: the newest of them, not the oldest.
ElectedNewest(l) ==
    LET since(i) == joined[slot[l][i]] IN
    CHOOSE i \in Candidates(l) : \A j \in Candidates(l) :
        since(i) > since(j) \/ (since(i) = since(j) /\ i <= j)
Elected(l) ==
    LET since(i) == joined[slot[l][i]] IN
    CHOOSE i \in Candidates(l) : \A j \in Candidates(l) :
        since(i) < since(j) \/ (since(i) = since(j) /\ i <= j)
\* Fault: no election.
LeaderNotElected(l, c) == IF cid[c] # leader[l] THEN leader[l] ELSE 0
LeaderWithout(l, c) ==
    IF cid[c] # leader[l] THEN leader[l]
    ELSE IF Candidates(l) = {} THEN 0
    ELSE Elected(l)
\* Fault: whoever comes in leads.
LeaderIsNewcomer(l, i) == i
LeaderWith(l, i) == IF num[l] = 0 THEN i ELSE leader[l]

-----------------------------------------------------------------------------
(* The list of lobbies.                                                     *)

\* block_get_lobby: the first lobby in the list with this id.
Lookup(l) ==
    /\ l \in Games
    /\ \A m \in Games : lid[m] = lid[l] => pos[l] <= pos[m]

\* Fault: the count of games as the next id.
NextIdCounted == numGames + 1
\* "Select an unused ID": the lowest that no lobby in the list has.
NextId == CHOOSE n \in 1 .. Cardinality(GameRefs) + 1 :
    /\ \A l \in Games : lid[l] # n
    /\ \A k \in 1 .. n - 1 : \E l \in Games : lid[l] = k

-----------------------------------------------------------------------------
(* Delayed packets.  Under RelockBlocks no queue ever holds one: the thread    *)
(* blocks in lobby_enqueue_pkt, before the insertion.                        *)

\* Fault: the flag is cleared after the packets are handled, so that they are delayed again.
DrainedFirst(l, handled) ==
    [m \in LobbyRefs |-> (IF m = l THEN {} ELSE queue[m]) \cup {c \in handled : cur[c] = m}]
\* lobby_handle_done_burst: each packet is handled in the lobby its source is in by
\* now, and delayed once more if that one is bursting.  After the first packet whose
\* handler fails the others are thrown away: those of `handled` were not.
Drained(l, handled) ==
    [m \in LobbyRefs |->
        IF m = l THEN {}
        ELSE IF "BURSTING" \in flags[m] THEN queue[m] \cup {c \in handled : cur[c] = m}
        ELSE queue[m]]

-----------------------------------------------------------------------------
(* Moving between lobbies.                                                  *)

\* Fault: a game is counted when it goes but not when it comes.
RelistUncounted(new, gone, dropped) ==
    /\ st' = [l \in LobbyRefs |-> IF l \in gone \cup dropped THEN "free"
                                  ELSE IF l \in new THEN "listed"
                                  ELSE st[l]]
    /\ pos' = [l \in LobbyRefs |->
                  IF l \in gone THEN 0
                  ELSE LET p == IF l \in new THEN Cardinality(Listed) + 1 ELSE pos[l]
                       IN  p - Cardinality({g \in gone : pos[g] < p})]
    /\ numGames' = numGames - Cardinality(gone)
\* The list of lobbies after the games `new` were put at its end and the games `gone`
\* taken out of it and destroyed; `dropped` are destroyed without having been in it.
Relist(new, gone, dropped) ==
    /\ st' = [l \in LobbyRefs |-> IF l \in gone \cup dropped THEN "free"
                                  ELSE IF l \in new THEN "listed"
                                  ELSE st[l]]
    /\ pos' = [l \in LobbyRefs |->
                  IF l \in gone THEN 0
                  ELSE LET p == IF l \in new THEN Cardinality(Listed) + 1 ELSE pos[l]
                       IN  p - Cardinality({g \in gone : pos[g] < p})]
    /\ numGames' = (numGames + Cardinality(new)) - Cardinality(gone)
Destroy(gone) ==
    /\ Relist({}, gone, {})
    /\ lid' = [l \in GameRefs |-> IF l \in gone THEN 0 ELSE lid[l]]

\* Faults: a game goes with its last player but one, or never.
EmptiedEarly(l) == IF l \in GameRefs /\ num[l] <= 2 THEN {l} ELSE {}
EmptiedNever(l) == {}
Emptied(l) == IF l \in GameRefs /\ num[l] = 1 THEN {l} ELSE {}

\* lobby_add_client_locked by itself, for a client that is in no lobby.
Enter(c, l) ==
    LET i == Place(l) IN
    /\ num[l] < Cap(l)
    /\ slot' = [slot EXCEPT ![l][i] = c]
    /\ num' = [num EXCEPT ![l] = @ + 1]
    /\ leader' = [leader EXCEPT ![l] = LeaderWith(l, i)]
    /\ cur' = [cur EXCEPT ![c] = l]
    /\ cid' = [cid EXCEPT ![c] = i]
    /\ joined' = [joined EXCEPT ![c] = now]

\* The change of lobby proper in lobby_change_lobby: into req first, out of the old
\* lobby second, and into a burst when req is a game.
Move(c, req) ==
    LET old == cur[c]
        i == Place(req)
    IN
    /\ num[req] < Cap(req)
    /\ slot' = [slot EXCEPT ![req][i] = c, ![old][cid[c]] = NoClient]
    /\ num' = [num EXCEPT ![req] = @ + 1, ![old] = @ - 1]
    /\ leader' = [leader EXCEPT ![req] = LeaderWith(req, i), ![old] = LeaderWithout(old, c)]
    /\ cur' = [cur EXCEPT ![c] = req]
    /\ cid' = [cid EXCEPT ![c] = i]
    /\ joined' = [joined EXCEPT ![c] = now]
    /\ bursting' = [bursting EXCEPT ![c] = @ \/ req \in GameRefs]

FlagsAfterMove(req, gone) ==
    [l \in LobbyRefs |-> IF l \in gone THEN {}
                         ELSE IF l = req /\ req \in GameRefs THEN flags[l] \cup {"BURSTING"}
                         ELSE flags[l]]
QueueAfter(q, gone) == [m \in LobbyRefs |-> IF m \in gone THEN {} ELSE q[m]]

\* Fault: only quests close a game.
OpenInBurst(req) == flags[req] \cap {"QUESTING", "QUESTSEL"} = {}
\* The guards of lobby_change_lobby on the state of the lobby.  Those on the player's
\* data (level, class, version, legit mode) may refuse any player: a step not taken.
Open(req) == flags[req] = {}

\* lobby_add_to_any: the requested default lobby when it has room, else the first in
\* the list that the client sees and that has.
Sees(c, l) == c \in V1Clients => l \in V1Lobbies
HasRoom(l) == l \in DefaultLobbies /\ num[l] < Cap(l)
FirstSeen(c, l) ==
    /\ HasRoom(l) /\ Sees(c, l)
    /\ \A m \in DefaultLobbies : HasRoom(m) /\ Sees(c, m) => pos[l] <= pos[m]
AddToAny(c, req) ==
    /\ \E l \in DefaultLobbies :
          /\ IF HasRoom(req) THEN l = req ELSE FirstSeen(c, l)
          /\ Enter(c, l)
    /\ UNCHANGED <<bursting, flags, queue>>

\* lobby_remove_player of a client in a lobby: end its burst, take it out, destroy the
\* game it leaves empty.  The client keeps its own BURSTING flag.
RemovePlayer(c) ==
    LET l == cur[c] IN
    /\ slot' = [slot EXCEPT ![l][cid[c]] = NoClient]
    /\ num' = [num EXCEPT ![l] = @ - 1]
    /\ leader' = [leader EXCEPT ![l] = LeaderWithout(l, c)]
    /\ cur' = [cur EXCEPT ![c] = NoLobby]
    /\ cid' = [cid EXCEPT ![c] = 0]
    /\ flags' = [m \in LobbyRefs |->
                    IF m \in Emptied(l) THEN {}
                    ELSE IF m = l /\ bursting[c] THEN flags[m] \ {"BURSTING"}
                    ELSE flags[m]]
    /\ IF bursting[c]
       THEN \E handled \in SUBSET queue[l] : queue' = QueueAfter(Drained(l, handled), Emptied(l))
       ELSE queue' = QueueAfter(queue, Emptied(l))
    /\ joined' = [joined EXCEPT ![c] = 0]

-----------------------------------------------------------------------------
(* What the menus of the game allow: lobbies and games are chosen from a       *)
(* lobby, a default lobby is asked for after a game was left, and a game is    *)
(* left once it is loaded or while it loads.                                 *)

Running(c) == conn[c] /\ ~hung
AtMenu(c) == Running(c) /\ (AnyOrder \/ cur[c] \in DefaultLobbies)

(* Actions: one for each handler.                                            *)

\* client_create_connection
Connect(c) ==
    /\ ~hung /\ ~conn[c]
    /\ conn' = [conn EXCEPT ![c] = TRUE]
    /\ UNCHANGED <<cur, cid, joined, bursting, pending, listVars, roomVars, now, hung>>

\* dc_process_char for a client in no lobby
CharData(c) ==
    /\ Running(c) /\ cur[c] = NoLobby
    /\ AddToAny(c, NoLobby)
    /\ UNCHANGED <<conn, pending, listVars, now, hung>>

\* dc_process_char with the data sent on leaving a game
LeaveGame(c) ==
    /\ Running(c)
    /\ IF AnyOrder THEN cur[c] # NoLobby ELSE InGame(c) /\ ~bursting[c]
    /\ RemovePlayer(c)
    /\ Destroy(Emptied(cur[c]))
    /\ UNCHANGED <<conn, bursting, pending, now, hung>>

\* process_change_lobby for a client in a lobby.  It holds the list's lock for reading
\* while lobby_change_lobby takes it for writing to destroy an emptied game.
ChangeLobby(c, req) ==
    LET gone == Emptied(cur[c]) IN
    /\ AtMenu(c) /\ cur[c] # NoLobby /\ cur[c] # req
    /\ req \in DefaultLobbies /\ Open(req)
    /\ Move(c, req)
    /\ IF RelockBlocks /\ gone # {}
       THEN /\ hung' = TRUE
            /\ UNCHANGED <<listVars, flags, queue>>
       ELSE /\ Destroy(gone)
            /\ flags' = FlagsAfterMove(req, gone)
            /\ queue' = QueueAfter(queue, gone)
            /\ UNCHANGED hung
    /\ UNCHANGED <<conn, pending, now>>

\* process_change_lobby for a client that left a game
EnterLobby(c, req) ==
    /\ Running(c) /\ cur[c] = NoLobby
    /\ req \in DefaultLobbies
    /\ AddToAny(c, req)
    /\ UNCHANGED <<conn, pending, listVars, now, hung>>

\* process_menu, MENU_ID_GAME: join_game of a listed game
JoinGame(c, req) ==
    LET gone == Emptied(cur[c]) IN
    /\ AtMenu(c) /\ cur[c] # NoLobby /\ cur[c] # req
    /\ Lookup(req) /\ Open(req)
    /\ Move(c, req)
    /\ Destroy(gone)
    /\ flags' = FlagsAfterMove(req, gone)
    /\ queue' = QueueAfter(queue, gone)
    /\ UNCHANGED <<conn, pending, now, hung>>

\* process_menu, MENU_ID_GAME, with the game the client is in: lobby_change_lobby lets
\* it in again, which closes the game for a burst and moves nobody.
RejoinGame(c) ==
    LET l == cur[c] IN
    /\ AnyOrder /\ Running(c) /\ InGame(c)
    /\ Lookup(l) /\ Open(l)
    /\ flags' = [flags EXCEPT ![l] = @ \cup {"BURSTING"}]
    /\ bursting' = [bursting EXCEPT ![c] = TRUE]
    /\ UNCHANGED <<conn, cur, cid, joined, pending, listVars, slot, num, leader, queue, now, hung>>

\* lobby_create_game and join_game, for a game that is listed at once: any but a plain
\* game of a PC client, which may also be one (battle, challenge, ultimate).
CreateGame(c, l) ==
    LET gone == Emptied(cur[c]) IN
    /\ AtMenu(c) /\ cur[c] # NoLobby
    /\ l \in GameRefs /\ st[l] = "free"
    /\ Move(c, l)
    /\ Relist({l}, gone, {})
    /\ lid' = [m \in GameRefs |-> IF m \in gone THEN 0 ELSE IF m = l THEN NextId ELSE lid[m]]
    /\ flags' = FlagsAfterMove(l, gone)
    /\ queue' = QueueAfter(queue, gone)
    /\ UNCHANGED <<conn, pending, now, hung>>

\* pc_process_game_create of a plain game: it waits in create_lobby for the player to
\* choose its type.  A game that waited there before is forgotten.
CreatePending(c, l) ==
    /\ AtMenu(c) /\ c \in PCClients
    /\ l \in GameRefs /\ st[l] = "free"
    /\ st' = [st EXCEPT ![l] = "pending"]
    /\ lid' = [lid EXCEPT ![l] = NextId]
    /\ pending' = [pending EXCEPT ![c] = l]
    /\ UNCHANGED <<conn, cur, cid, joined, bursting, pos, numGames, roomVars, now, hung>>

\* process_menu, MENU_ID_GAME_TYPE: the pending game is listed and joined, or, when
\* join_game refuses its creator, listed and destroyed again.
GameType(c) ==
    LET l == pending[c]
        gone == Emptied(cur[c])
    IN
    /\ AtMenu(c) /\ cur[c] # NoLobby /\ l # NoLobby
    /\ pending' = [pending EXCEPT ![c] = NoLobby]
    /\ Move(c, l)
    /\ Relist({l}, gone, {})
    /\ lid' = [m \in GameRefs |-> IF m \in gone THEN 0 ELSE lid[m]]
    /\ flags' = FlagsAfterMove(l, gone)
    /\ queue' = QueueAfter(queue, gone)
    /\ UNCHANGED <<conn, now, hung>>
GameTypeRefused(c) ==
    LET l == pending[c] IN
    /\ AtMenu(c) /\ l # NoLobby
    /\ pending' = [pending EXCEPT ![c] = NoLobby]
    /\ Relist({}, {}, {l})
    /\ lid' = [lid EXCEPT ![l] = 0]
    /\ UNCHANGED <<conn, cur, cid, joined, bursting, roomVars, now, hung>>

\* join_game for a client in no lobby puts it in a default lobby and reports success, so
\* that a game it created stays listed with nobody in it.
JoinNowhere(c) ==
    /\ AnyOrder /\ Running(c) /\ cur[c] = NoLobby
    /\ AddToAny(c, NoLobby)
    /\ \/ /\ \E req \in Games : Lookup(req)
          /\ UNCHANGED <<listVars, pending>>
       \/ \E l \in GameRefs :
          /\ st[l] = "free"
          /\ Relist({l}, {}, {})
          /\ lid' = [lid EXCEPT ![l] = NextId]
          /\ UNCHANGED pending
       \/ /\ pending[c] # NoLobby
          /\ Relist({pending[c]}, {}, {})
          /\ pending' = [pending EXCEPT ![c] = NoLobby]
          /\ UNCHANGED lid
    /\ UNCHANGED <<conn, now, hung>>

\* dc_process_done_burst
DoneBurst(c) ==
    LET l == cur[c] IN
    /\ Running(c) /\ InGame(c) /\ (AnyOrder \/ bursting[c])
    /\ flags' = [flags EXCEPT ![l] = @ \ {"BURSTING"}]
    /\ bursting' = [bursting EXCEPT ![c] = FALSE]
    /\ \E handled \in SUBSET queue[l] : queue' = Drained(l, handled)
    /\ UNCHANGED <<conn, cur, cid, joined, pending, listVars, slot, num, leader, now, hung>>

\* subcmd_handle_bcast, subcmd_handle_one: a packet that a burst delays goes through
\* lobby_enqueue_pkt, which locks the lobby that the handler has locked.  (Outside a
\* burst the packet is relayed and nothing kept.)
Delay(c) ==
    LET l == cur[c] IN
    /\ Running(c) /\ l # NoLobby
    /\ "BURSTING" \in flags[l]
    /\ IF RelockBlocks
       THEN hung' = TRUE /\ UNCHANGED queue
       ELSE /\ queue' = [queue EXCEPT ![l] = @ \cup {c}]
            /\ UNCHANGED hung
    /\ UNCHANGED <<clientVars, listVars, slot, num, leader, flags, now>>

\* dc_process_pkt, QUEST_LIST and QUEST_END_LIST; process_menu, MENU_ID_QUEST
AtQuests(c) == Running(c) /\ cur[c] # NoLobby /\ (AnyOrder \/ (InGame(c) /\ ~bursting[c]))
SetFlags(l, f) ==
    /\ flags' = [flags EXCEPT ![l] = f]
    /\ UNCHANGED <<clientVars, listVars, slot, num, leader, queue, now, hung>>
QuestList(c) == AtQuests(c) /\ SetFlags(cur[c], flags[cur[c]] \cup {"QUESTSEL"})
QuestEndList(c) == AtQuests(c) /\ SetFlags(cur[c], flags[cur[c]] \ {"QUESTSEL"})
QuestStart(c) ==
    /\ AtQuests(c) /\ "BURSTING" \notin flags[cur[c]]
    /\ SetFlags(cur[c], flags[cur[c]] \cup {"QUESTING"})

\* block_thd's cleanup: lobby_remove_player and client_destroy_connection, which also
\* destroys a game that was never listed.
Disconnect(c) ==
    LET gone == IF cur[c] = NoLobby THEN {} ELSE Emptied(cur[c])
        dropped == {pending[c]} \ {NoLobby}
    IN
    /\ Running(c)
    /\ conn' = [conn EXCEPT ![c] = FALSE]
    /\ IF cur[c] = NoLobby
       THEN UNCHANGED <<cur, cid, joined, roomVars>>
       ELSE RemovePlayer(c)
    /\ Relist({}, gone, dropped)
    /\ lid' = [l \in GameRefs |-> IF l \in gone \cup dropped THEN 0 ELSE lid[l]]
    /\ pending' = [pending EXCEPT ![c] = NoLobby]
    /\ bursting' = [bursting EXCEPT ![c] = FALSE]
    /\ UNCHANGED <<now, hung>>

Tick == now < MaxTime /\ now' = now + 1 /\ UNCHANGED <<clientVars, listVars, roomVars, hung>>

Next ==
    \/ \E c \in Clients :
        \/ Connect(c) \/ CharData(c) \/ LeaveGame(c)
        \/ \E l \in LobbyRefs : ChangeLobby(c, l) \/ EnterLobby(c, l) \/ JoinGame(c, l)
                                \/ CreateGame(c, l) \/ CreatePending(c, l)
        \/ GameType(c) \/ GameTypeRefused(c) \/ RejoinGame(c) \/ JoinNowhere(c)
        \/ DoneBurst(c) \/ Delay(c)
        \/ QuestList(c) \/ QuestEndList(c) \/ QuestStart(c)
        \/ Disconnect(c)
    \/ Tick

Spec == Init /\ [][Next]_vars

-----------------------------------------------------------------------------
(* Properties.                                                              *)

\* Where a player believes to be (cur_lobby, client_id) and what the lobby has in
\* its table of clients agree, for every order of joins, leaves, changes and
\* disconnects: it is what the "sanity checks" of lobby_remove_client_locked rely on.
Membership ==
    /\ \A c \in Clients : cur[c] # NoLobby =>
          cid[c] < Cap(cur[c]) /\ slot[cur[c]][cid[c]] = c
    /\ \A l \in LobbyRefs : \A i \in Slots : slot[l][i] # NoClient =>
          cur[slot[l][i]] = l /\ cid[slot[l][i]] = i

\* The count a lobby is declared full by is the number of its occupied places.
Occupied(l) == {i \in Slots : slot[l][i] # NoClient}
Counts == \A l \in LobbyRefs : num[l] = Cardinality(Occupied(l)) /\ num[l] <= Cap(l)

\* The block's list and its game count follow every creation and destruction: the list
\* has no holes and no lobby twice, and the count is that of the games in it.
GamesCounted == numGames = Cardinality(Games)
Accounting ==
    /\ GamesCounted
    /\ {pos[l] : l \in Listed} = 1 .. Cardinality(Listed)
    /\ \A l \in LobbyRefs \ Listed : pos[l] = 0

\* No pointer outlives what it points to: a player's lobby is in the list, the game it
\* is creating is allocated, unlisted and nobody else's, and only a connected player
\* has either; a lobby that was freed has no players and no packets.
NoDangling ==
    /\ \A c \in Clients : cur[c] # NoLobby => conn[c] /\ st[cur[c]] = "listed"
    /\ \A c \in Clients : pending[c] # NoLobby => conn[c] /\ st[pending[c]] = "pending"
    /\ \A c, d \in Clients : pending[c] = pending[d] => c = d \/ pending[c] = NoLobby
    /\ \A l \in LobbyRefs : st[l] # "listed" =>
          slot[l] = Empty /\ queue[l] = {} /\ flags[l] = {}

\* A game is closed for bursting exactly as long as one of its players, and only one,
\* is loading: neither a disconnect in the middle of it nor a join that was refused
\* leaves the game closed or opens it early.
BurstSound ==
    \A l \in Games :
        LET loading == {c \in Members(l) : bursting[c]} IN
        /\ Cardinality(loading) <= 1
        /\ ("BURSTING" \in flags[l]) = (loading # {})

\* No game without players stays in the list, whoever leaves last and however.
NoEmptyGame == \A l \in Games : Members(l) # {}

\* Delayed packets exist only while somebody bursts: none is left behind at its end.
NoPacketLeftBehind == \A l \in LobbyRefs : queue[l] # {} => "BURSTING" \in flags[l]

\* "Select an unused ID" holds when a game is created, but a PC game is listed later,
\* when its type was chosen: only that step can give two games in the list one id.
UniqueIds == \A l, m \in Games : lid[l] = lid[m] => l = m
SharedIdsWaited ==
    [][UniqueIds => UniqueIds' \/ \E c \in PCClients :
          pending[c] # NoLobby /\ st[pending[c]] = "pending" /\ st'[pending[c]] = "listed"]_vars

\* lobby_handle_done_burst and the handlers it calls never wait for a lock that the
\* thread itself holds.
NeverHangs == ~hung

\* A lobby changes its leader only when the leader leaves it, or when its first player
\* enters; a player who was leading keeps leading for as long as it stays.
LeaderStays ==
    [][\A l \in LobbyRefs : \A c \in Clients :
        /\ slot[l][leader[l]] = c
        /\ slot'[l][leader[l]] = c
        => leader'[l] = leader[l]]_vars

\* When the leader of a game leaves, the game passes to the player who has been in it
\* longest, unless everybody left came in this very second.
LeaderPasses ==
    [][\A l \in Games :
        LET old == slot[l][leader[l]]
            left == {c \in Clients : cur[c] = l /\ cur'[c] = l}
            earlier == {c \in left : joined[c] < now}
        IN
        (old # NoClient /\ cur'[old] # l /\ earlier # {}) =>
            /\ slot'[l][leader'[l]] \in earlier
            /\ \A c \in left : joined[slot'[l][leader'[l]]] <= joined[c]]_vars

\* Lobby implements Rooms.
Shut == {l \in LobbyRefs : flags[l] # {}}
R == INSTANCE Rooms WITH AllRooms <- LobbyRefs, Nowhere <- NoLobby, Capacity <- Cap,
                         where <- cur, shut <- Shut
ImplementsRooms == R!Spec
=============================================================================
