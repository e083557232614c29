--------------------------------- MODULE Locks ---------------------------------
(***************************************************************************)
(* The locks of a ship (ship_server/src): which are taken while which are   *)
(* held, by the threads of the blocks and by the ship's own thread.         *)
(*                                                                          *)
(* Every function gives back what it took, the last first, so what a        *)
(* thread holds is a stack, and what it may take next follows from it.      *)
(* That a loop goes through clients or lobbies in the order of a list, or   *)
(* stops at the one it looks for, is left open: any that is not held may be *)
(* next.  A client's mutex is recursive (clients.c): taking it again does   *)
(* nothing, and is left out; so is reading again what is being read.  The   *)
(* locks of bans and limits are left out too: nothing is taken under them.  *)
(* process_change_lobby may write to the list of lobbies it reads; only a   *)
(* client that does not follow the menus gets there (see Lobby), and that   *)
(* is left out here.                                                        *)
(***************************************************************************)
EXTENDS Naturals, Sequences

CONSTANTS
    Blocks, Clients, Lobbies,
    Ship,           \* the thread that serves the shipgate
    HomeOf,         \* the block of a client
    BlockOf,        \* the block of a lobby or game
    WritersFirst    \* whether a writer who waits keeps readers out: by default not with glibc

Threads == Blocks \cup {Ship}

ASSUME LocksAssumption ==
    /\ Ship \notin Blocks /\ WritersFirst \in BOOLEAN
    /\ HomeOf \in [Clients -> Blocks] /\ BlockOf \in [Lobbies -> Blocks]

VARIABLES
    held,   \* what a thread holds, the last taken at the end
    wait    \* what it waits for

vars == <<held, wait>>

Locks == ({"clients", "lobbies"} \X Blocks) \cup ({"client"} \X Clients)
         \cup ({"lobby"} \X Lobbies) \cup ({"quests"} \X {Ship})
Read(kind, x) == <<"read", <<kind, x>>>>
Write(kind, x) == <<"write", <<kind, x>>>>      \* also for a mutex
Holds == {"read", "write"} \X Locks
None == <<"none", <<"none", Ship>>>>

Last(s) == s[Len(s)]
In(s, h) == \E i \in DOMAIN s : s[i] = h
Has(t, h) == In(held[t], h)

TypeOK ==
    /\ held \in [Threads -> Seq(Holds)] /\ wait \in [Threads -> Holds \cup {None}]
    /\ \A t \in Threads : ~ Has(t, wait[t])

-----------------------------------------------------------------------------
(* What is taken under what. *)

ClientsOf(b) == {Write("client", c) : c \in {x \in Clients : HomeOf[x] = b}}
LobbiesOf(b) == {Write("lobby", l) : l \in {x \in Lobbies : BlockOf[x] = b}}

\* A block's thread looks for silent clients and serves clients with the list of its
\* clients locked for reading, and locks it for writing to add one and to clean up.
BlockThread(b) == {Read("clients", b), Write("clients", b)}
\* The ship's thread hands to a client what comes from the shipgate, and changes the event.
ShipThread == {Read(kind, b) : kind \in {"clients", "lobbies"}, b \in Blocks}

\* Whoever goes through a list of clients locks one: the block's own thread to serve
\* it, another to hand something to it or to see whether it is the one looked for.
\* Searching for a choice and banning lock none, which is among the possibilities.
UnderClients(b) == ClientsOf(b)

\* Cleaning up takes a player out of its lobby.
CleaningUp(b) == LobbiesOf(b)

\* The handler of a packet: its client's lobby, or others there (joining); the list of
\* lobbies to add a game or to show it; the quests; the clients of the lobby; the
\* lists of all blocks, for a search, mail, a kick, numbers, or an event.
Serving(b) ==
    LobbiesOf(b) \cup ClientsOf(b)
    \cup {Write("lobbies", b), Read("quests", Ship), Write("quests", Ship)}
    \cup {Read(kind, x) : kind \in {"clients", "lobbies"}, x \in Blocks}

\* Fault: what is handed to a client is told to its lobby as well.
DeliveringToLobby(t, c) == LobbiesOf(HomeOf[c])
\* Nothing more is taken under the mutex of a client who was found.
Delivering(t, c) == {}

UnderClient(t, s, c) == IF t \in Blocks /\ Len(s) = 2 /\ s[1] = Read("clients", t)
                        THEN Serving(t) ELSE Delivering(t, c)

\* Somebody else's lobby is only ever told of an event.  In one's own, packets are
\* sent to its clients, a client goes on to another lobby, and an empty game goes,
\* which is not done while the list is being read.
UnderLobby(t, s, b) ==
    IF b # t THEN ClientsOf(b)
    ELSE ClientsOf(t) \cup LobbiesOf(t)
         \cup (IF In(s, Read("lobbies", t)) THEN {} ELSE {Write("lobbies", t)})

\* Sending a quest to the clients of a game.
UnderQuests(t) == IF t \in Blocks THEN LobbiesOf(t) \cup ClientsOf(t) ELSE {}

Takes(t, s) ==
    IF s = <<>> THEN IF t = Ship THEN ShipThread ELSE BlockThread(t)
    ELSE LET mode == Last(s)[1]  kind == Last(s)[2][1]  x == Last(s)[2][2] IN
         CASE kind = "clients" /\ mode = "read"  -> UnderClients(x)
           [] kind = "clients" /\ mode = "write" -> CleaningUp(x)
           [] kind = "client"                    -> UnderClient(t, s, x)
           [] kind = "lobby"                     -> UnderLobby(t, s, BlockOf[x])
           [] kind = "lobbies" /\ mode = "read"  -> LobbiesOf(x)
           [] kind = "quests" /\ mode = "read"   -> UnderQuests(t)
           [] OTHER                              -> {}

-----------------------------------------------------------------------------
(* Locking. *)

Init == held = [t \in Threads |-> <<>>] /\ wait = [t \in Threads |-> None]

\* Those whom a thread that wants h has to wait for.
Blockers(h) ==
    {u \in Threads : \/ Has(u, <<"write", h[2]>>)
                     \/ h[1] = "write" /\ Has(u, <<"read", h[2]>>)
                     \/ h[1] = "read" /\ WritersFirst /\ wait[u] = <<"write", h[2]>>}

Lock(t, h) ==
    /\ wait[t] = None /\ h \in Takes(t, held[t]) /\ ~ Has(t, h)
    /\ IF Blockers(h) = {}
       THEN held' = [held EXCEPT ![t] = Append(@, h)] /\ UNCHANGED wait
       ELSE wait' = [wait EXCEPT ![t] = h] /\ UNCHANGED held

\* Fault: it goes on waiting.
ResumeWaiting(t) ==
    /\ wait[t] # None /\ Blockers(wait[t]) = {}
    /\ held' = [held EXCEPT ![t] = Append(@, wait[t])]
    /\ UNCHANGED wait
Resume(t) ==
    /\ wait[t] # None /\ Blockers(wait[t]) = {}
    /\ held' = [held EXCEPT ![t] = Append(@, wait[t])]
    /\ wait' = [wait EXCEPT ![t] = None]

Unlock(t) ==
    /\ wait[t] = None /\ held[t] # <<>>
    /\ held' = [held EXCEPT ![t] = SubSeq(@, 1, Len(@) - 1)]
    /\ UNCHANGED wait

Next == \E t \in Threads : (\E h \in Takes(t, held[t]) : Lock(t, h)) \/ Resume(t) \/ Unlock(t)

Spec == Init /\ [][Next]_vars

-----------------------------------------------------------------------------
(* Properties. *)

Knot(K) == K # {} /\ \A t \in K : wait[t] # None /\ Blockers(wait[t]) \cap K # {}

\* A block's thread that holds the mutex of the client it serves and wants that of one
\* it has found in a list.
Searching(t) == t \in Blocks /\ wait[t][2][1] = "client" /\ Len(held[t]) > 2
                /\ Last(held[t])[2][1] = "clients"

\* A thread that tells a lobby it has found in a list of another block.
ChangingEvent(t) == \E b \in Blocks \ {t} : Has(t, Read("lobbies", b))

\* Threads wait for each other only if one of them changes the event of the lobbies, or
\* two of them serve players who look for somebody (a search, mail, a kick).
KnotsAreVisits ==
    \A K \in SUBSET Threads : Knot(K) =>
        \/ \E t \in K : ChangingEvent(t)
        \/ \E t, u \in K : t # u /\ Searching(t) /\ Searching(u)

\* Nobody waits for ever: "Go through all the blocks... and set the event code on each
\* default lobby."
NoKnot == \A K \in SUBSET Threads : ~ Knot(K)
===============================================================================
