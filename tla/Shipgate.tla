------------------------------- MODULE Shipgate -------------------------------
(***************************************************************************)
(* The link between ships and the shipgate (ship_server/src/shipgate.c and *)
(* ship.c; shipgate/src/ship.c and shipgate.c).  A ship has one thread     *)
(* that owns the link and one thread per block that sends over it; the     *)
(* shipgate has one thread.  The ship keeps a directory of the other       *)
(* ships, the shipgate a table of who is online where.  Both are built     *)
(* from messages, and rebuilt after a lost connection.                     *)
(*                                                                         *)
(* A ship opens a connection only when the shipgate has seen the end of    *)
(* the one before: run_server reads every ready socket, and destroys the   *)
(* dead, before it accepts.  An append to sendbuf or to a connection is    *)
(* one step.                                                               *)
(***************************************************************************)
EXTENDS Naturals, Sequences, FiniteSets, FiniteSetsExt

CONSTANTS
    Ships,      \* by key_idx, which is also ship_id
    Players,    \* by guildcard
    LastBlock,  \* a ship's blocks are 1 .. LastBlock
    NoRow,
    MaxUp,      \* bound on the messages that wait for the shipgate
    MaxDown,    \* and on those that wait for a ship
    MaxFaults   \* bound on lost connections, failed attempts and restarts

ASSUME ShipgateAssumption ==
    /\ IsFiniteSet(Ships) /\ NoRow \notin Ships \X Nat
    /\ LastBlock \in Nat \ {0}
    /\ MaxUp \in Nat /\ MaxDown \in Nat /\ MaxFaults \in Nat

Blocks == 1 .. LastBlock

VARIABLES
    \* of a ship:
    sock,       \* sg.sock # -1
    hasKey,     \* sg.has_key
    sendbuf,    \* what waits in sg.sendbuf
    thread,     \* where ship_thd is: see Threads
    block,      \* the block shipgate_send_clients has come to
    entries,    \* and the players it has put into the packet
    directory,  \* s->ships
    sessions,   \* <<player, block>>: in b->clients, character data received
    booted,     \* those of them with CLIENT_FLAG_DISCONNECTED
    \* of the shipgate:
    conn,       \* the connection in ships: none, greeted, or in (it has a name)
    rows,       \* online_clients, by its key: <<ship, block>> or NoRow
    \* between them:
    toGate, toShip,
    cut,        \* the network has dropped the connection
    faults,
    \* what nobody remembers:
    raced       \* players who came or went between the lines of shipgate_send_clients

shipVars == <<sock, hasKey, sendbuf, thread, block, entries, directory, sessions, booted>>
vars == <<shipVars, conn, rows, toGate, toShip, cut, faults, raced>>

Threads == {"select",    \* in ship_thd's loop
            "connect",   \* in shipgate_conn
            "scan",      \* in shipgate_send_clients, with the lock of block held for reading
            "send"}      \* the same, after the lock

ToGateMsg ==
    [type : {"LOGIN6", "COUNT"}]
    \cup [type : {"BLKLOGIN", "BLKLOGOUT"}, player : Players, block : Blocks]
    \cup [type : {"BCLIENTS"}, block : Blocks, players : SUBSET Players]

ToShipMsg ==
    [type : {"WELCOME", "LOGIN6OK"}]
    \cup [type : {"UP", "DOWN", "COUNT"}, ship : Ships]
    \cup [type : {"REFUSED"}, player : Players, block : Blocks]

TypeOK ==
    /\ sock \in [Ships -> BOOLEAN] /\ hasKey \in [Ships -> BOOLEAN]
    /\ sendbuf \in [Ships -> Seq(ToGateMsg)]
    /\ thread \in [Ships -> Threads] /\ block \in [Ships -> Blocks]
    /\ entries \in [Ships -> SUBSET Players]
    /\ directory \in [Ships -> SUBSET Ships]
    /\ sessions \in [Ships -> SUBSET (Players \X Blocks)]
    /\ booted \in [Ships -> SUBSET (Players \X Blocks)]
    /\ conn \in [Ships -> {"none", "greeted", "in"}]
    /\ rows \in [Players -> (Ships \X Blocks) \cup {NoRow}]
    /\ toGate \in [Ships -> Seq(ToGateMsg)]
    /\ toShip \in [Ships -> Seq(ToShipMsg)]
    /\ cut \in [Ships -> BOOLEAN] /\ faults \in Nat
    /\ raced \in [Ships -> SUBSET Players]

\* ship_server_start connects before it starts the ship's thread.
Init ==
    /\ sock = [s \in Ships |-> TRUE] /\ hasKey = [s \in Ships |-> FALSE]
    /\ sendbuf = [s \in Ships |-> <<>>]
    /\ thread = [s \in Ships |-> "select"] /\ block = [s \in Ships |-> 1]
    /\ entries = [s \in Ships |-> {}] /\ directory = [s \in Ships |-> {}]
    /\ sessions = [s \in Ships |-> {}] /\ booted = [s \in Ships |-> {}]
    /\ conn = [s \in Ships |-> "greeted"] /\ rows = [p \in Players |-> NoRow]
    /\ toGate = [s \in Ships |-> <<>>]
    /\ toShip = [s \in Ships |-> <<[type |-> "WELCOME"]>>]
    /\ cut = [s \in Ships |-> FALSE] /\ faults = 0
    /\ raced = [s \in Ships |-> {}]

-----------------------------------------------------------------------------
(* The ship: its messages. *)

\* A definition marked "Fault:" is no part of the model.  It is the mistake that the
\* definition after it must not make, and a property has to notice.

\* Fault: a block thread need not wait for the key.
DirectUnkeyed(s, crypt) == sock[s] /\ sendbuf[s] = <<>>

\* Fault: what waits is overtaken.
DirectAhead(s, crypt) == (crypt => hasKey[s]) /\ sock[s]

\* send_raw sends at once if that is allowed and nothing waits ...
Direct(s, crypt) == (crypt => hasKey[s]) /\ sock[s] /\ sendbuf[s] = <<>>

\* ... and else puts the packet behind what waits.
SendRaw(s, msgs, crypt) ==
    IF Direct(s, crypt)
    THEN /\ toGate' = [toGate EXCEPT ![s] = @ \o msgs]
         /\ UNCHANGED sendbuf
    ELSE /\ sendbuf' = [sendbuf EXCEPT ![s] = @ \o msgs]
         /\ UNCHANGED toGate

\* send_crypt
Send(s, msgs) == SendRaw(s, msgs, TRUE)

\* A bound on what begins; what ends a session is not held up by it.
Room(s) == Len(sendbuf[s]) + Len(toGate[s]) < MaxUp /\ Len(toShip[s]) < MaxDown

\* Between taking the lock of block b in shipgate_send_clients and sending its packet.
Scanning(s, b) == thread[s] \in {"scan", "send"} /\ block[s] = b

\* dc_process_char, bb_process_char, the first time, with the client's mutex held.  A scan
\* that has the block's lock may reach this client before or after.
Login(s, p, b) ==
    /\ <<p, b>> \notin sessions[s] /\ Room(s)
    /\ sessions' = [sessions EXCEPT ![s] = @ \cup {<<p, b>>}]
    /\ Send(s, <<[type |-> "BLKLOGIN", player |-> p, block |-> b]>>)
    /\ \/ UNCHANGED entries
       \/ /\ thread[s] = "scan" /\ block[s] = b
          /\ entries' = [entries EXCEPT ![s] = @ \cup {p}]
    /\ raced' = [raced EXCEPT ![s] = @ \cup IF Scanning(s, b) THEN {p} ELSE {}]
    /\ UNCHANGED <<sock, hasKey, thread, block, directory, booted, conn, rows, toShip,
                   cut, faults>>

\* client_destroy_connection, called by block_thd with the block's lock held for writing.
Logout(s, p, b) ==
    /\ <<p, b>> \in sessions[s]
    /\ ~(thread[s] = "scan" /\ block[s] = b)
    /\ sessions' = [sessions EXCEPT ![s] = @ \ {<<p, b>>}]
    /\ booted' = [booted EXCEPT ![s] = @ \ {<<p, b>>}]
    /\ Send(s, <<[type |-> "BLKLOGOUT", player |-> p, block |-> b], [type |-> "COUNT"]>>)
    /\ raced' = [raced EXCEPT ![s] = @ \cup IF Scanning(s, b) THEN {p} ELSE {}]
    /\ UNCHANGED <<sock, hasKey, thread, block, entries, directory, conn, rows, toShip,
                   cut, faults>>

\* ship_inc_clients, ship_inc_games, ship_dec_games, and ship_dec_clients for a client that
\* never sent its character.
Count(s) ==
    /\ Room(s)
    /\ Send(s, <<[type |-> "COUNT"]>>)
    /\ UNCHANGED <<sock, hasKey, thread, block, entries, directory, sessions, booted, conn,
                   rows, toShip, cut, faults, raced>>

\* shipgate_send_pkts, called when there is something to write.
SendPkts(s) ==
    /\ thread[s] = "select" /\ sock[s] /\ hasKey[s]
    /\ \E n \in 1 .. Len(sendbuf[s]) :
        /\ toGate' = [toGate EXCEPT ![s] = @ \o SubSeq(sendbuf[s], 1, n)]
        /\ sendbuf' = [sendbuf EXCEPT ![s] = SubSeq(@, n + 1, Len(@))]
    /\ UNCHANGED <<sock, hasKey, thread, block, entries, directory, sessions, booted, conn,
                   rows, toShip, cut, faults, raced>>

-----------------------------------------------------------------------------
(* The ship: its thread. *)

\* shipgate_send_clients takes the lock of block b and goes through the clients.
Scan(s, b) ==
    /\ block' = [block EXCEPT ![s] = b]
    /\ entries' = [entries EXCEPT ![s] = {p \in Players : <<p, b>> \in sessions[s]}]

\* It lets go of the lock ...
Unlock(s) ==
    /\ thread[s] = "scan"
    /\ thread' = [thread EXCEPT ![s] = "send"]
    /\ UNCHANGED <<sock, hasKey, sendbuf, block, entries, directory, sessions, booted, conn,
                   rows, toGate, toShip, cut, faults, raced>>

\* Fault: one block too many.
MorePastLast(s) == block[s] <= LastBlock

\* There are blocks left.
More(s) == block[s] < LastBlock

\* ... and then sends the packet, if anybody is in it.
SendClients(s) ==
    /\ thread[s] = "send"
    /\ IF entries[s] = {} THEN UNCHANGED <<sendbuf, toGate>>
       ELSE Send(s, <<[type |-> "BCLIENTS", block |-> block[s], players |-> entries[s]]>>)
    /\ IF More(s)
       THEN Scan(s, block[s] + 1) /\ thread' = [thread EXCEPT ![s] = "scan"]
       ELSE /\ block' = [block EXCEPT ![s] = 1]
            /\ entries' = [entries EXCEPT ![s] = {}]
            /\ thread' = [thread EXCEPT ![s] = "select"]
    /\ UNCHANGED <<sock, hasKey, directory, sessions, booted, conn, rows, toShip, cut,
                   faults, raced>>

\* The next packet, read by the ship's thread: shipgate_process_pkt.
Got(s) == Head(toShip[s])
Reads(s) ==
    /\ thread[s] = "select" /\ sock[s] /\ toShip[s] # <<>>
    /\ toShip' = [toShip EXCEPT ![s] = Tail(@)]

\* handle_pkt without a key: all but the two login packets is ignored.
Ignore(s) ==
    /\ Reads(s) /\ ~hasKey[s] /\ Got(s).type \notin {"WELCOME", "LOGIN6OK"}
    /\ UNCHANGED <<shipVars, conn, rows, toGate, cut, faults, raced>>

\* handle_login, shipgate_send_ship_info
HandleLogin(s) ==
    /\ Reads(s) /\ ~hasKey[s] /\ Got(s).type = "WELCOME"
    /\ SendRaw(s, <<[type |-> "LOGIN6"]>>, FALSE)
    /\ UNCHANGED <<sock, hasKey, thread, block, entries, directory, sessions, booted, conn,
                   rows, cut, faults, raced>>

\* handle_login_reply
HandleLoginReply(s) ==
    /\ Reads(s) /\ ~hasKey[s] /\ Got(s).type = "LOGIN6OK"
    /\ hasKey' = [hasKey EXCEPT ![s] = TRUE]
    /\ thread' = [thread EXCEPT ![s] = "scan"]
    /\ Scan(s, 1)
    /\ UNCHANGED <<sock, sendbuf, directory, sessions, booted, conn, rows, toGate, cut,
                   faults, raced>>

\* handle_sstatus
HandleStatus(s) ==
    /\ Reads(s) /\ hasKey[s] /\ Got(s).type \in {"UP", "DOWN"}
    /\ directory' = [directory EXCEPT ![s] = IF Got(s).type = "UP" THEN @ \cup {Got(s).ship}
                                             ELSE @ \ {Got(s).ship}]
    /\ UNCHANGED <<sock, hasKey, sendbuf, thread, block, entries, sessions, booted, conn,
                   rows, toGate, cut, faults, raced>>

\* handle_count: an unknown ship is an error, on which ship_thd closes the connection.
HandleCount(s) ==
    /\ Reads(s) /\ hasKey[s] /\ Got(s).type = "COUNT"
    /\ sock' = [sock EXCEPT ![s] = Got(s).ship \in directory[s]]
    /\ UNCHANGED <<hasKey, sendbuf, thread, block, entries, directory, sessions, booted,
                   conn, rows, toGate, cut, faults, raced>>

\* handle_blogin_err
HandleRefused(s) ==
    /\ Reads(s) /\ hasKey[s] /\ Got(s).type = "REFUSED"
    /\ booted' = [booted EXCEPT ![s] = @ \cup ({<<Got(s).player, Got(s).block>>}
                                               \cap sessions[s])]
    /\ UNCHANGED <<sock, hasKey, sendbuf, thread, block, entries, directory, sessions, conn,
                   rows, toGate, cut, faults, raced>>

\* sg_recv returns nothing, and ship_thd closes its end.
LoseGate(s) ==
    /\ thread[s] = "select" /\ sock[s] /\ (cut[s] \/ conn[s] = "none")
    /\ sock' = [sock EXCEPT ![s] = FALSE]
    /\ UNCHANGED <<hasKey, sendbuf, thread, block, entries, directory, sessions, booted,
                   conn, rows, toGate, toShip, cut, faults, raced>>

\* Fault: the directory outlives the connection.
ReconnectStale(s) ==
    /\ thread[s] = "select" /\ ~sock[s]
    /\ hasKey' = [hasKey EXCEPT ![s] = FALSE]
    /\ sendbuf' = [sendbuf EXCEPT ![s] = <<>>]
    /\ thread' = [thread EXCEPT ![s] = "connect"]
    /\ UNCHANGED <<sock, block, entries, directory, sessions, booted, conn, rows, toGate,
                   toShip, cut, faults, raced>>

\* shipgate_reconnect begins: what waited is thrown away, and then the connection is made.
Reconnect(s) ==
    /\ thread[s] = "select" /\ ~sock[s]
    /\ directory' = [directory EXCEPT ![s] = {}]
    /\ hasKey' = [hasKey EXCEPT ![s] = FALSE]
    /\ sendbuf' = [sendbuf EXCEPT ![s] = <<>>]
    /\ thread' = [thread EXCEPT ![s] = "connect"]
    /\ UNCHANGED <<sock, block, entries, sessions, booted, conn, rows, toGate, toShip, cut,
                   faults, raced>>

\* Its end; at the other end create_connection_tls, which sends the greeting.
Connected(s) ==
    /\ thread[s] = "connect" /\ conn[s] = "none"
    /\ thread' = [thread EXCEPT ![s] = "select"]
    /\ sock' = [sock EXCEPT ![s] = TRUE]
    /\ conn' = [conn EXCEPT ![s] = "greeted"]
    /\ toGate' = [toGate EXCEPT ![s] = <<>>]
    /\ toShip' = [toShip EXCEPT ![s] = <<[type |-> "WELCOME"]>>]
    /\ cut' = [cut EXCEPT ![s] = FALSE]
    /\ raced' = [raced EXCEPT ![s] = {}]
    /\ UNCHANGED <<hasKey, sendbuf, block, entries, directory, sessions, booted, rows, faults>>

\* Or it fails, and ship_thd tries again later.
NotConnected(s) ==
    /\ thread[s] = "connect" /\ faults < MaxFaults
    /\ thread' = [thread EXCEPT ![s] = "select"]
    /\ faults' = faults + 1
    /\ UNCHANGED <<sock, hasKey, sendbuf, block, entries, directory, sessions, booted, conn,
                   rows, toGate, toShip, cut, raced>>

-----------------------------------------------------------------------------
(* The shipgate. *)

\* The ships with a connection, and those of them that have logged in.
Connections == {s \in Ships : conn[s] # "none"}
In == {s \in Ships : conn[s] = "in"}

\* Each of the ships in "to" gets the messages.
Tell(to, msgs) == [s \in Ships |-> IF s \in to THEN toShip[s] \o msgs ELSE toShip[s]]

\* The next packet: handle_pkt, process_ship_pkt.  The guard on the length is a bound.
First(s) == Head(toGate[s])
Receives(s) ==
    /\ conn[s] # "none" /\ toGate[s] # <<>>
    /\ \A i \in Connections : Len(toShip[i]) < MaxDown
    /\ toGate' = [toGate EXCEPT ![s] = Tail(@)]

\* Fault: the ship does not hear of those who were there before.
GateLoginUnintroduced(s) ==
    /\ Receives(s) /\ First(s).type = "LOGIN6"
    /\ conn' = [conn EXCEPT ![s] = "in"]
    /\ toShip' = [Tell(Connections, <<[type |-> "UP", ship |-> s]>>) EXCEPT
                    ![s] = toShip[s] \o <<[type |-> "LOGIN6OK"], [type |-> "UP", ship |-> s]>>]
    /\ UNCHANGED <<shipVars, rows, cut, faults, raced>>

\* handle_shipgate_login6t: everyone who is connected hears of the ship, and it of everyone
\* who has logged in, in the order of their connections.
GateLogin(s) ==
    /\ Receives(s) /\ First(s).type = "LOGIN6"
    /\ conn' = [conn EXCEPT ![s] = "in"]
    /\ LET up(i) == [type |-> "UP", ship |-> i] IN
       \E order \in [1 .. Cardinality(In \cup {s}) -> In \cup {s}] :
        /\ \A i \in In \cup {s} : \E k \in DOMAIN order : order[k] = i
        /\ toShip' = [Tell(Connections, <<up(s)>>) EXCEPT
                        ![s] = toShip[s] \o <<[type |-> "LOGIN6OK"]>>
                                         \o [k \in DOMAIN order |-> up(order[k])]]
    /\ UNCHANGED <<shipVars, rows, cut, faults, raced>>

\* handle_count
GateCount(s) ==
    /\ Receives(s) /\ First(s).type = "COUNT"
    /\ toShip' = Tell(Connections, <<[type |-> "COUNT", ship |-> s]>>)
    /\ UNCHANGED <<shipVars, conn, rows, cut, faults, raced>>

\* handle_blocklogin: the key of the table is the player.
GateBlockLogin(s) ==
    LET p == First(s).player
        b == First(s).block IN
    /\ Receives(s) /\ First(s).type = "BLKLOGIN"
    /\ IF rows[p] = NoRow
       THEN rows' = [rows EXCEPT ![p] = <<s, b>>] /\ UNCHANGED toShip
       ELSE /\ toShip' = Tell({s}, <<[type |-> "REFUSED", player |-> p, block |-> b]>>)
            /\ UNCHANGED rows
    /\ UNCHANGED <<shipVars, conn, cut, faults, raced>>

\* The table without the rows of ship s in the blocks bs.
Without(s, bs) == [p \in Players |-> IF rows[p] \in {s} \X bs THEN NoRow ELSE rows[p]]

\* handle_blocklogout: whatever the block.
GateBlockLogout(s) ==
    /\ Receives(s) /\ First(s).type = "BLKLOGOUT"
    /\ rows' = [rows EXCEPT ![First(s).player] = Without(s, Blocks)[First(s).player]]
    /\ UNCHANGED <<shipVars, conn, toShip, cut, faults, raced>>

\* handle_clients12: a player who has a row already is passed over.
GateClients(s) ==
    LET b == First(s).block
        rest == Without(s, {b}) IN
    /\ Receives(s) /\ First(s).type = "BCLIENTS"
    /\ rows' = [p \in Players |-> IF p \in First(s).players /\ rest[p] = NoRow
                                  THEN <<s, b>> ELSE rest[p]]
    /\ UNCHANGED <<shipVars, conn, toShip, cut, faults, raced>>

\* Fault: the players of a lost ship stay online.
DestroyKeepsRows(s) ==
    /\ conn[s] # "none"
    /\ toShip' = IF conn[s] = "in"
                 THEN Tell(Connections \ {s}, <<[type |-> "DOWN", ship |-> s]>>)
                 ELSE toShip
    /\ conn' = [conn EXCEPT ![s] = "none"]
    /\ toGate' = [toGate EXCEPT ![s] = <<>>]
    /\ UNCHANGED <<shipVars, rows, cut, faults, raced>>

\* destroy_connection, for a ship whose connection has ended.
Destroy(s) ==
    /\ conn[s] # "none"
    /\ toShip' = IF conn[s] = "in"
                 THEN Tell(Connections \ {s}, <<[type |-> "DOWN", ship |-> s]>>)
                 ELSE toShip
    /\ rows' = Without(s, Blocks)
    /\ conn' = [conn EXCEPT ![s] = "none"]
    /\ toGate' = [toGate EXCEPT ![s] = <<>>]
    /\ UNCHANGED <<shipVars, cut, faults, raced>>

LoseShip(s) == (cut[s] \/ ~sock[s]) /\ Destroy(s)

\* The ship waits for the answer to a packet that waits for the ship to have its key.  It
\* answers no ping either, and after two minutes run_server gives up on it.
Stuck(s) ==
    /\ thread[s] = "select" /\ sock[s] /\ ~hasKey[s]
    /\ toGate[s] = <<>> /\ toShip[s] = <<>> /\ conn[s] = "greeted"

PingTimeout(s) == Stuck(s) /\ Destroy(s)

\* The shipgate stops and starts again; open_db empties its tables.
Restart ==
    /\ faults < MaxFaults
    /\ faults' = faults + 1
    /\ conn' = [s \in Ships |-> "none"]
    /\ rows' = [p \in Players |-> NoRow]
    /\ toGate' = [s \in Ships |-> <<>>]
    /\ UNCHANGED <<shipVars, toShip, cut, raced>>

\* The network drops a connection.  Either end finds out in its own time; until then it
\* may still read what has arrived.
Cut(s) ==
    /\ faults < MaxFaults /\ conn[s] # "none" /\ ~cut[s]
    /\ faults' = faults + 1
    /\ cut' = [cut EXCEPT ![s] = TRUE]
    /\ UNCHANGED <<shipVars, conn, rows, toGate, toShip, raced>>

ShipThread(s) ==
    \/ SendPkts(s) \/ Unlock(s) \/ SendClients(s)
    \/ Ignore(s) \/ HandleLogin(s) \/ HandleLoginReply(s)
    \/ HandleStatus(s) \/ HandleCount(s) \/ HandleRefused(s)
    \/ LoseGate(s) \/ Reconnect(s) \/ Connected(s)

GateThread(s) ==
    \/ GateLogin(s) \/ GateCount(s)
    \/ GateBlockLogin(s) \/ GateBlockLogout(s) \/ GateClients(s)
    \/ LoseShip(s) \/ PingTimeout(s)

BlockThreads(s) ==
    \/ Count(s)
    \/ \E p \in Players, b \in Blocks : Login(s, p, b) \/ Logout(s, p, b)

Next ==
    \/ \E s \in Ships : ShipThread(s) \/ GateThread(s) \/ BlockThreads(s)
                        \/ NotConnected(s) \/ Cut(s)
    \/ Restart

Spec == Init /\ [][Next]_vars

\* The threads come round to what is ready, and block_thd to the clients that are marked.
\* select hands out every socket in its turn.
Fairness ==
    \A s \in Ships :
        /\ WF_vars(ShipThread(s)) /\ WF_vars(SendPkts(s))
        /\ WF_vars(GateThread(s))
        /\ \A p \in Players, b \in Blocks : WF_vars(<<p, b>> \in booted[s] /\ Logout(s, p, b))

FairSpec == Spec /\ Fairness

-----------------------------------------------------------------------------
(* Properties. *)

\* The shipgate hears from a ship only after its login (process_ship_pkt does not look: it
\* relies on the ship, whose block threads may send at any time, to hold everything back).
LoginFirst ==
    \A s \in Ships : conn[s] = "greeted" /\ toGate[s] # <<>> => First(s).type = "LOGIN6"

\* A count is about a ship the receiver knows: "this shouldn't ever happen" in handle_count
\* does not.  The receiver would drop its own link.
CountsKnown ==
    \A s \in Ships :
        sock[s] /\ hasKey[s] /\ toShip[s] # <<>> /\ Got(s).type = "COUNT"
            => Got(s).ship \in directory[s]

\* What the packets on their way to s say about ship i.
About(s, i) == {k \in DOMAIN toShip[s] : toShip[s][k].type \in {"UP", "DOWN"}
                                         /\ toShip[s][k].ship = i}

\* When s has read what is on its way (handle_sstatus), its directory has exactly the ships
\* that are logged in, whatever came and went while it was connecting or logging in.
DirectoryAgrees ==
    \A s, i \in Ships :
        sock[s] /\ hasKey[s] /\ conn[s] = "in" =>
            ((i \in In) <=> IF About(s, i) = {} THEN i \in directory[s]
                            ELSE toShip[s][Max(About(s, i))].type = "UP")

\* online_clients names only ships that are logged in: destroy_connection, a restart and the
\* packets of one connection never leave a row to the next.
RowsOfShips == \A p \in Players : rows[p] # NoRow => rows[p][1] \in In

\* A block logout is on its way from s, or was thrown away with a connection that ended.
LogoutPending(s, p) ==
    \/ ~sock[s]
    \/ \E k \in DOMAIN toGate[s] : toGate[s][k].type = "BLKLOGOUT" /\ toGate[s][k].player = p
    \/ \E k \in DOMAIN sendbuf[s] : sendbuf[s][k].type = "BLKLOGOUT" /\ sendbuf[s][k].player = p

\* A row of online_clients is of a player who is there, or whose logout is on its way,
\* through reconnections, full lists and refused logins - save for those who came or went
\* while shipgate_send_clients sent the list.
NoGhostRow ==
    \A p \in Players : rows[p] # NoRow =>
        LET s == rows[p][1]
        IN  \/ <<p, rows[p][2]>> \in sessions[s]
            \/ LogoutPending(s, p) \/ p \in raced[s]

\* handle_blocklogin (shipgate/src/ship.c:2134) on a refusal: "most likely its a primary key
\* violation, so assume the user is already logged in".  That user is on some block, or its logout is on
\* its way.
RefusalsJustified ==
    \A s \in Ships :
        conn[s] = "in" /\ toGate[s] # <<>> /\ First(s).type = "BLKLOGIN" =>
            LET p == First(s).player
                row == rows[p]
            IN  row # NoRow => /\ row # <<s, First(s).block>>
                               /\ <<p, row[2]>> \in sessions[row[1]] \/ LogoutPending(row[1], p)

\* ship.c:167, "If the shipgate isn't there, attempt to reconnect", and shipgate.c:974,
\* "Send our info to the shipgate so it can have things set up right": a ship that has lost
\* its link is logged in again, once the network and the shipgate are there to stay.
ComesBack == \A s \in Ships : ~sock[s] ~> conn[s] = "in"
=============================================================================
