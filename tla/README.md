# Sylverant: a verification project

Sylverant is a set of servers for the Phantasy Star Online games of the
Dreamcast, PC, GameCube and Blue Burst: a *ship server* on which players meet
and play, a *shipgate* that connects ships, a *login server*, a *patch server*,
and a library they share. There are no tests in the repository and its README
is empty, so the comments in the code are what this project holds the code to.

The project models the parts of the program that keep state and in which the
order of events matters. TLC checks each model on small instances, and TLAPS
proves the most important properties for every instance.

## 1. The system

| Part | State it keeps | Operations | Talks to |
| --- | --- | --- | --- |
| ship (`ship_server/src/ship.c`) | clients that chose no block yet, counts of clients and games, quests, limits | accept, menus, shutdown; counters changed by all threads | blocks (threads), shipgate |
| block (`block.c`) | its clients, its lobbies and games, `num_games` | one thread: accept, read and handle packets, write, clean up dead connections | lobbies (calls), other blocks' clients (search, mail), shipgate |
| lobbies and games (`lobby.c`) | table of clients, count, leader, flags, queue of delayed packets, Blue Burst items on the floor | create, add, remove, change, elect a leader, delay and replay packets, legit check, destroy | called by the handlers of block and subcommands |
| clients (`clients.c`) | socket, buffers, ciphers, player data, current lobby, game being created | create, read the stream, destroy | block |
| subcommands (`subcmd.c`) | items and levels of Blue Burst players, positions | one handler for each kind of message in a game | lobby |
| chat commands (`commands.c`) | flags and limits of the game a player leads | one handler for each command | lobby, other blocks |
| shipgate link (`shipgate.c`) | connection, ciphers, buffers, reconnect time | handshake, messages both ways, reconnect | ship, all block threads |
| shipgate (`shipgate/src`) | ships that are connected, who is on them, database of accounts and characters | one thread: handshake, forwarding, storing | ships |
| login server (`login_server/src`) | connections, progress of each login | one thread: logins of five versions, redirect to a ship | clients, database |
| patch server (`patch_server/src`) | connections, files to check and to send | one thread: compare and send files | clients |
| libsylverant | none but caches and reference counts | ciphers, compression, configuration, database, checksums | all |

What is hard about it, in order of weight:

1. *The order of legal packets.* Handlers are short and run one at a time
   within a block, but what each may assume depends on every one before it: a
   player loads, leaves, disconnects, sits at a menu with a half created game, or
   leaves packets in the queue of a lobby that waits for somebody else.
2. *Counters instead of sets.* `num_clients`, `num_games`, `legit_check_done`,
   `legit_check_passed` are kept by hand and decide what happens.
3. *Characters on their way.* A Blue Burst character is in the database, with a
   block, or in a packet between; connections end and links are lost at any time.
4. *Locks.* A list's read-write lock, one mutex for each lobby (default kind), one for
   each client (recursive), and threads of different blocks that visit each
   other's clients.
5. *Two copies of one thing.* The ship and the client both keep an inventory and
   name items by an id that each gives by its own rules.
6. *The shipgate link* fails and comes back while the blocks go on, and several
   threads write to it.

What makes each correct: a player is in one place and a lobby's table, count and
list agree with it; a game is closed exactly while somebody loads; the lead
passes on to the right player; a legit game has only players who passed; an
item is in one place and an id names one; a character's last change is never
lost; the shipgate's view of a ship is true once the ship is quiet; threads do
not wait for each other in a circle.

## 2. Modules

| Module | Models | Role |
| --- | --- | --- |
| `Rooms` | - | abstract: what a block promises its players |
| `Lobby` | `lobby.c`, handlers of `block.c`, ends of `clients.c` | the lobbies and games of one block; implements `Rooms` |
| `MCLobby` | | constants for TLC |
| `LobbyProofs` | | proofs about `Lobby`: seats, counts, the lead |
| `LobbyMenuProofs` | | proofs about `Lobby`: the order of the list, bursts, ids, the passing of the lead, and that it implements `Rooms` |
| `Legit` | `/legit` in `commands.c`, `block.c`, `lobby.c` | the legit check of one game |
| `MCLegit` | | constants for TLC |
| `LegitProofs` | | proofs about `Legit` |
| `Shipgate` | the link in `ship_server/src/shipgate.c` and `ship.c`; `shipgate/src` | ships, their link to the shipgate, and what it knows of them |
| `MCShipgate` | | constants for TLC |
| `ShipgateProofs` | | proofs about `Shipgate`: logins come first, rows are of ships |
| `ShipgateLinkProofs` | | proofs about `Shipgate`: the directories of the ships, and who is online |
| `Items` | Blue Burst's handlers in `subcmd.c`, `items.c`, the numbering in `block.c`, the floor in `lobby.c` | inventories, banks and the floor of one game |
| `MCItems` | | constants for TLC |
| `ItemsProofs` | | proofs about `Items`: ids, who is thrown out, and how much there is |
| `Locks` | the locking of `block.c`, `lobby.c`, `utils.c`, `admin.c`, `shipgate.c` | what threads hold and wait for |
| `MCLocks` | | constants for TLC |
| `LocksProofs` | | proofs about `Locks` |
| `Characters` | `block.c`, `clients.c`, `shipgate.c`; `shipgate/src/ship.c`; `login_server/src/bbcharacter.c` | a Blue Burst character between database, ships and login server |
| `MCCharacters` | | constants for TLC |
| `CharactersProofs` | | proofs about `Characters` |

A definition marked `Fault:` is no part of a model. It is a mistake the
definition after it could plausibly have made; PROJECT.json ("mutants") says
which property notices it.

### 2.1 Lobby

One step is one handler, because one thread serves all clients of a block
(`block_thd`). The state follows the C structures:

| Variable | Code |
| --- | --- |
| `conn` | the `ship_client_t` is allocated |
| `cur`, `cid`, `joined`, `bursting`, `pending` | `c->cur_lobby`, `client_id`, `join_time`, `CLIENT_FLAG_BURSTING`, `create_lobby` |
| `st`, `pos` | whether a `lobby_t` is free, waits in `create_lobby`, or is in `block->lobbies`, and where |
| `lid` | `l->lobby_id` of a game |
| `slot`, `num`, `leader`, `flags`, `queue` | `l->clients`, `num_clients`, `leader_id`, `flags`, the sources in `pkt_queue` |
| `numGames`, `now` | `block->num_games`, `time(NULL)` |
| `hung` | the thread waits for a lock it holds |

| Action | Code |
| --- | --- |
| `Connect`, `Disconnect` | `client_create_connection`; `block_thd`'s clean-up: `lobby_remove_player`, `client_destroy_connection` |
| `CharData`, `LeaveGame` | `dc_process_char`, for a client in no lobby and on leaving |
| `ChangeLobby`, `EnterLobby` | `process_change_lobby` with and without a current lobby |
| `JoinGame`, `RejoinGame`, `JoinNowhere` | `process_menu` (a game) and `join_game`, from another lobby, in the same game, from no lobby |
| `CreateGame` | the four handlers that create a game which is listed at once |
| `CreatePending`, `GameType`, `GameTypeRefused` | the PC game that waits for its type, and the choice of it |
| `DoneBurst`, `Delay` | `dc_process_done_burst` with the replay of delayed packets; `lobby_enqueue_pkt` under `subcmd_handle_bcast` and `_one` |
| `QuestList`, `QuestEndList`, `QuestStart` | the flags QUESTSEL and QUESTING |

Abstractions. The guards of `lobby_change_lobby` on a player's data (level,
class, version, limits) may refuse anybody at any time: the step is not taken.
The guards on the lobby's state are all there (`Open`, the room). The queue is
a set of sources, because only whose packets they are matters here. `join_time`
is kept at 0 outside lobbies, where nothing reads it. In a game for players
across platforms (`LOBBY_FLAG_GC_ALLOWED`) the leader is elected by
`lobby_elect_leader_cross_locked`; this is not in `Lobby`.

Two constants choose between environments. `AnyOrder = FALSE` is what the
game's own menus send: games and lobbies are chosen from a lobby, a lobby is
asked for after a game was left. `AnyOrder = TRUE` lets a client send any packet in
any state, and the properties that still hold are checked with it.
`RelockBlocks` is what a default mutex does to a thread that owns it: with glibc
it blocks, on FreeBSD the lock returns an error. With TRUE the queue of delayed
packets is never used, and the states before the thread hangs are among those
of FALSE: so the passing runs, with FALSE, cover both, and the run
`lobby_relock`, with TRUE, shows the hang.

### 2.2 Rooms

Players, rooms, a capacity, and doors that shut. `Lobby` implements it with
`where <- cur` and `shut` the lobbies whose flags admit nobody: that no
interleaving of bursts, quests, changes and disconnects lets anybody into a
room which is full or shut, or moves the door of an empty room.

### 2.3 Legit

The legit check of one game. `asked[p]` counts the requests a player has not
answered (its program answers each, in order; it may leave the game first).
`cleared`, `failed` and `disturbed` are history: what the server would have to
remember to know what its two counters mean. `Version` is that of the game's
players, because Episode 3 answers are counted and then dropped and Blue Burst
answers have a handler of their own. The election of a leader is any choice
`Lobby` may make, among them an empty place.

### 2.4 Shipgate

Several ships and the shipgate, with a queue of messages in each direction.
Three kinds of threads act: a ship's own thread (`ship_thd`), which reads from
the link and reconnects; the threads of its blocks, which send over the link at
any time; and the one thread of the shipgate.

| Variable | Code |
| --- | --- |
| `sock`, `hasKey`, `sendbuf` | `sg.sock # -1`, `sg.has_key`, the packets in `sg.sendbuf` |
| `thread`, `block`, `entries` | where `ship_thd` is, and how far `shipgate_send_clients` has come |
| `directory` | `s->ships` |
| `sessions`, `booted` | clients in `b->clients` who have sent their character; those of them with `CLIENT_FLAG_DISCONNECTED` |
| `conn` | the shipgate's `ships`: no connection, one that was greeted, one whose ship has a name |
| `rows` | the table `online_clients` by its primary key, the guildcard |
| `toGate`, `toShip`, `cut` | the connection |
| `raced` | history: who came or went while the list of a block was being sent |

| Action | Code |
| --- | --- |
| `Login`, `Logout`, `Count` | `dc_process_char`, `bb_process_char`; `client_destroy_connection`; `ship_inc_clients` and its kin |
| `SendPkts` | `shipgate_send_pkts`, which writes any number of the packets that wait |
| `HandleLoginReply`, `Unlock`, `SendClients` | `handle_login_reply` and `shipgate_send_clients`, cut where the lock of a block is released |
| `Ignore`, `HandleLogin`, `HandleStatus`, `HandleCount`, `HandleRefused` | the ship's `handle_pkt` |
| `LoseGate`, `Reconnect`, `Connected`, `NotConnected` | `ship_thd` and `shipgate_conn` |
| `GateLogin`, `GateCount`, `GateBlockLogin`, `GateBlockLogout`, `GateClients` | `process_ship_pkt` of the shipgate |
| `LoseShip`, `PingTimeout`, `Restart` | `run_server`, `destroy_connection`, `open_db` |
| `Cut` | the network |

Abstractions and assumptions. A packet is one message, put together from the
stream by code that is not in this module. Queries to the database succeed,
except that an insert fails when the key is there. Forwarded packets, mail, friends,
characters, the values of counts and menu codes are left out. A ship does not crash: what
a crash does to the shipgate is `Cut`. Appending to the send buffer or writing to
the connection is one step, although no lock makes it one. A ship gets its new
connection only when the shipgate has seen the end of the old one. The last two
are hazards of their own in PROJECT.json.

### 2.5 Items

The items of one Blue Burst game. Every handler runs with the game's mutex, so
it is one step.

| Variable | Code |
| --- | --- |
| `slot`, `visits`, `joins` | `c->client_id`; history: how often a slot was given; a bound |
| `inv`, `purse`, `bank`, `bankPurse` | `bb_pl->inv`, `character.meseta`, `bank`, `bank.meseta` |
| `mirror` | the kinds in `c->items`, the copy `bb_process_char` makes |
| `asks` | what the client is at: play, the bank, or between the two packets of a split (`drop_item`, `drop_amt`) |
| `floor`, `high`, `made` | `l->item_queue`, `l->highest_item`, `l->item_id` |
| `kicked` | clients whose handler has returned an error |

| Action | Code |
| --- | --- |
| `Join`, `Leave` | `join_game` with the numbering of an inventory; `bb_process_char` or the end of the connection |
| `DropItem`, `DropPos`, `DropStack`, `PickUp`, `SortInv` | `handle_bb_drop_item`, `_drop_pos`, `_drop_stack`, `_pick_up`, `_sort_inv` |
| `OpenBank`, `CloseBank`, `Deposit`, `Withdraw`, `DepositMeseta`, `WithdrawMeseta` | `handle_bb_bank`, the cases of `handle_bb_bank_action` |
| `MakeItem` | `handle_makeitem`, and what a monster's drop would do |

An item is its id, its kind and its number; ids are kept by where their bits come from
(slot and number, the game's own, place in a bank). Clients are those of the game:
they ask for what they see, merge stacks before they ask whether there is room, and
open the bank before they use it. Equipment, which goes with an item's flags, is left
out, and so are the other versions, whose items the ship does not keep. `Worth`, `Units`,
`Goods` and `Money` count what there is; they belong to the properties.

### 2.6 Locks

Every thread of a ship with the locks it holds, as a stack, because each function of the
code gives back what it took in the reverse order. `Takes(t, s)` is what a thread with
the stack `s` may take next, read off the callers of every `pthread_mutex_lock` and
`pthread_rwlock_*`; it does not say in which order a loop visits clients or lobbies, or
when it stops, so it allows more than the code does. `WritersFirst` chooses between the
two kinds of read-write locks POSIX allows: readers pass waiting writers, as with glibc's
default, or do not. What two threads that follow the rules may do to data is not in
this module, nor a thread that locks what it holds (for that see `RelockBlocks` in `Lobby`).

### 2.7 Characters

Where the last change of a Blue Burst character is. A character is the number of its last
change, 0 the zeros a connection starts with.

| Variable | Code |
| --- | --- |
| `row` | the player's row of `character_data`: whether it can be read, whether it is packed, and what it holds |
| `clients` | `b->clients` of each block, in order, with `bb_pl` and whether `handle_bbopts` has moved the client on |
| `up`, `down`, `linked` | packets between a ship and the shipgate, with its send buffer; whether there is a link |
| `clock`, `upset` | history: the last change made; whether something happened that may cost it |

| Action | Code |
| --- | --- |
| `Login`, `Leave`, `Play` | `bb_process_login`; `client_destroy_connection`; any handler that changes `bb_pl` |
| `HandleCreq`, `HandleOpts` | `handle_creq`, `handle_bbopts` of the ship |
| `GateCreq`, `GateOpts`, `GateCdata` | `handle_creq`, `handle_bbopt_req`, `handle_cdata` of the shipgate, with queries that fail |
| `Create`, `Dress` | `handle_update_char` of the login server |
| `Cut`, `Reconnect` | the network; `shipgate_conn` |

`upset` is where the module says which events cost a player a change, and nothing else
does: it logs in while it is on a block already, while a save of it is on its way from
another ship, while the ship owes it an answer, or without a link; its connection ends before the
character has come or without a link; a link is lost with a save, a request or an answer on
it; a query fails; the login server changes the row while a block has the character or
after it was saved packed. Left out are what the options hold, the slots (another slot
is another character), refused sessions (`Shipgate` has them), and the two tables of
backups, which other versions use.

## 3. Runs

| Run | Instance | Checks |
| --- | --- | --- |
| `lobby` | 3 clients (PC, two V1), 2 default lobbies (one that V1 sees), 2 games, 2 places each, 2 seconds, menus followed | `TypeOK`, `Membership`, `Counts`, `Accounting`, `NoDangling`, `BurstSound`, `NoEmptyGame`, `NoPacketLeftBehind`, `LeaderStays`, `LeaderPasses`, `SharedIdsWaited`, `ImplementsRooms` |
| `lobby_any_order` | 3 clients (one on PC), 1 lobby, 1 game, 3 places, 3 seconds, any packet in any state | `Accounting`, `NoPacketLeftBehind`, `LeaderPasses` |
| `lobby_relock` | as `lobby`, mutexes that block | finds `NeverHangs` violated |
| `legit` | 4 players, games of 3, 2 unanswered requests | `TypeOK`, `AllAccountedFor`, `SoundIfUndisturbed`, `FailsForCause`, `UndisturbedEnds` |
| `shipgate` | 2 ships, 1 player, 1 block each, 1 fault | `TypeOK`, `LoginFirst`, `CountsKnown`, `DirectoryAgrees`, `RowsOfShips`, `NoGhostRow` |
| `shipgate_ghost` | the same without faults | finds `RefusalsJustified` violated |
| `shipgate_back` | 1 ship, 1 player, 1 fault, longer queues, fairness | finds `ComesBack` violated |
| `items` | 2 players, one who splits and sorts, one who banks; 2 places in inventory and bank, stacks of 2, 1 meseta, 3 joins | `TypeOK`, `IdsNameItems`, `BankIdsNameItems`, `GoodsKept`, `MoneyKept`, `ThrownOutFor`, `BankKeeps` |
| `locks` | 2 blocks and the ship's thread, 3 clients, 3 lobbies, writers first | `TypeOK`, `KnotsAreVisits` |
| `locks_knot` | the same, readers first | finds `NoKnot` violated |
| `characters` | 2 players, 2 ships of 1 block, 2 logins, 2 changes, 1 lost link, 1 failed query, dressing room, fairness | `TypeOK`, `LatestKept`, `MovedOnLoaded`, `AskedMovesOn`, `RowsGoForward` |
| `characters_erased` | 1 player, 1 ship | finds `NeverErased` violated |

Why the bounds are enough. With two places a lobby is full with one player more
than can be in it, a third client makes the join that is refused, and the
second default lobby is where `lobby_add_to_any` goes next; one game is created
while another exists, so that the list shifts when the first goes. An election
needs two candidates and a leader: `lobby_any_order` has games of three for it,
and three seconds, so that join times can be ordered. Two unanswered requests are
an answer owed to an earlier check, and a fourth player joins a game of three
whose members leave. MaxTime bounds the clock, GameRefs the games, MaxAsked the
requests.

In `shipgate` one fault is a cut of either link, an attempt to connect that fails
or a restart, at any point, also within the handshake that another loss
began (`HandleCount` and `PingTimeout` lose links without counting as faults). The
player can be on both ships at once, and come and go without end, so one is enough
for refusals, rows that are in the way and logouts that arrive late. `MaxUp` stops new
events while a packet is on its way to the shipgate; a logout puts two behind it, and
the list and the login come without regard to it, so that overtaking can occur.
`MaxDown` makes the shipgate read on only when every ship has fewer messages waiting;
a login adds three. Ships and players are symmetric; the run with a liveness
property uses no symmetry. Nothing else is bounded.

In `items` a stack of two is the smallest that splits, two places are the fewest with
room beside a stack and none after the next item, and three joins are two players and one
who comes back to a slot. `MaxMade` and `MaxHigh` bound the ids given, `MaxJoins` the
joins. In `locks` a block with two clients and two lobbies and one with one of each let
a thread hold one and want another, on its own block and on a foreign one; circles
of three threads are possible. Nothing is bounded. `characters` has the two logins that
two ships, or a stale answer, need, and a change after the first; `MaxLogins`,
`MaxChanges`, `MaxCuts` and `MaxFaults` bound those. (One player with three logins,
three changes and two blocks was checked as well; it takes too long to be kept.)

`lobby_relock` and the runs of `Items`, `Locks` and `Characters` do not check for
deadlock: the first hangs, the second and the last stop at their bounds, and circles of
waiting threads are what the third is about. All other runs check for it.

### What was found

* `NeverHangs`: delaying a packet locks the lobby's mutex a second time.
* `RefusalsJustified`: the list of a block's clients is sent after the lock is
  released and undoes a logout that was sent in between; the player is then refused
  everywhere until the ship's link ends.
* `ComesBack`: packets that were sent while a ship reconnects stand before its
  login in the buffer and wait for it.
* `NoKnot`: the thread that changes the lobbies' event reads a block's list and
  wants a game's mutex; that block's thread, whose last player leaves the game, has the
  mutex and wants to write to the list.
* `NeverErased`: a connection that ends before the character has come saves zeros. (For a
  player whom nothing has upset, `RowsGoForward` says that no save does that.)

In all five the code does other than the comment next to it says; PROJECT.json
("findings") quotes it. The models show more, which no run singles out; each is an
exception that a property which holds has to make:

* An election passes over everybody who came in the current second; when that is all
  who are left, `leader_id` falls to 0, a place that may be empty (`LeaderPasses`).
* A PC game's id is chosen before the game enters the list, so two of them may get
  the same; only the first can be found by id (`SharedIdsWaited`).
* A player who passes a legit check and leaves stands in for one who fails it
  (`SoundIfUndisturbed`); when the last awaited player leaves, nothing ends the check
  (`UndisturbedEnds`).
* A slot whose last player had no items, or left an item on the floor, gives an id again
  that is in use (`IdsNameItems`); a split copies the item from a stale inventory
  (`GoodsKept`); a full inventory or bank refuses what a stack in it would take, and the
  client loses the item and its connection (`ThrownOutFor`, `BankKeeps`).
* Two players who look for each other from two blocks may stop both (`KnotsAreVisits`).
* What `upset` lists costs a Blue Burst player its last change (`LatestKept`).

## 4. Fairness

`Legit` states weak fairness of each player's answer. The client's
program answers CHAR_DATA_REQUEST in its network loop, and a client that stops
answering at all is disconnected, which is an action. There is none on joining,
leaving or commands: players may do nothing for ever.

`Shipgate` states weak fairness of each ship's thread, which never stops
(`for` loops around `select` with a timeout); of its writing, because `select`
reports a socket that can be written beside one that can be read; of the
shipgate's thread for each ship; and of the end of a client that is marked
as disconnected. There is none on players, on faults, or on attempts that fail.
If the login were sent past the buffer, `ComesBack` would hold under the same
fairness.

`Characters` states weak fairness of what the ship's thread does with a packet that has
come, and of the shipgate's thread for each ship: both are loops around `select` that
handle one whole packet after the other. There is none on players, faults, or a link
coming back. `AskedMovesOn` excuses what `upset` lists.

## 5. Proofs

`LobbyProofs` proves, for any sets of clients and lobbies (finitely many
lobbies), any sizes with 2 <= GameMax <= LobbyMax, both kinds of mutex and
clients that follow the menus or do not: `TypeCorrect`, `MembershipHolds`,
`CountsHold`, `NothingDangles`, `GamesAreCounted` (the part of `Accounting` about
`num_games`) and `LeadersStay`.

The inductive invariant `IInv` is all of these together, with the default
lobbies being listed. They need each other. That a removal finds its
player at `client_id` is `Membership`; that a free place exists when
`num_clients` is below the capacity is `Counts`; that emptying a game takes exactly
one from `num_games` needs that the game is in the list, which is `NoDangling`;
and that a game about to be destroyed holds nobody's `cur_lobby` needs `Counts`
and `Membership` again. The steps are built from a few operations, so the proof has a
lemma for each (`EnterSeats`, `RemoveSeats`, `MoveSeats` for the seats,
`RelistList` for the list, `MoveStep`, `EnterStep`, `RemoveStep` and others for
whole handlers), and `Inductive` has one step for each action of `Next`.
`LeadersStay` uses it: the old leader's place is the only one from which the lead
moves.

`LobbyMenuProofs` begins with `ListIsAccounted` (all of `Accounting`). The list is a function
from lobbies to places, so what has to be invariant is `Ordered`: listed lobbies have
places, no two have the same, and the default lobbies have the first ones. That
there are no holes is a consequence (`NoHoles`): n distinct numbers from 1 to n leave none
out. `OrderAssumption` says that the default lobbies begin in an order, which is how
`block.c:457-460` inserts them.

It goes on with what is left of the properties of `Lobby`. Three hold for any
clients: `PacketsFollowBursts` (`NoPacketLeftBehind`), `OnlyWaitingSharesIds`
(`SharedIdsWaited`) and `LeadershipPasses` (`LeaderPasses`); for the last every step of
the system is shown to be an entry, a departure, a move or nothing to the seats
(`StepsSeat`), so that one lemma about each is enough. Three hold for clients that follow the menus, which
the theorems assume as `~AnyOrder`: `GamesArePeopled` (`NoEmptyGame`), `BurstsAreSound`
(`BurstSound`) and `RoomsImplemented` (`ImplementsRooms`). Their invariant is `MenuInv`:
`IInv`; a game in the list has a player; and `Loading`, which says for each lobby that the
flag is set exactly while one of the players there loads, that only one does, and that nobody
loads who is in no game. Neither half can do without the other: a game
is listed with the flag because its maker is about to load it. The
refinement maps a player's `cur_lobby` to its room and the lobbies with a flag to the rooms
that are shut; by `Counts`, `num_clients` below the capacity means that the room has a
place, and `DefaultsStayOpen` is why a client that comes from nowhere enters an open room.

`LegitProofs` proves, for any number of players, any capacity and any version:
`TypeCorrect`, `EveryAnswerCounts` (`AllAccountedFor`), `SoundCheck`
(`SoundIfUndisturbed`), `FailuresHaveCauses` (`FailsForCause`). The
strengthening is `Tally`: the counters of an undisturbed check are the sizes of
two disjoint sets of players, and each player is in one of them or owes one
answer.

`ShipgateProofs` proves, for any finite set of ships, any players, any number of
blocks and faults and queues of any length: `TypeCorrect`, `LoginsFirst`
(`LoginFirst`) and `RowsHaveShips` (`RowsOfShips`). Neither property is
inductive. That a packet which is not a login makes a row only for a ship that is
in needs `LoginFirst`; and that a block thread, which may send at any time, cannot
send before the login needs to know that a ship the shipgate has only greeted has no key
(`Greeted`), which in turn needs that none is on its way to it, and that a ship forgets
its key before it connects (`Connecting`). The lemmas about queues (`Joined`,
`Shortened`, `Divided`) say what of a queue survives sending and reading.

`ShipgateLinkProofs` proves, with the same generality, `CountsAreKnown` (`CountsKnown`)
and `DirectoriesAgree` (`DirectoryAgrees`). Both are about the queue on its way to a ship,
so the invariant is about what the ship knows after each of its packets (`Knows`):
`Agrees`, for a ship that is logged in, says that after the last packet it knows exactly the
ships that are in; `Sure`, that when it comes to a count it knows whose it is. Both hold
from the moment the reply to the login is in the queue, before the ship has its key
(`Begun`), since the packets before it are ignored; and they are kept by a packet put
behind the queue (`SureTold`, `AgreesTold`), by reading the first one (`SureRead`,
`AgreesRead`) and by the list of ships that a login is answered with (`AgreesLogin`). That
the last packet about a ship decides needs the last to exist (`Greatest`), the one place
where the order of the numbers is used as a well-founded one.

The same module proves `NoGhosts` (`NoGhostRow`). The invariant, `Online`, is about all
places where something is said of a player. Whom a packet puts online has a session, or a
packet behind it takes the player off, in the connection or in sendbuf, which is behind
every packet of the connection (`Kept`, with `Buffered` and `Underway`); the list
`shipgate_send_clients` is making names players with sessions, or players who moved since
(`Listing`); and so for the rows (`Row`). That sendbuf holds no list when a connection is
made is why the next one may forget who moved (`OnlineConnected`).

`LocksProofs` proves, for any blocks, clients and lobbies, and for both kinds of
read-write lock: `TypeCorrect`, with which nobody waits for what it has, and
`KnotsAreOfVisitors` (`KnotsAreVisits`). The inductive invariant is `Nested`: each lock a
thread holds, and the one it waits for, may be taken under those before it. All else is
about one state. From `Nested` follows what a thread that holds a lock of some kind must
hold below it (`ListOrigin`, `LobbyOrigin`, `ClientOrigin`, `LobbiesOrigin`), hence for
whom it can be waiting. In a circle without a thread that changes the event, nobody waits for
a lobby, a list of lobbies or the quests (`NoWaitForLobby`, `NoWaitForLobbies`,
`NoWaitForQuests`), because only a block's own thread has them; so each waits for a list
of clients or for a client, and walking round the circle from either meets two threads that
serve a client and search (`ServingWaits`, `WriterWaits`, `ReaderWaits`).

`CharactersProofs` proves, for any players, ships, blocks and bounds: `TypeCorrect`,
`LatestIsKept` (`LatestKept`), `MovedOnesHaveIt` (`MovedOnLoaded`) and `NoRowGoesBack`
(`RowsGoForward`). Where the last change
is, is not inductive: an answer that comes late could overwrite it, and a question that
overtakes a save could fetch what was before. The invariant (`Good`, for a player whom
nothing has upset) therefore says what may be on its way at all. A player has one connection
(`Alone`); what the ship sends stands in the order saves, question for the character,
question for the options, each at most once, and the answers come in the same order
(`InTurn`); a client waits exactly when it is still asked for (`Waits`, `Asked`); while a
save is on its way nobody has the character and no answer with it is coming; and when no
save is on its way and nobody has it, the row has the last change. The lemmas say what a queue
keeps of this when a packet is put behind it or the first one is read, and what a step leaves
of it for players it does not concern (`Unconcerned`). For `NoRowGoesBack` it is enough to
add that a row is never ahead of the last change (`RowsBehind`): a save that reaches the
shipgate carries the last change (`SaveIsLast`), so it can put nothing older over the row.

`ItemsProofs` proves, for any players, kinds, sizes and bounds, all the properties of `Items`.
For the ids: `TypeCorrect`, `OneIdOneItem` (`IdsNameItems`), `OneIdAtTheBank`
(`BankIdsNameItems`) and `ThrownOnlyFor` (`ThrownOutFor`). That ids differ is inductive only
with what has been given so far: an id of the game is below `item_id` (`Known`), and
while every slot was given once, an id of a slot is at most the slot's number (`Given`,
`Numbers`), so that the next of either is new (`NewOfGame`, `NewOfSlot`); nobody shares a slot
(`Seats`). At the bank an id may be in the inventory too, but only that of a stack
which was divided between the two (`Counter`), so merging it again brings no second
one. Between the packets of a split the stack or the money asked for is still there
(`Splitting`), and no list of a player holds money (`NoMoney`). `NamesKept` does for every
handler what they share: one player's items and the floor exchange ids or get new ones.

How much there is: `GoodsStay` (`GoodsKept`), `MoneyStays` (`MoneyKept`) and `BankStaysWhole`
(`BankKeeps`). The properties add up functions with `SumFunction` of the community modules,
which is a recursion over subsets hidden in a `CHOOSE`; the first part of the module shows
that the recursion has a solution on every finite set and only one (`Solution`, `Agreed`,
`Recursion`), by looking at a smallest set where it would fail, and from it that a sum may be
split at any element (`TotalSplit`), carried over a bijection (`TotalMatch`) and changed at one
place (`TotalChange`). With these each operation on a list has an equation
(`RemoveUnits`, `PutFirstUnits`, `TakeUnits`, `MergeUnits`, `SortUnits`), and each handler a
balance. The exceptions the properties make come out of the proofs at the places where the
code makes them: `TakeUnits` and what goes to the floor agree in `DropStackBalance` only if
`c->items` shows the kind that is in `bb_pl->inv`.

Assumptions are those of `ClientsAssumption`, `LobbiesAssumption`, `OrderAssumption`,
`SizesAssumption`, `LegitAssumption`, `ShipgateAssumption`, `LocksAssumption`,
`CharactersAssumption`, `ItemsAssumption` and `StartAssumption`, which TLC evaluates on every
run of the module that states them. `StartAssumption` says that players come with inventories
that the code could have made: of goods without ids, and no longer than `InvMax`.

Only model-checked: liveness (`UndisturbedEnds`, `AskedMovesOn`, and the violated
`ComesBack`), which is out of the prover's reach. Every invariant and every action property
that a passing run checks is also proved.

## 6. Not modelled

The reasons are in PROJECT.json ("components"). Left out for good: the formats of
packets (`ship_packets.c`, `packets.c`, `login_packets.c`, a fifth of the servers' code),
tables of items, monsters, maps and drops, scripts, the database, the vendored hash and
cipher code, and the tools for a console or for files; of the latter `pso_patcher` is two
headers of data that are more than a quarter of the repository. What is left is the control
of the servers, of which these modules cover the parts with state that outlives a packet.

Of the modelled components the following is missing: games across platforms and challenge
games (`lobby_elect_leader_cross_locked`, `c_rank`); logins of versions other than Blue
Burst, a dialogue of one client and the login server; mail, searches and friends, which
are passed on and change nothing; items of other versions, levels and hit points;
shutdown. The counters and the send buffer that several threads change without a lock
are undefined behaviour when they do; `Shipgate` takes each as one step.

## 7. What could follow

1. Games across platforms: which versions may be in a game (`/dconly`, `/v1only`,
   `/allowgc`), with the promise that no game holds a player its flags exclude.
2. Packets put together from a stream (`client_process_pkt`), with the promise that each
   is handled once and in order, however the stream is cut.
3. The shutdown of a ship, which stops and frees blocks one after the other while the
   threads of later blocks may visit their clients.
4. Proofs about the models as wholes: an abstract specification of a player's goods that
   `Items` implements, as `Lobby` implements `Rooms`.
