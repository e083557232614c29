------------------------------ MODULE Characters ------------------------------
(***************************************************************************)
(* Where the character of a Blue Burst player is: in the database, which    *)
(* the shipgate and the login server write, with a block the player is on,  *)
(* or on its way between them (block.c, clients.c and shipgate.c of         *)
(* ship_server/src, shipgate/src/ship.c, login_server/src/bbcharacter.c).   *)
(*                                                                          *)
(* A character is the number of its last change; 0 is a character of        *)
(* nothing but zeros.  A block asks for it when its player logs in and      *)
(* saves it when the connection ends.  Left out: what the options of a      *)
(* player hold (they are asked for and saved along with it), the slots      *)
(* (another slot is another character), the table of who is online, which   *)
(* Shipgate has (whoever it refuses leaves, and anybody may leave at any    *)
(* time), and the answer to a save, which prints a line.                    *)
(***************************************************************************)
EXTENDS Naturals, Sequences, SequencesExt, FiniteSetsExt

CONSTANTS
    Players, Ships,
    NumBlocks,      \* of a ship
    MaxLogins,      \* bound: connections to blocks
    MaxChanges,     \* bound: of a character
    MaxCuts,        \* bound: links lost between a ship and the shipgate
    MaxFaults,      \* bound: queries of the shipgate that fail
    DressingRoom    \* whether players use it

ASSUME CharactersAssumption ==
    /\ NumBlocks \in Nat \ {0} /\ MaxLogins \in Nat /\ MaxChanges \in Nat \ {0}
    /\ MaxCuts \in Nat /\ MaxFaults \in Nat /\ DressingRoom \in BOOLEAN

VARIABLES
    row,        \* a player's row of character_data
    clients,    \* the clients of a block, in the order of its list
    up, down,   \* packets on their way from a ship to the shipgate and back
    linked,     \* whether a ship has its link
    logins, cuts, faults,   \* how often there was one
    clock,      \* history: the number of a player's last change
    upset       \* history: whether something happened that may cost a player a change

vars == <<row, clients, up, down, linked, logins, cuts, faults, clock, upset>>

Blocks == 1 .. NumBlocks
Chars == 0 .. MaxChanges
Rows == [is : {"good", "spoilt", "gone"}, packed : BOOLEAN, char : Chars]
ClientSet == [who : Players, moved : BOOLEAN, char : Chars]
UpSet == [type : {"creq", "cdata"}, who : Players, char : Chars]
         \cup [type : {"opts"}, who : Players, block : Blocks]
DownSet == [type : {"char"}, who : Players, char : Chars]
           \cup [type : {"opts"}, who : Players, block : Blocks]

TypeOK ==
    /\ row \in [Players -> Rows]
    /\ clients \in [Ships -> [Blocks -> Seq(ClientSet)]]
    /\ up \in [Ships -> Seq(UpSet)] /\ down \in [Ships -> Seq(DownSet)]
    /\ linked \in [Ships -> BOOLEAN] /\ logins \in 0 .. MaxLogins /\ cuts \in 0 .. MaxCuts /\ faults \in 0 .. MaxFaults
    /\ clock \in [Players -> Chars] /\ upset \in [Players -> BOOLEAN]

Init ==
    /\ row = [p \in Players |-> [is |-> "good", packed |-> FALSE, char |-> 1]]
    /\ clients = [s \in Ships |-> [b \in Blocks |-> <<>>]]
    /\ up = [s \in Ships |-> <<>>] /\ down = [s \in Ships |-> <<>>]
    /\ linked = [s \in Ships |-> TRUE] /\ logins = 0 /\ cuts = 0 /\ faults = 0
    /\ clock = [p \in Players |-> 1] /\ upset = [p \in Players |-> FALSE]

Of(p, s) == {m \in ToSet(s) : m.who = p}
On(p, s) == UNION {Of(p, clients[s][b]) : b \in Blocks}
Online(p) == \E s \in Ships : On(p, s) # {}
SavesOf(p, s) == {m \in Of(p, up[s]) : m.type = "cdata"}
Unanswered(p, s) == Of(p, down[s]) # {} \/ Of(p, up[s]) # SavesOf(p, s)
Upset(p, why) == upset' = [upset EXCEPT ![p] = @ \/ why]

\* Fault: the newest first.
SentFirst(s, msgs) == IF linked[s] THEN [up EXCEPT ![s] = msgs \o @] ELSE up
\* A packet sent without a link goes into a buffer that is freed before the next one.
Sent(s, msgs) == IF linked[s] THEN [up EXCEPT ![s] = @ \o msgs] ELSE up

-----------------------------------------------------------------------------
(* On a ship. *)

\* Fault: the options first.
AskingInTurn(p, b) == <<[type |-> "opts", who |-> p, block |-> b], [type |-> "creq", who |-> p, char |-> 0]>>
\* Fault: blocks counted from 0.
AskingFromZero(p, b) == <<[type |-> "creq", who |-> p, char |-> 0], [type |-> "opts", who |-> p, block |-> b - 1]>>
\* Fault: the options forgotten.
AskingOnce(p, b) == <<[type |-> "creq", who |-> p, char |-> 0]>>
Asking(p, b) == <<[type |-> "creq", who |-> p, char |-> 0], [type |-> "opts", who |-> p, block |-> b]>>

\* The player goes to a block, whose thread asks for the character and the options.  That
\* may cost it something if it is on a block already, if its character is still on its way
\* from another ship, if what was asked for it before is not answered, or without a link.
Login(p, s, b) ==
    /\ logins < MaxLogins /\ logins' = logins + 1
    /\ clients' = [clients EXCEPT ![s][b] = Append(@, [who |-> p, moved |-> FALSE, char |-> 0])]
    /\ up' = Sent(s, Asking(p, b))
    /\ Upset(p, \/ Online(p) \/ Unanswered(p, s) \/ ~ linked[s]
                \/ \E x \in Ships \ {s} : SavesOf(p, x) # {})
    /\ UNCHANGED <<row, down, linked, cuts, faults, clock>>

Saved(c) == <<[type |-> "cdata", who |-> c.who, char |-> c.char]>>

\* A connection ends: the block saves what it has.  That may cost the player something if
\* its character has not come, or if there is no link.
Leave(s, b, i) ==
    LET c == clients[s][b][i] IN
    /\ clients' = [clients EXCEPT ![s][b] = RemoveAt(@, i)]
    /\ up' = Sent(s, Saved(c))
    /\ Upset(c.who, c.char = 0 \/ ~ linked[s])
    /\ UNCHANGED <<row, down, linked, logins, cuts, faults, clock>>

\* The player does something that changes its character.
Play(s, b, i) ==
    LET c == clients[s][b][i]  n == clock[c.who] + 1 IN
    /\ c.moved /\ c.char # 0 /\ n <= MaxChanges
    /\ clients' = [clients EXCEPT ![s][b][i].char = n]
    /\ clock' = [clock EXCEPT ![c.who] = n]
    /\ UNCHANGED <<row, up, down, linked, logins, cuts, faults, upset>>

\* Fault: whoever is there.
FirstThere(p, list) == IF list = <<>> THEN 0 ELSE 1
First(p, list) == SelectInSeq(list, LAMBDA c : c.who = p)

\* The first client of that guildcard gets the data, block after block.
HandleCreq(s) ==
    /\ down[s] # <<>> /\ Head(down[s]).type = "char"
    /\ LET m == Head(down[s])
           at == {b \in Blocks : First(m.who, clients[s][b]) # 0}
           b == Min(at) IN
       clients' = IF at = {} THEN clients
                  ELSE [clients EXCEPT ![s][b][First(m.who, clients[s][b])].char = m.char]
    /\ down' = [down EXCEPT ![s] = Tail(@)]
    /\ UNCHANGED <<row, up, linked, logins, cuts, faults, clock, upset>>

\* The client is sent its character and goes on.
HandleOpts(s) ==
    /\ down[s] # <<>> /\ Head(down[s]).type = "opts"
    /\ LET m == Head(down[s])
           i == First(m.who, clients[s][m.block]) IN
       clients' = IF i = 0 THEN clients
                  ELSE [clients EXCEPT ![s][m.block][i].moved = TRUE]
    /\ down' = [down EXCEPT ![s] = Tail(@)]
    /\ UNCHANGED <<row, up, linked, logins, cuts, faults, clock, upset>>

-----------------------------------------------------------------------------
(* At the shipgate, which answers one packet after the other. *)

Got(s, type) == up[s] # <<>> /\ Head(up[s]).type = type /\ up' = [up EXCEPT ![s] = Tail(@)]

\* A query fails.
Fault(p) == faults < MaxFaults /\ faults' = faults + 1 /\ Upset(p, TRUE)

\* The error a ship gets for a row that is not there or cannot be unpacked, or for a
\* query that failed, prints a line for the player.
GateCreq(s) ==
    /\ Got(s, "creq")
    /\ LET p == Head(up[s]).who IN
       \/ /\ row[p].is = "good"
          /\ down' = [down EXCEPT ![s] = Append(@, [type |-> "char", who |-> p, char |-> row[p].char])]
          /\ UNCHANGED <<faults, upset>>
       \/ row[p].is # "good" /\ UNCHANGED <<down, faults, upset>>
       \/ Fault(p) /\ UNCHANGED down
    /\ UNCHANGED <<row, clients, linked, logins, cuts, clock>>

GateOpts(s) ==
    /\ Got(s, "opts")
    /\ \/ down' = [down EXCEPT ![s] = Append(@, Head(up[s]))] /\ UNCHANGED <<faults, upset>>
       \/ Fault(Head(up[s]).who) /\ UNCHANGED down
    /\ UNCHANGED <<row, clients, linked, logins, cuts, clock>>

\* The old row is deleted and a new one inserted, packed if that makes it smaller.
GateCdata(s) ==
    /\ Got(s, "cdata")
    /\ LET m == Head(up[s]) IN
       \/ /\ \E packed \in BOOLEAN :
                row' = [row EXCEPT ![m.who] = [is |-> "good", packed |-> packed, char |-> m.char]]
          /\ UNCHANGED <<faults, upset>>
       \/ /\ Fault(m.who)
          /\ \/ UNCHANGED row
             \/ row' = [row EXCEPT ![m.who].is = "gone"]
    /\ UNCHANGED <<clients, down, linked, logins, cuts, clock>>

-----------------------------------------------------------------------------
(* The link between a ship and the shipgate. *)

Cut(s) ==
    /\ linked[s] /\ cuts < MaxCuts /\ cuts' = cuts + 1
    /\ linked' = [linked EXCEPT ![s] = FALSE]
    /\ up' = [up EXCEPT ![s] = <<>>] /\ down' = [down EXCEPT ![s] = <<>>]
    /\ upset' = [p \in Players |-> \/ upset[p] \/ SavesOf(p, s) # {}
                                   \/ \E c \in On(p, s) : ~ c.moved \/ c.char = 0]
    /\ UNCHANGED <<row, clients, logins, faults, clock>>

Reconnect(s) ==
    /\ ~ linked[s] /\ linked' = [linked EXCEPT ![s] = TRUE]
    /\ UNCHANGED <<row, clients, up, down, logins, cuts, faults, clock, upset>>

-----------------------------------------------------------------------------
(* At the login server, where a player makes a character or changes its looks. *)

\* That may cost it something if another connection has the old one.
Elsewhere(p) == Online(p) \/ \E s \in Ships : SavesOf(p, s) # {}

Create(p) ==
    /\ clock[p] < MaxChanges /\ clock' = [clock EXCEPT ![p] = @ + 1]
    /\ row' = [row EXCEPT ![p] = [is |-> "good", packed |-> FALSE, char |-> clock[p] + 1]]
    /\ Upset(p, Elsewhere(p))
    /\ UNCHANGED <<clients, up, down, linked, logins, cuts, faults>>

\* The row is changed as if it were not packed: what is packed comes out unreadable or,
\* where the change falls behind its end, as it was.
Dress(p) ==
    /\ DressingRoom /\ row[p].is # "gone" /\ clock[p] < MaxChanges
    /\ clock' = [clock EXCEPT ![p] = @ + 1]
    /\ row' \in IF row[p].packed THEN {row, [row EXCEPT ![p].is = "spoilt"]}
                ELSE {[row EXCEPT ![p].char = clock[p] + 1]}
    /\ Upset(p, Elsewhere(p) \/ row[p].packed)
    /\ UNCHANGED <<clients, up, down, linked, logins, cuts, faults>>

-----------------------------------------------------------------------------
InBlock(s, b) == \E i \in DOMAIN clients[s][b] : Leave(s, b, i) \/ Play(s, b, i)
ShipThread(s) == HandleCreq(s) \/ HandleOpts(s)
Gate(s) == GateCreq(s) \/ GateOpts(s) \/ GateCdata(s)

Next ==
    \/ \E s \in Ships : ShipThread(s) \/ Gate(s) \/ Cut(s) \/ Reconnect(s)
    \/ \E s \in Ships, b \in Blocks : InBlock(s, b)
    \/ \E p \in Players : Create(p) \/ Dress(p) \/ \E s \in Ships, b \in Blocks : Login(p, s, b)

\* Both programs go on reading what they are sent.
Fairness == \A s \in Ships : WF_vars(ShipThread(s)) /\ WF_vars(Gate(s))

Spec == Init /\ [][Next]_vars /\ Fairness

-----------------------------------------------------------------------------
(* Properties. *)

AllOf(p) == UNION {On(p, s) : s \in Ships}
Saving(p) == {s \in Ships : SavesOf(p, s) # {}}
LastSave(p, s) == SelectLastInSeq(up[s], LAMBDA m : m.who = p /\ m.type = "cdata")

\* The last change to a character is with the client that has it, else in the last save
\* on its way, else in the database, which can read it; only if something happened on
\* the way (Upset) it may not be.
LatestKept ==
    \A p \in Players : ~ upset[p] =>
        IF \E c \in AllOf(p) : c.char # 0
        THEN \A c \in AllOf(p) : c.char = clock[p]
        ELSE IF Saving(p) # {}
             THEN \A s \in Saving(p) : up[s][LastSave(p, s)].char = clock[p]
             ELSE row[p].is = "good" /\ row[p].char = clock[p]

\* No save puts an older character over a newer one, and a row can always be read, so that a
\* ship that is gone costs its players at most what they did since they came; only if
\* something happened on the way (Upset) it may be otherwise.
RowsGoForward ==
    [][\A p \in Players : ~ upset'[p] => row'[p].is = "good" /\ row'[p].char >= row[p].char]_vars

\* Nobody is moved on before it has its character.
MovedOnLoaded == \A p \in Players : ~ upset[p] => \A c \in AllOf(p) : c.moved => c.char = clock[p]

\* A client that waits for its character is moved on or leaves.
AskedMovesOn ==
    \A p \in Players : (\E c \in AllOf(p) : ~ c.moved) ~>
                       ((\A c \in AllOf(p) : c.moved) \/ upset[p])

\* "If the client was on Blue Burst, update their db character": never to nothing.
NeverErased == \A p \in Players : row[p].char # 0
===============================================================================
