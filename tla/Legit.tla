-------------------------------- MODULE Legit ---------------------------------
(***************************************************************************)
(* The legit check of one game (commands.c, block.c, lobby.c).  On /legit  *)
(* the ship asks every player for its character data, counts the answers   *)
(* and those that pass, and turns legit mode on when the counts say that   *)
(* everybody passed.  The answers come later, one packet each, and the     *)
(* server keeps two counters, not who they came from: players who leave    *)
(* in between, answered or not, are what makes this hard.                  *)
(*                                                                         *)
(* The game is one of Lobby's; its players serve as a set here, and the    *)
(* election of a leader is any choice Lobby may make.                      *)
(***************************************************************************)
EXTENDS Naturals, FiniteSets

CONSTANTS
    Players,    \* ship_client_t objects
    NoPlayer,
    GameMax,    \* max_clients of the game
    Version,    \* of the game's players: "ep3", "bb", or "dc" for all others
    MaxAsked    \* bound on the requests a player leaves unanswered

ASSUME LegitAssumption ==
    /\ IsFiniteSet(Players) /\ NoPlayer \notin Players
    /\ GameMax \in Nat /\ MaxAsked \in Nat
    /\ Version \in {"dc", "ep3", "bb"}

VARIABLES
    members,    \* the players in the game
    leader,     \* the player at leader_id, NoPlayer when that place is empty
    check,      \* l->flags & LOBBY_FLAG_LEGIT_CHECK, and TEMP_UNAVAIL with it
    mode,       \* l->flags & LOBBY_FLAG_LEGIT_MODE
    done,       \* l->legit_check_done
    passed,     \* l->legit_check_passed
    asked,      \* CHAR_DATA_REQUESTs each player has not answered yet
    \* What the server does not remember about the check in progress:
    cleared,    \* who was counted as passing
    failed,     \* who was counted as failing
    disturbed   \* somebody left, or still owed an answer when it began

gameVars == <<members, leader>>
history == <<cleared, failed, disturbed>>
vars == <<gameVars, check, mode, done, passed, asked, history>>

TypeOK ==
    /\ members \in SUBSET Players
    /\ leader \in Players \cup {NoPlayer}
    /\ check \in BOOLEAN /\ mode \in BOOLEAN
    /\ done \in Nat /\ passed \in Nat
    /\ asked \in [Players -> Nat]
    /\ cleared \in SUBSET Players /\ failed \in SUBSET Players
    /\ disturbed \in BOOLEAN

Init ==
    /\ members = {} /\ leader = NoPlayer
    /\ check = FALSE /\ mode = FALSE
    /\ done = 0 /\ passed = 0
    /\ asked = [p \in Players |-> 0]
    /\ cleared = {} /\ failed = {} /\ disturbed = FALSE

-----------------------------------------------------------------------------

\* A definition marked "Fault:" is no part of the model.  It is the mistake that the
\* definition after it must not make, and a property has to notice.

\* lobby_change_lobby into the game: not while it is temporarily unavailable.  (A game in
\* legit mode may refuse a player for its items: a step not taken.)
Join(p) ==
    /\ p \notin members /\ ~check
    /\ Cardinality(members) < GameMax
    /\ members' = members \cup {p}
    /\ leader' \in IF members = {} THEN {p}
                   ELSE IF leader = NoPlayer THEN {NoPlayer, p}
                   ELSE {leader}
    /\ UNCHANGED <<check, mode, done, passed, asked, history>>

\* lobby_remove_client_locked: the counters stay as they are.  With the last player the
\* game goes, and with it its flags.
Part(p) ==
    LET left == members \ {p} IN
    /\ p \in members
    /\ members' = left
    /\ leader' \in IF left = {} THEN {NoPlayer}
                   ELSE IF p = leader THEN left \cup {NoPlayer}
                   ELSE {leader}
    /\ check' = (check /\ left # {})
    /\ mode' = (mode /\ left # {})
    /\ disturbed' = (disturbed \/ check)
    /\ UNCHANGED <<done, passed, cleared, failed>>

\* The player leaves for a lobby.  It still answers what it was asked.
Leave(p) == Part(p) /\ UNCHANGED asked

\* lobby_remove_player on the end of the connection.
Disconnect(p) ==
    /\ asked' = [asked EXCEPT ![p] = 0]
    /\ \/ Part(p)
       \/ p \notin members /\ asked[p] > 0
          /\ UNCHANGED <<gameVars, check, mode, done, passed, history>>

\* Fault: the answers of the check before this one still count.
StartCheckUncleared ==
    /\ leader \in members /\ ~mode /\ ~check
    /\ \A p \in members : asked[p] < MaxAsked
    /\ check' = TRUE
    /\ passed' = 0
    /\ asked' = [p \in Players |-> asked[p] + IF p \in members THEN 1 ELSE 0]
    /\ cleared' = {} /\ failed' = {}
    /\ disturbed' = (\E p \in members : asked[p] > 0)
    /\ UNCHANGED <<gameVars, mode, done>>

\* handle_legit: only the leader, not in legit mode and not during a check.
StartCheck ==
    /\ leader \in members /\ ~mode /\ ~check
    /\ \A p \in members : asked[p] < MaxAsked
    /\ check' = TRUE
    /\ done' = 0 /\ passed' = 0
    /\ asked' = [p \in Players |-> asked[p] + IF p \in members THEN 1 ELSE 0]
    /\ cleared' = {} /\ failed' = {}
    /\ disturbed' = (\E p \in members : asked[p] > 0)
    /\ UNCHANGED <<gameVars, mode>>

\* handle_normal
Normal ==
    /\ leader \in members /\ mode /\ ~check
    /\ mode' = FALSE
    /\ UNCHANGED <<gameVars, check, done, passed, asked, history>>

\* Faults: everybody answered is taken for everybody passed; one answer is waited for in vain.
FinishPassing(d, n) ==
    IF d = Cardinality(members)
    THEN mode' = TRUE /\ check' = FALSE
    ELSE UNCHANGED <<mode, check>>
FinishLate(d, n) ==
    IF d > Cardinality(members)
    THEN /\ mode' = (mode \/ n = Cardinality(members))
         /\ check' = FALSE
    ELSE UNCHANGED <<mode, check>>

\* lobby_legit_check_finish_locked, when the answers counted are as many as the players.
Finish(d, n) ==
    IF d = Cardinality(members)
    THEN /\ mode' = (mode \/ n = Cardinality(members))
         /\ check' = FALSE
    ELSE UNCHANGED <<mode, check>>

\* dc_process_char during a check.  An answer from an Episode 3 player is counted and
\* nothing else done; bb_process_char does not know of the check at all.
Count(p, ok) ==
    /\ done' = done + 1
    /\ IF Version = "ep3"
       THEN UNCHANGED <<passed, mode, check, cleared, failed>>
       ELSE /\ passed' = IF ok THEN passed + 1 ELSE passed
            /\ cleared' = IF ok THEN cleared \cup {p} ELSE cleared
            /\ failed' = IF ok THEN failed ELSE failed \cup {p}
            /\ Finish(done', passed')

\* Fault: an answer that was not asked for counts.
AnswerUnasked(p, ok) ==
    /\ asked' = [asked EXCEPT ![p] = @ - 1]
    /\ IF p \in members /\ check /\ Version # "bb"
       THEN Count(p, ok)
       ELSE UNCHANGED <<done, passed, mode, check, cleared, failed>>
    /\ UNCHANGED <<gameVars, disturbed>>

\* A player answers one request, with character data that passes or does not.
Answer(p, ok) ==
    /\ asked[p] > 0
    /\ asked' = [asked EXCEPT ![p] = @ - 1]
    /\ IF p \in members /\ check /\ Version # "bb"
       THEN Count(p, ok)
       ELSE UNCHANGED <<done, passed, mode, check, cleared, failed>>
    /\ UNCHANGED <<gameVars, disturbed>>

Next ==
    \/ \E p \in Players : Join(p) \/ Leave(p) \/ Disconnect(p)
    \/ StartCheck \/ Normal
    \/ \E p \in Players, ok \in BOOLEAN : Answer(p, ok)

\* A player's program answers each request: it is in its network loop.
Fairness == \A p \in Players : WF_vars(\E ok \in BOOLEAN : Answer(p, ok))

Spec == Init /\ [][Next]_vars /\ Fairness

-----------------------------------------------------------------------------
(* Properties.                                                              *)

\* "If everyone passed, the game is now in legit mode.": when legit mode comes on and
\* nobody left during the check or owed an answer to another one, each player in the
\* game has answered this check and passed it.  (One who passes and leaves stands in
\* for one who fails.)
SoundIfUndisturbed == [][~mode /\ mode' /\ ~disturbed' => members' \subseteq cleared']_vars

\* In such a check every player's answer is either counted or still to come, once, and
\* none that was counted comes again: the counters cannot reach the number of players
\* early or miss it.
AllAccountedFor ==
    check /\ ~disturbed /\ Version = "dc" =>
        LET owing == {p \in members : asked[p] > 0} IN
        /\ done + Cardinality(owing) = Cardinality(members)
        /\ owing # {}

\* A check that ends without legit mode, in a game that still has players, has a failing
\* player, or one who left or answered for another check.
FailsForCause ==
    [][check /\ ~check' /\ ~mode' /\ members' # {} => failed' # {} \/ disturbed']_vars

\* The game becomes available again after a check that nobody leaves.  (When the last
\* player to answer leaves instead, nothing ends the check.)
UndisturbedEnds == (check /\ ~disturbed) ~> (~check \/ disturbed)
=============================================================================
