--------------------------------- MODULE Items ---------------------------------
(***************************************************************************)
(* The items of a Blue Burst game (ship_server/src/subcmd.c, items.c,      *)
(* lobby.c; the numbering in block.c).  The ship keeps the inventory and   *)
(* the bank of every player and the items on the floor of the game; the    *)
(* clients ask by item id.  Every handler runs with the game's mutex, so   *)
(* each is one step.                                                       *)
(*                                                                         *)
(* Clients are those of the game: they ask for what their own inventory    *)
(* shows, they send the two packets of a split one after the other, and    *)
(* they look at the bank before they use it.  A client that asks for an    *)
(* item somebody else has picked up gets no answer and nothing changes     *)
(* (handle_bb_pick_up), so that step is left out.  EXTENDS brings Integers *)
(* for the number a slot without items ends with.                          *)
(***************************************************************************)
EXTENDS Integers, Sequences, FiniteSets, SequencesExt, FiniteSetsExt

CONSTANTS
    Players,
    MaxClients,             \* of a game: 4 in the code
    Singles, Stackables,    \* kinds of items
    Meseta, Blank,          \* the kind of money, and that of an entry nothing was written to
    InvMax, BankMax,        \* 30 and 200 in the code
    StackMax,               \* what a client lets a stack grow to
    MesetaMax,              \* 999999 in the code
    Splitters, Bankers,     \* who splits stacks and sorts, who goes to the bank
    Gifts,                  \* what comes to the floor from elsewhere
    StartInv,               \* what each player has at first
    MaxMade,                \* bound on the items a game's own counter numbers
    MaxHigh,                \* on the numbers a slot gives to splits
    MaxJoins                \* and on how often players come into a game

Slots == 0 .. MaxClients - 1
Kinds == Singles \cup Stackables
AllKinds == Kinds \cup {Meseta, Blank}

ASSUME ItemsAssumption ==
    /\ IsFiniteSet(Players) /\ IsFiniteSet(Kinds) /\ Singles \cap Stackables = {}
    /\ Gifts \subseteq Kinds \cup {Meseta} /\ Splitters \subseteq Players /\ Bankers \subseteq Players
    /\ Meseta # Blank /\ Meseta \notin Kinds /\ Blank \notin Kinds
    /\ MaxClients \in Nat \ {0} /\ InvMax \in Nat /\ BankMax \in Nat
    /\ StackMax \in Nat \ {0} /\ MesetaMax \in Nat /\ MaxMade \in Nat
    /\ MaxHigh \in Nat /\ MaxJoins \in Nat

\* Item ids by where their bits come from: the number a slot gives (0x00010000 |
\* slot << 21 | number), the game's own (0x00810000 + number), the place in a bank
\* (0x80010000 | slot << 21 | place), none.
Ids == ({"slot", "bank"} \X Slots \X Int) \cup ({"game"} \X {0} \X Nat) \cup {<<"none", 0, 0>>}
NoId == <<"none", 0, 0>>

Item == [id : Ids, kind : AllKinds, n : Nat]

ASSUME StartAssumption ==
    /\ StartInv \in [Players -> Seq([id : {NoId}, kind : Kinds, n : 1 .. StackMax])]
    /\ \A p \in Players : Len(StartInv[p]) <= InvMax

VARIABLES
    slot,       \* client_id of a player in the game, -1 of one in a lobby
    inv,        \* bb_pl->inv
    mirror,     \* the kinds in c->items, the copy that bb_process_char makes
    purse,      \* bb_pl->character.meseta
    bank,       \* bb_pl->bank
    bankPurse,  \* bb_pl->bank.meseta
    asks,       \* what a client is at: play, bank, or the two packets of a split
    floor,      \* l->item_queue, newest first
    high,       \* l->highest_item
    made,       \* l->item_id
    kicked,     \* players whose handler has returned an error
    visits,     \* how often each slot was given in this game: never, once, again
    joins       \* how often a player came into a game

game == <<floor, high, made, visits>>
things == <<inv, purse, bank, bankPurse>>
vars == <<slot, mirror, asks, kicked, game, things, joins>>

Play == <<"play">>
AtBank == <<"bank">>

TypeOK ==
    /\ slot \in [Players -> Slots \cup {-1}]
    /\ inv \in [Players -> Seq(Item)] /\ mirror \in [Players -> Seq(AllKinds)]
    /\ purse \in [Players -> 0 .. MesetaMax]
    /\ bank \in [Players -> Seq(Item)] /\ bankPurse \in [Players -> 0 .. MesetaMax]
    /\ asks \in [Players -> {Play, AtBank} \cup ({"split"} \X Ids \X Nat)]
    /\ floor \in Seq(Item) /\ high \in [Slots -> Int] /\ made \in Nat
    /\ kicked \subseteq Players /\ visits \in [Slots -> 0 .. 2] /\ joins \in Nat
    /\ \A p \in Players : Len(inv[p]) <= InvMax /\ Len(bank[p]) <= BankMax

-----------------------------------------------------------------------------
(* items.c *)

KindsOf(items) == [i \in DOMAIN items |-> items[i].kind]
IdsOf(items) == {items[i].id : i \in DOMAIN items}
Place(items, id) == CHOOSE i \in DOMAIN items :
    items[i].id = id /\ \A j \in 1 .. i - 1 : items[j].id # id
PlaceOfKind(items, kind) == CHOOSE i \in DOMAIN items :
    items[i].kind = kind /\ \A j \in 1 .. i - 1 : items[j].kind # kind
HasKind(items, kind) == \E i \in DOMAIN items : items[i].kind = kind

\* A definition marked "Fault:" is no part of the model.  It is the mistake that the
\* definition after it must not make, and a property has to notice.

\* Fault: the whole stack goes.
TakeWhole(items, id, n) == RemoveAt(items, Place(items, id))

\* item_remove_from_inv, for an id that is there.
TakeFrom(items, id, n) ==
    LET i == Place(items, id) IN
    IF items[i].kind \in Stackables /\ n < items[i].n
    THEN [items EXCEPT ![i].n = @ - n] ELSE RemoveAt(items, i)

Whole(items, id) == IF items[Place(items, id)].kind \in Stackables
                    THEN items[Place(items, id)].n ELSE 1

\* A stack takes another of its kind in, whatever is in front of it.
Merge(items, it) ==
    IF it.kind \in Stackables /\ HasKind(items, it.kind)
    THEN [items EXCEPT ![PlaceOfKind(items, it.kind)].n = @ + it.n]
    ELSE Append(items, it)

\* Fault: the last place is never used.
CanAddOneLess(items, it) == Len(items) < InvMax - 1 /\ it.id \notin IdsOf(items)
\* item_add_to_inv and item_deposit_to_bank look for space first, even for what a
\* stack would take in; the first also refuses an id it has.
CanAdd(items, it) == Len(items) # InvMax /\ it.id \notin IdsOf(items)
CanDeposit(items) == Len(items) # BankMax

\* Fault: the number does not go up.
RenumberedSame(items, s) == [i \in DOMAIN items |-> [items[i] EXCEPT !.id = <<"bank", s, 0>>]]
\* cleanup_bb_bank
Renumbered(items, s) == [i \in DOMAIN items |-> [items[i] EXCEPT !.id = <<"bank", s, i - 1>>]]

\* Fault: no cap.
CarriedUncapped(have, n) == have + n
Carried(have, n) == Min({have + n, MesetaMax})
\* Fault: what is dropped or banked is still carried.
LeftAll(have, n) == have
Left(have, n) == have - n

\* What a client thinks fits: it merges first.
Fits(items, max, it) ==
    IF it.kind \in Stackables /\ HasKind(items, it.kind)
    THEN items[PlaceOfKind(items, it.kind)].n + it.n <= StackMax
    ELSE Len(items) < max

-----------------------------------------------------------------------------
(* Coming and going. *)

Init ==
    /\ slot = [p \in Players |-> -1]
    /\ inv = StartInv /\ mirror = [p \in Players |-> KindsOf(inv[p])]
    /\ bank = [p \in Players |-> <<>>]
    /\ purse = [p \in Players |-> 0] /\ bankPurse = [p \in Players |-> 0]
    /\ asks = [p \in Players |-> Play]
    /\ floor = <<>> /\ high = [s \in Slots |-> 0] /\ made = 0
    /\ kicked = {} /\ visits = [s \in Slots |-> 0] /\ joins = 0

Present == {p \in Players : slot[p] # -1}
Vacant == Slots \ {slot[p] : p \in Present}

\* join_game starts from 0x00010000 | slot << 21 | highest_item: the number a slot is
\* at, or, when it ended below the first, what the bits of one number do to the other.
FirstNumber(h) == IF h = -1 THEN 65535 ELSE h
Numbered(items, s, h) == [i \in DOMAIN items |->
                            [items[i] EXCEPT !.id = <<"slot", s, FirstNumber(h) + i - 1>>]]

\* The first to come creates the game.  A client gets the lowest free slot, and its
\* items their ids; highest_item ends at the last of them, one less than it was
\* for a player without items.
Join(p) ==
    /\ slot[p] = -1 /\ Vacant # {}
    /\ joins < MaxJoins /\ joins' = joins + 1
    /\ LET s == Min(Vacant) IN
       /\ slot' = [slot EXCEPT ![p] = s]
       /\ inv' = [inv EXCEPT ![p] = Numbered(@, s, high[s])]
       /\ high' = [high EXCEPT ![s] = FirstNumber(@) + Len(inv[p]) - 1]
       /\ visits' = [visits EXCEPT ![s] = IF @ = 0 THEN 1 ELSE 2]
    /\ UNCHANGED <<mirror, asks, kicked, floor, made, purse, bank, bankPurse>>

\* Ids mean something in a game and at a bank only: they are all given anew on the way in.
Unnumbered(items) == [i \in DOMAIN items |-> [items[i] EXCEPT !.id = NoId]]

\* Leaving for a lobby sends the character again, a new connection gets it from the
\* shipgate and sends it: either way bb_process_char copies the inventory.  The last
\* to leave takes the game with it.
Leave(p) ==
    /\ slot[p] # -1 /\ (asks[p] = Play \/ p \in kicked)
    /\ slot' = [slot EXCEPT ![p] = -1]
    /\ mirror' = [mirror EXCEPT ![p] = KindsOf(inv[p])]
    /\ asks' = [asks EXCEPT ![p] = Play] /\ kicked' = kicked \ {p}
    /\ IF Present = {p}
       THEN /\ floor' = <<>> /\ made' = 0
            /\ high' = [s \in Slots |-> 0] /\ visits' = [s \in Slots |-> 0]
       ELSE UNCHANGED game
    /\ inv' = [inv EXCEPT ![p] = Unnumbered(@)] /\ bank' = [bank EXCEPT ![p] = Unnumbered(@)]
    /\ UNCHANGED <<purse, bankPurse, joins>>

-----------------------------------------------------------------------------
(* The handlers. *)

Ready(p) == slot[p] # -1 /\ p \notin kicked /\ asks[p] = Play
Kick(p) == kicked' = kicked \cup {p}

\* handle_makeitem, for a GM.  What a monster drops would come to the floor the same way
\* (check_and_send_bb), but that handler locks the game's mutex, which it holds.
MakeItem(kind) ==
    /\ Present # {} /\ made < MaxMade
    /\ floor' = <<[id |-> <<"game", 0, made>>, kind |-> kind, n |-> 1]>> \o floor
    /\ made' = made + 1
    /\ UNCHANGED <<slot, mirror, asks, kicked, high, visits, things, joins>>

\* handle_bb_drop_item
DropItem(p, i) ==
    /\ Ready(p) /\ i \in DOMAIN inv[p]
    /\ floor' = <<inv[p][i]>> \o floor
    /\ inv' = [inv EXCEPT ![p] = RemoveAt(@, Place(@, @[i].id))]
    /\ UNCHANGED <<slot, mirror, asks, kicked, high, made, visits, purse, bank, bankPurse, joins>>

\* Fault: the floor gets the id of the stack.
NumberOfSplitSame(s) == high[s]
NumberOfSplit(s) == high[s] + 1

\* handle_bb_drop_pos, the first packet of a split; NoId stands for meseta.
DropPos(p, id, n) ==
    /\ Ready(p) /\ p \in Splitters /\ n > 0
    /\ \/ \E i \in DOMAIN inv[p] : /\ inv[p][i].id = id /\ inv[p][i].kind \in Stackables
                                   /\ n <= inv[p][i].n
       \/ id = NoId /\ n <= purse[p]
    /\ NumberOfSplit(slot[p]) <= MaxHigh
    /\ asks' = [asks EXCEPT ![p] = <<"split", id, n>>]
    /\ UNCHANGED <<slot, mirror, kicked, game, things, joins>>

\* c->items[found]: an entry past those that were copied was never written to.
KindInMirror(p, i) == IF i \in DOMAIN mirror[p] THEN mirror[p][i] ELSE Blank

\* handle_bb_drop_stack, the second packet.  The item that goes to the floor is made
\* from c->items at the place found in bb_pl->inv.
DropStack(p) ==
    /\ asks[p] \notin {Play, AtBank} /\ p \notin kicked
    /\ LET s == slot[p]  id == asks[p][2]  n == asks[p][3]  h == NumberOfSplit(s)
           of == IF id = NoId THEN Meseta ELSE KindInMirror(p, Place(inv[p], id)) IN
       /\ high' = [high EXCEPT ![s] = h]
       /\ floor' = <<[id |-> <<"slot", s, h>>, kind |-> of, n |-> n]>> \o floor
       /\ IF id = NoId
          THEN purse' = [purse EXCEPT ![p] = Left(@, n)] /\ UNCHANGED inv
          ELSE inv' = [inv EXCEPT ![p] = TakeFrom(@, id, n)] /\ UNCHANGED purse
    /\ asks' = [asks EXCEPT ![p] = Play]
    /\ UNCHANGED <<slot, mirror, kicked, made, visits, bank, bankPurse, joins>>

\* handle_bb_pick_up, for an item that is still there.  What item_add_to_inv does not
\* take is gone from the floor all the same.
PickUp(p, id) ==
    /\ Ready(p) /\ id \in IdsOf(floor)
    /\ LET it == floor[Place(floor, id)] IN
       /\ it.kind = Meseta \/ Fits(inv[p], InvMax, it)
       /\ floor' = RemoveAt(floor, Place(floor, id))
       /\ IF it.kind = Meseta
          THEN /\ purse' = [purse EXCEPT ![p] = Carried(@, it.n)]
               /\ UNCHANGED <<inv, kicked>>
          ELSE /\ IF CanAdd(inv[p], it)
                  THEN inv' = [inv EXCEPT ![p] = Merge(@, it)] /\ UNCHANGED kicked
                  ELSE Kick(p) /\ UNCHANGED inv
               /\ UNCHANGED purse
    /\ UNCHANGED <<slot, mirror, asks, high, made, visits, bank, bankPurse, joins>>

\* handle_bb_sort_inv
SortInv(p) ==
    /\ Ready(p) /\ p \in Splitters
    /\ \E order \in SetToSeqs(DOMAIN inv[p]) :
           inv' = [inv EXCEPT ![p] = [i \in DOMAIN @ |-> @[order[i]]]]
    /\ UNCHANGED <<slot, mirror, asks, kicked, game, purse, bank, bankPurse, joins>>

\* handle_bb_bank
OpenBank(p) ==
    /\ Ready(p) /\ p \in Bankers
    /\ asks' = [asks EXCEPT ![p] = AtBank]
    /\ bank' = [bank EXCEPT ![p] = Renumbered(@, slot[p])]
    /\ UNCHANGED <<slot, mirror, kicked, game, inv, purse, bankPurse, joins>>

CloseBank(p) ==
    /\ asks[p] = AtBank
    /\ asks' = [asks EXCEPT ![p] = Play]
    /\ bank' = [bank EXCEPT ![p] = Unnumbered(@)]
    /\ UNCHANGED <<slot, mirror, kicked, game, inv, purse, bankPurse, joins>>

Banking(p) == asks[p] = AtBank /\ p \notin kicked

\* handle_bb_bank_action: the item leaves the inventory, then the bank may refuse it.
Deposit(p, i, n) ==
    /\ Banking(p) /\ i \in DOMAIN inv[p]
    /\ LET it == [inv[p][i] EXCEPT !.n = n] IN
       /\ n \in 1 .. inv[p][i].n /\ Fits(bank[p], BankMax, it)
       /\ inv' = [inv EXCEPT ![p] = TakeFrom(@, it.id, n)]
       /\ IF CanDeposit(bank[p])
          THEN bank' = [bank EXCEPT ![p] = Merge(@, it)] /\ UNCHANGED kicked
          ELSE Kick(p) /\ UNCHANGED bank
    /\ UNCHANGED <<slot, mirror, asks, game, purse, bankPurse, joins>>

\* Fault: what does not fit into the inventory does not go back.
PutBackNothing(items, it) == items
\* item_deposit_to_bank, its result unused.
PutBack(items, it) == IF CanDeposit(items) THEN Merge(items, it) ELSE items

\* It gets an id of the game; what the inventory does not take goes back.
Withdraw(p, i, n) ==
    /\ Banking(p) /\ i \in DOMAIN bank[p] /\ made < MaxMade
    /\ LET out == [bank[p][i] EXCEPT !.n = n]
           it == [out EXCEPT !.id = <<"game", 0, made>>]
           rest == TakeFrom(bank[p], out.id, n) IN
       /\ n \in 1 .. bank[p][i].n /\ Fits(inv[p], InvMax, it)
       /\ IF CanAdd(inv[p], it)
          THEN /\ inv' = [inv EXCEPT ![p] = Merge(@, it)]
               /\ bank' = [bank EXCEPT ![p] = rest] /\ UNCHANGED kicked
          ELSE /\ bank' = [bank EXCEPT ![p] = PutBack(rest, out)]
               /\ Kick(p) /\ UNCHANGED inv
    /\ made' = made + 1
    /\ UNCHANGED <<slot, mirror, asks, floor, high, visits, purse, bankPurse, joins>>

DepositMeseta(p, n) ==
    /\ Banking(p) /\ n \in 1 .. purse[p] /\ bankPurse[p] + n <= MesetaMax
    /\ purse' = [purse EXCEPT ![p] = Left(@, n)]
    /\ bankPurse' = [bankPurse EXCEPT ![p] = @ + n]
    /\ UNCHANGED <<slot, mirror, asks, kicked, game, inv, bank, joins>>

WithdrawMeseta(p, n) ==
    /\ Banking(p) /\ n \in 1 .. bankPurse[p] /\ purse[p] + n <= MesetaMax
    /\ purse' = [purse EXCEPT ![p] = @ + n]
    /\ bankPurse' = [bankPurse EXCEPT ![p] = @ - n]
    /\ UNCHANGED <<slot, mirror, asks, kicked, game, inv, bank, joins>>

Next ==
    \/ \E p \in Players :
        \/ Join(p) \/ Leave(p) \/ DropStack(p) \/ SortInv(p) \/ OpenBank(p) \/ CloseBank(p)
        \/ \E i \in DOMAIN inv[p] : DropItem(p, i)
        \/ \E id \in IdsOf(inv[p]) \cup {NoId} : \E n \in 1 .. Max({StackMax, MesetaMax}) :
               DropPos(p, id, n)
        \/ \E id \in IdsOf(floor) : PickUp(p, id)
        \/ \E i \in DOMAIN inv[p] : \E n \in 1 .. StackMax : Deposit(p, i, n)
        \/ \E i \in DOMAIN bank[p] : \E n \in 1 .. StackMax : Withdraw(p, i, n)
        \/ \E n \in 1 .. MesetaMax : DepositMeseta(p, n) \/ WithdrawMeseta(p, n)
    \/ \E kind \in Gifts : MakeItem(kind)

Spec == Init /\ [][Next]_vars

-----------------------------------------------------------------------------
(* Properties. *)

Worth(it, kind) == IF it.kind # kind THEN 0 ELSE IF kind \in Singles THEN 1 ELSE it.n
Units(items, kind) == SumFunction([i \in DOMAIN items |-> Worth(items[i], kind)])
Goods(kind) == Units(floor, kind)
               + SumFunction([p \in Players |-> Units(inv[p], kind) + Units(bank[p], kind)])
Money == Units(floor, Meseta) + SumFunction([p \in Players |-> purse[p] + bankPurse[p]])

IdsOnce(items) == \A i, j \in DOMAIN items : items[i].id = items[j].id => i = j

\* A split of a player whose c->items shows something else where bb_pl->inv has the stack.
SplitAstray(p) ==
    /\ asks[p] \notin {Play, AtBank} /\ asks'[p] = Play /\ p \notin kicked
    /\ asks[p][2] # NoId
    /\ LET i == Place(inv[p], asks[p][2]) IN KindInMirror(p, i) # inv[p][i].kind

\* Nothing is lost and nothing made by playing: a kind changes in number only when a
\* GM or a monster drops it, when a game ends with its floor, when a handler gives up
\* halfway, and when a split puts the wrong item on the floor.
GoodsKept ==
    [][\A kind \in Kinds : \/ Goods(kind)' = Goods(kind)
                           \/ made' > made /\ Len(floor') > Len(floor)
                           \/ Present' = {}
                           \/ kicked' \ kicked # {}
                           \/ \E p \in Players : SplitAstray(p)]_vars

\* Money is only lost, to the limit of what a character carries and with a game's floor.
MoneyKept ==
    [][\/ Money' = Money
       \/ made' > made /\ Len(floor') > Len(floor)
       \/ Present' = {} /\ Money' < Money
       \/ Money' < Money /\ Len(floor') < Len(floor) /\ \E p \in Players : purse'[p] = MesetaMax]_vars

\* While no slot has been given twice, the ids on the floor and in the inventories of
\* those in the game differ, so that an id names one item for all clients.
IdsNameItems ==
    (\A s \in Slots : visits[s] < 2) =>
        /\ IdsOnce(floor)
        /\ \A p \in Present : IdsOnce(inv[p]) /\ IdsOf(inv[p]) \cap IdsOf(floor) = {}
        /\ \A p, q \in Present : p # q => IdsOf(inv[p]) \cap IdsOf(inv[q]) = {}

\* A client that asks for what it sees is thrown out only for an item that a full
\* inventory or bank had a stack for, or for an id that was given twice.
ThrownOutFor ==
    [][\A p \in kicked' \ kicked : \/ Len(inv[p]) = InvMax \/ Len(bank[p]) = BankMax
                                   \/ \E s \in Slots : visits[s] = 2]_vars

\* What a player whose inventory was full takes out of the bank is back in the bank.
BankKeeps ==
    [][\A p \in kicked' \ kicked : \A kind \in Kinds :
           \/ Units(bank'[p], kind) >= Units(bank[p], kind) \/ Len(bank[p]) = BankMax]_vars

\* A client at the bank sees every item there under an id of its own.
BankIdsNameItems == \A p \in Players : asks[p] = AtBank => IdsOnce(bank[p])
===============================================================================
