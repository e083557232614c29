---------------------------- MODULE ShipgateProofs ----------------------------
(***************************************************************************)
(* Proofs about Shipgate, for any number of ships, players and blocks, any *)
(* number of faults and queues of any length.  That online_clients names   *)
(* only ships that are logged in rests on the order of what they send:     *)
(* nothing but the login reaches the shipgate before the login does,       *)
(* because a ship has no key until the shipgate has answered.              *)
(***************************************************************************)
EXTENDS Shipgate, SequenceTheorems, FiniteSetTheorems, TLAPS

-----------------------------------------------------------------------------
(* Messages and queues. *)

LEMMA OneMessage ==
    ASSUME NEW S, NEW m \in S
    PROVE  <<m>> \in Seq(S) /\ Len(<<m>>) = 1 /\ <<m>>[1] = m
OBVIOUS

LEMMA TwoMessages ==
    ASSUME NEW S, NEW m \in S, NEW n \in S
    PROVE  <<m, n>> \in Seq(S)
OBVIOUS

\* What may be sent.
LEMMA ToGateMessages ==
    /\ [type |-> "LOGIN6"] \in ToGateMsg /\ [type |-> "COUNT"] \in ToGateMsg
    /\ \A p \in Players, b \in Blocks :
        /\ [type |-> "BLKLOGIN", player |-> p, block |-> b] \in ToGateMsg
        /\ [type |-> "BLKLOGOUT", player |-> p, block |-> b] \in ToGateMsg
    /\ \A b \in Blocks, ps \in SUBSET Players :
        [type |-> "BCLIENTS", block |-> b, players |-> ps] \in ToGateMsg
BY DEF ToGateMsg

LEMMA ToShipMessages ==
    /\ [type |-> "WELCOME"] \in ToShipMsg /\ [type |-> "LOGIN6OK"] \in ToShipMsg
    /\ \A i \in Ships :
        /\ [type |-> "UP", ship |-> i] \in ToShipMsg
        /\ [type |-> "DOWN", ship |-> i] \in ToShipMsg
        /\ [type |-> "COUNT", ship |-> i] \in ToShipMsg
    /\ \A p \in Players, b \in Blocks :
        [type |-> "REFUSED", player |-> p, block |-> b] \in ToShipMsg
BY DEF ToShipMsg

\* What has been received.
LEMMA ToGateFields ==
    ASSUME NEW m \in ToGateMsg
    PROVE  /\ m.type \in {"BLKLOGIN", "BLKLOGOUT"} => m.player \in Players /\ m.block \in Blocks
           /\ m.type = "BCLIENTS" => m.block \in Blocks /\ m.players \in SUBSET Players
BY DEF ToGateMsg

LEMMA ToShipFields ==
    ASSUME NEW m \in ToShipMsg
    PROVE  /\ m.type \in {"UP", "DOWN", "COUNT"} => m.ship \in Ships
           /\ m.type = "REFUSED" => m.player \in Players /\ m.block \in Blocks
BY DEF ToShipMsg

\* A predicate on the members of a queue survives whatever happens to the queue.
LEMMA Joined ==
    ASSUME NEW S, NEW x \in Seq(S), NEW y \in Seq(S)
    PROVE  /\ x \o y \in Seq(S)
           /\ \A k \in DOMAIN (x \o y) :
                \/ \E j \in DOMAIN x : (x \o y)[k] = x[j]
                \/ \E j \in DOMAIN y : (x \o y)[k] = y[j]
<1>1. /\ DOMAIN x = 1 .. Len(x) /\ DOMAIN y = 1 .. Len(y)
      /\ Len(x) \in Nat /\ Len(y) \in Nat
  BY LenProperties
<1>2. /\ x \o y \in Seq(S) /\ Len(x \o y) = Len(x) + Len(y)
      /\ \A k \in 1 .. Len(x) + Len(y) :
            (x \o y)[k] = IF k <= Len(x) THEN x[k] ELSE y[k - Len(x)]
  BY ConcatProperties
<1>3. DOMAIN (x \o y) = 1 .. Len(x) + Len(y)
  BY <1>2, LenProperties
<1>4. ASSUME NEW k \in 1 .. Len(x) + Len(y)
      PROVE  \/ \E j \in DOMAIN x : (x \o y)[k] = x[j]
             \/ \E j \in DOMAIN y : (x \o y)[k] = y[j]
  <2>1. CASE k <= Len(x)
    BY <1>1, <1>2, <2>1
  <2>2. CASE ~(k <= Len(x))
    <3>1. k - Len(x) \in 1 .. Len(y) /\ (x \o y)[k] = y[k - Len(x)]
      BY <1>1, <1>2, <2>2
    <3> QED BY <1>1, <3>1
  <2> QED BY <2>1, <2>2
<1> QED BY <1>2, <1>3, <1>4

LEMMA Shortened ==
    ASSUME NEW S, NEW x \in Seq(S), x # <<>>
    PROVE  /\ Head(x) \in S /\ Head(x) = x[1] /\ 1 \in DOMAIN x
           /\ Tail(x) \in Seq(S)
           /\ \A k \in DOMAIN Tail(x) : \E j \in DOMAIN x : Tail(x)[k] = x[j]
<1>1. /\ DOMAIN x = 1 .. Len(x) /\ Len(x) \in Nat /\ Len(x) # 0
      /\ Head(x) \in S /\ Tail(x) \in Seq(S) /\ Len(Tail(x)) = Len(x) - 1
      /\ \A k \in 1 .. Len(Tail(x)) : Tail(x)[k] = x[k + 1]
  BY LenProperties, HeadTailProperties, EmptySeq
<1>2. DOMAIN Tail(x) = 1 .. Len(Tail(x))
  BY <1>1, LenProperties
<1>3. Head(x) = x[1]
  OBVIOUS
<1>4. \A k \in 1 .. Len(Tail(x)) : k + 1 \in 1 .. Len(x)
  BY <1>1
<1> QED BY <1>1, <1>2, <1>3, <1>4

LEMMA Divided ==
    ASSUME NEW S, NEW x \in Seq(S), NEW n \in 1 .. Len(x)
    PROVE  SubSeq(x, 1, n) \in Seq(S) /\ SubSeq(x, n + 1, Len(x)) \in Seq(S)
<1>1. Len(x) \in Nat /\ \A i \in 1 .. Len(x) : x[i] \in S
  BY LenProperties, ElementOfSeq
<1>2. SubSeq(x, 1, n) \in Seq(S)
  <2>1. \A i \in 1 .. n : x[i] \in S
    BY <1>1
  <2> QED BY <2>1, SubSeqProperties
<1>3. SubSeq(x, n + 1, Len(x)) \in Seq(S)
  <2>1. /\ \A i \in n + 1 .. Len(x) : x[i] \in S
        /\ n + 1 \in Int /\ Len(x) \in Int
    BY <1>1
  <2> QED BY <2>1, SubSeqProperties
<1> QED BY <1>2, <1>3

LEMMA SendTyped ==
    ASSUME TypeOK, NEW s \in Ships, NEW msgs \in Seq(ToGateMsg), NEW crypt \in BOOLEAN,
           SendRaw(s, msgs, crypt)
    PROVE  /\ sendbuf' \in [Ships -> Seq(ToGateMsg)]
           /\ toGate' \in [Ships -> Seq(ToGateMsg)]
<1>1. sendbuf \in [Ships -> Seq(ToGateMsg)] /\ toGate \in [Ships -> Seq(ToGateMsg)]
  BY DEF TypeOK
<1>2. sendbuf[s] \o msgs \in Seq(ToGateMsg) /\ toGate[s] \o msgs \in Seq(ToGateMsg)
  BY <1>1, Joined
<1> QED BY <1>1, <1>2 DEF SendRaw

LEMMA TellTyped ==
    ASSUME TypeOK, NEW to, NEW msgs \in Seq(ToShipMsg)
    PROVE  Tell(to, msgs) \in [Ships -> Seq(ToShipMsg)]
<1>1. toShip \in [Ships -> Seq(ToShipMsg)]
  BY DEF TypeOK
<1>2. ASSUME NEW i \in Ships PROVE toShip[i] \o msgs \in Seq(ToShipMsg)
  BY <1>1, Joined
<1> QED BY <1>1, <1>2 DEF Tell

LEMMA ReadTyped ==
    ASSUME TypeOK, NEW s \in Ships, Reads(s)
    PROVE  /\ Got(s) \in ToShipMsg /\ toShip' \in [Ships -> Seq(ToShipMsg)]
           /\ toShip[s] # <<>>
<1>1. toShip \in [Ships -> Seq(ToShipMsg)] /\ toShip[s] # <<>>
  BY DEF TypeOK, Reads
<1>2. Head(toShip[s]) \in ToShipMsg /\ Tail(toShip[s]) \in Seq(ToShipMsg)
  BY <1>1, Shortened
<1> QED BY <1>1, <1>2 DEF Got, Reads

LEMMA ReceiveTyped ==
    ASSUME TypeOK, NEW s \in Ships, Receives(s)
    PROVE  /\ First(s) \in ToGateMsg /\ toGate' \in [Ships -> Seq(ToGateMsg)]
           /\ toGate[s] # <<>>
<1>1. toGate \in [Ships -> Seq(ToGateMsg)] /\ toGate[s] # <<>>
  BY DEF TypeOK, Receives
<1>2. Head(toGate[s]) \in ToGateMsg /\ Tail(toGate[s]) \in Seq(ToGateMsg)
  BY <1>1, Shortened
<1> QED BY <1>1, <1>2 DEF First, Receives

LEMMA ScanTyped ==
    ASSUME TypeOK, NEW s \in Ships, NEW b \in Blocks, Scan(s, b)
    PROVE  block' \in [Ships -> Blocks] /\ entries' \in [Ships -> SUBSET Players]
BY DEF TypeOK, Scan

LEMMA WithoutTyped ==
    ASSUME TypeOK, NEW s \in Ships, NEW bs
    PROVE  Without(s, bs) \in [Players -> (Ships \X Blocks) \cup {NoRow}]
BY DEF TypeOK, Without

\* What GateLogin sends to the ship that has logged in.
LEMMA IntroducedTyped ==
    ASSUME TypeOK, NEW s \in Ships,
           NEW order \in [1 .. Cardinality(In \cup {s}) -> In \cup {s}]
    PROVE  [k \in DOMAIN order |-> [type |-> "UP", ship |-> order[k]]] \in Seq(ToShipMsg)
<1>1. In \cup {s} \in SUBSET Ships
  BY DEF In
<1>2. Cardinality(In \cup {s}) \in Nat
  BY <1>1, ShipgateAssumption, FS_Subset, FS_CardinalityType
<1>3. \A k \in 1 .. Cardinality(In \cup {s}) : [type |-> "UP", ship |-> order[k]] \in ToShipMsg
  BY <1>1, ToShipMessages
<1>4. [k \in DOMAIN order |-> [type |-> "UP", ship |-> order[k]]]
        \in [1 .. Cardinality(In \cup {s}) -> ToShipMsg]
  BY <1>3
<1>5. [1 .. Cardinality(In \cup {s}) -> ToShipMsg] \subseteq Seq(ToShipMsg)
  BY <1>2, SeqDef
<1> QED BY <1>4, <1>5

-----------------------------------------------------------------------------
(* Type correctness: one step for each action. *)

LEMMA TypeInit == Init => TypeOK
<1> SUFFICES ASSUME Init PROVE TypeOK
  OBVIOUS
<1>1. 1 \in Blocks
  BY ShipgateAssumption DEF Blocks
<1>2. <<[type |-> "WELCOME"]>> \in Seq(ToShipMsg)
  BY ToShipMessages, OneMessage
<1>3. <<>> \in Seq(ToGateMsg)
  BY EmptySeq
<1> QED BY <1>1, <1>2, <1>3 DEF Init, TypeOK, Threads

LEMMA TypeBlockThreads ==
    ASSUME TypeOK, NEW s \in Ships, BlockThreads(s)
    PROVE  TypeOK'
<1>1. CASE Count(s)
  <2>1. <<[type |-> "COUNT"]>> \in Seq(ToGateMsg)
    BY ToGateMessages, OneMessage
  <2>2. /\ sendbuf' \in [Ships -> Seq(ToGateMsg)]
        /\ toGate' \in [Ships -> Seq(ToGateMsg)]
    BY <1>1, <2>1, SendTyped DEF Count, Send
  <2> QED BY <1>1, <2>2 DEF Count, TypeOK
<1>2. ASSUME NEW p \in Players, NEW b \in Blocks, Login(s, p, b)
      PROVE  TypeOK'
  <2>1. <<[type |-> "BLKLOGIN", player |-> p, block |-> b]>> \in Seq(ToGateMsg)
    BY ToGateMessages, OneMessage
  <2>2. /\ sendbuf' \in [Ships -> Seq(ToGateMsg)]
        /\ toGate' \in [Ships -> Seq(ToGateMsg)]
    BY <1>2, <2>1, SendTyped DEF Login, Send
  <2>3. /\ sessions' \in [Ships -> SUBSET (Players \X Blocks)]
        /\ entries' \in [Ships -> SUBSET Players]
        /\ raced' \in [Ships -> SUBSET Players]
    <3>1. sessions' = [sessions EXCEPT ![s] = @ \cup {<<p, b>>}]
      BY <1>2 DEF Login
    <3>2. sessions' \in [Ships -> SUBSET (Players \X Blocks)]
      BY <3>1 DEF TypeOK
    <3>3. entries' \in [Ships -> SUBSET Players]
      <4>1. entries' = entries \/ entries' = [entries EXCEPT ![s] = @ \cup {p}]
        BY <1>2 DEF Login
      <4>2. CASE entries' = entries
        BY <4>2 DEF TypeOK
      <4>3. CASE entries' = [entries EXCEPT ![s] = @ \cup {p}]
        BY <4>3 DEF TypeOK
      <4> QED BY <4>1, <4>2, <4>3
    <3>4. raced' = [raced EXCEPT ![s] = @ \cup IF Scanning(s, b) THEN {p} ELSE {}]
      BY <1>2 DEF Login
    <3>5. raced' \in [Ships -> SUBSET Players]
      BY <3>4 DEF TypeOK
    <3> QED BY <3>2, <3>3, <3>5
  <2> QED BY <1>2, <2>2, <2>3 DEF Login, TypeOK
<1>3. ASSUME NEW p \in Players, NEW b \in Blocks, Logout(s, p, b)
      PROVE  TypeOK'
  <2>1. <<[type |-> "BLKLOGOUT", player |-> p, block |-> b], [type |-> "COUNT"]>>
            \in Seq(ToGateMsg)
    BY ToGateMessages, TwoMessages
  <2>2. /\ sendbuf' \in [Ships -> Seq(ToGateMsg)]
        /\ toGate' \in [Ships -> Seq(ToGateMsg)]
    BY <1>3, <2>1, SendTyped DEF Logout, Send
  <2>3. /\ sessions' \in [Ships -> SUBSET (Players \X Blocks)]
        /\ booted' \in [Ships -> SUBSET (Players \X Blocks)]
        /\ raced' \in [Ships -> SUBSET Players]
    BY <1>3 DEF Logout, TypeOK
  <2> QED BY <1>3, <2>2, <2>3 DEF Logout, TypeOK
<1> QED BY <1>1, <1>2, <1>3 DEF BlockThreads

LEMMA TypeShipThread ==
    ASSUME TypeOK, NEW s \in Ships, ShipThread(s)
    PROVE  TypeOK'
<1>1. CASE SendPkts(s)
  <2>1. PICK n \in 1 .. Len(sendbuf[s]) :
            /\ toGate' = [toGate EXCEPT ![s] = @ \o SubSeq(sendbuf[s], 1, n)]
            /\ sendbuf' = [sendbuf EXCEPT ![s] = SubSeq(@, n + 1, Len(@))]
    BY <1>1 DEF SendPkts
  <2>2. sendbuf \in [Ships -> Seq(ToGateMsg)] /\ toGate \in [Ships -> Seq(ToGateMsg)]
    BY DEF TypeOK
  <2>3. /\ SubSeq(sendbuf[s], 1, n) \in Seq(ToGateMsg)
        /\ SubSeq(sendbuf[s], n + 1, Len(sendbuf[s])) \in Seq(ToGateMsg)
    BY <2>2, Divided
  <2>4. toGate[s] \o SubSeq(sendbuf[s], 1, n) \in Seq(ToGateMsg)
    BY <2>2, <2>3, Joined
  <2>5. /\ sendbuf' \in [Ships -> Seq(ToGateMsg)]
        /\ toGate' \in [Ships -> Seq(ToGateMsg)]
    BY <2>1, <2>2, <2>3, <2>4
  <2> QED BY <1>1, <2>5 DEF SendPkts, TypeOK
<1>2. CASE Unlock(s)
  BY <1>2 DEF Unlock, TypeOK, Threads
<1>3. CASE SendClients(s)
  <2>1. /\ sendbuf' \in [Ships -> Seq(ToGateMsg)]
        /\ toGate' \in [Ships -> Seq(ToGateMsg)]
    <3>1. CASE entries[s] = {}
      BY <1>3, <3>1 DEF SendClients, TypeOK
    <3>2. CASE entries[s] # {}
      <4>1. block[s] \in Blocks /\ entries[s] \in SUBSET Players
        BY DEF TypeOK
      <4>2. <<[type |-> "BCLIENTS", block |-> block[s], players |-> entries[s]]>>
                \in Seq(ToGateMsg)
        BY <4>1, ToGateMessages, OneMessage
      <4> QED BY <1>3, <3>2, <4>2, SendTyped DEF SendClients, Send
    <3> QED BY <3>1, <3>2
  <2>2. /\ block' \in [Ships -> Blocks] /\ entries' \in [Ships -> SUBSET Players]
        /\ thread' \in [Ships -> Threads]
    <3>1. CASE More(s)
      <4>1. block[s] + 1 \in Blocks
        BY <3>1, ShipgateAssumption DEF More, TypeOK, Blocks
      <4>2. Scan(s, block[s] + 1) /\ thread' = [thread EXCEPT ![s] = "scan"]
        BY <1>3, <3>1 DEF SendClients
      <4> QED BY <4>1, <4>2, ScanTyped DEF TypeOK, Threads
    <3>2. CASE ~More(s)
      <4>1. 1 \in Blocks
        BY ShipgateAssumption DEF Blocks
      <4> QED BY <1>3, <3>2, <4>1 DEF SendClients, TypeOK, Threads
    <3> QED BY <3>1, <3>2
  <2> QED BY <1>3, <2>1, <2>2 DEF SendClients, TypeOK
<1>4. CASE Ignore(s)
  <2>1. toShip' \in [Ships -> Seq(ToShipMsg)]
    BY <1>4, ReadTyped DEF Ignore
  <2> QED BY <1>4, <2>1 DEF Ignore, TypeOK, shipVars
<1>5. CASE HandleLogin(s)
  <2>1. toShip' \in [Ships -> Seq(ToShipMsg)]
    BY <1>5, ReadTyped DEF HandleLogin
  <2>2. <<[type |-> "LOGIN6"]>> \in Seq(ToGateMsg)
    BY ToGateMessages, OneMessage
  <2>3. /\ sendbuf' \in [Ships -> Seq(ToGateMsg)]
        /\ toGate' \in [Ships -> Seq(ToGateMsg)]
    BY <1>5, <2>2, SendTyped DEF HandleLogin
  <2> QED BY <1>5, <2>1, <2>3 DEF HandleLogin, TypeOK
<1>6. CASE HandleLoginReply(s)
  <2>1. toShip' \in [Ships -> Seq(ToShipMsg)]
    BY <1>6, ReadTyped DEF HandleLoginReply
  <2>2. 1 \in Blocks
    BY ShipgateAssumption DEF Blocks
  <2>3. block' \in [Ships -> Blocks] /\ entries' \in [Ships -> SUBSET Players]
    BY <1>6, <2>2, ScanTyped DEF HandleLoginReply
  <2> QED BY <1>6, <2>1, <2>3 DEF HandleLoginReply, TypeOK, Threads
<1>7. CASE HandleStatus(s)
  <2>1. toShip' \in [Ships -> Seq(ToShipMsg)] /\ Got(s).ship \in Ships
    BY <1>7, ReadTyped, ToShipFields DEF HandleStatus
  <2>2. directory' = [directory EXCEPT ![s] = IF Got(s).type = "UP" THEN @ \cup {Got(s).ship}
                                              ELSE @ \ {Got(s).ship}]
    BY <1>7 DEF HandleStatus
  <2>3. directory' \in [Ships -> SUBSET Ships]
    BY <2>1, <2>2 DEF TypeOK
  <2> QED BY <1>7, <2>1, <2>3 DEF HandleStatus, TypeOK
<1>8. CASE HandleCount(s)
  <2>1. toShip' \in [Ships -> Seq(ToShipMsg)]
    BY <1>8, ReadTyped DEF HandleCount
  <2>2. sock' = [sock EXCEPT ![s] = Got(s).ship \in directory[s]]
    BY <1>8 DEF HandleCount
  <2>3. sock' \in [Ships -> BOOLEAN]
    <3> DEFINE known == Got(s).ship \in directory[s]
    <3>1. sock \in [Ships -> BOOLEAN]
      BY DEF TypeOK
    <3>2. known \in BOOLEAN
      OBVIOUS
    <3>3. sock' = [sock EXCEPT ![s] = known]
      BY <2>2
    <3> HIDE DEF known
    <3> QED BY <3>1, <3>2, <3>3
  <2> QED BY <1>8, <2>1, <2>3 DEF HandleCount, TypeOK
<1>9. CASE HandleRefused(s)
  <2>1. toShip' \in [Ships -> Seq(ToShipMsg)]
    BY <1>9, ReadTyped DEF HandleRefused
  <2>2. booted' \in [Ships -> SUBSET (Players \X Blocks)]
    BY <1>9 DEF HandleRefused, TypeOK
  <2> QED BY <1>9, <2>1, <2>2 DEF HandleRefused, TypeOK
<1>10. CASE LoseGate(s)
  BY <1>10 DEF LoseGate, TypeOK
<1>11. CASE Reconnect(s)
  BY <1>11, EmptySeq DEF Reconnect, TypeOK, Threads
<1>12. CASE Connected(s)
  <2>1. <<[type |-> "WELCOME"]>> \in Seq(ToShipMsg)
    BY ToShipMessages, OneMessage
  <2> QED BY <1>12, <2>1, EmptySeq DEF Connected, TypeOK, Threads
<1> QED
  BY <1>1, <1>2, <1>3, <1>4, <1>5, <1>6, <1>7, <1>8, <1>9, <1>10, <1>11, <1>12 DEF ShipThread

LEMMA TypeDestroy ==
    ASSUME TypeOK, NEW s \in Ships, Destroy(s)
    PROVE  TypeOK'
<1>1. <<[type |-> "DOWN", ship |-> s]>> \in Seq(ToShipMsg)
  BY ToShipMessages, OneMessage
<1>2. toShip' \in [Ships -> Seq(ToShipMsg)]
  BY <1>1, TellTyped DEF Destroy, TypeOK
<1>3. rows' \in [Players -> (Ships \X Blocks) \cup {NoRow}]
  BY WithoutTyped DEF Destroy
<1>4. toGate' \in [Ships -> Seq(ToGateMsg)]
  BY EmptySeq DEF Destroy, TypeOK
<1> QED BY <1>2, <1>3, <1>4 DEF Destroy, TypeOK, shipVars

LEMMA TypeGateThread ==
    ASSUME TypeOK, NEW s \in Ships, GateThread(s)
    PROVE  TypeOK'
<1>1. CASE GateLogin(s)
  <2>1. toGate' \in [Ships -> Seq(ToGateMsg)]
    BY <1>1, ReceiveTyped DEF GateLogin
  <2>2. PICK order \in [1 .. Cardinality(In \cup {s}) -> In \cup {s}] :
            toShip' = [Tell(Connections, <<[type |-> "UP", ship |-> s]>>) EXCEPT
                        ![s] = toShip[s] \o <<[type |-> "LOGIN6OK"]>>
                                 \o [k \in DOMAIN order |-> [type |-> "UP", ship |-> order[k]]]]
    BY <1>1 DEF GateLogin
  <2>3. [k \in DOMAIN order |-> [type |-> "UP", ship |-> order[k]]] \in Seq(ToShipMsg)
    BY IntroducedTyped
  <2>4. /\ <<[type |-> "UP", ship |-> s]>> \in Seq(ToShipMsg)
        /\ <<[type |-> "LOGIN6OK"]>> \in Seq(ToShipMsg)
    BY ToShipMessages, OneMessage
  <2>5. toShip[s] \in Seq(ToShipMsg)
    BY DEF TypeOK
  <2>6. toShip[s] \o <<[type |-> "LOGIN6OK"]>> \in Seq(ToShipMsg)
    BY <2>4, <2>5, Joined
  <2>7. toShip[s] \o <<[type |-> "LOGIN6OK"]>>
            \o [k \in DOMAIN order |-> [type |-> "UP", ship |-> order[k]]] \in Seq(ToShipMsg)
    BY <2>3, <2>6, Joined
  <2>8. toShip' \in [Ships -> Seq(ToShipMsg)]
    BY <2>2, <2>4, <2>7, TellTyped
  <2> QED BY <1>1, <2>1, <2>8 DEF GateLogin, TypeOK, shipVars
<1>2. CASE GateCount(s)
  <2>1. toGate' \in [Ships -> Seq(ToGateMsg)]
    BY <1>2, ReceiveTyped DEF GateCount
  <2>2. <<[type |-> "COUNT", ship |-> s]>> \in Seq(ToShipMsg)
    BY ToShipMessages, OneMessage
  <2>3. toShip' \in [Ships -> Seq(ToShipMsg)]
    BY <1>2, <2>2, TellTyped DEF GateCount
  <2> QED BY <1>2, <2>1, <2>3 DEF GateCount, TypeOK, shipVars
<1>3. CASE GateBlockLogin(s)
  <2>1. /\ toGate' \in [Ships -> Seq(ToGateMsg)]
        /\ First(s).player \in Players /\ First(s).block \in Blocks
    BY <1>3, ReceiveTyped, ToGateFields DEF GateBlockLogin
  <2>2. <<[type |-> "REFUSED", player |-> First(s).player, block |-> First(s).block]>>
            \in Seq(ToShipMsg)
    BY <2>1, ToShipMessages, OneMessage
  <2>3. /\ toShip' \in [Ships -> Seq(ToShipMsg)]
        /\ rows' \in [Players -> (Ships \X Blocks) \cup {NoRow}]
    <3>1. CASE rows[First(s).player] = NoRow
      <4>1. /\ rows' = [rows EXCEPT ![First(s).player] = <<s, First(s).block>>]
            /\ toShip' = toShip
        BY <1>3, <3>1 DEF GateBlockLogin
      <4>2. <<s, First(s).block>> \in Ships \X Blocks
        BY <2>1
      <4> QED BY <2>1, <4>1, <4>2 DEF TypeOK
    <3>2. CASE rows[First(s).player] # NoRow
      <4>1. /\ toShip' = Tell({s}, <<[type |-> "REFUSED", player |-> First(s).player,
                                     block |-> First(s).block]>>)
            /\ rows' = rows
        BY <1>3, <3>2 DEF GateBlockLogin
      <4> QED BY <2>2, <4>1, TellTyped DEF TypeOK
    <3> QED BY <3>1, <3>2
  <2> QED BY <1>3, <2>1, <2>3 DEF GateBlockLogin, TypeOK, shipVars
<1>4. CASE GateBlockLogout(s)
  <2>1. /\ toGate' \in [Ships -> Seq(ToGateMsg)]
        /\ First(s).player \in Players
    BY <1>4, ReceiveTyped, ToGateFields DEF GateBlockLogout
  <2>2. rows' \in [Players -> (Ships \X Blocks) \cup {NoRow}]
    BY <1>4, <2>1, WithoutTyped DEF GateBlockLogout, TypeOK
  <2> QED BY <1>4, <2>1, <2>2 DEF GateBlockLogout, TypeOK, shipVars
<1>5. CASE GateClients(s)
  <2>1. /\ toGate' \in [Ships -> Seq(ToGateMsg)]
        /\ First(s).block \in Blocks
    BY <1>5, ReceiveTyped, ToGateFields DEF GateClients
  <2>2. rows' \in [Players -> (Ships \X Blocks) \cup {NoRow}]
    BY <1>5, <2>1, WithoutTyped DEF GateClients
  <2> QED BY <1>5, <2>1, <2>2 DEF GateClients, TypeOK, shipVars
<1>6. CASE LoseShip(s)
  BY <1>6, TypeDestroy DEF LoseShip
<1>7. CASE PingTimeout(s)
  BY <1>7, TypeDestroy DEF PingTimeout
<1> QED BY <1>1, <1>2, <1>3, <1>4, <1>5, <1>6, <1>7 DEF GateThread

LEMMA TypeStep == TypeOK /\ [Next]_vars => TypeOK'
<1> SUFFICES ASSUME TypeOK, [Next]_vars PROVE TypeOK'
  OBVIOUS
<1>1. ASSUME NEW s \in Ships, NotConnected(s) PROVE TypeOK'
  BY <1>1 DEF NotConnected, TypeOK, Threads
<1>2. ASSUME NEW s \in Ships, Cut(s) PROVE TypeOK'
  BY <1>2 DEF Cut, TypeOK, shipVars
<1>3. CASE Restart
  BY <1>3, EmptySeq DEF Restart, TypeOK, shipVars
<1>4. CASE UNCHANGED vars
  BY <1>4 DEF vars, shipVars, TypeOK
<1> QED
  BY <1>1, <1>2, <1>3, <1>4, TypeBlockThreads, TypeShipThread, TypeGateThread DEF Next

-----------------------------------------------------------------------------
(* Nothing before the login. *)

OnlyLogins(q) == \A k \in DOMAIN q : q[k].type = "LOGIN6"
NoReply(q) == \A k \in DOMAIN q : q[k].type # "LOGIN6OK"

\* A ship that connects has forgotten its key.
Connecting == \A s \in Ships : thread[s] = "connect" => ~hasKey[s]

\* Until the shipgate has read the login of a ship, the ship has no key, is sent none, and
\* has sent nothing else.
Hello(s) == conn[s] = "greeted" => ~hasKey[s] /\ OnlyLogins(toGate[s]) /\ NoReply(toShip[s])
Greeted == \A s \in Ships : Hello(s)

IInv == TypeOK /\ Connecting /\ Greeted /\ RowsOfShips

LEMMA GreetedFirst ==
    ASSUME TypeOK, Greeted, NEW s \in Ships, toGate[s] # <<>>, First(s).type # "LOGIN6"
    PROVE  conn[s] # "greeted"
<1>1. toGate[s] \in Seq(ToGateMsg)
  BY DEF TypeOK
<1>2. First(s) = toGate[s][1] /\ 1 \in DOMAIN toGate[s]
  BY <1>1, Shortened DEF First
<1> QED BY <1>2 DEF Greeted, Hello, OnlyLogins

LEMMA GreetedQuiet ==
    ASSUME Greeted, UNCHANGED <<hasKey, conn, toGate, toShip>>
    PROVE  Greeted'
BY DEF Greeted, Hello, OnlyLogins, NoReply

\* What waits for the key is not sent.
LEMMA GreetedSend ==
    ASSUME Greeted, NEW s \in Ships, NEW msgs, Send(s, msgs), TypeOK,
           UNCHANGED <<hasKey, conn, toShip>>
    PROVE  Greeted'
<1>1. toGate \in [Ships -> Seq(ToGateMsg)]
  BY DEF TypeOK
<1>2. ASSUME NEW i \in Ships, conn[i] = "greeted"
      PROVE  toGate'[i] = toGate[i]
  <2>1. ~hasKey[i]
    BY <1>2 DEF Greeted, Hello
  <2> QED BY <1>1, <2>1 DEF Send, SendRaw, Direct
<1> QED BY <1>2 DEF Greeted, Hello, OnlyLogins, NoReply

\* Reading from the shipgate.
LEMMA NoReplyRead ==
    ASSUME TypeOK, NEW s \in Ships, Reads(s), NEW i \in Ships, NoReply(toShip[i])
    PROVE  NoReply(toShip'[i])
<1>1. toShip \in [Ships -> Seq(ToShipMsg)] /\ toShip[s] # <<>>
      /\ toShip' = [toShip EXCEPT ![s] = Tail(toShip[s])]
  BY DEF TypeOK, Reads
<1>2. CASE i = s
  <2>1. \A k \in DOMAIN Tail(toShip[s]) : \E j \in DOMAIN toShip[s] :
            Tail(toShip[s])[k] = toShip[s][j]
    BY <1>1, Shortened
  <2>2. toShip'[i] = Tail(toShip[s])
    BY <1>1, <1>2
  <2> QED BY <1>2, <2>1, <2>2 DEF NoReply
<1>3. CASE i # s
  BY <1>1, <1>3
<1> QED BY <1>2, <1>3

LEMMA GreetedRead ==
    ASSUME TypeOK, Greeted, NEW s \in Ships, Reads(s), UNCHANGED <<hasKey, conn, toGate>>
    PROVE  Greeted'
<1> SUFFICES ASSUME NEW i \in Ships PROVE Hello(i)'
  BY DEF Greeted
<1>1. Hello(i)
  BY DEF Greeted
<1> QED BY <1>1, NoReplyRead DEF Hello

\* Reading from a ship.
LEMMA OnlyLoginsReceived ==
    ASSUME TypeOK, NEW s \in Ships, Receives(s), NEW i \in Ships, OnlyLogins(toGate[i])
    PROVE  OnlyLogins(toGate'[i])
<1>1. toGate \in [Ships -> Seq(ToGateMsg)] /\ toGate[s] # <<>>
      /\ toGate' = [toGate EXCEPT ![s] = Tail(toGate[s])]
  BY DEF TypeOK, Receives
<1>2. CASE i = s
  <2>1. \A k \in DOMAIN Tail(toGate[s]) : \E j \in DOMAIN toGate[s] :
            Tail(toGate[s])[k] = toGate[s][j]
    BY <1>1, Shortened
  <2>2. toGate'[i] = Tail(toGate[s])
    BY <1>1, <1>2
  <2> QED BY <1>2, <2>1, <2>2 DEF OnlyLogins
<1>3. CASE i # s
  BY <1>1, <1>3
<1> QED BY <1>2, <1>3

LEMMA NoReplyTold ==
    ASSUME TypeOK, NEW to, NEW m \in ToShipMsg, m.type # "LOGIN6OK",
           NEW i \in Ships, NoReply(toShip[i])
    PROVE  NoReply(Tell(to, <<m>>)[i])
<1>1. toShip[i] \in Seq(ToShipMsg) /\ <<m>> \in Seq(ToShipMsg)
  BY OneMessage DEF TypeOK
<1>2. CASE i \in to
  <2>1. Tell(to, <<m>>)[i] = toShip[i] \o <<m>>
    BY <1>2 DEF Tell
  <2>2. \A k \in DOMAIN (toShip[i] \o <<m>>) :
            \/ \E j \in DOMAIN toShip[i] : (toShip[i] \o <<m>>)[k] = toShip[i][j]
            \/ \E j \in DOMAIN <<m>> : (toShip[i] \o <<m>>)[k] = <<m>>[j]
    BY <1>1, Joined
  <2>3. \A j \in DOMAIN <<m>> : <<m>>[j] = m
    OBVIOUS
  <2> QED BY <2>1, <2>2, <2>3 DEF NoReply
<1>3. CASE i \notin to
  BY <1>3 DEF Tell
<1> QED BY <1>2, <1>3

\* The shipgate reads a packet of s that is not its login, and tells ships something else
\* than a reply to it.
LEMMA GreetedReceive ==
    ASSUME TypeOK, Greeted, NEW s \in Ships, Receives(s), UNCHANGED <<hasKey, conn>>,
           \/ UNCHANGED toShip
           \/ \E to \in SUBSET Ships, m \in ToShipMsg :
                m.type # "LOGIN6OK" /\ toShip' = Tell(to, <<m>>)
    PROVE  Greeted'
<1> SUFFICES ASSUME NEW i \in Ships PROVE Hello(i)'
  BY DEF Greeted
<1>1. Hello(i)
  BY DEF Greeted
<1>2. OnlyLogins(toGate[i]) => OnlyLogins(toGate'[i])
  BY OnlyLoginsReceived
<1>3. NoReply(toShip[i]) => NoReply(toShip'[i])
  BY NoReplyTold
<1> QED BY <1>1, <1>2, <1>3 DEF Hello

LEMMA GreetedDestroy ==
    ASSUME TypeOK, Greeted, NEW s \in Ships, Destroy(s)
    PROVE  Greeted'
<1> SUFFICES ASSUME NEW i \in Ships, i # s PROVE Hello(i)'
  BY DEF Greeted, Hello, Destroy, TypeOK
<1>1. Hello(i)
  BY DEF Greeted
<1>2. conn'[i] = conn[i] /\ hasKey'[i] = hasKey[i] /\ toGate'[i] = toGate[i]
  BY DEF Destroy, TypeOK, shipVars
<1>3. NoReply(toShip[i]) => NoReply(toShip'[i])
  <2>1. [type |-> "DOWN", ship |-> s] \in ToShipMsg
    BY ToShipMessages
  <2> QED BY <2>1, NoReplyTold DEF Destroy
<1> QED BY <1>1, <1>2, <1>3 DEF Hello

LEMMA GreetedBlockThreads ==
    ASSUME TypeOK, Greeted, NEW s \in Ships, BlockThreads(s)
    PROVE  Greeted'
<1>1. CASE Count(s)
  BY <1>1, GreetedSend DEF Count
<1>2. ASSUME NEW p \in Players, NEW b \in Blocks, Login(s, p, b)
      PROVE  Greeted'
  BY <1>2, GreetedSend DEF Login
<1>3. ASSUME NEW p \in Players, NEW b \in Blocks, Logout(s, p, b)
      PROVE  Greeted'
  BY <1>3, GreetedSend DEF Logout
<1> QED BY <1>1, <1>2, <1>3 DEF BlockThreads

LEMMA GreetedShipThread ==
    ASSUME TypeOK, Connecting, Greeted, NEW s \in Ships, ShipThread(s)
    PROVE  Greeted'
<1>1. CASE SendPkts(s)
  <2> SUFFICES ASSUME NEW i \in Ships, conn[i] = "greeted" PROVE Hello(i)'
    BY <1>1 DEF Greeted, Hello, SendPkts
  <2>1. Hello(i) /\ i # s
    BY <1>1 DEF Greeted, Hello, SendPkts
  <2>2. toGate'[i] = toGate[i]
    BY <1>1, <2>1 DEF SendPkts, TypeOK
  <2> QED BY <1>1, <2>1, <2>2 DEF Hello, SendPkts, OnlyLogins
<1>2. CASE Unlock(s)
  BY <1>2, GreetedQuiet DEF Unlock
<1>3. CASE SendClients(s)
  <2>1. CASE entries[s] = {}
    BY <1>3, <2>1, GreetedQuiet DEF SendClients
  <2>2. CASE entries[s] # {}
    BY <1>3, <2>2, GreetedSend DEF SendClients
  <2> QED BY <2>1, <2>2
<1>4. CASE Ignore(s)
  BY <1>4, GreetedRead DEF Ignore, shipVars
<1>5. CASE HandleLogin(s)
  <2> SUFFICES ASSUME NEW i \in Ships PROVE Hello(i)'
    BY DEF Greeted
  <2>1. Hello(i)
    BY DEF Greeted
  <2>2. NoReply(toShip[i]) => NoReply(toShip'[i])
    BY <1>5, NoReplyRead DEF HandleLogin
  <2>3. OnlyLogins(toGate[i]) => OnlyLogins(toGate'[i])
    <3> DEFINE login == <<[type |-> "LOGIN6"]>>
    <3>1. toGate \in [Ships -> Seq(ToGateMsg)] /\ login \in Seq(ToGateMsg)
      BY ToGateMessages, OneMessage DEF TypeOK
    <3>2. toGate' = toGate \/ toGate' = [toGate EXCEPT ![s] = @ \o login]
      BY <1>5 DEF HandleLogin, SendRaw
    <3>3. CASE toGate'[i] = toGate[i]
      BY <3>3
    <3>4. CASE toGate'[i] = toGate[i] \o login
      <4>1. \A k \in DOMAIN (toGate[i] \o login) :
                \/ \E j \in DOMAIN toGate[i] : (toGate[i] \o login)[k] = toGate[i][j]
                \/ \E j \in DOMAIN login : (toGate[i] \o login)[k] = login[j]
        BY <3>1, Joined
      <4>2. \A j \in DOMAIN login : login[j].type = "LOGIN6"
        OBVIOUS
      <4> QED BY <3>4, <4>1, <4>2 DEF OnlyLogins
    <3>5. toGate'[i] = toGate[i] \/ toGate'[i] = toGate[i] \o login
      BY <3>1, <3>2
    <3> QED BY <3>3, <3>4, <3>5
  <2> QED BY <1>5, <2>1, <2>2, <2>3 DEF Hello, HandleLogin
<1>6. CASE HandleLoginReply(s)
  <2> SUFFICES ASSUME NEW i \in Ships, conn[i] = "greeted" PROVE Hello(i)'
    BY <1>6 DEF Greeted, Hello, HandleLoginReply
  <2>1. Hello(i)
    BY DEF Greeted
  <2>2. i # s
    <3>1. toShip[s] \in Seq(ToShipMsg) /\ toShip[s] # <<>>
      BY <1>6 DEF TypeOK, HandleLoginReply, Reads
    <3>2. toShip[s][1].type = "LOGIN6OK" /\ 1 \in DOMAIN toShip[s]
      BY <1>6, <3>1, Shortened DEF HandleLoginReply, Got
    <3> QED BY <2>1, <3>2 DEF Hello, NoReply
  <2>3. NoReply(toShip[i]) => NoReply(toShip'[i])
    BY <1>6, NoReplyRead DEF HandleLoginReply
  <2>4. hasKey'[i] = hasKey[i]
    BY <1>6, <2>2 DEF HandleLoginReply, TypeOK
  <2> QED BY <1>6, <2>1, <2>3, <2>4 DEF Hello, HandleLoginReply
<1>7. CASE HandleStatus(s)
  BY <1>7, GreetedRead DEF HandleStatus
<1>8. CASE HandleCount(s)
  BY <1>8, GreetedRead DEF HandleCount
<1>9. CASE HandleRefused(s)
  BY <1>9, GreetedRead DEF HandleRefused
<1>10. CASE LoseGate(s)
  BY <1>10, GreetedQuiet DEF LoseGate
<1>11. CASE Reconnect(s)
  BY <1>11 DEF Reconnect, Greeted, Hello, OnlyLogins, NoReply, TypeOK
<1>12. CASE Connected(s)
  <2> SUFFICES ASSUME NEW i \in Ships PROVE Hello(i)'
    BY DEF Greeted
  <2>1. CASE i = s
    <3>1. toGate'[i] = <<>> /\ toShip'[i] = <<[type |-> "WELCOME"]>> /\ ~hasKey'[i]
      BY <1>12, <2>1 DEF Connected, Connecting, TypeOK
    <3> QED BY <3>1 DEF Hello, OnlyLogins, NoReply
  <2>2. CASE i # s
    BY <1>12, <2>2 DEF Connected, Greeted, Hello, OnlyLogins, NoReply, TypeOK
  <2> QED BY <2>1, <2>2
<1> QED
  BY <1>1, <1>2, <1>3, <1>4, <1>5, <1>6, <1>7, <1>8, <1>9, <1>10, <1>11, <1>12 DEF ShipThread

LEMMA GreetedGateThread ==
    ASSUME TypeOK, Greeted, NEW s \in Ships, GateThread(s)
    PROVE  Greeted'
<1>1. CASE GateLogin(s)
  <2> SUFFICES ASSUME NEW i \in Ships, i # s PROVE Hello(i)'
    BY <1>1 DEF Greeted, Hello, GateLogin, TypeOK
  <2>1. Hello(i) /\ conn'[i] = conn[i] /\ hasKey'[i] = hasKey[i]
    BY <1>1 DEF Greeted, GateLogin, TypeOK, shipVars
  <2>2. OnlyLogins(toGate[i]) => OnlyLogins(toGate'[i])
    BY <1>1, OnlyLoginsReceived DEF GateLogin
  <2>3. NoReply(toShip[i]) => NoReply(toShip'[i])
    <3>1. toShip'[i] = Tell(Connections, <<[type |-> "UP", ship |-> s]>>)[i]
      BY <1>1 DEF GateLogin, Tell
    <3>2. [type |-> "UP", ship |-> s] \in ToShipMsg
      BY ToShipMessages
    <3> QED BY <3>1, <3>2, NoReplyTold
  <2> QED BY <2>1, <2>2, <2>3 DEF Hello
<1>2. CASE GateCount(s)
  <2>1. [type |-> "COUNT", ship |-> s] \in ToShipMsg /\ Connections \in SUBSET Ships
    BY ToShipMessages DEF Connections
  <2> QED BY <1>2, <2>1, GreetedReceive DEF GateCount, shipVars
<1>3. CASE GateBlockLogin(s)
  <2>1. First(s).player \in Players /\ First(s).block \in Blocks
    BY <1>3, ReceiveTyped, ToGateFields DEF GateBlockLogin
  <2>2. [type |-> "REFUSED", player |-> First(s).player, block |-> First(s).block]
            \in ToShipMsg
    BY <2>1, ToShipMessages
  <2>3. \/ UNCHANGED toShip
        \/ toShip' = Tell({s}, <<[type |-> "REFUSED", player |-> First(s).player,
                                  block |-> First(s).block]>>)
    BY <1>3 DEF GateBlockLogin
  <2> QED BY <1>3, <2>2, <2>3, GreetedReceive DEF GateBlockLogin, shipVars
<1>4. CASE GateBlockLogout(s)
  BY <1>4, GreetedReceive DEF GateBlockLogout, shipVars
<1>5. CASE GateClients(s)
  BY <1>5, GreetedReceive DEF GateClients, shipVars
<1>6. CASE LoseShip(s)
  BY <1>6, GreetedDestroy DEF LoseShip
<1>7. CASE PingTimeout(s)
  BY <1>7, GreetedDestroy DEF PingTimeout
<1> QED BY <1>1, <1>2, <1>3, <1>4, <1>5, <1>6, <1>7 DEF GateThread

LEMMA ConnectingStep ==
    ASSUME TypeOK, Connecting, Next
    PROVE  Connecting'
<1>1. ASSUME NEW s \in Ships, ShipThread(s) PROVE Connecting'
  <2>1. CASE HandleLoginReply(s)
    BY <2>1 DEF HandleLoginReply, Connecting, TypeOK
  <2>2. CASE Unlock(s) \/ SendClients(s) \/ Connected(s)
    BY <2>2 DEF Unlock, SendClients, Connected, Connecting, TypeOK
  <2>3. CASE Reconnect(s)
    BY <2>3 DEF Reconnect, Connecting, TypeOK
  <2>4. CASE \/ SendPkts(s) \/ Ignore(s) \/ HandleLogin(s) \/ HandleStatus(s)
             \/ HandleCount(s) \/ HandleRefused(s) \/ LoseGate(s)
    BY <2>4 DEF SendPkts, Ignore, HandleLogin, HandleStatus, HandleCount, HandleRefused,
                LoseGate, Connecting, shipVars
  <2> QED BY <1>1, <2>1, <2>2, <2>3, <2>4 DEF ShipThread
<1>2. ASSUME NEW s \in Ships, GateThread(s) PROVE Connecting'
  BY <1>2 DEF GateThread, GateLogin, GateCount, GateBlockLogin, GateBlockLogout, GateClients,
              LoseShip, PingTimeout, Destroy, shipVars, Connecting
<1>3. ASSUME NEW s \in Ships, BlockThreads(s) PROVE Connecting'
  BY <1>3 DEF BlockThreads, Count, Login, Logout, Connecting
<1>4. ASSUME NEW s \in Ships, NotConnected(s) PROVE Connecting'
  BY <1>4 DEF NotConnected, Connecting, TypeOK
<1>5. ASSUME NEW s \in Ships, Cut(s) PROVE Connecting'
  BY <1>5 DEF Cut, shipVars, Connecting
<1>6. CASE Restart
  BY <1>6 DEF Restart, shipVars, Connecting
<1> QED BY <1>1, <1>2, <1>3, <1>4, <1>5, <1>6 DEF Next

LEMMA GreetedStep ==
    ASSUME TypeOK, Connecting, Greeted, Next
    PROVE  Greeted'
<1>1. ASSUME NEW s \in Ships, NotConnected(s) PROVE Greeted'
  BY <1>1, GreetedQuiet DEF NotConnected
<1>2. ASSUME NEW s \in Ships, Cut(s) PROVE Greeted'
  BY <1>2, GreetedQuiet DEF Cut, shipVars
<1>3. CASE Restart
  BY <1>3 DEF Restart, Greeted, Hello
<1> QED
  BY <1>1, <1>2, <1>3, GreetedBlockThreads, GreetedShipThread, GreetedGateThread DEF Next

-----------------------------------------------------------------------------
(* The table of who is online. *)

LEMMA RowsKept ==
    ASSUME RowsOfShips, UNCHANGED rows, In \subseteq In'
    PROVE  RowsOfShips'
BY DEF RowsOfShips

\* Forgetting rows, of any ship and blocks.
LEMMA WithoutLess ==
    ASSUME NEW s \in Ships, NEW bs, NEW p \in Players, Without(s, bs)[p] # NoRow
    PROVE  rows[p] = Without(s, bs)[p]
BY DEF Without

LEMMA RowsDestroy ==
    ASSUME TypeOK, RowsOfShips, NEW s \in Ships, Destroy(s)
    PROVE  RowsOfShips'
<1> SUFFICES ASSUME NEW p \in Players, rows'[p] # NoRow PROVE rows'[p][1] \in In'
  BY DEF RowsOfShips
<1>1. rows'[p] = rows[p] /\ rows[p] \notin {s} \X Blocks
  BY DEF Destroy, Without
<1>2. rows[p] \in Ships \X Blocks /\ rows[p][1] \in In
  BY <1>1 DEF TypeOK, RowsOfShips
<1>3. rows[p][1] # s
  BY <1>1, <1>2
<1> QED BY <1>1, <1>2, <1>3 DEF In, Destroy, TypeOK

LEMMA RowsGateThread ==
    ASSUME TypeOK, Greeted, RowsOfShips, NEW s \in Ships, GateThread(s)
    PROVE  RowsOfShips'
<1>0. ASSUME Receives(s), First(s).type # "LOGIN6" PROVE s \in In
  <2>1. conn[s] # "none" /\ toGate[s] # <<>>
    BY <1>0 DEF Receives
  <2>2. conn[s] # "greeted"
    BY <1>0, <2>1, GreetedFirst
  <2> QED BY <2>1, <2>2 DEF TypeOK, In
<1>1. CASE GateLogin(s)
  <2>1. In \subseteq In'
    BY <1>1 DEF In, GateLogin, TypeOK
  <2> QED BY <1>1, <2>1, RowsKept DEF GateLogin
<1>2. CASE GateCount(s)
  BY <1>2, RowsKept DEF GateCount, In
<1>3. CASE GateBlockLogin(s)
  <2>1. s \in In /\ In' = In
    BY <1>0, <1>3 DEF GateBlockLogin, In
  <2>2. \/ UNCHANGED rows
        \/ rows' = [rows EXCEPT ![First(s).player] = <<s, First(s).block>>]
    BY <1>3 DEF GateBlockLogin
  <2>3. CASE rows' = [rows EXCEPT ![First(s).player] = <<s, First(s).block>>]
    BY <2>1, <2>3 DEF RowsOfShips, TypeOK
  <2> QED BY <2>1, <2>2, <2>3, RowsKept
<1>4. CASE GateBlockLogout(s)
  <2>1. In' = In /\ First(s).player \in Players
    BY <1>4, ReceiveTyped, ToGateFields DEF GateBlockLogout, In
  <2>2. \A p \in Players : rows'[p] = rows[p] \/ rows'[p] = NoRow
    <3>1. Without(s, Blocks)[First(s).player] \in {rows[First(s).player], NoRow}
      BY <2>1 DEF Without
    <3> QED BY <1>4, <2>1, <3>1 DEF GateBlockLogout, TypeOK
  <2> QED BY <2>1, <2>2 DEF RowsOfShips
<1>5. CASE GateClients(s)
  <2>1. s \in In /\ In' = In
    BY <1>0, <1>5 DEF GateClients, In
  <2>2. \A p \in Players : \/ rows'[p] = <<s, First(s).block>>
                           \/ rows'[p] = Without(s, {First(s).block})[p]
    BY <1>5 DEF GateClients
  <2>3. ASSUME NEW p \in Players, rows'[p] # NoRow PROVE rows'[p][1] \in In
    <3>1. CASE rows'[p] = <<s, First(s).block>>
      BY <2>1, <3>1
    <3>2. CASE rows'[p] = Without(s, {First(s).block})[p]
      BY <2>3, <3>2, WithoutLess DEF RowsOfShips
    <3> QED BY <2>2, <3>1, <3>2
  <2> QED BY <2>1, <2>3 DEF RowsOfShips
<1>6. CASE LoseShip(s)
  BY <1>6, RowsDestroy DEF LoseShip
<1>7. CASE PingTimeout(s)
  BY <1>7, RowsDestroy DEF PingTimeout
<1> QED BY <1>1, <1>2, <1>3, <1>4, <1>5, <1>6, <1>7 DEF GateThread

LEMMA RowsShipThread ==
    ASSUME TypeOK, RowsOfShips, NEW s \in Ships, ShipThread(s)
    PROVE  RowsOfShips'
<1>1. CASE Connected(s)
  <2>1. In \subseteq In'
    BY <1>1 DEF In, Connected, TypeOK
  <2> QED BY <1>1, <2>1, RowsKept DEF Connected
<1>2. CASE ~Connected(s)
  <2>1. UNCHANGED <<conn, rows>>
    BY <1>2 DEF ShipThread, SendPkts, Unlock, SendClients, Ignore, HandleLogin,
                HandleLoginReply, HandleStatus, HandleCount, HandleRefused, LoseGate, Reconnect
  <2> QED BY <2>1, RowsKept DEF In
<1> QED BY <1>1, <1>2

LEMMA RowsStep ==
    ASSUME TypeOK, Greeted, RowsOfShips, Next
    PROVE  RowsOfShips'
<1>1. ASSUME NEW s \in Ships, BlockThreads(s) \/ NotConnected(s) \/ Cut(s)
      PROVE  RowsOfShips'
  <2>1. UNCHANGED <<conn, rows>>
    BY <1>1 DEF BlockThreads, Count, Login, Logout, NotConnected, Cut
  <2> QED BY <2>1, RowsKept DEF In
<1>2. CASE Restart
  BY <1>2 DEF Restart, RowsOfShips
<1> QED BY <1>1, <1>2, RowsShipThread, RowsGateThread DEF Next

-----------------------------------------------------------------------------
LEMMA Inductive == Spec => []IInv
<1>1. Init => IInv
  <2> SUFFICES ASSUME Init PROVE IInv
    OBVIOUS
  <2>1. Connecting /\ RowsOfShips
    BY DEF Init, Connecting, RowsOfShips
  <2>2. Greeted
    BY DEF Init, Greeted, Hello, OnlyLogins, NoReply
  <2> QED BY TypeInit, <2>1, <2>2 DEF IInv
<1>2. IInv /\ [Next]_vars => IInv'
  <2> SUFFICES ASSUME IInv, [Next]_vars PROVE (Connecting /\ Greeted /\ RowsOfShips)' /\ TypeOK'
    BY DEF IInv
  <2>1. CASE Next
    BY <2>1, TypeStep, ConnectingStep, GreetedStep, RowsStep DEF IInv
  <2>2. CASE UNCHANGED vars
    <3>1. Connecting'
      BY <2>2 DEF vars, shipVars, IInv, Connecting
    <3>2. Greeted'
      BY <2>2, GreetedQuiet DEF vars, shipVars, IInv
    <3>3. RowsOfShips'
      BY <2>2, RowsKept DEF vars, shipVars, IInv, In
    <3> QED BY <2>2, <3>1, <3>2, <3>3, TypeStep DEF IInv
  <2> QED BY <2>1, <2>2
<1> QED BY <1>1, <1>2, PTL DEF Spec

\* Everything in Shipgate keeps its type.
THEOREM TypeCorrect == Spec => []TypeOK
<1>1. IInv => TypeOK
  BY DEF IInv
<1> QED BY <1>1, Inductive, PTL

\* The first packet a ship sends over a connection that reaches the shipgate is its login.
THEOREM LoginsFirst == Spec => []LoginFirst
<1>1. IInv => LoginFirst
  BY GreetedFirst DEF IInv, LoginFirst
<1> QED BY <1>1, Inductive, PTL

\* The table of who is online names only ships that are logged in.
THEOREM RowsHaveShips == Spec => []RowsOfShips
<1>1. IInv => RowsOfShips
  BY DEF IInv
<1> QED BY <1>1, Inductive, PTL
===============================================================================
