-------------------------- MODULE ShipgateLinkProofs --------------------------
(***************************************************************************)
(* Proofs about Shipgate, for any number of ships, players and blocks, any *)
(* number of faults and queues of any length.                              *)
(*                                                                         *)
(* The list of ships: a ship's directory and what is on its way to the     *)
(* ship together name the ships that are logged in, and no count is read   *)
(* by a ship that does not know whose it is.                               *)
(*                                                                         *)
(* Who is online: online_clients has no ghosts.  Whom a packet on its way  *)
(* puts online has a session, or a later packet takes that player off      *)
(* again, be it behind it in the connection or in sendbuf.  What two       *)
(* threads send may cross only in one place, the list of a block's         *)
(* players, which is sent after the block's lock is let go; "raced" is the *)
(* set of those it may be wrong about.                                     *)
(***************************************************************************)
EXTENDS ShipgateProofs, WellFoundedInduction

-----------------------------------------------------------------------------
(* What a ship will know when it has read a queue.                          *)

\* A ship that has no key (h) hears nothing before its key.
Begun(q, h, j) == h \/ \E m \in 1 .. j - 1 : q[m].type = "LOGIN6OK"
Says(q, h, j, t, i) == q[j].type = t /\ q[j].ship = i /\ Begun(q, h, j)

\* With the directory d, and after k packets, the ship knows of ship i.
Knows(q, h, d, k, i) ==
    \/ \E j \in 1 .. k : Says(q, h, j, "UP", i) /\ \A m \in j + 1 .. k : ~Says(q, h, m, "DOWN", i)
    \/ i \in d /\ \A m \in 1 .. k : ~Says(q, h, m, "DOWN", i)

\* What is put behind a packet does not change what the ship knows when it comes to it.
LEMMA SameFront ==
    ASSUME NEW q, NEW r, NEW h, NEW d, NEW k \in Nat, NEW i,
           \A j \in 1 .. k : r[j] = q[j]
    PROVE  Knows(r, h, d, k, i) <=> Knows(q, h, d, k, i)
<1>1. ASSUME NEW j \in 1 .. k
      PROVE  Begun(r, h, j) <=> Begun(q, h, j)
  BY DEF Begun
<1>2. ASSUME NEW j \in 1 .. k, NEW t
      PROVE  Says(r, h, j, t, i) <=> Says(q, h, j, t, i)
  BY <1>1 DEF Says
<1>3. \A j \in 1 .. k : j \in Nat /\ \A m \in j + 1 .. k : m \in 1 .. k
  OBVIOUS
<1> QED BY <1>2, <1>3 DEF Knows

LEMMA SameBegun ==
    ASSUME NEW q, NEW r, NEW h, NEW k \in Nat, \A j \in 1 .. k - 1 : r[j] = q[j]
    PROVE  Begun(r, h, k) <=> Begun(q, h, k)
BY DEF Begun

\* One packet more.
LEMMA OneMore ==
    ASSUME NEW q, NEW h, NEW d, NEW k \in Nat, NEW i
    PROVE  /\ Says(q, h, k + 1, "UP", i) => Knows(q, h, d, k + 1, i)
           /\ Says(q, h, k + 1, "DOWN", i) => ~Knows(q, h, d, k + 1, i)
           /\ ~Says(q, h, k + 1, "UP", i) /\ ~Says(q, h, k + 1, "DOWN", i)
                => (Knows(q, h, d, k + 1, i) <=> Knows(q, h, d, k, i))
<1>0. ~(Says(q, h, k + 1, "UP", i) /\ Says(q, h, k + 1, "DOWN", i))
  BY DEF Says
<1> DEFINE Up(j) == Says(q, h, j, "UP", i)
           Down(j) == Says(q, h, j, "DOWN", i)
<1>1. ASSUME Up(k + 1) PROVE Knows(q, h, d, k + 1, i)
  <2>1. k + 1 \in 1 .. k + 1 /\ \A m \in (k + 1) + 1 .. k + 1 : FALSE
    OBVIOUS
  <2> QED BY <1>1, <2>1 DEF Knows
<1>2. ASSUME Down(k + 1) PROVE ~Knows(q, h, d, k + 1, i)
  <2> SUFFICES ASSUME Knows(q, h, d, k + 1, i) PROVE FALSE
    OBVIOUS
  <2>1. k + 1 \in 1 .. k + 1
    OBVIOUS
  <2>2. PICK j \in 1 .. k + 1 : Up(j) /\ \A m \in j + 1 .. k + 1 : ~Down(m)
    BY <1>2, <2>1 DEF Knows
  <2>3. j # k + 1
    BY <1>0, <1>2, <2>2
  <2>4. k + 1 \in j + 1 .. k + 1
    BY <2>3
  <2> QED BY <1>2, <2>2, <2>4
<1>3. ASSUME ~Up(k + 1), ~Down(k + 1)
      PROVE  Knows(q, h, d, k + 1, i) <=> Knows(q, h, d, k, i)
  <2> DEFINE U == {j \in Nat : Up(j)}
             D == {j \in Nat : Down(j)}
  <2>1. k + 1 \notin U /\ k + 1 \notin D
    BY <1>3
  <2>2. \A n \in Nat : Knows(q, h, d, n, i)
            <=> \/ \E j \in 1 .. n : j \in U /\ \A m \in j + 1 .. n : m \notin D
                \/ i \in d /\ \A m \in 1 .. n : m \notin D
    BY DEF Knows
  <2> HIDE DEF U, D
  <2>3. \A j \in 1 .. k + 1 : j \in U <=> j \in U /\ j \in 1 .. k
    BY <2>1
  <2>4. \A j \in 1 .. k : (\A m \in j + 1 .. k + 1 : m \notin D)
                            <=> (\A m \in j + 1 .. k : m \notin D)
    BY <2>1
  <2>5. (\A m \in 1 .. k + 1 : m \notin D) <=> (\A m \in 1 .. k : m \notin D)
    BY <2>1
  <2>6. (\E j \in 1 .. k + 1 : j \in U /\ \A m \in j + 1 .. k + 1 : m \notin D)
            <=> (\E j \in 1 .. k : j \in U /\ \A m \in j + 1 .. k : m \notin D)
    BY <2>3, <2>4
  <2>7. k + 1 \in Nat
    OBVIOUS
  <2> HIDE DEF Up, Down
  <2> QED BY <2>2, <2>5, <2>6, <2>7
<1> QED BY <1>1, <1>2, <1>3

\* What the packet read last has done is in the key and in the directory: the rest of the
\* queue, read with these, tells what it told before.
LEMMA TailBegun ==
    ASSUME NEW q \in Seq(ToShipMsg), q # <<>>, NEW h, NEW h2,
           h2 <=> h \/ q[1].type = "LOGIN6OK",
           NEW k \in 1 .. Len(q)
    PROVE  Begun(Tail(q), h2, k) <=> Begun(q, h, k + 1)
<1>1. /\ Len(q) \in Nat
      /\ \A m \in 1 .. Len(q) - 1 : Tail(q)[m] = q[m + 1]
  BY HeadTailProperties, LenProperties
<1>2. (\E m \in 1 .. k - 1 : Tail(q)[m].type = "LOGIN6OK")
        <=> (\E m \in 2 .. k : q[m].type = "LOGIN6OK")
  <2>1. \A m \in 1 .. k - 1 : m + 1 \in 2 .. k /\ Tail(q)[m] = q[m + 1]
    BY <1>1
  <2>2. \A m \in 2 .. k : m - 1 \in 1 .. k - 1 /\ Tail(q)[m - 1] = q[m]
    <3> TAKE m \in 2 .. k
    <3>1. m - 1 \in 1 .. Len(q) - 1 /\ (m - 1) + 1 = m /\ m - 1 \in 1 .. k - 1
      BY <1>1
    <3> QED BY <1>1, <3>1
  <2> QED BY <2>1, <2>2
<1>3. (\E m \in 1 .. (k + 1) - 1 : q[m].type = "LOGIN6OK")
        <=> q[1].type = "LOGIN6OK" \/ \E m \in 2 .. k : q[m].type = "LOGIN6OK"
  <2>1. \A m : m \in 1 .. (k + 1) - 1 <=> m = 1 \/ m \in 2 .. k
    BY <1>1
  <2> QED BY <2>1
<1> QED BY <1>2, <1>3 DEF Begun

\* Whether ship i is known after the first packet, and after a packet on a status.
Learns(q, h, d, i) == Says(q, h, 1, "UP", i) \/ (i \in d /\ ~Says(q, h, 1, "DOWN", i))
Told(m, d, i) == \/ m.type = "UP" /\ m.ship = i
                 \/ i \in d /\ ~(m.type = "DOWN" /\ m.ship = i)

LEMMA TailKnows ==
    ASSUME NEW q \in Seq(ToShipMsg), q # <<>>, NEW h, NEW h2, NEW d, NEW d2, NEW i,
           h2 <=> h \/ q[1].type = "LOGIN6OK",
           i \in d2 <=> Learns(q, h, d, i),
           NEW k \in Nat, k < Len(q)
    PROVE  Knows(Tail(q), h2, d2, k, i) <=> Knows(q, h, d, k + 1, i)
<1> DEFINE U == {j \in Nat : Says(q, h, j, "UP", i)}
           D == {j \in Nat : Says(q, h, j, "DOWN", i)}
           U2 == {j \in Nat : Says(Tail(q), h2, j, "UP", i)}
           D2 == {j \in Nat : Says(Tail(q), h2, j, "DOWN", i)}
           b == i \in d
           b2 == i \in d2
<1>1. /\ Len(q) \in Nat
      /\ \A m \in 1 .. Len(q) - 1 : Tail(q)[m] = q[m + 1]
  BY HeadTailProperties, LenProperties
<1>2. \A j \in 1 .. k : (j \in U2 <=> j + 1 \in U) /\ (j \in D2 <=> j + 1 \in D)
  <2> TAKE j \in 1 .. k
  <2>1. j \in 1 .. Len(q) /\ j \in 1 .. Len(q) - 1 /\ j \in Nat /\ j + 1 \in Nat
    BY <1>1
  <2>2. Tail(q)[j] = q[j + 1] /\ (Begun(Tail(q), h2, j) <=> Begun(q, h, j + 1))
    BY <1>1, <2>1, TailBegun
  <2> QED BY <2>1, <2>2 DEF Says
<1>3. (b2 <=> 1 \in U \/ (b /\ 1 \notin D)) /\ ~(1 \in U /\ 1 \in D)
  BY DEF Says, Learns
<1>4. Knows(Tail(q), h2, d2, k, i)
        <=> \/ \E j \in 1 .. k : j \in U2 /\ \A m \in j + 1 .. k : m \notin D2
            \/ b2 /\ \A m \in 1 .. k : m \notin D2
  BY DEF Knows
<1>5. Knows(q, h, d, k + 1, i)
        <=> \/ \E j \in 1 .. k + 1 : j \in U /\ \A m \in j + 1 .. k + 1 : m \notin D
            \/ b /\ \A m \in 1 .. k + 1 : m \notin D
  BY DEF Knows
<1> HIDE DEF U, D, U2, D2, b, b2
<1>6. \A l \in 0 .. k : (\A m \in l + 1 .. k : m \notin D2)
                          <=> (\A m \in l + 2 .. k + 1 : m \notin D)
  <2> TAKE l \in 0 .. k
  <2>1. \A m \in l + 1 .. k : m + 1 \in l + 2 .. k + 1 /\ m \in 1 .. k
    OBVIOUS
  <2>2. \A m \in l + 2 .. k + 1 : m - 1 \in l + 1 .. k /\ m - 1 \in 1 .. k /\ (m - 1) + 1 = m
    OBVIOUS
  <2> QED BY <1>2, <2>1, <2>2
<1>7. (\A m \in 1 .. k : m \notin D2) <=> (\A m \in 2 .. k + 1 : m \notin D)
  BY <1>6
<1>8. (\E j \in 1 .. k : j \in U2 /\ \A m \in j + 1 .. k : m \notin D2)
        <=> (\E j \in 2 .. k + 1 : j \in U /\ \A m \in j + 1 .. k + 1 : m \notin D)
  <2>1. ASSUME NEW j \in 1 .. k, j \in U2, \A m \in j + 1 .. k : m \notin D2
        PROVE  \E n \in 2 .. k + 1 : n \in U /\ \A m \in n + 1 .. k + 1 : m \notin D
    <3>1. j + 1 \in 2 .. k + 1 /\ j + 1 \in U /\ (j + 1) + 1 = j + 2
      BY <1>2, <2>1
    <3> QED BY <1>6, <2>1, <3>1
  <2>2. ASSUME NEW j \in 2 .. k + 1, j \in U, \A m \in j + 1 .. k + 1 : m \notin D
        PROVE  \E n \in 1 .. k : n \in U2 /\ \A m \in n + 1 .. k : m \notin D2
    <3>1. j - 1 \in 1 .. k /\ j - 1 \in 0 .. k /\ (j - 1) + 1 = j /\ (j - 1) + 2 = j + 1
      OBVIOUS
    <3> QED BY <1>2, <1>6, <2>2, <3>1
  <2> QED BY <2>1, <2>2
<1>9. /\ 1 \in 1 .. k + 1 /\ 1 + 1 = 2
      /\ \A j : j \in 1 .. k + 1 <=> j = 1 \/ j \in 2 .. k + 1
  OBVIOUS
<1>10. (\E j \in 1 .. k + 1 : j \in U /\ \A m \in j + 1 .. k + 1 : m \notin D)
        <=> \/ 1 \in U /\ \A m \in 2 .. k + 1 : m \notin D
            \/ \E j \in 2 .. k + 1 : j \in U /\ \A m \in j + 1 .. k + 1 : m \notin D
  BY <1>9
<1>11. (\A m \in 1 .. k + 1 : m \notin D) <=> 1 \notin D /\ \A m \in 2 .. k + 1 : m \notin D
  BY <1>9
<1> QED BY <1>3, <1>4, <1>5, <1>7, <1>8, <1>10, <1>11

-----------------------------------------------------------------------------
(* Queues that tell the truth.                                              *)

\* A count in the queue is about a ship that is known when it is read.
Sure(q, h, d) ==
    \A k \in 1 .. Len(q) :
        q[k].type = "COUNT" /\ Begun(q, h, k) => Knows(q, h, d, k - 1, q[k].ship)

\* At the end of the queue the ship knows the ships "up".
Agrees(q, h, d, up) ==
    /\ Begun(q, h, Len(q) + 1)
    /\ \A i \in Ships : i \in up <=> Knows(q, h, d, Len(q), i)

\* h2 and d2 are what h and d become when the first packet is read.
HasRead(q, h, d, h2, d2) ==
    /\ h2 <=> h \/ q[1].type = "LOGIN6OK"
    /\ \A i \in Ships : i \in d2 <=> Learns(q, h, d, i)

LEMMA SureTold ==
    ASSUME NEW q \in Seq(ToShipMsg), NEW y \in Seq(ToShipMsg), NEW h, NEW d, Sure(q, h, d),
           \A k \in 1 .. Len(y) : y[k].type = "COUNT" =>
                k = 1 /\ (Begun(q, h, Len(q) + 1) => Knows(q, h, d, Len(q), y[k].ship))
    PROVE  Sure(q \o y, h, d)
<1> DEFINE r == q \o y
<1>1. /\ Len(q) \in Nat /\ Len(y) \in Nat /\ Len(r) = Len(q) + Len(y)
      /\ \A k \in 1 .. Len(q) : r[k] = q[k]
      /\ \A k \in Len(q) + 1 .. Len(r) : r[k] = y[k - Len(q)]
  BY LenProperties, ConcatProperties
<1> HIDE DEF r
<1> SUFFICES ASSUME NEW k \in 1 .. Len(r), r[k].type = "COUNT", Begun(r, h, k)
             PROVE  Knows(r, h, d, k - 1, r[k].ship)
  BY DEF Sure, r
<1>2. CASE k <= Len(q)
  <2>1. k \in 1 .. Len(q) /\ k - 1 \in Nat /\ k \in Nat
    BY <1>1, <1>2
  <2>2. r[k] = q[k] /\ \A j \in 1 .. k - 1 : r[j] = q[j]
    BY <1>1, <2>1
  <2>3. Begun(q, h, k)
    BY <2>1, <2>2, SameBegun
  <2>4. Knows(q, h, d, k - 1, q[k].ship)
    BY <2>1, <2>2, <2>3 DEF Sure
  <2> QED BY <2>1, <2>2, <2>4, SameFront
<1>3. CASE k > Len(q)
  <2>1. k \in Len(q) + 1 .. Len(r) /\ k - Len(q) \in 1 .. Len(y)
    BY <1>1, <1>3
  <2>2. r[k] = y[k - Len(q)]
    BY <1>1, <2>1
  <2>3. k - Len(q) = 1
    BY <2>1, <2>2
  <2>4. k = Len(q) + 1 /\ k - 1 = Len(q) /\ k \in Nat /\ k - 1 \in Nat
    BY <1>1, <2>1, <2>3
  <2>5. \A j \in 1 .. k - 1 : r[j] = q[j]
    BY <1>1, <2>4
  <2>6. Begun(q, h, Len(q) + 1)
    BY <2>4, <2>5, SameBegun
  <2>7. Knows(q, h, d, k - 1, r[k].ship)
    BY <2>1, <2>2, <2>4, <2>6
  <2> QED BY <2>4, <2>5, <2>7, SameFront
<1> QED BY <1>1, <1>2, <1>3

LEMMA SureRead ==
    ASSUME NEW q \in Seq(ToShipMsg), q # <<>>, NEW h, NEW h2, NEW d, NEW d2,
           HasRead(q, h, d, h2, d2),
           Sure(q, h, d)
    PROVE  Sure(Tail(q), h2, d2)
<1>0. h2 <=> h \/ q[1].type = "LOGIN6OK"
  BY DEF HasRead
<1>1. /\ Len(q) \in Nat /\ Len(q) # 0 /\ Len(Tail(q)) = Len(q) - 1
      /\ \A m \in 1 .. Len(q) - 1 : Tail(q)[m] = q[m + 1]
      /\ \A m \in 1 .. Len(q) : q[m] \in ToShipMsg
  BY HeadTailProperties, LenProperties, EmptySeq, ElementOfSeq
<1> SUFFICES ASSUME NEW k \in 1 .. Len(q) - 1, Tail(q)[k].type = "COUNT",
                    Begun(Tail(q), h2, k)
             PROVE  Knows(Tail(q), h2, d2, k - 1, Tail(q)[k].ship)
  BY <1>1 DEF Sure
<1>2. /\ k \in 1 .. Len(q) /\ k + 1 \in 1 .. Len(q) /\ (k + 1) - 1 = k
      /\ k - 1 \in Nat /\ k - 1 < Len(q) /\ (k - 1) + 1 = k
  BY <1>1
<1>3. Tail(q)[k] = q[k + 1] /\ q[k + 1].type = "COUNT" /\ q[k + 1].ship \in Ships
  BY <1>1, <1>2, ToShipFields
<1>4. Begun(q, h, k + 1)
  BY <1>2, TailBegun DEF HasRead
<1>5. Knows(q, h, d, k, q[k + 1].ship)
  BY <1>2, <1>3, <1>4 DEF Sure
<1> DEFINE i == q[k + 1].ship
<1>6. i \in d2 <=> Learns(q, h, d, i)
  BY <1>3 DEF HasRead
<1> HIDE DEF i
<1>7. Knows(Tail(q), h2, d2, k - 1, i) <=> Knows(q, h, d, (k - 1) + 1, i)
  BY <1>2, <1>6, <1>0, TailKnows
<1> QED BY <1>2, <1>3, <1>5, <1>7 DEF i

LEMMA AgreesTold ==
    ASSUME NEW q \in Seq(ToShipMsg), NEW m \in ToShipMsg, NEW h, NEW d,
           NEW up, NEW up2, Agrees(q, h, d, up),
           \A i \in Ships : i \in up2 <=> Told(m, up, i)
    PROVE  Agrees(q \o <<m>>, h, d, up2)
<1> DEFINE r == q \o <<m>>
           n == Len(q)
<1>1. /\ n \in Nat /\ Len(r) = n + 1 /\ r[n + 1] = m
      /\ \A k \in 1 .. n : r[k] = q[k]
  BY LenProperties, ConcatProperties, OneMessage
<1> HIDE DEF r, n
<1>2. Begun(r, h, n + 1) /\ Begun(r, h, (n + 1) + 1)
  <2>1. Begun(q, h, n + 1)
    BY DEF Agrees, n
  <2>2. n + 1 \in Nat /\ (n + 1) - 1 = n
    BY <1>1
  <2>3. Begun(r, h, n + 1)
    BY <1>1, <2>1, <2>2, SameBegun
  <2>4. \A j \in 1 .. (n + 1) - 1 : j \in 1 .. ((n + 1) + 1) - 1
    BY <1>1
  <2> QED BY <2>3, <2>4 DEF Begun
<1>3. ASSUME NEW i \in Ships PROVE i \in up2 <=> Knows(r, h, d, n + 1, i)
  <2>1. i \in up <=> Knows(r, h, d, n, i)
    <3>1. i \in up <=> Knows(q, h, d, n, i)
      BY DEF Agrees, n
    <3> QED BY <1>1, <3>1, SameFront
  <2>2. /\ Says(r, h, n + 1, "UP", i) <=> m.type = "UP" /\ m.ship = i
        /\ Says(r, h, n + 1, "DOWN", i) <=> m.type = "DOWN" /\ m.ship = i
    BY <1>1, <1>2 DEF Says
  <2> QED BY <1>1, <2>1, <2>2, OneMore DEF Told
<1> QED BY <1>1, <1>2, <1>3 DEF Agrees, r

LEMMA AgreesRead ==
    ASSUME NEW q \in Seq(ToShipMsg), q # <<>>, NEW h, NEW h2, NEW d, NEW d2, NEW up,
           HasRead(q, h, d, h2, d2),
           Agrees(q, h, d, up)
    PROVE  Agrees(Tail(q), h2, d2, up)
<1>0. h2 <=> h \/ q[1].type = "LOGIN6OK"
  BY DEF HasRead
<1>1. Len(q) \in Nat /\ Len(q) # 0 /\ Len(Tail(q)) = Len(q) - 1
  BY HeadTailProperties, LenProperties, EmptySeq
<1>2. /\ Len(q) - 1 \in Nat /\ Len(q) - 1 < Len(q) /\ (Len(q) - 1) + 1 = Len(q)
      /\ Len(q) \in 1 .. Len(q)
  BY <1>1
<1>3. Begun(Tail(q), h2, Len(q))
  BY <1>2, TailBegun DEF Agrees, HasRead
<1>4. ASSUME NEW i \in Ships PROVE i \in up <=> Knows(Tail(q), h2, d2, Len(q) - 1, i)
  <2>1. Knows(Tail(q), h2, d2, Len(q) - 1, i) <=> Knows(q, h, d, (Len(q) - 1) + 1, i)
    <3>1. i \in d2 <=> Learns(q, h, d, i)
      BY DEF HasRead
    <3> QED BY <1>0, <1>2, <3>1, TailKnows
  <2> QED BY <1>2, <2>1 DEF Agrees
<1> QED BY <1>1, <1>2, <1>3, <1>4 DEF Agrees

\* What a ship hears when it logs in: all who are there, itself among them, and no more.
Introduction(order) == [k \in DOMAIN order |-> [type |-> "UP", ship |-> order[k]]]

LEMMA AgreesLogin ==
    ASSUME NEW q \in Seq(ToShipMsg), NEW h, NEW d, NEW up \in SUBSET Ships, NEW n \in Nat,
           NEW order \in [1 .. n -> up], \A i \in up : \E k \in 1 .. n : order[k] = i,
           \A i \in Ships \ up : ~Knows(q, h, d, Len(q), i),
           NEW y \in Seq(ToShipMsg), y = Introduction(order)
    PROVE  Agrees((q \o <<[type |-> "LOGIN6OK"]>>) \o y, h, d, up)
<1> DEFINE ok == [type |-> "LOGIN6OK"]
           p == q \o <<ok>>
           r == p \o y
           l == Len(q)
<1>1. p \in Seq(ToShipMsg) /\ Len(p) = l + 1 /\ l \in Nat /\ p[l + 1] = ok
      /\ \A k \in 1 .. l : p[k] = q[k]
  BY ToShipMessages, OneMessage, LenProperties, ConcatProperties
<1>2. Len(y) = n /\ \A k \in 1 .. n : y[k] = [type |-> "UP", ship |-> order[k]]
  <2>1. DOMAIN y = 1 .. n
    BY DEF Introduction
  <2>2. Len(y) \in Nat /\ DOMAIN y = 1 .. Len(y)
    BY LenProperties
  <2>3. Len(y) = n
    BY <2>1, <2>2
  <2> QED BY <2>3 DEF Introduction
<1>3. /\ Len(r) = l + 1 + n
      /\ \A k \in 1 .. l + 1 + n : r[k] = IF k <= l + 1 THEN p[k] ELSE y[k - (l + 1)]
  <2>1. /\ Len(r) = Len(p) + Len(y)
        /\ \A k \in 1 .. Len(p) + Len(y) : r[k] = IF k <= Len(p) THEN p[k] ELSE y[k - Len(p)]
    <3>1. p \in Seq(ToShipMsg)
      BY <1>1
    <3> HIDE DEF p
    <3> QED BY <3>1, ConcatProperties
  <2>2. Len(p) + Len(y) = l + 1 + n
    BY <1>1, <1>2
  <2> HIDE DEF p, r, l
  <2> QED BY <1>1, <2>1, <2>2
<1> HIDE DEF p, r, l
<1>4. /\ r[l + 1] = ok /\ \A k \in 1 .. l : r[k] = q[k]
      /\ \A k \in 1 .. n : r[l + 1 + k] = y[k]
  <2>1. \A k \in 1 .. l + 1 : k \in 1 .. l + 1 + n /\ k <= l + 1
    BY <1>1
  <2>2. \A k \in 1 .. l : k \in 1 .. l + 1
    BY <1>1
  <2>3. l + 1 \in 1 .. l + 1
    BY <1>1
  <2>4. ASSUME NEW k \in 1 .. n PROVE r[l + 1 + k] = y[k]
    <3>1. /\ l + 1 + k \in 1 .. l + 1 + n /\ ~(l + 1 + k <= l + 1)
          /\ (l + 1 + k) - (l + 1) = k
      BY <1>1
    <3> QED BY <1>3, <3>1
  <2> QED BY <1>1, <1>3, <2>1, <2>2, <2>3, <2>4
<1>5. \A k \in l + 1 + 1 .. l + 1 + n + 1 : Begun(r, h, k)
  <2>1. \A k \in l + 1 + 1 .. l + 1 + n + 1 : l + 1 \in 1 .. k - 1
    BY <1>1
  <2> QED BY <1>4, <2>1 DEF Begun
<1>6. ASSUME NEW i \in up PROVE Knows(r, h, d, l + 1 + n, i)
  <2>1. PICK k \in 1 .. n : order[k] = i
    OBVIOUS
  <2>2. l + 1 + k \in 1 .. l + 1 + n /\ l + 1 + k \in l + 1 + 1 .. l + 1 + n + 1
    BY <1>1
  <2>3. Says(r, h, l + 1 + k, "UP", i)
    BY <1>2, <1>4, <1>5, <2>1, <2>2 DEF Says
  <2>4. ASSUME NEW m \in (l + 1 + k) + 1 .. l + 1 + n PROVE ~Says(r, h, m, "DOWN", i)
    <3>1. m - (l + 1) \in 1 .. n /\ l + 1 + (m - (l + 1)) = m
      BY <1>1
    <3>2. r[m].type = "UP"
      BY <1>2, <1>4, <3>1
    <3> QED BY <3>2 DEF Says
  <2> QED BY <2>2, <2>3, <2>4 DEF Knows
<1>7. ASSUME NEW i \in Ships \ up PROVE ~Knows(r, h, d, l + 1 + n, i)
  <2>1. \A j \in 1 .. n : ~Says(r, h, l + 1 + j, "UP", i) /\ ~Says(r, h, l + 1 + j, "DOWN", i)
    <3> TAKE j \in 1 .. n
    <3>1. r[l + 1 + j].type = "UP" /\ r[l + 1 + j].ship = order[j]
      BY <1>2, <1>4
    <3> QED BY <1>7, <3>1 DEF Says
  <2>2. ~Says(r, h, l + 1, "UP", i) /\ ~Says(r, h, l + 1, "DOWN", i)
    BY <1>4 DEF Says
  <2>3. ASSUME NEW j \in l + 1 .. l + 1 + n
        PROVE  ~Says(r, h, j, "UP", i) /\ ~Says(r, h, j, "DOWN", i)
    <3>1. j = l + 1 \/ (j - (l + 1) \in 1 .. n /\ l + 1 + (j - (l + 1)) = j)
      BY <1>1
    <3> QED BY <2>1, <2>2, <3>1
  <2>4. ~Knows(r, h, d, l, i)
    <3>1. ~Knows(q, h, d, l, i)
      BY <1>7 DEF l
    <3> QED BY <1>1, <1>4, <3>1, SameFront
  <2>5. Knows(r, h, d, l + 1 + n, i) => Knows(r, h, d, l, i)
    <3> DEFINE U == {j \in Nat : Says(r, h, j, "UP", i)}
               D == {j \in Nat : Says(r, h, j, "DOWN", i)}
    <3>1. \A k \in Nat : Knows(r, h, d, k, i)
              <=> \/ \E j \in 1 .. k : j \in U /\ \A m \in j + 1 .. k : m \notin D
                  \/ i \in d /\ \A m \in 1 .. k : m \notin D
      BY DEF Knows
    <3>2. \A j \in l + 1 .. l + 1 + n : j \notin U
      BY <2>3
    <3> HIDE DEF U, D
    <3>3. l + 1 + n \in Nat /\ \A j \in 1 .. l + 1 + n : j \in 1 .. l \/ j \in l + 1 .. l + 1 + n
      BY <1>1
    <3>4. \A j \in 1 .. l : \A m \in j + 1 .. l : m \in j + 1 .. l + 1 + n
      BY <1>1
    <3>5. \A m \in 1 .. l : m \in 1 .. l + 1 + n
      BY <1>1
    <3>6. ASSUME NEW j \in 1 .. l + 1 + n, j \in U, \A m \in j + 1 .. l + 1 + n : m \notin D
          PROVE  Knows(r, h, d, l, i)
      <4>1. j \in 1 .. l
        BY <3>2, <3>3, <3>6
      <4> QED BY <1>1, <3>1, <3>4, <3>6, <4>1
    <3>7. ASSUME i \in d, \A m \in 1 .. l + 1 + n : m \notin D
          PROVE  Knows(r, h, d, l, i)
      BY <1>1, <3>1, <3>5, <3>7
    <3> QED BY <3>1, <3>3, <3>6, <3>7
  <2> QED BY <2>4, <2>5
<1>8. Begun(r, h, Len(r) + 1) /\ Len(r) = l + 1 + n
  <2>1. l + 1 + n + 1 \in l + 1 + 1 .. l + 1 + n + 1
    BY <1>1
  <2> QED BY <1>3, <1>5, <2>1
<1> QED BY <1>6, <1>7, <1>8 DEF Agrees, r, p

-----------------------------------------------------------------------------
(* The directories of the ships.                                            *)

Link(s) ==
    sock[s] =>
        /\ Sure(toShip[s], hasKey[s], directory[s])
        /\ conn[s] = "in" => Agrees(toShip[s], hasKey[s], directory[s], In)

\* A ship without a key knows nobody.
Unkeyed(s) == ~hasKey[s] => directory[s] = {}

LinkInv == IInv /\ \A s \in Ships : Link(s) /\ Unkeyed(s)

LEMMA LinkKept ==
    ASSUME NEW s, Link(s), sock'[s] => sock[s], toShip'[s] = toShip[s],
           hasKey'[s] = hasKey[s], directory'[s] = directory[s],
           conn'[s] = "in" => conn[s] = "in" /\ In' = In
    PROVE  Link(s)'
BY DEF Link

\* The key and the directory after a packet was read.
LEMMA ReadLinks ==
    ASSUME TypeOK, NEW s \in Ships, Link(s), Unkeyed(s), Reads(s), sock'[s] => sock[s],
           conn' = conn,
           \/ ~hasKey[s] /\ (hasKey'[s] <=> Got(s).type = "LOGIN6OK") /\ directory'[s] = directory[s]
           \/ /\ hasKey[s] /\ hasKey'[s]
              /\ directory'[s] = CASE Got(s).type = "UP" -> directory[s] \cup {Got(s).ship}
                                   [] Got(s).type = "DOWN" -> directory[s] \ {Got(s).ship}
                                   [] OTHER -> directory[s]
    PROVE  Link(s)'
<1> DEFINE q == toShip[s]
           h == hasKey[s]
           h2 == hasKey'[s]
           d == directory[s]
           d2 == directory'[s]
<1>1. q \in Seq(ToShipMsg) /\ q # <<>> /\ toShip'[s] = Tail(q) /\ Got(s) = q[1]
      /\ Got(s) \in ToShipMsg
  <2>1. toShip \in [Ships -> Seq(ToShipMsg)] /\ q # <<>>
    BY DEF TypeOK, Reads
  <2>2. Head(q) = q[1]
    BY <2>1, Shortened
  <2> QED BY <2>1, <2>2, ReadTyped DEF Reads, Got
<1>2. h2 <=> h \/ q[1].type = "LOGIN6OK"
  BY <1>1
<1>3. ASSUME NEW i \in Ships
      PROVE  i \in d2 <=> Learns(q, h, d, i)
  <2>1. Begun(q, h, 1) <=> h
    BY DEF Begun
  <2>2. CASE ~h
    BY <2>1, <2>2 DEF Says, Learns
  <2>3. CASE h
    <3>1. i \in d2 <=> Told(Got(s), d, i)
      <4>1. CASE Got(s).type = "UP"
        BY <2>3, <4>1 DEF Told
      <4>2. CASE Got(s).type = "DOWN"
        BY <2>3, <4>2 DEF Told
      <4>3. CASE Got(s).type # "UP" /\ Got(s).type # "DOWN"
        BY <2>3, <4>3 DEF Told
      <4> QED BY <4>1, <4>2, <4>3
    <3> QED BY <1>1, <2>1, <2>3, <3>1 DEF Says, Learns, Told
  <2> QED BY <2>2, <2>3
<1>4. In' = In
  BY DEF In
<1> HIDE DEF q, d, d2
<1>5. HasRead(q, h, d, h2, d2)
  BY <1>2, <1>3 DEF HasRead
<1>6. Sure(q, h, d) => Sure(Tail(q), h2, d2)
  BY <1>1, <1>5, SureRead
<1>7. Agrees(q, h, d, In) => Agrees(Tail(q), h2, d2, In)
  BY <1>1, <1>5, AgreesRead
<1> QED BY <1>1, <1>4, <1>6, <1>7 DEF Link, q, d, d2

\* What the shipgate tells a ship about the ships that are in.
LEMMA LinkTold ==
    ASSUME TypeOK, Greeted, NEW s \in Ships, Link(s), NEW m \in ToShipMsg,
           toShip'[s] = toShip[s] \o <<m>>,
           sock'[s] = sock[s], hasKey'[s] = hasKey[s], directory'[s] = directory[s],
           conn'[s] = conn[s], conn[s] # "none",
           m.type = "COUNT" => m.ship \in In,
           \A i \in Ships : i \in In' <=> Told(m, In, i)
    PROVE  Link(s)'
<1> DEFINE q == toShip[s]
           h == hasKey[s]
           d == directory[s]
<1>1. q \in Seq(ToShipMsg) /\ <<m>> \in Seq(ToShipMsg) /\ Len(<<m>>) = 1 /\ <<m>>[1] = m
      /\ Len(q) \in Nat /\ DOMAIN q = 1 .. Len(q)
  BY OneMessage, LenProperties DEF TypeOK
<1>2. ASSUME sock[s], conn[s] = "in" PROVE Agrees(q \o <<m>>, h, d, In')
  <2>1. Agrees(q, h, d, In)
    BY <1>2 DEF Link
  <2> HIDE DEF q, h, d
  <2> QED BY <1>1, <2>1, AgreesTold
<1>3. ASSUME sock[s], m.type = "COUNT", Begun(q, h, Len(q) + 1)
      PROVE  Knows(q, h, d, Len(q), m.ship)
  <2>1. conn[s] = "in"
    <3>1. ASSUME conn[s] = "greeted" PROVE FALSE
      <4>1. ~h /\ NoReply(q)
        BY <3>1 DEF Greeted, Hello
      <4>2. \A k \in 1 .. (Len(q) + 1) - 1 : k \in 1 .. Len(q)
        BY <1>1
      <4> QED BY <1>1, <1>3, <4>1, <4>2 DEF Begun, NoReply
    <3> QED BY <3>1 DEF TypeOK
  <2>2. m.ship \in Ships /\ m.ship \in In
    BY <1>3 DEF In
  <2> QED BY <1>3, <2>1, <2>2 DEF Link, Agrees
<1>4. ASSUME sock[s] PROVE Sure(q \o <<m>>, h, d)
  <2>1. Sure(q, h, d)
    BY <1>4 DEF Link
  <2>2. \A k \in 1 .. Len(<<m>>) : k = 1 /\ <<m>>[k] = m
    BY <1>1
  <2>3. m.type = "COUNT" /\ Begun(q, h, Len(q) + 1) => Knows(q, h, d, Len(q), m.ship)
    BY <1>3, <1>4
  <2> HIDE DEF q, h, d
  <2> QED BY <1>1, <2>1, <2>2, <2>3, SureTold
<1> QED BY <1>2, <1>4 DEF Link

LEMMA LinkGateLogin ==
    ASSUME IInv, NEW s \in Ships, GateLogin(s), NEW i \in Ships, Link(i), Unkeyed(i)
    PROVE  Link(i)'
<1> DEFINE up == In \cup {s}
           tidings == [type |-> "UP", ship |-> s]
<1>0. TypeOK /\ Greeted
  BY DEF IInv
<1>1. /\ sock'[i] = sock[i] /\ hasKey'[i] = hasKey[i] /\ directory'[i] = directory[i]
      /\ conn' = [conn EXCEPT ![s] = "in"] /\ conn[s] # "none"
  BY DEF GateLogin, Receives, shipVars
<1>2. In' = up
  BY <1>0, <1>1 DEF In, TypeOK
<1>3. PICK order \in [1 .. Cardinality(up) -> up] :
        /\ \A j \in up : \E k \in DOMAIN order : order[k] = j
        /\ toShip' = [Tell(Connections, <<tidings>>) EXCEPT
                        ![s] = toShip[s] \o <<[type |-> "LOGIN6OK"]>> \o Introduction(order)]
  BY DEF GateLogin, Introduction
<1>4. CASE i # s /\ i \in Connections
  <2>1. toShip'[i] = toShip[i] \o <<tidings>>
    BY <1>3, <1>4 DEF Tell
  <2>2. conn'[i] = conn[i] /\ conn[i] # "none" /\ tidings \in ToShipMsg
    BY <1>0, <1>1, <1>4, ToShipMessages DEF Connections, TypeOK
  <2>3. \A j \in Ships : j \in In' <=> Told(tidings, In, j)
    BY <1>2 DEF Told
  <2>4. tidings.type # "COUNT"
    OBVIOUS
  <2> HIDE DEF tidings
  <2> QED BY <1>0, <1>1, <2>1, <2>2, <2>3, <2>4, LinkTold
<1>5. CASE i # s /\ i \notin Connections
  <2>1. conn'[i] # "in"
    BY <1>0, <1>1, <1>5 DEF Connections, TypeOK
  <2>2. toShip'[i] = toShip[i]
    BY <1>3, <1>5 DEF Tell
  <2> QED BY <1>1, <2>1, <2>2, LinkKept
<1>6. CASE i = s
  <2> DEFINE q == toShip[s]
             d == directory[s]
             h == hasKey[s]
             ok == [type |-> "LOGIN6OK"]
             y == Introduction(order)
  <2>1. /\ q \in Seq(ToShipMsg) /\ y \in Seq(ToShipMsg)
        /\ <<ok>> \in Seq(ToShipMsg) /\ q \o <<ok>> \in Seq(ToShipMsg)
    <3>1. q \in Seq(ToShipMsg)
      BY <1>0 DEF TypeOK
    <3>2. y \in Seq(ToShipMsg)
      BY <1>0, IntroducedTyped DEF Introduction
    <3>3. <<ok>> \in Seq(ToShipMsg)
      BY ToShipMessages, OneMessage
    <3> QED BY <3>1, <3>2, <3>3, Joined
  <2>2. toShip'[s] = (q \o <<ok>>) \o y
    BY <1>0, <1>3 DEF Tell
  <2>3. up \in SUBSET Ships /\ Cardinality(up) \in Nat
    <3>1. up \in SUBSET Ships
      BY DEF In
    <3> QED BY <3>1, ShipgateAssumption, FS_Subset, FS_CardinalityType
  <2>4. ASSUME sock[s] PROVE Sure((q \o <<ok>>) \o y, h, d)
    <3>1. Sure(q, h, d)
      BY <1>6, <2>4 DEF Link
    <3>2. \A k \in 1 .. Len(<<ok>>) : <<ok>>[k].type # "COUNT"
      OBVIOUS
    <3>3. \A k \in 1 .. Len(y) : y[k].type # "COUNT"
      <4>1. DOMAIN y = 1 .. Len(y)
        BY <2>1, LenProperties
      <4> QED BY <4>1 DEF Introduction
    <3> HIDE DEF q, d, h, ok, y
    <3>4. Sure(q \o <<ok>>, h, d)
      BY <2>1, <3>1, <3>2, SureTold
    <3> QED BY <2>1, <3>3, <3>4, SureTold
  <2>5. ASSUME sock[s] PROVE Agrees((q \o <<ok>>) \o y, h, d, up)
    <3>1. \A j \in Ships \ up : ~Knows(q, h, d, Len(q), j)
      <4>1. CASE conn[s] = "in"
        BY <1>6, <2>5, <4>1 DEF Link, Agrees
      <4>2. CASE conn[s] = "greeted"
        <5>1. ~h /\ NoReply(q) /\ d = {}
          BY <1>0, <1>6, <4>2 DEF Greeted, Hello, Unkeyed
        <5>2. DOMAIN q = 1 .. Len(q) /\ Len(q) \in Nat
          BY <2>1, LenProperties
        <5>3. \A k \in 1 .. Len(q) : ~Begun(q, h, k)
          <6>1. \A k \in 1 .. Len(q) : \A m \in 1 .. k - 1 : m \in 1 .. Len(q)
            BY <5>2
          <6> QED BY <5>1, <5>2, <6>1 DEF Begun, NoReply
        <5> QED BY <5>1, <5>3 DEF Knows, Says
      <4> QED BY <1>0, <1>1, <4>1, <4>2 DEF TypeOK
    <3>2. DOMAIN order = 1 .. Cardinality(up)
      OBVIOUS
    <3>3. \A j \in up : \E k \in 1 .. Cardinality(up) : order[k] = j
      BY <1>3, <3>2
    <3> HIDE DEF q, d, h, up
    <3> QED BY <2>1, <2>3, <3>1, <3>3, AgreesLogin
  <2> QED BY <1>1, <1>2, <1>6, <2>2, <2>4, <2>5 DEF Link
<1> QED BY <1>4, <1>5, <1>6

LEMMA LinkDestroy ==
    ASSUME IInv, NEW s \in Ships, Destroy(s), NEW i \in Ships, Link(i)
    PROVE  Link(i)'
<1> DEFINE tidings == [type |-> "DOWN", ship |-> s]
<1>0. TypeOK /\ Greeted
  BY DEF IInv
<1>1. /\ sock'[i] = sock[i] /\ hasKey'[i] = hasKey[i] /\ directory'[i] = directory[i]
      /\ conn' = [conn EXCEPT ![s] = "none"]
  BY DEF Destroy, shipVars
<1>2. In' = In \ {s}
  BY <1>0, <1>1 DEF In, TypeOK
<1>3. CASE i # s /\ i \in Connections /\ conn[s] = "in"
  <2>1. toShip'[i] = toShip[i] \o <<tidings>>
    BY <1>3 DEF Destroy, Tell
  <2>2. conn'[i] = conn[i] /\ conn[i] # "none" /\ tidings \in ToShipMsg
    BY <1>0, <1>1, <1>3, ToShipMessages DEF Connections, TypeOK
  <2>3. \A j \in Ships : j \in In' <=> Told(tidings, In, j)
    BY <1>2 DEF Told
  <2>4. tidings.type # "COUNT"
    OBVIOUS
  <2> HIDE DEF tidings
  <2> QED BY <1>0, <1>1, <2>1, <2>2, <2>3, <2>4, LinkTold
<1>4. CASE i = s \/ i \notin Connections
  <2>1. conn'[i] # "in"
    BY <1>0, <1>1, <1>4 DEF Connections, TypeOK
  <2>2. toShip'[i] = toShip[i]
    BY <1>0, <1>4 DEF Destroy, Tell, TypeOK
  <2> QED BY <1>1, <2>1, <2>2, LinkKept
<1>5. CASE i # s /\ conn[s] # "in"
  <2>1. toShip'[i] = toShip[i] /\ conn'[i] = conn[i] /\ In' = In
    BY <1>0, <1>1, <1>2, <1>5 DEF Destroy, TypeOK, In
  <2> QED BY <1>1, <2>1, LinkKept
<1> QED BY <1>3, <1>4, <1>5

\* A packet of s that is no login is read, and those in "to" hear m.
LEMMA LinkReceive ==
    ASSUME IInv, NEW s \in Ships, Receives(s), UNCHANGED <<shipVars, conn>>,
           NEW i \in Ships, Link(i),
           \/ UNCHANGED toShip
           \/ \E to \in SUBSET Connections, m \in ToShipMsg :
                /\ toShip' = Tell(to, <<m>>) /\ m.type \notin {"UP", "DOWN"}
                /\ m.type = "COUNT" => m.ship \in In
    PROVE  Link(i)'
<1>0. TypeOK /\ Greeted
  BY DEF IInv
<1>1. /\ sock'[i] = sock[i] /\ hasKey'[i] = hasKey[i] /\ directory'[i] = directory[i]
      /\ conn'[i] = conn[i] /\ In' = In
  BY DEF shipVars, In
<1>2. CASE toShip'[i] = toShip[i]
  BY <1>1, <1>2, LinkKept
<1>3. ASSUME NEW to \in SUBSET Connections, NEW m \in ToShipMsg,
             toShip' = Tell(to, <<m>>), m.type \notin {"UP", "DOWN"},
             m.type = "COUNT" => m.ship \in In
      PROVE  Link(i)'
  <2>1. CASE i \in to
    <3>1. toShip'[i] = toShip[i] \o <<m>> /\ conn[i] # "none"
      BY <1>3, <2>1 DEF Tell, Connections
    <3>2. \A j \in Ships : j \in In' <=> Told(m, In, j)
      BY <1>1, <1>3 DEF Told
    <3> QED BY <1>0, <1>1, <1>3, <3>1, <3>2, LinkTold
  <2>2. CASE i \notin to
    BY <1>2, <1>3, <2>2 DEF Tell
  <2> QED BY <2>1, <2>2
<1> QED BY <1>2, <1>3

LEMMA LinkReads ==
    ASSUME TypeOK, NEW s \in Ships, NEW i \in Ships, Link(i), Unkeyed(i),
           \/ Ignore(s) \/ HandleLogin(s) \/ HandleLoginReply(s)
           \/ HandleStatus(s) \/ HandleCount(s) \/ HandleRefused(s)
    PROVE  Link(i)'
<1>0. Reads(s) /\ conn' = conn /\ In' = In /\ sock[s]
  BY DEF Ignore, HandleLogin, HandleLoginReply, HandleStatus, HandleCount, HandleRefused, In,
         Reads
<1>1. CASE i # s
  <2>1. sock'[i] = sock[i] /\ hasKey'[i] = hasKey[i] /\ directory'[i] = directory[i]
    BY <1>1 DEF Ignore, HandleLogin, HandleLoginReply, HandleStatus, HandleCount,
                HandleRefused, TypeOK, shipVars
  <2>2. toShip'[i] = toShip[i]
    BY <1>0, <1>1 DEF Reads, TypeOK
  <2> QED BY <1>0, <2>1, <2>2, LinkKept
<1>2. CASE i = s
  <2>1. CASE ~hasKey[s]
    <3>1. directory'[s] = directory[s]
      BY <2>1 DEF Ignore, HandleLogin, HandleLoginReply, HandleStatus, HandleCount,
                  HandleRefused, shipVars
    <3>2. hasKey'[s] <=> Got(s).type = "LOGIN6OK"
      <4>1. CASE HandleLoginReply(s)
        BY <4>1 DEF HandleLoginReply, TypeOK
      <4>2. CASE Ignore(s) \/ HandleLogin(s)
        BY <2>1, <4>2 DEF Ignore, HandleLogin, shipVars
      <4> QED BY <2>1, <4>1, <4>2 DEF HandleStatus, HandleCount, HandleRefused
    <3> QED BY <1>0, <1>2, <2>1, <3>1, <3>2, ReadLinks
  <2>2. CASE hasKey[s]
    <3>1. hasKey'[s]
      BY <2>2 DEF Ignore, HandleLogin, HandleLoginReply, HandleStatus, HandleCount,
                  HandleRefused
    <3>2. directory'[s] = CASE Got(s).type = "UP" -> directory[s] \cup {Got(s).ship}
                            [] Got(s).type = "DOWN" -> directory[s] \ {Got(s).ship}
                            [] OTHER -> directory[s]
      <4>1. CASE HandleStatus(s)
        <5>1. directory'[s] = IF Got(s).type = "UP" THEN directory[s] \cup {Got(s).ship}
                              ELSE directory[s] \ {Got(s).ship}
          BY <4>1 DEF HandleStatus, TypeOK
        <5>2. Got(s).type \in {"UP", "DOWN"}
          BY <4>1 DEF HandleStatus
        <5>3. CASE Got(s).type = "UP"
          BY <5>1, <5>3
        <5>4. CASE Got(s).type = "DOWN"
          BY <5>1, <5>4
        <5> QED BY <5>2, <5>3, <5>4
      <4>2. CASE HandleCount(s) \/ HandleRefused(s)
        <5>1. directory' = directory /\ Got(s).type # "UP" /\ Got(s).type # "DOWN"
          BY <4>2 DEF HandleCount, HandleRefused
        <5> QED BY <5>1
      <4> QED BY <2>2, <4>1, <4>2 DEF Ignore, HandleLogin, HandleLoginReply
    <3> QED BY <1>0, <1>2, <2>2, <3>1, <3>2, ReadLinks
  <2> QED BY <2>1, <2>2
<1> QED BY <1>1, <1>2

LEMMA LinkStep ==
    ASSUME IInv, Next, NEW i \in Ships, Link(i), Unkeyed(i)
    PROVE  Link(i)'
<1>0. TypeOK /\ Connecting /\ Greeted
  BY DEF IInv
<1>1. ASSUME NEW s \in Ships,
             \/ BlockThreads(s) \/ NotConnected(s) \/ Cut(s)
             \/ SendPkts(s) \/ Unlock(s) \/ SendClients(s)
      PROVE  Link(i)'
  <2>1. UNCHANGED <<sock, hasKey, directory, conn, toShip>>
    BY <1>1 DEF BlockThreads, Count, Login, Logout, NotConnected, Cut, SendPkts, Unlock,
                SendClients, shipVars
  <2>2. In' = In
    BY <2>1 DEF In
  <2> QED BY <2>1, <2>2, LinkKept
<1>2. ASSUME NEW s \in Ships, LoseGate(s) \/ Reconnect(s) PROVE Link(i)'
  <2>1. CASE i # s
    <3>1. /\ sock'[i] = sock[i] /\ hasKey'[i] = hasKey[i] /\ directory'[i] = directory[i]
          /\ toShip' = toShip /\ conn' = conn /\ In' = In
      BY <1>0, <1>2, <2>1 DEF LoseGate, Reconnect, TypeOK, In
    <3> QED BY <3>1, LinkKept
  <2>2. CASE i = s
    BY <1>0, <1>2, <2>2 DEF LoseGate, Reconnect, TypeOK, Link
  <2> QED BY <2>1, <2>2
<1>3. ASSUME NEW s \in Ships, Connected(s) PROVE Link(i)'
  <2>1. CASE i # s
    <3>1. /\ sock'[i] = sock[i] /\ hasKey'[i] = hasKey[i] /\ directory'[i] = directory[i]
          /\ toShip'[i] = toShip[i] /\ conn'[i] = conn[i] /\ In' = In
      BY <1>0, <1>3, <2>1 DEF Connected, TypeOK, In
    <3> QED BY <3>1, LinkKept
  <2>2. CASE i = s
    <3>1. toShip'[i] = <<[type |-> "WELCOME"]>> /\ conn'[i] = "greeted"
      BY <1>0, <1>3, <2>2 DEF Connected, TypeOK
    <3> QED BY <3>1 DEF Link, Sure
  <2> QED BY <2>1, <2>2
<1>4. CASE Restart
  <2>1. conn'[i] # "in" /\ UNCHANGED <<sock, hasKey, directory, toShip>>
    BY <1>4 DEF Restart, shipVars
  <2> QED BY <2>1, LinkKept
<1>5. ASSUME NEW s \in Ships, GateCount(s) PROVE Link(i)'
  <2>1. conn[s] # "greeted"
    <3>1. toGate[s] # <<>> /\ First(s).type # "LOGIN6"
      BY <1>5 DEF GateCount, Receives
    <3> QED BY <1>0, <3>1, GreetedFirst
  <2>2. s \in In
    BY <1>0, <1>5, <2>1 DEF GateCount, Receives, In, TypeOK
  <2> DEFINE m == [type |-> "COUNT", ship |-> s]
  <2>3. m \in ToShipMsg /\ m.ship = s /\ m.type = "COUNT"
    BY ToShipMessages
  <2>4. Receives(s) /\ toShip' = Tell(Connections, <<m>>) /\ UNCHANGED <<shipVars, conn>>
    BY <1>5 DEF GateCount
  <2> HIDE DEF m
  <2> QED BY <2>2, <2>3, <2>4, LinkReceive
<1>6. ASSUME NEW s \in Ships, GateBlockLogin(s) PROVE Link(i)'
  <2> DEFINE m == [type |-> "REFUSED", player |-> First(s).player, block |-> First(s).block]
  <2>1. First(s).player \in Players /\ First(s).block \in Blocks
    BY <1>0, <1>6, ReceiveTyped, ToGateFields DEF GateBlockLogin
  <2>2. m \in ToShipMsg /\ m.type = "REFUSED" /\ {s} \in SUBSET Connections
    BY <1>6, <2>1, ToShipMessages DEF GateBlockLogin, Receives, Connections
  <2>3. /\ Receives(s) /\ UNCHANGED <<shipVars, conn>>
        /\ UNCHANGED toShip \/ toShip' = Tell({s}, <<m>>)
    BY <1>6 DEF GateBlockLogin
  <2> HIDE DEF m
  <2> QED BY <2>2, <2>3, LinkReceive
<1>7. ASSUME NEW s \in Ships, GateBlockLogout(s) \/ GateClients(s) PROVE Link(i)'
  BY <1>7, LinkReceive DEF GateBlockLogout, GateClients
<1>8. ASSUME NEW s \in Ships, LoseShip(s) \/ PingTimeout(s) PROVE Link(i)'
  BY <1>8, LinkDestroy DEF LoseShip, PingTimeout
<1>9. ASSUME NEW s \in Ships, GateThread(s) PROVE Link(i)'
  BY <1>5, <1>6, <1>7, <1>8, <1>9, LinkGateLogin DEF GateThread
<1>10. ASSUME NEW s \in Ships, ShipThread(s) PROVE Link(i)'
  BY <1>0, <1>1, <1>2, <1>3, <1>10, LinkReads DEF ShipThread
<1> QED BY <1>1, <1>4, <1>9, <1>10 DEF Next

LEMMA UnkeyedStep ==
    ASSUME TypeOK, Next, NEW i \in Ships, Unkeyed(i)
    PROVE  Unkeyed(i)'
<1>1. ASSUME NEW s \in Ships, ShipThread(s) PROVE Unkeyed(i)'
  <2>1. CASE HandleLoginReply(s) \/ HandleStatus(s) \/ Reconnect(s)
    BY <2>1 DEF HandleLoginReply, HandleStatus, Reconnect, TypeOK, Unkeyed
  <2>2. CASE \/ SendPkts(s) \/ Unlock(s) \/ SendClients(s) \/ Ignore(s) \/ HandleLogin(s)
             \/ HandleCount(s) \/ HandleRefused(s) \/ LoseGate(s) \/ Connected(s)
    BY <2>2 DEF SendPkts, Unlock, SendClients, Ignore, HandleLogin, HandleCount,
                HandleRefused, LoseGate, Connected, shipVars, Unkeyed
  <2> QED BY <1>1, <2>1, <2>2 DEF ShipThread
<1>2. ASSUME NEW s \in Ships, BlockThreads(s) \/ NotConnected(s) \/ Cut(s)
      PROVE  Unkeyed(i)'
  BY <1>2 DEF BlockThreads, Count, Login, Logout, NotConnected, Cut, shipVars, Unkeyed
<1>3. ASSUME NEW s \in Ships, GateThread(s) PROVE Unkeyed(i)'
  BY <1>3 DEF GateThread, GateLogin, GateCount, GateBlockLogin, GateBlockLogout, GateClients,
              LoseShip, PingTimeout, Destroy, shipVars, Unkeyed
<1>4. CASE Restart
  BY <1>4 DEF Restart, shipVars, Unkeyed
<1> QED BY <1>1, <1>2, <1>3, <1>4 DEF Next

LEMMA LinkInvariant == Spec => []LinkInv
<1>1. Init => \A s \in Ships : Link(s) /\ Unkeyed(s)
  <2> SUFFICES ASSUME Init, NEW s \in Ships PROVE Link(s) /\ Unkeyed(s)
    OBVIOUS
  <2>1. /\ toShip[s] = <<[type |-> "WELCOME"]>> /\ conn[s] = "greeted"
        /\ directory[s] = {}
    BY DEF Init
  <2>2. Sure(toShip[s], hasKey[s], directory[s])
    BY <2>1 DEF Sure
  <2> QED BY <2>1, <2>2 DEF Link, Unkeyed
<1>2. (\A s \in Ships : Link(s) /\ Unkeyed(s)) /\ IInv /\ [Next]_vars
        => (\A s \in Ships : Link(s) /\ Unkeyed(s))'
  <2> SUFFICES ASSUME \A s \in Ships : Link(s) /\ Unkeyed(s), IInv, [Next]_vars,
                      NEW i \in Ships
               PROVE  Link(i)' /\ Unkeyed(i)'
    OBVIOUS
  <2>1. CASE Next
    BY <2>1, LinkStep, UnkeyedStep DEF IInv
  <2>2. CASE UNCHANGED vars
    BY <2>2 DEF vars, shipVars, Link, Unkeyed, In
  <2> QED BY <2>1, <2>2
<1>3. LinkInv <=> IInv /\ \A s \in Ships : Link(s) /\ Unkeyed(s)
  BY DEF LinkInv
<1> QED BY <1>1, <1>2, <1>3, Inductive, PTL DEF Spec

\* The greatest of some of the first n numbers.
LEMMA Greatest ==
    ASSUME NEW n \in Nat, NEW S \in SUBSET (1 .. n), S # {}
    PROVE  Max(S) \in S /\ \A k \in S : k <= Max(S)
<1> DEFINE T == {n - k : k \in S}
<1>1. T \subseteq Nat /\ T # {}
  <2>1. \A k \in S : n - k \in Nat
    OBVIOUS
  <2>2. PICK k \in S : TRUE
    OBVIOUS
  <2>3. n - k \in T
    OBVIOUS
  <2> QED BY <2>1, <2>3
<1> HIDE DEF T
<1> DEFINE R == {ss \in Nat \X Nat : ss[1] < ss[2]}
<1>2. IsWellFoundedOn(R, Nat)
  BY NatLessThanWellFounded DEF OpToRel
<1>3. PICK x \in T : \A y \in T : x <= y
  <2>1. \A y, z \in Nat : <<y, z>> \notin R => z <= y
    OBVIOUS
  <2> HIDE DEF R
  <2>2. \E x \in T : \A y \in T : ~(<<y, x>> \in R)
    BY <1>1, <1>2, WFMin
  <2> QED BY <1>1, <2>1, <2>2
<1>4. PICK m \in S : x = n - m
  BY DEF T
<1>5. \A k \in S : m >= k
  <2> TAKE k \in S
  <2>1. n - k \in T
    BY DEF T
  <2>2. x <= n - k
    BY <1>3, <2>1
  <2> QED BY <1>4, <2>2
<1>6. \E z \in S : \A k \in S : z >= k
  BY <1>5
<1>7. Max(S) \in S /\ \A k \in S : Max(S) >= k
  BY <1>6 DEF Max
<1> QED BY <1>7

\* A count is about a ship the receiver knows.
THEOREM CountsAreKnown == Spec => []CountsKnown
<1>1. LinkInv => CountsKnown
  <2> SUFFICES ASSUME LinkInv, NEW s \in Ships, sock[s], hasKey[s], toShip[s] # <<>>,
                      Got(s).type = "COUNT"
               PROVE  Got(s).ship \in directory[s]
    BY DEF CountsKnown
  <2>1. toShip[s] \in Seq(ToShipMsg)
    BY DEF LinkInv, IInv, TypeOK
  <2>2. 1 \in 1 .. Len(toShip[s]) /\ Got(s) = toShip[s][1]
    BY <2>1, Shortened, LenProperties DEF Got
  <2>3. Begun(toShip[s], hasKey[s], 1)
    BY DEF Begun
  <2>4. Knows(toShip[s], hasKey[s], directory[s], 1 - 1, Got(s).ship)
    BY <2>2, <2>3 DEF LinkInv, Link, Sure
  <2>5. \A j : j \notin 1 .. 1 - 1
    OBVIOUS
  <2> QED BY <2>4, <2>5 DEF Knows
<1> QED BY <1>1, LinkInvariant, PTL

\* The directory of a ship, and what is on its way to it, name the ships that are in.
THEOREM DirectoriesAgree == Spec => []DirectoryAgrees
<1>1. LinkInv => DirectoryAgrees
  <2> SUFFICES ASSUME LinkInv, NEW s \in Ships, NEW i \in Ships,
                      sock[s], hasKey[s], conn[s] = "in"
               PROVE  (i \in In) <=> IF About(s, i) = {} THEN i \in directory[s]
                                    ELSE toShip[s][Max(About(s, i))].type = "UP"
    BY DEF DirectoryAgrees
  <2> DEFINE q == toShip[s]
             n == Len(q)
             A == About(s, i)
  <2>1. q \in Seq(ToShipMsg) /\ n \in Nat /\ DOMAIN q = 1 .. n
    BY LenProperties DEF LinkInv, IInv, TypeOK
  <2>2. (i \in In) <=> Knows(q, hasKey[s], directory[s], n, i)
    BY DEF LinkInv, Link, Agrees
  <2> DEFINE Up(k) == q[k].type = "UP" /\ q[k].ship = i
             Down(k) == q[k].type = "DOWN" /\ q[k].ship = i
  <2>3. \A k : /\ Says(q, hasKey[s], k, "UP", i) <=> Up(k)
               /\ Says(q, hasKey[s], k, "DOWN", i) <=> Down(k)
    BY DEF Says, Begun
  <2>4. A = {k \in 1 .. n : q[k].type \in {"UP", "DOWN"} /\ q[k].ship = i}
    BY <2>1 DEF About
  <2> HIDE DEF q, n, A, Up, Down
  <2>5. (i \in In) <=> ( (\E j \in 1 .. n : Up(j) /\ \A m \in j + 1 .. n : ~Down(m))
                        \/ (i \in directory[s] /\ \A m \in 1 .. n : ~Down(m)) )
    BY <2>2, <2>3 DEF Knows
  <2>6. \A k \in 1 .. n : k \in A <=> Up(k) \/ Down(k)
    BY <2>4 DEF Up, Down
  <2>7. CASE A = {}
    <3>1. \A k \in 1 .. n : ~Up(k) /\ ~Down(k)
      BY <2>6, <2>7
    <3> QED BY <2>5, <2>7, <3>1 DEF A
  <2>8. CASE A # {}
    <3> DEFINE x == Max(A)
    <3>1. x \in A /\ \A k \in A : k <= x
      BY <2>1, <2>4, <2>8, Greatest
    <3> HIDE DEF x
    <3>2. x \in 1 .. n
      BY <2>4, <3>1
    <3>3. \A k \in x + 1 .. n : k \in 1 .. n /\ ~(k <= x)
      BY <2>1, <3>2
    <3>4. CASE q[x].type = "UP"
      <4>1. \A m \in x + 1 .. n : ~Down(m)
        BY <2>6, <3>1, <3>3
      <4>2. Up(x)
        BY <2>4, <3>1, <3>4 DEF Up
      <4> QED BY <2>5, <2>8, <3>2, <3>4, <4>1, <4>2 DEF A, q, x
    <3>5. CASE q[x].type = "DOWN"
      <4>1. Down(x) /\ ~Up(x)
        BY <2>4, <3>1, <3>5 DEF Up, Down
      <4>2. ASSUME NEW j \in 1 .. n, Up(j)
            PROVE  x \in j + 1 .. n
        <5>1. j <= x /\ j # x
          BY <2>6, <3>1, <4>1, <4>2
        <5> QED BY <2>1, <3>2, <5>1
      <4>3. i \notin In
        BY <2>5, <3>2, <4>1, <4>2
      <4> QED BY <2>8, <3>5, <4>3 DEF A, q, x
    <3> QED BY <2>4, <3>1, <3>4, <3>5
  <2> QED BY <2>7, <2>8 DEF A
<1> QED BY <1>1, LinkInvariant, PTL

-----------------------------------------------------------------------------
(* Who is online: queues that speak of those who are there.                 *)

\* A packet puts player p on block b; a packet takes p off all blocks.
Names(m, p, b) ==
    /\ m.block = b
    /\ \/ m.type = "BLKLOGIN" /\ m.player = p
       \/ m.type = "BCLIENTS" /\ p \in m.players
Ends(m, p) == m.type = "BLKLOGOUT" /\ m.player = p
Ended(q) == {p \in Players : \E j \in 1 .. Len(q) : Ends(q[j], p)}

\* Whom a packet of the queue names has a session or is taken off by a later packet, of the
\* queue or of what follows (which takes off "ended"); or a list may be wrong about it.
Kept(q, present, doubtful, ended) ==
    \A k \in 1 .. Len(q), p \in Players, b \in Blocks :
        Names(q[k], p, b) =>
            \/ <<p, b>> \in present
            \/ q[k].type = "BCLIENTS" /\ p \in doubtful
            \/ p \in ended
            \/ \E j \in k + 1 .. Len(q) : Ends(q[j], p)

LEMMA KeptMore ==
    ASSUME NEW q, NEW S, NEW R, NEW E, NEW S2, NEW R2, NEW E2, Kept(q, S, R, E),
           S \subseteq S2, R \subseteq R2, E \subseteq E2
    PROVE  Kept(q, S2, R2, E2)
BY DEF Kept

\* A player leaves, which the packets that follow say.
LEMMA KeptLess ==
    ASSUME NEW q, NEW S, NEW R, NEW E, NEW R2, NEW p, NEW b, NEW E2, Kept(q, S, R, E),
           R \subseteq R2, E \subseteq E2, p \in E2
    PROVE  Kept(q, S \ {<<p, b>>}, R2, E2)
<1> SUFFICES ASSUME NEW k \in 1 .. Len(q), NEW x \in Players, NEW c \in Blocks,
                    Names(q[k], x, c), x # p
             PROVE  \/ <<x, c>> \in S \ {<<p, b>>}
                    \/ q[k].type = "BCLIENTS" /\ x \in R2
                    \/ x \in E2
                    \/ \E j \in k + 1 .. Len(q) : Ends(q[j], x)
  BY DEF Kept
<1>1. <<x, c>> # <<p, b>>
  OBVIOUS
<1> QED BY <1>1 DEF Kept

LEMMA EndedJoined ==
    ASSUME NEW x \in Seq(ToGateMsg), NEW y \in Seq(ToGateMsg)
    PROVE  Ended(x \o y) = Ended(x) \cup Ended(y)
<1> DEFINE r == x \o y
<1>1. /\ Len(x) \in Nat /\ Len(y) \in Nat /\ Len(r) = Len(x) + Len(y)
      /\ \A k \in 1 .. Len(x) : r[k] = x[k] /\ k \in 1 .. Len(r)
      /\ \A k \in 1 .. Len(y) : r[k + Len(x)] = y[k] /\ k + Len(x) \in 1 .. Len(r)
  BY LenProperties, ConcatProperties
<1> HIDE DEF r
<1>2. \A k \in 1 .. Len(r) : k \in 1 .. Len(x) \/ \E j \in 1 .. Len(y) : k = j + Len(x)
  <2> TAKE k \in 1 .. Len(r)
  <2>1. k \in 1 .. Len(x) \/ (k - Len(x) \in 1 .. Len(y) /\ k = (k - Len(x)) + Len(x))
    BY <1>1
  <2> QED BY <2>1
<1>3. ASSUME NEW p PROVE (\E k \in 1 .. Len(r) : Ends(r[k], p))
                            <=> \/ \E k \in 1 .. Len(x) : Ends(x[k], p)
                                \/ \E k \in 1 .. Len(y) : Ends(y[k], p)
  BY <1>1, <1>2
<1> QED BY <1>3 DEF Ended, r

\* Packets put behind a queue.
LEMMA KeptJoined ==
    ASSUME NEW x \in Seq(ToGateMsg), NEW y \in Seq(ToGateMsg), NEW S, NEW R, NEW E, NEW F,
           Kept(x, S, R, F), F \subseteq Ended(y) \cup E, Kept(y, S, R, E)
    PROVE  Kept(x \o y, S, R, E)
<1> DEFINE r == x \o y
<1>1. /\ Len(x) \in Nat /\ Len(y) \in Nat /\ Len(r) = Len(x) + Len(y)
      /\ \A k \in 1 .. Len(x) : r[k] = x[k] /\ k \in 1 .. Len(r)
      /\ \A k \in 1 .. Len(y) : r[k + Len(x)] = y[k] /\ k + Len(x) \in 1 .. Len(r)
  BY LenProperties, ConcatProperties
<1> HIDE DEF r
<1> SUFFICES ASSUME NEW k \in 1 .. Len(r), NEW p \in Players, NEW b \in Blocks,
                    Names(r[k], p, b), <<p, b>> \notin S,
                    ~(r[k].type = "BCLIENTS" /\ p \in R), p \notin E
             PROVE  \E j \in k + 1 .. Len(r) : Ends(r[j], p)
  BY DEF Kept, r
<1>2. CASE k \in 1 .. Len(x)
  <2>1. p \in Ended(y) \/ \E j \in k + 1 .. Len(x) : Ends(x[j], p)
    BY <1>1, <1>2 DEF Kept
  <2>2. ASSUME NEW j \in k + 1 .. Len(x), Ends(x[j], p)
        PROVE  j \in k + 1 .. Len(r) /\ Ends(r[j], p)
    <3>1. j \in 1 .. Len(x) /\ j \in k + 1 .. Len(r)
      BY <1>1, <1>2
    <3> QED BY <1>1, <2>2, <3>1
  <2>3. ASSUME p \in Ended(y) PROVE \E j \in k + 1 .. Len(r) : Ends(r[j], p)
    <3>1. PICK j \in 1 .. Len(y) : Ends(y[j], p)
      BY <2>3 DEF Ended
    <3>2. j + Len(x) \in k + 1 .. Len(r)
      BY <1>1, <1>2
    <3> QED BY <1>1, <3>1, <3>2
  <2> QED BY <2>1, <2>2, <2>3
<1>3. CASE k \notin 1 .. Len(x)
  <2> DEFINE n == k - Len(x)
  <2>1. n \in 1 .. Len(y) /\ n + Len(x) = k
    BY <1>1, <1>3
  <2>2. r[k] = y[n]
    BY <1>1, <2>1
  <2> HIDE DEF n
  <2>3. PICK j \in n + 1 .. Len(y) : Ends(y[j], p)
    BY <2>1, <2>2 DEF Kept
  <2>4. j \in 1 .. Len(y) /\ j + Len(x) \in k + 1 .. Len(r)
    BY <1>1, <2>1
  <2> QED BY <1>1, <2>3, <2>4
<1> QED BY <1>2, <1>3

\* The first packets of a queue and the rest of it.
Division(x, n, f, g) ==
    /\ x \in Seq(ToGateMsg) /\ n \in 1 .. Len(x)
    /\ f = SubSeq(x, 1, n) /\ g = SubSeq(x, n + 1, Len(x))

LEMMA KeptDivided ==
    ASSUME NEW x, NEW n, NEW f, NEW g, Division(x, n, f, g), NEW S, NEW R, Kept(x, S, R, {})
    PROVE  Kept(f, S, R, Ended(g)) /\ Kept(g, S, R, {}) /\ Ended(x) = Ended(f) \cup Ended(g)
<1>0. /\ x \in Seq(ToGateMsg) /\ n \in 1 .. Len(x)
      /\ f = SubSeq(x, 1, n) /\ g = SubSeq(x, n + 1, Len(x))
  BY DEF Division
<1>1. /\ Len(x) \in Nat /\ n \in Nat /\ n <= Len(x)
      /\ Len(f) = n /\ \A k \in 1 .. n : f[k] = x[k]
      /\ Len(g) = Len(x) - n /\ \A k \in 1 .. Len(x) - n : g[k] = x[k + n]
  <2>1. Len(x) \in Nat /\ n \in Nat /\ n <= Len(x)
    BY <1>0, LenProperties
  <2>2. Len(f) = n /\ \A k \in 1 .. n : f[k] = x[k]
    BY <1>0, <2>1
  <2>3. Len(g) = Len(x) - n
    BY <1>0, <2>1
  <2>4. \A k \in 1 .. Len(x) - n : g[k] = x[k + n]
    BY <1>0, <2>1
  <2> QED BY <2>1, <2>2, <2>3, <2>4
<1>2. \A k \in 1 .. Len(x) : k \in 1 .. n \/ (k - n \in 1 .. Len(g) /\ g[k - n] = x[k])
  <2> TAKE k \in 1 .. Len(x)
  <2>1. k \in 1 .. n \/ (k - n \in 1 .. Len(x) - n /\ (k - n) + n = k)
    BY <1>1
  <2> QED BY <1>1, <2>1
<1>3. Kept(f, S, R, Ended(g))
  <2> SUFFICES ASSUME NEW k \in 1 .. n, NEW p \in Players, NEW b \in Blocks,
                      Names(f[k], p, b), <<p, b>> \notin S,
                      ~(f[k].type = "BCLIENTS" /\ p \in R)
               PROVE  p \in Ended(g) \/ \E j \in k + 1 .. Len(f) : Ends(f[j], p)
    BY <1>1 DEF Kept
  <2>1. k \in 1 .. Len(x) /\ f[k] = x[k]
    BY <1>1
  <2>2. PICK j \in k + 1 .. Len(x) : Ends(x[j], p)
    BY <2>1 DEF Kept
  <2>3. j \in 1 .. Len(x) /\ (j \in 1 .. n => j \in k + 1 .. n)
    BY <1>1
  <2>4. CASE j \in 1 .. n
    BY <1>1, <2>2, <2>3, <2>4
  <2>5. CASE j \notin 1 .. n
    <3>1. j - n \in 1 .. Len(g) /\ g[j - n] = x[j]
      BY <1>2, <2>3, <2>5
    <3> QED BY <2>2, <3>1 DEF Ended
  <2> QED BY <2>4, <2>5
<1>4. Kept(g, S, R, {})
  <2> SUFFICES ASSUME NEW k \in 1 .. Len(x) - n, NEW p \in Players, NEW b \in Blocks,
                      Names(g[k], p, b), <<p, b>> \notin S,
                      ~(g[k].type = "BCLIENTS" /\ p \in R)
               PROVE  \E j \in k + 1 .. Len(x) - n : Ends(g[j], p)
    BY <1>1 DEF Kept
  <2>1. k + n \in 1 .. Len(x) /\ g[k] = x[k + n]
    BY <1>1
  <2>2. PICK j \in (k + n) + 1 .. Len(x) : Ends(x[j], p)
    BY <2>1 DEF Kept
  <2>3. j - n \in k + 1 .. Len(x) - n /\ j - n \in 1 .. Len(x) - n /\ (j - n) + n = j
    BY <1>1
  <2>4. g[j - n] = x[j]
    BY <1>1, <2>3
  <2> QED BY <2>2, <2>3, <2>4
<1>5. Ended(x) = Ended(f) \cup Ended(g)
  <2>1. \A k \in 1 .. n : k \in 1 .. Len(x)
    BY <1>1
  <2>2. \A k \in 1 .. Len(g) : k + n \in 1 .. Len(x) /\ g[k] = x[k + n]
    BY <1>1
  <2>3. ASSUME NEW p PROVE (\E k \in 1 .. Len(x) : Ends(x[k], p))
                              <=> \/ \E k \in 1 .. Len(f) : Ends(f[k], p)
                                  \/ \E k \in 1 .. Len(g) : Ends(g[k], p)
    BY <1>1, <1>2, <2>1, <2>2
  <2> QED BY <2>3 DEF Ended
<1> QED BY <1>3, <1>4, <1>5

\* The first packet is read.
LEMMA KeptTail ==
    ASSUME NEW q \in Seq(ToGateMsg), q # <<>>, NEW S, NEW R, NEW E, Kept(q, S, R, E)
    PROVE  /\ Kept(Tail(q), S, R, E)
           /\ \A p \in Ended(q) : Ends(q[1], p) \/ p \in Ended(Tail(q))
           /\ \A p \in Players, b \in Blocks : Names(q[1], p, b) =>
                \/ <<p, b>> \in S \/ (q[1].type = "BCLIENTS" /\ p \in R)
                \/ p \in E \/ p \in Ended(Tail(q))
<1> DEFINE t == Tail(q)
<1>1. /\ Len(q) \in Nat /\ Len(q) # 0 /\ Len(t) = Len(q) - 1
      /\ \A m \in 1 .. Len(q) - 1 : t[m] = q[m + 1]
  BY HeadTailProperties, LenProperties, EmptySeq
<1> HIDE DEF t
<1>2. \A j \in 2 .. Len(q) : j - 1 \in 1 .. Len(t) /\ t[j - 1] = q[j]
  <2> TAKE j \in 2 .. Len(q)
  <2>1. j - 1 \in 1 .. Len(q) - 1 /\ (j - 1) + 1 = j
    BY <1>1
  <2> QED BY <1>1, <2>1
<1>3. Kept(t, S, R, E)
  <2> SUFFICES ASSUME NEW k \in 1 .. Len(q) - 1, NEW p \in Players, NEW b \in Blocks,
                      Names(t[k], p, b), <<p, b>> \notin S,
                      ~(t[k].type = "BCLIENTS" /\ p \in R), p \notin E
               PROVE  \E j \in k + 1 .. Len(t) : Ends(t[j], p)
    BY <1>1 DEF Kept
  <2>1. k + 1 \in 1 .. Len(q) /\ t[k] = q[k + 1]
    BY <1>1
  <2>2. PICK j \in (k + 1) + 1 .. Len(q) : Ends(q[j], p)
    BY <2>1 DEF Kept
  <2>3. j \in 2 .. Len(q) /\ j - 1 \in k + 1 .. Len(t)
    BY <1>1
  <2> QED BY <1>2, <2>2, <2>3
<1>4. ASSUME NEW p \in Ended(q) PROVE Ends(q[1], p) \/ p \in Ended(t)
  <2>1. PICK j \in 1 .. Len(q) : Ends(q[j], p)
    BY DEF Ended
  <2>2. j = 1 \/ j \in 2 .. Len(q)
    BY <1>1
  <2> QED BY <1>2, <2>1, <2>2 DEF Ended
<1>5. ASSUME NEW p \in Players, NEW b \in Blocks, Names(q[1], p, b), <<p, b>> \notin S,
             ~(q[1].type = "BCLIENTS" /\ p \in R), p \notin E
      PROVE  p \in Ended(t)
  <2>1. 1 \in 1 .. Len(q) /\ 1 + 1 = 2
    BY <1>1
  <2>2. PICK j \in 2 .. Len(q) : Ends(q[j], p)
    BY <1>5, <2>1 DEF Kept
  <2> QED BY <1>2, <2>2 DEF Ended
<1> QED BY <1>3, <1>4, <1>5 DEF t

-----------------------------------------------------------------------------
(* The rows of online_clients.                                              *)

Buffered(s) == Kept(sendbuf[s], sessions[s], raced[s], {})
Underway(s) == sock[s] => Kept(toGate[s], sessions[s], raced[s], Ended(sendbuf[s]))

\* What shipgate_send_clients has read is still so, or is known to have changed since; and
\* no list is left over when the next connection forgets what was known.
Listing(s) ==
    /\ thread[s] \in {"select", "connect"} => entries[s] = {}
    /\ \A p \in entries[s] : <<p, block[s]>> \in sessions[s] \/ p \in raced[s]
    /\ thread[s] = "connect" =>
          \A k \in 1 .. Len(sendbuf[s]) : sendbuf[s][k].type # "BCLIENTS"

\* A row of s is of a player with a session, or one whose end is on its way.
Row(s, p) ==
    sock[s] /\ rows[p] # NoRow /\ rows[p][1] = s =>
        \/ <<p, rows[p][2]>> \in sessions[s] \/ p \in raced[s]
        \/ p \in Ended(toGate[s]) \/ p \in Ended(sendbuf[s])

Online(s) == Buffered(s) /\ Underway(s) /\ Listing(s) /\ \A p \in Players : Row(s, p)

\* Another ship or thread moves.
LEMMA OnlineKept ==
    ASSUME NEW s, Online(s), sendbuf'[s] = sendbuf[s],
           sock'[s] => sock[s] /\ toGate'[s] = toGate[s],
           sessions'[s] = sessions[s], raced'[s] = raced[s], thread'[s] = thread[s],
           entries'[s] = entries[s], block'[s] = block[s],
           \A p \in Players : rows'[p] # NoRow /\ rows'[p][1] = s => rows'[p] = rows[p]
    PROVE  Online(s)'
<1>1. Buffered(s)' /\ Underway(s)' /\ Listing(s)'
  BY DEF Online, Buffered, Underway, Listing
<1>2. ASSUME NEW p \in Players PROVE Row(s, p)'
  <2> SUFFICES ASSUME sock'[s], rows'[p] # NoRow, rows'[p][1] = s
               PROVE  \/ <<p, rows'[p][2]>> \in sessions'[s] \/ p \in raced'[s]
                      \/ p \in Ended(toGate'[s]) \/ p \in Ended(sendbuf'[s])
    BY DEF Row, Ended
  <2>1. Row(s, p) /\ rows'[p] = rows[p]
    BY DEF Online
  <2> QED BY <2>1 DEF Row
<1> QED BY <1>1, <1>2 DEF Online

\* A ship sends what is true of the sessions it then has; whom it leaves out is taken off by
\* what it sends.
LEMMA OnlineSend ==
    ASSUME TypeOK, NEW s \in Ships, NEW msgs \in Seq(ToGateMsg), NEW crypt \in BOOLEAN,
           SendRaw(s, msgs, crypt), sock' = sock,
           Kept(sendbuf[s], sessions'[s], raced'[s], Ended(msgs)),
           sock[s] => Kept(toGate[s], sessions'[s], raced'[s], Ended(sendbuf[s]) \cup Ended(msgs)),
           Kept(msgs, sessions'[s], raced'[s], {})
    PROVE  /\ Buffered(s)' /\ Underway(s)'
           /\ Ended(toGate'[s]) \cup Ended(sendbuf'[s])
                = Ended(toGate[s]) \cup Ended(sendbuf[s]) \cup Ended(msgs)
           /\ sendbuf'[s] = sendbuf[s] \/ sendbuf'[s] = sendbuf[s] \o msgs
<1> DEFINE t == toGate[s]
           u == sendbuf[s]
           S == sessions'[s]
           R == raced'[s]
<1>1. t \in Seq(ToGateMsg) /\ u \in Seq(ToGateMsg)
  BY DEF TypeOK
<1>2. Ended(t \o msgs) = Ended(t) \cup Ended(msgs) /\ Ended(u \o msgs) = Ended(u) \cup Ended(msgs)
  BY <1>1, EndedJoined
<1>3. CASE Direct(s, crypt)
  <2>1. toGate'[s] = t \o msgs /\ sendbuf'[s] = u /\ u = <<>> /\ sock[s]
    BY <1>3 DEF SendRaw, Direct, TypeOK
  <2>2. Ended(<<>>) = {} /\ Kept(<<>>, S, R, {})
    BY DEF Ended, Kept
  <2>3. Kept(t \o msgs, S, R, {})
    <3>1. Kept(t, S, R, Ended(msgs)) /\ Kept(msgs, S, R, {})
      BY <2>1, <2>2
    <3> HIDE DEF t, S, R
    <3> QED BY <1>1, <3>1, KeptJoined
  <2>4. Buffered(s)'
    BY <2>1, <2>2 DEF Buffered
  <2>5. Underway(s)'
    BY <2>1, <2>2, <2>3 DEF Underway
  <2> QED BY <1>2, <2>1, <2>2, <2>4, <2>5
<1>4. CASE ~Direct(s, crypt)
  <2>1. toGate'[s] = t /\ sendbuf'[s] = u \o msgs
    BY <1>4 DEF SendRaw, TypeOK
  <2>2. Kept(u \o msgs, S, R, {})
    <3>1. Kept(u, S, R, Ended(msgs)) /\ Kept(msgs, S, R, {})
      OBVIOUS
    <3> HIDE DEF u, S, R
    <3> QED BY <1>1, <3>1, KeptJoined
  <2>3. Buffered(s)'
    BY <2>1, <2>2 DEF Buffered
  <2>4. Underway(s)'
    BY <1>2, <2>1 DEF Underway
  <2> QED BY <1>2, <2>1, <2>3, <2>4
<1> QED BY <1>3, <1>4

\* What waits in sendbuf stays free of lists.
LEMMA NoLists ==
    ASSUME TypeOK, NEW s \in Ships, NEW msgs \in Seq(ToGateMsg),
           \A k \in 1 .. Len(msgs) : msgs[k].type # "BCLIENTS",
           \A k \in 1 .. Len(sendbuf[s]) : sendbuf[s][k].type # "BCLIENTS",
           sendbuf'[s] = sendbuf[s] \/ sendbuf'[s] = sendbuf[s] \o msgs
    PROVE  \A k \in 1 .. Len(sendbuf'[s]) : sendbuf'[s][k].type # "BCLIENTS"
<1>1. CASE sendbuf'[s] = sendbuf[s]
  BY <1>1
<1>2. CASE sendbuf'[s] = sendbuf[s] \o msgs
  <2> DEFINE u == sendbuf[s]
  <2>1. u \in Seq(ToGateMsg)
    BY DEF TypeOK
  <2>2. /\ DOMAIN u = 1 .. Len(u) /\ DOMAIN msgs = 1 .. Len(msgs)
        /\ DOMAIN (u \o msgs) = 1 .. Len(u \o msgs)
    BY <2>1, Joined, LenProperties
  <2>3. \A k \in DOMAIN (u \o msgs) :
            \/ \E j \in DOMAIN u : (u \o msgs)[k] = u[j]
            \/ \E j \in DOMAIN msgs : (u \o msgs)[k] = msgs[j]
    <3> HIDE DEF u
    <3> QED BY <2>1, Joined
  <2> QED BY <1>2, <2>2, <2>3
<1> QED BY <1>1, <1>2

LEMMA OnlineLogin ==
    ASSUME TypeOK, NEW s \in Ships, NEW p \in Players, NEW b \in Blocks, Login(s, p, b),
           Online(s)
    PROVE  Online(s)'
<1> DEFINE m == [type |-> "BLKLOGIN", player |-> p, block |-> b]
           S == sessions[s]
           R == raced[s]
<1>1. <<m>> \in Seq(ToGateMsg) /\ Len(<<m>>) = 1 /\ <<m>>[1] = m
  BY ToGateMessages, OneMessage
<1>2. /\ sessions'[s] = S \cup {<<p, b>>} /\ R \subseteq raced'[s]
      /\ sock' = sock /\ rows' = rows /\ thread' = thread /\ block' = block
      /\ SendRaw(s, <<m>>, TRUE)
  BY DEF Login, TypeOK, Send
<1>3. Ended(<<m>>) = {} /\ Kept(<<m>>, sessions'[s], raced'[s], {})
  <2>1. \A k \in 1 .. Len(<<m>>) : <<m>>[k] = m
    BY <1>1
  <2>2. \A x \in Players, c \in Blocks : Names(m, x, c) => x = p /\ c = b
    BY DEF Names
  <2>3. \A x : ~Ends(m, x)
    BY DEF Ends
  <2> HIDE DEF m
  <2> QED BY <1>2, <2>1, <2>2, <2>3 DEF Kept, Ended
<1>4. Kept(sendbuf[s], sessions'[s], raced'[s], Ended(<<m>>))
  BY <1>2, <1>3, KeptMore DEF Online, Buffered
<1>5. sock[s] => Kept(toGate[s], sessions'[s], raced'[s], Ended(sendbuf[s]) \cup Ended(<<m>>))
  BY <1>2, <1>3, KeptMore DEF Online, Underway
<1>6. /\ Buffered(s)' /\ Underway(s)'
      /\ Ended(toGate'[s]) \cup Ended(sendbuf'[s]) = Ended(toGate[s]) \cup Ended(sendbuf[s])
      /\ sendbuf'[s] = sendbuf[s] \/ sendbuf'[s] = sendbuf[s] \o <<m>>
  <2> HIDE DEF m
  <2> QED BY <1>1, <1>2, <1>3, <1>4, <1>5, OnlineSend
<1>7. Listing(s)'
  <2>1. /\ thread'[s] \in {"select", "connect"} => entries'[s] = {}
        /\ \A x \in entries'[s] : <<x, block'[s]>> \in sessions'[s] \/ x \in raced'[s]
    <3>1. CASE entries' = entries
      BY <1>2, <3>1 DEF Online, Listing
    <3>2. CASE /\ thread[s] = "scan" /\ block[s] = b
               /\ entries' = [entries EXCEPT ![s] = @ \cup {p}]
      <4>1. entries'[s] = entries[s] \cup {p}
        BY <3>2 DEF TypeOK
      <4> QED BY <1>2, <3>2, <4>1 DEF Online, Listing
    <3> QED BY <3>1, <3>2 DEF Login
  <2>2. ASSUME thread[s] = "connect"
        PROVE  \A k \in 1 .. Len(sendbuf'[s]) : sendbuf'[s][k].type # "BCLIENTS"
    <3>1. \A k \in 1 .. Len(<<m>>) : <<m>>[k].type # "BCLIENTS"
      BY <1>1
    <3>2. \A k \in 1 .. Len(sendbuf[s]) : sendbuf[s][k].type # "BCLIENTS"
      BY <2>2 DEF Online, Listing
    <3> HIDE DEF m
    <3> QED BY <1>1, <1>6, <3>1, <3>2, NoLists
  <2> QED BY <1>2, <2>1, <2>2 DEF Listing
<1>8. ASSUME NEW x \in Players PROVE Row(s, x)'
  BY <1>2, <1>6 DEF Online, Row
<1> QED BY <1>6, <1>7, <1>8 DEF Online

LEMMA OnlineLogout ==
    ASSUME TypeOK, NEW s \in Ships, NEW p \in Players, NEW b \in Blocks, Logout(s, p, b),
           Online(s)
    PROVE  Online(s)'
<1> DEFINE m == [type |-> "BLKLOGOUT", player |-> p, block |-> b]
           n == [type |-> "COUNT"]
           S == sessions[s]
           R == raced[s]
<1>1. <<m, n>> \in Seq(ToGateMsg) /\ Len(<<m, n>>) = 2 /\ <<m, n>>[1] = m /\ <<m, n>>[2] = n
  BY ToGateMessages, TwoMessages
<1>2. /\ sessions'[s] = S \ {<<p, b>>} /\ R \subseteq raced'[s]
      /\ Scanning(s, b) => p \in raced'[s]
      /\ sock' = sock /\ rows' = rows /\ thread' = thread /\ block' = block
      /\ entries' = entries /\ SendRaw(s, <<m, n>>, TRUE)
  BY DEF Logout, TypeOK, Send
<1>3. Ended(<<m, n>>) = {p} /\ Kept(<<m, n>>, sessions'[s], raced'[s], {})
  <2>1. /\ \A k \in 1 .. Len(<<m, n>>) : <<m, n>>[k] = m \/ <<m, n>>[k] = n
        /\ 1 \in 1 .. Len(<<m, n>>)
    BY <1>1
  <2>2. \A x, c : ~Names(m, x, c) /\ ~Names(n, x, c)
    BY DEF Names
  <2>3. \A x : (Ends(m, x) <=> x = p) /\ ~Ends(n, x)
    BY DEF Ends
  <2>4. <<m, n>>[1] = m
    BY <1>1
  <2> HIDE DEF m, n
  <2> QED BY <2>1, <2>2, <2>3, <2>4 DEF Kept, Ended
<1>4. Kept(sendbuf[s], sessions'[s], raced'[s], {p})
  <2>1. Kept(sendbuf[s], S, R, {})
    BY DEF Online, Buffered
  <2> HIDE DEF S, R
  <2> DEFINE E == {p}
             none == {}
  <2>2. none \subseteq E /\ p \in E /\ R \subseteq raced'[s] /\ Kept(sendbuf[s], S, R, none)
    BY <1>2, <2>1
  <2> HIDE DEF E, none
  <2>3. Kept(sendbuf[s], S \ {<<p, b>>}, raced'[s], E)
    BY <2>2, KeptLess, Zenon
  <2> QED BY <1>2, <2>3 DEF E, S
<1>5. ASSUME sock[s] PROVE Kept(toGate[s], sessions'[s], raced'[s], Ended(sendbuf[s]) \cup {p})
  <2>1. Kept(toGate[s], S, R, Ended(sendbuf[s]))
    BY <1>5 DEF Online, Underway
  <2> HIDE DEF S, R
  <2> DEFINE E == Ended(sendbuf[s]) \cup {p}
  <2>2. Ended(sendbuf[s]) \subseteq E /\ p \in E
    OBVIOUS
  <2> HIDE DEF E
  <2>3. Kept(toGate[s], S \ {<<p, b>>}, raced'[s], E)
    BY <1>2, <2>1, <2>2, KeptLess, Zenon
  <2> QED BY <1>2, <2>3 DEF E, S
<1>6. /\ Buffered(s)' /\ Underway(s)'
      /\ Ended(toGate'[s]) \cup Ended(sendbuf'[s])
            = Ended(toGate[s]) \cup Ended(sendbuf[s]) \cup {p}
      /\ sendbuf'[s] = sendbuf[s] \/ sendbuf'[s] = sendbuf[s] \o <<m, n>>
  <2> DEFINE msgs == <<m, n>>
  <2>1. /\ Kept(sendbuf[s], sessions'[s], raced'[s], Ended(msgs))
        /\ sock[s] => Kept(toGate[s], sessions'[s], raced'[s], Ended(sendbuf[s]) \cup Ended(msgs))
        /\ Kept(msgs, sessions'[s], raced'[s], {}) /\ Ended(msgs) = {p}
    BY <1>3, <1>4, <1>5
  <2>2. msgs \in Seq(ToGateMsg) /\ SendRaw(s, msgs, TRUE) /\ sock' = sock
    BY <1>1, <1>2
  <2> HIDE DEF msgs
  <2>3. /\ Buffered(s)' /\ Underway(s)'
        /\ Ended(toGate'[s]) \cup Ended(sendbuf'[s])
            = Ended(toGate[s]) \cup Ended(sendbuf[s]) \cup Ended(msgs)
        /\ sendbuf'[s] = sendbuf[s] \/ sendbuf'[s] = sendbuf[s] \o msgs
    BY <2>1, <2>2, OnlineSend
  <2> QED BY <2>1, <2>3 DEF msgs
<1>7. Listing(s)'
  <2>1. ASSUME NEW x \in entries[s]
        PROVE  <<x, block[s]>> \in sessions'[s] \/ x \in raced'[s]
    <3>1. <<x, block[s]>> \in S \/ x \in R
      BY DEF Online, Listing
    <3>2. CASE <<x, block[s]>> = <<p, b>>
      <4>1. thread[s] \in {"scan", "send"}
        BY DEF Online, Listing, TypeOK, Threads
      <4>2. Scanning(s, b)
        BY <3>2, <4>1 DEF Scanning
      <4> QED BY <1>2, <3>2, <4>2
    <3>3. CASE <<x, block[s]>> # <<p, b>>
      BY <1>2, <3>1, <3>3
    <3> QED BY <3>2, <3>3
  <2>2. ASSUME thread[s] = "connect"
        PROVE  \A k \in 1 .. Len(sendbuf'[s]) : sendbuf'[s][k].type # "BCLIENTS"
    <3>1. \A k \in 1 .. Len(<<m, n>>) : <<m, n>>[k].type # "BCLIENTS"
      BY <1>1
    <3>2. \A k \in 1 .. Len(sendbuf[s]) : sendbuf[s][k].type # "BCLIENTS"
      BY <2>2 DEF Online, Listing
    <3> HIDE DEF m, n
    <3> QED BY <1>1, <1>6, <3>1, <3>2, NoLists
  <2> QED BY <1>2, <2>1, <2>2 DEF Online, Listing
<1>8. ASSUME NEW x \in Players PROVE Row(s, x)'
  BY <1>2, <1>6 DEF Online, Row
<1> QED BY <1>6, <1>7, <1>8 DEF Online

\* A packet about nobody.
LEMMA OnlineOther ==
    ASSUME TypeOK, NEW s \in Ships, NEW m \in ToGateMsg, m.type \in {"COUNT", "LOGIN6"},
           NEW crypt \in BOOLEAN, SendRaw(s, <<m>>, crypt),
           UNCHANGED <<sock, thread, block, entries, sessions, rows, raced>>, Online(s)
    PROVE  Online(s)'
<1> DEFINE msgs == <<m>>
<1>1. msgs \in Seq(ToGateMsg) /\ \A k \in 1 .. Len(msgs) : msgs[k] = m
  BY OneMessage
<1>2. \A x, c : ~Names(m, x, c) /\ ~Ends(m, x)
  BY DEF Names, Ends
<1>3. SendRaw(s, msgs, crypt)
  OBVIOUS
<1> HIDE DEF msgs
<1>4. Ended(msgs) = {} /\ Kept(msgs, sessions'[s], raced'[s], {})
  BY <1>1, <1>2 DEF Ended, Kept
<1>5. /\ Kept(sendbuf[s], sessions'[s], raced'[s], Ended(msgs))
      /\ sock[s] => Kept(toGate[s], sessions'[s], raced'[s],
                         Ended(sendbuf[s]) \cup Ended(msgs))
  BY <1>4 DEF Online, Buffered, Underway
<1>6. /\ Buffered(s)' /\ Underway(s)'
      /\ Ended(toGate'[s]) \cup Ended(sendbuf'[s]) = Ended(toGate[s]) \cup Ended(sendbuf[s])
      /\ sendbuf'[s] = sendbuf[s] \/ sendbuf'[s] = sendbuf[s] \o msgs
  <2>1. /\ Buffered(s)' /\ Underway(s)'
        /\ Ended(toGate'[s]) \cup Ended(sendbuf'[s])
              = Ended(toGate[s]) \cup Ended(sendbuf[s]) \cup Ended(msgs)
        /\ sendbuf'[s] = sendbuf[s] \/ sendbuf'[s] = sendbuf[s] \o msgs
    BY <1>1, <1>3, <1>4, <1>5, OnlineSend, Zenon
  <2> QED BY <1>4, <2>1
<1>7. Listing(s)'
  <2>1. ASSUME thread[s] = "connect"
        PROVE  \A k \in 1 .. Len(sendbuf'[s]) : sendbuf'[s][k].type # "BCLIENTS"
    <3>1. \A k \in 1 .. Len(msgs) : msgs[k].type # "BCLIENTS"
      BY <1>1
    <3>2. \A k \in 1 .. Len(sendbuf[s]) : sendbuf[s][k].type # "BCLIENTS"
      BY <2>1 DEF Online, Listing
    <3> QED BY <1>1, <1>6, <3>1, <3>2, NoLists
  <2> QED BY <2>1 DEF Online, Listing
<1>8. ASSUME NEW x \in Players PROVE Row(s, x)'
  BY <1>6 DEF Online, Row
<1> QED BY <1>6, <1>7, <1>8 DEF Online

\* A step of the ship's thread that sends nothing.
LEMMA OnlineThread ==
    ASSUME NEW s, Online(s), Listing(s)', sendbuf'[s] = sendbuf[s],
           sock'[s] => sock[s] /\ toGate'[s] = toGate[s],
           UNCHANGED <<sessions, raced, rows>>
    PROVE  Online(s)'
<1>1. Buffered(s)' /\ Underway(s)'
  BY DEF Online, Buffered, Underway
<1>2. ASSUME NEW p \in Players PROVE Row(s, p)'
  BY DEF Online, Row
<1> QED BY <1>1, <1>2 DEF Online

\* A list names whom shipgate_send_clients has found; the next one is begun afresh.
LEMMA OnlineSendClients ==
    ASSUME TypeOK, NEW s \in Ships, SendClients(s), Online(s)
    PROVE  Online(s)'
<1> DEFINE m == [type |-> "BCLIENTS", block |-> block[s], players |-> entries[s]]
           msgs == <<m>>
<1>1. UNCHANGED <<sock, sessions, rows, raced>>
  BY DEF SendClients
<1>2. Listing(s)'
  <2>1. CASE Scan(s, block[s] + 1) /\ thread' = [thread EXCEPT ![s] = "scan"]
    <3>1. /\ thread'[s] = "scan"
          /\ \A p \in entries'[s] : <<p, block'[s]>> \in sessions'[s]
      BY <1>1, <2>1 DEF Scan, TypeOK
    <3> QED BY <3>1 DEF Listing
  <2>2. CASE entries' = [entries EXCEPT ![s] = {}] /\ thread' = [thread EXCEPT ![s] = "select"]
    <3>1. thread'[s] = "select" /\ entries'[s] = {}
      BY <2>2 DEF TypeOK
    <3> QED BY <3>1 DEF Listing
  <2> QED BY <2>1, <2>2 DEF SendClients
<1>3. CASE entries[s] = {}
  BY <1>1, <1>2, <1>3, OnlineThread DEF SendClients
<1>4. CASE entries[s] # {}
  <2>1. SendRaw(s, msgs, TRUE)
    BY <1>4 DEF SendClients, Send
  <2>2. m \in ToGateMsg
    BY ToGateMessages DEF TypeOK
  <2>3. \A p, b : Names(m, p, b) => b = block[s] /\ p \in entries[s] /\ m.type = "BCLIENTS"
    BY DEF Names
  <2>4. \A p : ~Ends(m, p)
    BY DEF Ends
  <2> HIDE DEF m
  <2>5. msgs \in Seq(ToGateMsg) /\ \A k \in 1 .. Len(msgs) : msgs[k] = m
    BY <2>2, OneMessage
  <2> HIDE DEF msgs
  <2>6. Ended(msgs) = {}
    BY <2>4, <2>5 DEF Ended
  <2>7. Kept(msgs, sessions'[s], raced'[s], {})
    BY <1>1, <2>3, <2>5 DEF Kept, Online, Listing
  <2>8. /\ Kept(sendbuf[s], sessions'[s], raced'[s], Ended(msgs))
        /\ sock[s] => Kept(toGate[s], sessions'[s], raced'[s],
                           Ended(sendbuf[s]) \cup Ended(msgs))
    BY <1>1, <2>6 DEF Online, Buffered, Underway
  <2>9. /\ Buffered(s)' /\ Underway(s)'
        /\ Ended(toGate'[s]) \cup Ended(sendbuf'[s]) = Ended(toGate[s]) \cup Ended(sendbuf[s])
    BY <1>1, <2>1, <2>5, <2>6, <2>7, <2>8, OnlineSend
  <2>10. ASSUME NEW x \in Players PROVE Row(s, x)'
    BY <1>1, <2>9 DEF Online, Row
  <2> QED BY <1>2, <2>9, <2>10 DEF Online
<1> QED BY <1>3, <1>4

\* What waited is sent.
LEMMA OnlineSendPkts ==
    ASSUME TypeOK, NEW s \in Ships, SendPkts(s), Online(s)
    PROVE  Online(s)'
<1> DEFINE t == toGate[s]
           u == sendbuf[s]
           S == sessions[s]
           R == raced[s]
<1>1. PICK n \in 1 .. Len(u) :
        /\ toGate' = [toGate EXCEPT ![s] = @ \o SubSeq(u, 1, n)]
        /\ sendbuf' = [sendbuf EXCEPT ![s] = SubSeq(u, n + 1, Len(u))]
  BY DEF SendPkts
<1> DEFINE f == SubSeq(u, 1, n)
           g == SubSeq(u, n + 1, Len(u))
<1>2. toGate'[s] = t \o f /\ sendbuf'[s] = g
  BY <1>1 DEF TypeOK
<1>3. /\ sock[s] /\ thread[s] = "select"
      /\ UNCHANGED <<sock, thread, block, entries, sessions, rows, raced>>
  BY DEF SendPkts
<1>4. u \in Seq(ToGateMsg) /\ t \in Seq(ToGateMsg)
  BY DEF TypeOK
<1>5. f \in Seq(ToGateMsg) /\ g \in Seq(ToGateMsg)
  <2> HIDE DEF u
  <2> QED BY <1>1, <1>4, Divided
<1>6. Kept(u, S, R, {}) /\ Kept(t, S, R, Ended(u))
  BY <1>3 DEF Online, Buffered, Underway
<1>7. Kept(f, S, R, Ended(g)) /\ Kept(g, S, R, {}) /\ Ended(u) = Ended(f) \cup Ended(g)
  <2>1. Division(u, n, f, g)
    BY <1>1, <1>4 DEF Division
  <2> HIDE DEF f, g, u, S, R
  <2> QED BY <1>6, <2>1, KeptDivided, Zenon
<1>8. Kept(t \o f, S, R, Ended(g)) /\ Ended(t \o f) = Ended(t) \cup Ended(f)
  <2> HIDE DEF f, g, t, u, S, R
  <2>1. Ended(u) \subseteq Ended(f) \cup Ended(g)
    BY <1>7
  <2> DEFINE E == Ended(g)
             F == Ended(u)
  <2>2. Kept(t, S, R, F) /\ Kept(f, S, R, E) /\ F \subseteq Ended(f) \cup E
    BY <1>6, <1>7, <2>1
  <2> HIDE DEF E, F
  <2>3. Kept(t \o f, S, R, E)
    <3>1. t \in Seq(ToGateMsg) /\ f \in Seq(ToGateMsg)
      BY <1>4, <1>5
    <3> QED BY <2>2, <3>1, KeptJoined
  <2>4. Ended(t \o f) = Ended(t) \cup Ended(f)
    BY <1>4, <1>5, EndedJoined
  <2> QED BY <2>3, <2>4 DEF E
<1>9. Buffered(s)' /\ Underway(s)'
  BY <1>2, <1>3, <1>7, <1>8 DEF Buffered, Underway
<1>10. Listing(s)'
  BY <1>3 DEF Online, Listing
<1>11. ASSUME NEW x \in Players PROVE Row(s, x)'
  <2>1. Ended(toGate'[s]) \cup Ended(sendbuf'[s]) = Ended(t) \cup Ended(u)
    BY <1>2, <1>7, <1>8
  <2> QED BY <1>3, <2>1 DEF Online, Row
<1> QED BY <1>9, <1>10, <1>11 DEF Online

\* The shipgate reads a packet of s: the rows it writes are of those the packet names, and
\* the rows of those it takes off are gone.
LEMMA OnlineReceive ==
    ASSUME TypeOK, NEW s \in Ships, Receives(s), UNCHANGED <<shipVars, raced>>,
           \A p \in Players : rows'[p] # NoRow /\ rows'[p][1] = s =>
                \/ rows'[p] = rows[p] /\ ~Ends(First(s), p)
                \/ rows'[p][2] \in Blocks /\ Names(First(s), p, rows'[p][2]),
           Online(s)
    PROVE  Online(s)'
<1> DEFINE q == toGate[s]
           S == sessions[s]
           R == raced[s]
           E == Ended(sendbuf[s])
<1>1. q \in Seq(ToGateMsg) /\ q # <<>> /\ First(s) = q[1] /\ toGate'[s] = Tail(q)
  <2>1. q \in Seq(ToGateMsg) /\ q # <<>> /\ toGate'[s] = Tail(q)
    BY DEF TypeOK, Receives
  <2>2. Head(q) = q[1]
    BY <2>1
  <2> QED BY <2>1, <2>2 DEF First
<1>2. Buffered(s)' /\ Listing(s)'
  BY DEF Online, Buffered, Listing, shipVars
<1>3. CASE ~sock[s]
  BY <1>2, <1>3 DEF Online, Underway, Row, shipVars
<1>4. CASE sock[s]
  <2>1. Kept(q, S, R, E)
    BY <1>4 DEF Online, Underway
  <2>2. /\ Kept(Tail(q), S, R, E)
        /\ \A p \in Ended(q) : Ends(q[1], p) \/ p \in Ended(Tail(q))
        /\ \A p \in Players, b \in Blocks : Names(q[1], p, b) =>
             \/ <<p, b>> \in S \/ (q[1].type = "BCLIENTS" /\ p \in R)
             \/ p \in E \/ p \in Ended(Tail(q))
    <3> HIDE DEF q, S, R, E
    <3> QED BY <1>1, <2>1, KeptTail
  <2>3. Underway(s)'
    BY <1>1, <2>2 DEF Underway, shipVars
  <2>4. ASSUME NEW p \in Players PROVE Row(s, p)'
    <3> SUFFICES ASSUME rows'[p] # NoRow, rows'[p][1] = s
                 PROVE  \/ <<p, rows'[p][2]>> \in S \/ p \in R
                        \/ p \in Ended(Tail(q)) \/ p \in E
      BY <1>1 DEF Row, shipVars
    <3>1. CASE rows'[p] = rows[p] /\ ~Ends(First(s), p)
      <4>1. Row(s, p)
        BY DEF Online
      <4> QED BY <1>1, <1>4, <2>2, <3>1, <4>1 DEF Row
    <3>2. CASE rows'[p][2] \in Blocks /\ Names(First(s), p, rows'[p][2])
      <4> DEFINE b == rows'[p][2]
      <4>1. b \in Blocks /\ Names(q[1], p, b)
        BY <1>1, <3>2
      <4> HIDE DEF b, q, S, R, E
      <4>2. <<p, b>> \in S \/ p \in R \/ p \in E \/ p \in Ended(Tail(q))
        BY <2>2, <4>1
      <4> QED BY <4>2 DEF b
    <3> QED BY <3>1, <3>2
  <2> QED BY <1>2, <2>3, <2>4 DEF Online
<1> QED BY <1>3, <1>4

LEMMA OnlineDestroy ==
    ASSUME TypeOK, NEW s \in Ships, Destroy(s), NEW i \in Ships, Online(i)
    PROVE  Online(i)'
<1>1. /\ \A j \in Ships : toGate'[j] = IF j = s THEN <<>> ELSE toGate[j]
      /\ UNCHANGED <<shipVars, raced>>
  BY DEF Destroy, TypeOK
<1>2. ASSUME NEW p \in Players, rows'[p] # NoRow PROVE rows'[p] = rows[p] /\ rows'[p][1] # s
  <2>1. rows'[p] = rows[p] /\ rows[p] \notin {s} \X Blocks
    BY <1>2 DEF Destroy, Without
  <2>2. rows[p] \in Ships \X Blocks
    BY <1>2, <2>1 DEF TypeOK
  <2> QED BY <2>1, <2>2
<1>3. CASE i # s
  BY <1>1, <1>2, <1>3, OnlineKept DEF shipVars
<1>4. CASE i = s
  <2>1. toGate'[i] = <<>>
    BY <1>1, <1>4
  <2>2. Underway(i)'
    BY <2>1 DEF Underway, Kept
  <2>3. Buffered(i)' /\ Listing(i)'
    BY <1>1 DEF Online, Buffered, Listing, shipVars
  <2>4. \A p \in Players : Row(i, p)'
    BY <1>2, <1>4 DEF Row
  <2> QED BY <2>2, <2>3, <2>4 DEF Online
<1> QED BY <1>3, <1>4

LEMMA OnlineGateThread ==
    ASSUME TypeOK, NEW s \in Ships, GateThread(s), NEW i \in Ships, Online(i)
    PROVE  Online(i)'
<1>1. CASE LoseShip(s) \/ PingTimeout(s)
  BY <1>1, OnlineDestroy DEF LoseShip, PingTimeout
<1>2. CASE ~(LoseShip(s) \/ PingTimeout(s))
  <2>1. Receives(s) /\ UNCHANGED <<shipVars, raced>>
    BY <1>2 DEF GateThread, GateLogin, GateCount, GateBlockLogin, GateBlockLogout, GateClients
  <2>2. First(s) \in ToGateMsg
    BY <2>1, ReceiveTyped
  <2>3. ASSUME NEW p \in Players, rows'[p] # NoRow
        PROVE  \/ rows'[p] = rows[p] /\ (rows[p][1] = s => ~Ends(First(s), p))
               \/ /\ rows'[p][1] = s /\ rows'[p][2] \in Blocks
                  /\ Names(First(s), p, rows'[p][2])
    <3>1. CASE GateLogin(s) \/ GateCount(s)
      BY <3>1 DEF GateLogin, GateCount, Ends
    <3>2. CASE GateBlockLogin(s)
      <4>1. First(s).type = "BLKLOGIN" /\ First(s).block \in Blocks
        BY <2>2, <3>2, ToGateFields DEF GateBlockLogin
      <4>2. CASE rows'[p] = rows[p]
        BY <4>1, <4>2 DEF Ends
      <4>3. CASE rows'[p] # rows[p]
        <5>1. p = First(s).player /\ rows'[p] = <<s, First(s).block>>
          BY <3>2, <4>3 DEF GateBlockLogin, TypeOK
        <5> QED BY <4>1, <5>1 DEF Names
      <4> QED BY <4>2, <4>3
    <3>3. CASE GateBlockLogout(s)
      <4>1. First(s).player \in Players
        BY <2>2, <3>3, ToGateFields DEF GateBlockLogout
      <4>2. CASE p # First(s).player
        BY <3>3, <4>2 DEF GateBlockLogout, TypeOK, Ends
      <4>3. CASE p = First(s).player
        <5>1. rows'[p] = rows[p] /\ rows[p] \notin {s} \X Blocks
          BY <2>3, <3>3, <4>3 DEF GateBlockLogout, TypeOK, Without
        <5>2. rows[p] \in Ships \X Blocks
          BY <2>3, <5>1 DEF TypeOK
        <5> QED BY <5>1, <5>2
      <4> QED BY <4>2, <4>3
    <3>4. CASE GateClients(s)
      <4> DEFINE b == First(s).block
      <4>1. b \in Blocks /\ First(s).type = "BCLIENTS"
        BY <2>2, <3>4, ToGateFields DEF GateClients
      <4>2. CASE p \in First(s).players /\ rows'[p] = <<s, b>>
        BY <4>1, <4>2 DEF Names
      <4>3. CASE rows'[p] = Without(s, {b})[p]
        <5>1. rows'[p] = rows[p]
          BY <2>3, <4>3, WithoutLess
        <5> QED BY <4>1, <5>1 DEF Ends
      <4> QED BY <3>4, <4>2, <4>3 DEF GateClients
    <3> QED BY <1>2, <3>1, <3>2, <3>3, <3>4 DEF GateThread
  <2>4. CASE i # s
    <3>1. /\ \A p \in Players : rows'[p] # NoRow /\ rows'[p][1] = i => rows'[p] = rows[p]
          /\ toGate'[i] = toGate[i]
      BY <2>1, <2>3, <2>4 DEF Receives, TypeOK
    <3> QED BY <2>1, <3>1, OnlineKept DEF shipVars
  <2>5. CASE i = s
    <3>1. \A p \in Players : rows'[p] # NoRow /\ rows'[p][1] = s =>
                \/ rows'[p] = rows[p] /\ ~Ends(First(s), p)
                \/ rows'[p][2] \in Blocks /\ Names(First(s), p, rows'[p][2])
      BY <2>3
    <3> QED BY <2>1, <2>5, <3>1, OnlineReceive
  <2> QED BY <2>4, <2>5
<1> QED BY <1>1, <1>2

\* A new connection starts with nothing on its way, no rows, and no list left over.
LEMMA OnlineConnected ==
    ASSUME TypeOK, RowsOfShips, NEW s \in Ships, Connected(s), Online(s)
    PROVE  Online(s)'
<1>1. /\ thread[s] = "connect" /\ conn[s] = "none" /\ thread'[s] = "select"
      /\ toGate'[s] = <<>> /\ raced'[s] = {}
      /\ UNCHANGED <<sendbuf, block, entries, sessions, rows>>
  BY DEF Connected, TypeOK
<1>2. entries[s] = {} /\ \A k \in 1 .. Len(sendbuf[s]) : sendbuf[s][k].type # "BCLIENTS"
  BY <1>1 DEF Online, Listing
<1>3. Buffered(s)'
  BY <1>1, <1>2 DEF Online, Buffered, Kept
<1>4. Underway(s)' /\ Listing(s)'
  BY <1>1, <1>2 DEF Underway, Kept, Listing
<1>5. ASSUME NEW p \in Players PROVE Row(s, p)'
  BY <1>1 DEF RowsOfShips, In, Row
<1> QED BY <1>3, <1>4, <1>5 DEF Online

\* What waited is thrown away, and no connection is left.
LEMMA OnlineReconnect ==
    ASSUME TypeOK, NEW s \in Ships, Reconnect(s), Online(s)
    PROVE  Online(s)'
<1>1. /\ thread[s] = "select" /\ thread'[s] = "connect" /\ sendbuf'[s] = <<>> /\ ~sock'[s]
      /\ UNCHANGED <<entries, block, sessions, raced>>
  BY DEF Reconnect, TypeOK
<1>2. Len(<<>>) = 0 /\ 1 .. 0 = {}
  OBVIOUS
<1>3. Buffered(s)' /\ Underway(s)' /\ \A p \in Players : Row(s, p)'
  BY <1>1, <1>2 DEF Buffered, Kept, Underway, Row
<1>4. Listing(s)'
  BY <1>1, <1>2 DEF Online, Listing
<1> QED BY <1>3, <1>4 DEF Online

LEMMA OnlineShipThread ==
    ASSUME TypeOK, RowsOfShips, NEW s \in Ships, ShipThread(s), Online(s)
    PROVE  Online(s)'
<1>1. CASE Unlock(s)
  <2>1. thread[s] = "scan" /\ thread'[s] = "send" /\ UNCHANGED <<entries, block, sessions, raced>>
    BY <1>1 DEF Unlock, TypeOK
  <2>2. Listing(s)'
    BY <2>1 DEF Online, Listing
  <2> QED BY <1>1, <2>2, OnlineThread DEF Unlock
<1>2. CASE HandleLogin(s)
  <2>1. [type |-> "LOGIN6"] \in ToGateMsg
    BY ToGateMessages
  <2> QED BY <1>2, <2>1, OnlineOther DEF HandleLogin
<1>3. CASE HandleLoginReply(s)
  <2>1. /\ thread'[s] = "scan"
        /\ \A p \in entries'[s] : <<p, block'[s]>> \in sessions'[s]
    BY <1>3 DEF HandleLoginReply, Scan, TypeOK
  <2>2. Listing(s)'
    BY <2>1 DEF Listing
  <2> QED BY <1>3, <2>2, OnlineThread DEF HandleLoginReply
<1>4. CASE Ignore(s) \/ HandleStatus(s) \/ HandleCount(s) \/ HandleRefused(s) \/ LoseGate(s)
  <2>1. /\ UNCHANGED <<sendbuf, toGate, thread, block, entries, sessions, raced, rows>>
        /\ sock'[s] => sock[s]
    BY <1>4 DEF Ignore, HandleStatus, HandleCount, HandleRefused, LoseGate, Reads, shipVars
  <2>2. Listing(s)'
    BY <2>1 DEF Online, Listing
  <2> QED BY <2>1, <2>2, OnlineThread
<1> QED BY <1>1, <1>2, <1>3, <1>4, OnlineSendPkts, OnlineSendClients, OnlineConnected,
           OnlineReconnect DEF ShipThread

LEMMA OnlineBlockThreads ==
    ASSUME TypeOK, NEW s \in Ships, BlockThreads(s), Online(s)
    PROVE  Online(s)'
<1>1. CASE Count(s)
  <2>1. [type |-> "COUNT"] \in ToGateMsg
    BY ToGateMessages
  <2> QED BY <1>1, <2>1, OnlineOther DEF Count, Send
<1> QED BY <1>1, OnlineLogin, OnlineLogout DEF BlockThreads

LEMMA OnlineStep ==
    ASSUME IInv, Next, NEW i \in Ships, Online(i)
    PROVE  Online(i)'
<1>0. TypeOK /\ RowsOfShips
  BY DEF IInv
<1>1. ASSUME NEW s \in Ships, ShipThread(s) \/ BlockThreads(s) \/ NotConnected(s), i # s
      PROVE  Online(i)'
  <2> DEFINE Same ==
            /\ sendbuf'[i] = sendbuf[i] /\ sock'[i] = sock[i] /\ toGate'[i] = toGate[i]
            /\ sessions'[i] = sessions[i] /\ raced'[i] = raced[i] /\ thread'[i] = thread[i]
            /\ entries'[i] = entries[i] /\ block'[i] = block[i] /\ rows' = rows
  <2>1. Same
    <3>1. CASE BlockThreads(s) \/ NotConnected(s)
      <4>0. CASE NotConnected(s)
        BY <1>0, <1>1, <4>0 DEF NotConnected, TypeOK
      <4>1. CASE Count(s)
        BY <1>0, <1>1, <4>1 DEF Count, Send, SendRaw, TypeOK
      <4>2. ASSUME NEW p \in Players, NEW b \in Blocks, Login(s, p, b)
            PROVE  Same
        BY <1>0, <1>1, <4>2 DEF Login, Send, SendRaw, TypeOK
      <4>3. ASSUME NEW p \in Players, NEW b \in Blocks, Logout(s, p, b)
            PROVE  Same
        BY <1>0, <1>1, <4>3 DEF Logout, Send, SendRaw, TypeOK
      <4> QED BY <3>1, <4>0, <4>1, <4>2, <4>3 DEF BlockThreads
    <3>2. CASE SendPkts(s)
      <4>1. PICK n \in 1 .. Len(sendbuf[s]) :
              /\ toGate' = [toGate EXCEPT ![s] = @ \o SubSeq(sendbuf[s], 1, n)]
              /\ sendbuf' = [sendbuf EXCEPT ![s] = SubSeq(@, n + 1, Len(@))]
        BY <3>2 DEF SendPkts
      <4>2. toGate'[i] = toGate[i] /\ sendbuf'[i] = sendbuf[i]
        BY <1>0, <1>1, <4>1 DEF TypeOK
      <4> QED BY <3>2, <4>2 DEF SendPkts
    <3>3. CASE SendClients(s)
      <4>1. toGate'[i] = toGate[i] /\ sendbuf'[i] = sendbuf[i]
        BY <1>0, <1>1, <3>3 DEF SendClients, Send, SendRaw, TypeOK
      <4>2. /\ UNCHANGED <<sock, sessions, rows, raced>>
            /\ thread'[i] = thread[i] /\ entries'[i] = entries[i] /\ block'[i] = block[i]
        BY <1>0, <1>1, <3>3 DEF SendClients, Scan, TypeOK
      <4> QED BY <4>1, <4>2
    <3>4. CASE HandleLogin(s) \/ HandleLoginReply(s)
      BY <1>0, <1>1, <3>4 DEF HandleLogin, HandleLoginReply, Scan, SendRaw, TypeOK
    <3>5. CASE \/ Ignore(s) \/ HandleStatus(s) \/ HandleCount(s) \/ HandleRefused(s)
               \/ LoseGate(s) \/ Reconnect(s) \/ Connected(s) \/ Unlock(s)
      BY <1>0, <1>1, <3>5 DEF Ignore, HandleStatus, HandleCount, HandleRefused, LoseGate,
                              Reconnect, Connected, Unlock, shipVars, TypeOK
    <3> QED BY <1>1, <3>1, <3>2, <3>3, <3>4, <3>5 DEF ShipThread
  <2> QED BY <2>1, OnlineKept
<1>2. ASSUME NEW s \in Ships, NotConnected(s) PROVE Online(i)'
  <2>1. CASE i = s
    <3>1. /\ thread[i] = "connect" /\ thread'[i] = "select"
          /\ UNCHANGED <<sendbuf, sock, toGate, sessions, raced, rows, entries, block>>
      BY <1>0, <1>2, <2>1 DEF NotConnected, TypeOK
    <3>2. Listing(i)'
      BY <3>1 DEF Online, Listing
    <3> QED BY <3>1, <3>2, OnlineThread
  <2> QED BY <1>1, <1>2, <2>1
<1>3. ASSUME NEW s \in Ships, Cut(s) PROVE Online(i)'
  BY <1>3, OnlineKept DEF Cut, shipVars
<1>4. CASE Restart
  <2>1. /\ toGate'[i] = <<>> /\ \A p \in Players : rows'[p] = NoRow
        /\ UNCHANGED <<sendbuf, sock, sessions, raced, thread, entries, block>>
    BY <1>4 DEF Restart, shipVars
  <2>2. Underway(i)' /\ \A p \in Players : Row(i, p)'
    BY <2>1 DEF Underway, Kept, Row
  <2>3. Buffered(i)' /\ Listing(i)'
    BY <2>1 DEF Online, Buffered, Listing
  <2> QED BY <2>2, <2>3 DEF Online
<1>5. ASSUME NEW s \in Ships, ShipThread(s) \/ BlockThreads(s) PROVE Online(i)'
  BY <1>0, <1>1, <1>5, OnlineShipThread, OnlineBlockThreads
<1> QED BY <1>0, <1>2, <1>3, <1>4, <1>5, OnlineGateThread DEF Next

LEMMA OnlineInvariant == Spec => [](IInv /\ \A s \in Ships : Online(s))
<1>1. Init => \A s \in Ships : Online(s)
  <2> SUFFICES ASSUME Init, NEW s \in Ships PROVE Online(s)
    OBVIOUS
  <2>1. /\ sendbuf[s] = <<>> /\ toGate[s] = <<>> /\ entries[s] = {} /\ thread[s] = "select"
        /\ \A p \in Players : rows[p] = NoRow
    BY DEF Init
  <2>2. \A S, R, E : Kept(<<>>, S, R, E)
    BY DEF Kept
  <2> QED BY <2>1, <2>2 DEF Online, Buffered, Underway, Listing, Row
<1>2. (\A s \in Ships : Online(s)) /\ IInv /\ [Next]_vars => (\A s \in Ships : Online(s))'
  <2> SUFFICES ASSUME \A s \in Ships : Online(s), IInv, [Next]_vars, NEW i \in Ships
               PROVE  Online(i)'
    OBVIOUS
  <2>1. CASE Next
    BY <2>1, OnlineStep
  <2>2. CASE UNCHANGED vars
    BY <2>2, OnlineKept DEF vars, shipVars
  <2> QED BY <2>1, <2>2
<1> QED BY <1>1, <1>2, Inductive, PTL DEF Spec

\* A row of online_clients is of a player who is there, or whose logout is on its way, or who
\* came or went while shipgate_send_clients sent the list.
THEOREM NoGhosts == Spec => []NoGhostRow
<1>1. IInv /\ (\A s \in Ships : Online(s)) => NoGhostRow
  <2> SUFFICES ASSUME IInv, \A s \in Ships : Online(s), NEW p \in Players, rows[p] # NoRow
               PROVE  LET s == rows[p][1]
                      IN  \/ <<p, rows[p][2]>> \in sessions[s]
                          \/ LogoutPending(s, p) \/ p \in raced[s]
    BY DEF NoGhostRow
  <2> DEFINE s == rows[p][1]
  <2>1. s \in Ships /\ toGate[s] \in Seq(ToGateMsg) /\ sendbuf[s] \in Seq(ToGateMsg)
    BY DEF IInv, TypeOK
  <2>2. /\ DOMAIN toGate[s] = 1 .. Len(toGate[s])
        /\ DOMAIN sendbuf[s] = 1 .. Len(sendbuf[s])
    BY <2>1, LenProperties
  <2>3. ~sock[s] \/ p \in Ended(toGate[s]) \/ p \in Ended(sendbuf[s]) => LogoutPending(s, p)
    BY <2>2 DEF Ended, Ends, LogoutPending
  <2> QED BY <2>1, <2>3 DEF Online, Row
<1> QED BY <1>1, OnlineInvariant, PTL
===============================================================================
