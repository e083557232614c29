------------------------------ MODULE LocksProofs ------------------------------
(***************************************************************************)
(* Proofs about Locks, for any blocks, clients and lobbies, and for locks   *)
(* that prefer readers or writers.                                          *)
(***************************************************************************)
EXTENDS Locks, TLAPS, SequenceTheorems

Prefix(s, i) == SubSeq(s, 1, i - 1)

\* Each lock was taken under those before it, and so is the one waited for.
Nested(t) ==
    /\ \A i \in 1 .. Len(held[t]) : held[t][i] \in Takes(t, Prefix(held[t], i))
    /\ wait[t] # None => wait[t] \in Takes(t, held[t])

IInv == TypeOK /\ \A t \in Threads : Nested(t)

-----------------------------------------------------------------------------
(* What may be taken are locks. *)

LEMMA HoldsTyped ==
    ASSUME NEW h \in Holds
    PROVE  /\ h = <<h[1], <<h[2][1], h[2][2]>>>> /\ h[1] \in {"read", "write"}
           /\ h[2][1] \in {"clients", "lobbies", "client", "lobby", "quests"}
           /\ h[2][1] \in {"clients", "lobbies"} => h[2][2] \in Blocks
           /\ h[2][1] = "client" => h[2][2] \in Clients
           /\ h[2][1] = "lobby" => h[2][2] \in Lobbies
           /\ h[2][1] = "quests" => h[2][2] = Ship
BY DEF Holds, Locks

LEMMA TakesHolds ==
    ASSUME NEW t \in Threads, NEW s \in Seq(Holds)
    PROVE  Takes(t, s) \subseteq Holds
<1>1. ClientsOf(t) \subseteq Holds /\ LobbiesOf(t) \subseteq Holds
  BY DEF ClientsOf, LobbiesOf, Holds, Locks, Write
<1>2. CASE s = <<>>
  BY <1>2 DEF Takes, ShipThread, BlockThread, Read, Write, Holds, Locks, Threads
<1>3. CASE s # <<>>
  <2> DEFINE h == Last(s)
  <2>1. h \in Holds
    BY <1>3 DEF Last
  <2>2. \A b : ClientsOf(b) \subseteq Holds /\ LobbiesOf(b) \subseteq Holds
    BY DEF ClientsOf, LobbiesOf, Holds, Locks, Write
  <2>3. \A c : UnderClient(t, s, c) \subseteq Holds
    BY <2>2 DEF UnderClient, Serving, Delivering, Read, Write, Holds, Locks
  <2>4. \A b \in Blocks : UnderLobby(t, s, b) \subseteq Holds
    BY <2>2 DEF UnderLobby, Write, Holds, Locks
  <2>5. UnderQuests(t) \subseteq Holds
    BY <2>2 DEF UnderQuests
  <2>6. h[2][1] = "lobby" => BlockOf[h[2][2]] \in Blocks
    BY <2>1, HoldsTyped, LocksAssumption
  <2> QED
    BY <1>3, <2>1, <2>2, <2>3, <2>4, <2>5, <2>6 DEF Takes, UnderClients, CleaningUp
<1> QED BY <1>2, <1>3

LEMMA NoneIsNone == None \notin Holds
BY DEF None, Holds

-----------------------------------------------------------------------------
(* The invariant. *)

LEMMA PrefixOfAppend ==
    ASSUME NEW s \in Seq(Holds), NEW h \in Holds, NEW i \in 1 .. Len(s)
    PROVE  Prefix(Append(s, h), i) = Prefix(s, i) /\ Append(s, h)[i] = s[i]
BY DEF Prefix

LEMMA PrefixWhole ==
    ASSUME NEW s \in Seq(Holds), NEW h \in Holds
    PROVE  Prefix(Append(s, h), Len(s) + 1) = s /\ Append(s, h)[Len(s) + 1] = h
BY DEF Prefix

LEMMA PrefixOfPrefix ==
    ASSUME NEW s \in Seq(Holds), s # <<>>, NEW i \in 1 .. Len(s) - 1
    PROVE  LET r == SubSeq(s, 1, Len(s) - 1) IN Prefix(r, i) = Prefix(s, i) /\ r[i] = s[i]
BY DEF Prefix

LEMMA Popped ==
    ASSUME NEW s \in Seq(Holds), s # <<>>
    PROVE  LET r == SubSeq(s, 1, Len(s) - 1) IN r \in Seq(Holds) /\ Len(r) = Len(s) - 1
<1>1. Len(s) \in Nat /\ Len(s) > 0
  BY EmptySeq
<1>2. \A i \in 1 .. Len(s) - 1 : s[i] \in Holds
  OBVIOUS
<1>3. Len(s) - 1 \in Int /\ 1 \in Int
  BY <1>1
<1> DEFINE r == SubSeq(s, 1, Len(s) - 1)
<1>4. /\ r \in Seq(Holds)
      /\ Len(r) = IF 1 <= Len(s) - 1 THEN (Len(s) - 1) - 1 + 1 ELSE 0
  BY <1>2, <1>3, SubSeqProperties
<1>5. Len(r) = Len(s) - 1
  <2> HIDE DEF r
  <2> QED BY <1>1, <1>4
<1> QED BY <1>4, <1>5, Zenon

LEMMA Grows ==
    ASSUME IInv, NEW t \in Threads, NEW h \in Takes(t, held[t]), ~ Has(t, h),
           held' = [held EXCEPT ![t] = Append(@, h)], wait' = [wait EXCEPT ![t] = None]
    PROVE  IInv'
<1> USE DEF IInv, TypeOK
<1>1. h \in Holds
  BY TakesHolds
<1>2. held' \in [Threads -> Seq(Holds)] /\ wait' \in [Threads -> Holds \cup {None}]
  BY <1>1
<1>3. ASSUME NEW u \in Threads PROVE Nested(u)' /\ ~ Has(u, wait[u])'
  <2>1. CASE u = t
    <3>1. held'[u] = Append(held[t], h) /\ wait'[u] = None
      BY <2>1
    <3>2. \A i \in 1 .. Len(held'[u]) : held'[u][i] \in Holds
      BY <1>2
    <3>3. ~ Has(u, wait[u])'
      BY <3>1, <3>2, <1>2, NoneIsNone DEF Has, In
    <3>4. ASSUME NEW i \in 1 .. Len(held'[u])
          PROVE  held'[u][i] \in Takes(u, Prefix(held'[u], i))
      <4>1. CASE i \in 1 .. Len(held[t])
        BY <4>1, <3>1, <1>1, <2>1, PrefixOfAppend DEF Nested
      <4>2. CASE i = Len(held[t]) + 1
        BY <4>2, <3>1, <1>1, <2>1, PrefixWhole
      <4> QED BY <4>1, <4>2, <3>1, <1>1
    <3> QED BY <3>1, <3>3, <3>4 DEF Nested
  <2>2. CASE u # t
    <3>1. held'[u] = held[u] /\ wait'[u] = wait[u]
      BY <2>2
    <3> QED BY <3>1 DEF Nested, Has
  <2> QED BY <2>1, <2>2
<1> QED BY <1>2, <1>3

LEMMA Inductive == IInv /\ [Next]_vars => IInv'
<1> SUFFICES ASSUME IInv, [Next]_vars PROVE IInv'
  OBVIOUS
<1> USE DEF IInv, TypeOK
<1>1. ASSUME NEW t \in Threads, NEW h \in Takes(t, held[t]), Lock(t, h) PROVE IInv'
  <2>1. h \in Holds
    BY TakesHolds
  <2>2. CASE Blockers(h) = {}
    <3>1. wait = [wait EXCEPT ![t] = None]
      BY <1>1 DEF Lock
    <3> QED BY <1>1, <2>2, <3>1, Grows DEF Lock
  <2>3. CASE Blockers(h) # {}
    <3>1. held' = held /\ wait' = [wait EXCEPT ![t] = h] /\ ~ Has(t, h)
      BY <1>1, <2>3 DEF Lock
    <3>2. \A u \in Threads : wait'[u] = IF u = t THEN h ELSE wait[u]
      BY <3>1
    <3>3. \A u \in Threads : Nested(u)' /\ ~ Has(u, wait[u])'
      BY <3>1, <3>2 DEF Nested, Has
    <3> QED BY <3>1, <3>3, <2>1
  <2> QED BY <2>2, <2>3
<1>2. ASSUME NEW t \in Threads, Resume(t) PROVE IInv'
  <2>1. wait[t] \in Takes(t, held[t]) /\ ~ Has(t, wait[t])
    BY <1>2 DEF Resume, Nested
  <2> QED BY <1>2, <2>1, Grows DEF Resume
<1>3. ASSUME NEW t \in Threads, Unlock(t) PROVE IInv'
  <2> DEFINE r == SubSeq(held[t], 1, Len(held[t]) - 1)
  <2>1. held[t] \in Seq(Holds) /\ held[t] # <<>> /\ wait[t] = None
    BY <1>3 DEF Unlock
  <2>2. r \in Seq(Holds) /\ Len(r) = Len(held[t]) - 1
    BY <2>1, Popped
  <2>3. held' = [held EXCEPT ![t] = r] /\ wait' = wait
    BY <1>3 DEF Unlock
  <2>4. ASSUME NEW u \in Threads PROVE Nested(u)' /\ ~ Has(u, wait[u])'
    <3>1. CASE u = t
      <4>1. held'[u] = r /\ wait'[u] = None
        BY <3>1, <2>1, <2>3
      <4>2. \A i \in 1 .. Len(r) : r[i] \in Holds
        BY <2>2
      <4>3. ~ Has(u, wait[u])'
        BY <4>1, <4>2, <2>2, NoneIsNone DEF Has, In
      <4>4. ASSUME NEW i \in 1 .. Len(r) PROVE r[i] \in Takes(t, Prefix(r, i))
        <5>1. i \in 1 .. Len(held[t]) - 1 /\ i \in 1 .. Len(held[t])
          BY <2>1, <2>2
        <5>2. Prefix(r, i) = Prefix(held[t], i) /\ r[i] = held[t][i]
          BY <5>1, <2>1, PrefixOfPrefix
        <5> QED BY <5>1, <5>2 DEF Nested
      <4> HIDE DEF r
      <4> QED BY <3>1, <4>1, <4>3, <4>4 DEF Nested
    <3>2. CASE u # t
      <4>1. held'[u] = held[u] /\ wait'[u] = wait[u]
        BY <3>2, <2>3
      <4> QED BY <4>1 DEF Nested, Has
    <3> QED BY <3>1, <3>2
  <2> QED BY <2>2, <2>3, <2>4
<1>4. CASE UNCHANGED vars
  BY <1>4 DEF vars, Nested, Has
<1> QED BY <1>1, <1>2, <1>3, <1>4 DEF Next

LEMMA Initial == Init => IInv
BY DEF Init, IInv, TypeOK, Nested, Has, In, Threads

\* In every state the locks are held one under the other as declared, and nobody waits
\* for what it holds.
THEOREM TypeCorrect == Spec => []TypeOK
<1>1. IInv => TypeOK
  BY DEF IInv
<1> QED BY <1>1, Initial, Inductive, PTL DEF Spec

-----------------------------------------------------------------------------
(* What is held under what, place by place. *)

\* h may be taken after the first i of s.
After(t, s, i, h) ==
    /\ i = 0 => h \in (IF t = Ship THEN ShipThread ELSE BlockThread(t))
    /\ i > 0 =>
        LET mode == s[i][1]  kind == s[i][2][1]  x == s[i][2][2] IN
        /\ kind = "clients" /\ mode = "read" => h \in ClientsOf(x)
        /\ kind = "clients" /\ mode = "write" => h \in LobbiesOf(x)
        /\ kind = "client" => /\ i = 2 /\ t \in Blocks /\ s[1] = Read("clients", t)
                              /\ h \in Serving(t)
        /\ kind = "lobby" =>
              \/ h \in ClientsOf(BlockOf[x])
              \/ BlockOf[x] = t /\ h \in LobbiesOf(t)
              \/ /\ BlockOf[x] = t /\ h = Write("lobbies", t)
                 /\ \A j \in 1 .. i : s[j] # Read("lobbies", t)
        /\ kind = "lobbies" => mode = "read" /\ h \in LobbiesOf(x)
        /\ kind = "quests" => /\ mode = "read" /\ t \in Blocks
                              /\ h \in LobbiesOf(t) \cup ClientsOf(t)

LEMMA TakesAfter ==
    ASSUME NEW t \in Threads, NEW s \in Seq(Holds), NEW h \in Takes(t, s)
    PROVE  After(t, s, Len(s), h)
<1>1. CASE s = <<>>
  BY <1>1 DEF Takes, After
<1>2. CASE s # <<>>
  <2> DEFINE g == Last(s)
             mode == g[1]
             kind == g[2][1]
             x == g[2][2]
  <2>1. g \in Holds /\ g = s[Len(s)] /\ Len(s) > 0
    BY <1>2 DEF Last
  <2>2. /\ mode \in {"read", "write"}
        /\ kind \in {"clients", "lobbies", "client", "lobby", "quests"}
        /\ kind = "lobby" => BlockOf[x] \in Blocks
    BY <2>1, HoldsTyped, LocksAssumption
  <2>3. kind = "clients" /\ mode = "read" => h \in ClientsOf(x)
    BY <1>2 DEF Takes, UnderClients
  <2>4. kind = "clients" /\ mode = "write" => h \in LobbiesOf(x)
    BY <1>2 DEF Takes, CleaningUp
  <2>5. kind = "client" => h \in UnderClient(t, s, x)
    BY <1>2 DEF Takes
  <2>6. kind = "lobby" => h \in UnderLobby(t, s, BlockOf[x])
    BY <1>2 DEF Takes
  <2>7. kind = "lobbies" => mode = "read" /\ h \in LobbiesOf(x)
    BY <1>2, <2>2 DEF Takes
  <2>8. kind = "quests" => mode = "read" /\ h \in UnderQuests(t)
    BY <1>2, <2>2 DEF Takes
  <2> HIDE DEF g
  <2>9. CASE kind = "client"
    BY <2>1, <2>5, <2>9 DEF After, UnderClient, Delivering
  <2>10. CASE kind = "lobby"
    BY <2>1, <2>6, <2>10 DEF After, UnderLobby, In
  <2>11. CASE kind = "quests"
    BY <2>1, <2>8, <2>11 DEF After, UnderQuests
  <2>12. CASE kind \in {"clients", "lobbies"}
    BY <2>1, <2>2, <2>3, <2>4, <2>7, <2>12 DEF After
  <2> QED BY <2>2, <2>9, <2>10, <2>11, <2>12
<1> QED BY <1>1, <1>2

\* h is what a thread took, or waits for, after i others.
At(t, i, h) == \/ i < Len(held[t]) /\ h = held[t][i + 1]
               \/ i = Len(held[t]) /\ wait[t] # None /\ h = wait[t]

LEMMA AtAfter ==
    ASSUME IInv, NEW t \in Threads, NEW i \in 0 .. Len(held[t]), NEW h, At(t, i, h)
    PROVE  After(t, held[t], i, h) /\ h \in Holds
<1> DEFINE s == held[t]
<1>1. s \in Seq(Holds) /\ Nested(t) /\ wait[t] \in Holds \cup {None}
  BY DEF IInv, TypeOK
<1>2. CASE i = Len(s)
  BY <1>1, <1>2, TakesAfter DEF At, Nested
<1>3. CASE i < Len(s)
  <2>1. i + 1 \in 1 .. Len(s) /\ h = s[i + 1] /\ h \in Holds
    BY <1>1, <1>3 DEF At
  <2>2. h \in Takes(t, Prefix(s, i + 1))
    BY <1>1, <2>1 DEF Nested
  <2> DEFINE p == Prefix(s, i + 1)
  <2>3. p \in Seq(Holds) /\ Len(p) = i /\ \A j \in 1 .. i : p[j] = s[j]
    BY <1>1, <1>3 DEF Prefix
  <2>4. After(t, p, i, h)
    BY <2>2, <2>3, TakesAfter
  <2> HIDE DEF p
  <2>5. i > 0 => p[i] = s[i] /\ p[1] = s[1]
    BY <2>3
  <2>6. ~ (0 > 0) /\ i \in Nat
    BY <1>1
  <2> HIDE DEF s
  <2>7. After(t, s, i, h)
    <3>1. CASE i = 0
      BY <2>4, <2>6, <3>1 DEF After
    <3>2. CASE i > 0
      BY <2>3, <2>4, <2>5, <2>6, <3>2 DEF After
    <3> QED BY <2>6, <3>1, <3>2
  <2> QED BY <2>1, <2>7 DEF s
<1> QED BY <1>2, <1>3 DEF At

\* Where each kind of lock comes from.
LEMMA ListOrigin ==
    ASSUME IInv, NEW t \in Threads, NEW i \in 0 .. Len(held[t]), NEW h, At(t, i, h)
    PROVE  /\ \A b : h = Write("clients", b) => i = 0 /\ b = t
           /\ \A b : h = Read("clients", b) =>
                 \/ i = 0
                 \/ i = 2 /\ t \in Blocks /\ held[t][1] = Read("clients", t)
           /\ h[2][1] = "quests" => i = 2
           /\ h[1] = "read" => h[2][1] \in {"clients", "lobbies", "quests"}
<1> DEFINE s == held[t]
           g == s[i]
<1>1. After(t, s, i, h) /\ h \in Holds /\ i \in Nat
  BY AtAfter
<1>2. CASE i = 0
  BY <1>1, <1>2 DEF After, ShipThread, BlockThread, Read, Write
<1>3. CASE i > 0
  <2>1. g \in Holds
    BY <1>3 DEF IInv, TypeOK
  <2>2. g[2][1] \in {"clients", "lobbies", "client", "lobby", "quests"} /\ g[1] \in {"read", "write"}
    BY <2>1, HoldsTyped
  <2> HIDE DEF s
  <2>3. CASE g[2][1] = "client"
    BY <1>1, <1>3, <2>3 DEF After, Serving, LobbiesOf, ClientsOf, Read, Write, s
  <2>4. CASE g[2][1] # "client"
    <3>1. \/ h \in ClientsOf(g[2][2]) \/ h \in LobbiesOf(g[2][2]) \/ h \in LobbiesOf(t)
          \/ h \in ClientsOf(t) \/ h = Write("lobbies", t) \/ h \in ClientsOf(BlockOf[g[2][2]])
      BY <1>1, <1>3, <2>2, <2>4 DEF After
    <3> QED BY <3>1 DEF LobbiesOf, ClientsOf, Read, Write
  <2> QED BY <2>3, <2>4
<1> QED BY <1>1, <1>2, <1>3

LEMMA LobbyOrigin ==
    ASSUME IInv, NEW t \in Threads, NEW i \in 0 .. Len(held[t]), NEW h, At(t, i, h),
           h[2][1] = "lobby"
    PROVE  BlockOf[h[2][2]] = t \/ ChangingEvent(t)
<1> DEFINE s == held[t]
           g == s[i]
           x == g[2][2]
<1>1. After(t, s, i, h) /\ h \in Holds /\ i \in Nat
  BY AtAfter
<1>2. CASE i = 0
  BY <1>1, <1>2 DEF After, ShipThread, BlockThread, Read, Write
<1>3. CASE i > 0
  <2>1. g \in Holds /\ i - 1 \in 0 .. Len(s) /\ At(t, i - 1, g)
    BY <1>3 DEF IInv, TypeOK, At
  <2>2. /\ g = <<g[1], <<g[2][1], x>>>>
        /\ g[2][1] \in {"clients", "lobbies", "client", "lobby", "quests"} /\ g[1] \in {"read", "write"}
        /\ g[2][1] \in {"clients", "lobbies"} => x \in Blocks
    BY <2>1, HoldsTyped
  <2>3. Has(t, g)
    BY <1>3 DEF Has, In, IInv, TypeOK
  <2> HIDE DEF g, s
  <2>4. CASE h \in LobbiesOf(t)
    BY <2>4 DEF LobbiesOf, Write
  <2>5. CASE h \in LobbiesOf(x) /\ g[2][1] = "lobbies" /\ g[1] = "read"
    <3>1. BlockOf[h[2][2]] = x /\ g = Read("lobbies", x) /\ x \in Blocks
      BY <2>2, <2>5 DEF LobbiesOf, Write, Read
    <3> QED BY <2>3, <3>1 DEF ChangingEvent
  <2>6. CASE h \in LobbiesOf(x) /\ g[2][1] = "clients" /\ g[1] = "write"
    <3>1. BlockOf[h[2][2]] = x /\ g = Write("clients", x)
      BY <2>2, <2>6 DEF LobbiesOf, Write
    <3>2. x = t
      BY <2>1, <3>1, ListOrigin DEF s
    <3> QED BY <3>1, <3>2
  <2>7. h \notin ClientsOf(t) /\ h \notin ClientsOf(x) /\ h \notin ClientsOf(BlockOf[x])
    BY DEF ClientsOf, Write
  <2>8. h # Write("lobbies", t) /\ (h \in Serving(t) => h \in LobbiesOf(t))
    BY <2>7 DEF Serving, Read, Write
  <2>9. \/ h \in LobbiesOf(t)
        \/ h \in LobbiesOf(x) /\ g[2][1] = "lobbies" /\ g[1] = "read"
        \/ h \in LobbiesOf(x) /\ g[2][1] = "clients" /\ g[1] = "write"
    BY <1>1, <1>3, <2>2, <2>7, <2>8 DEF After, g
  <2> QED BY <2>2, <2>4, <2>5, <2>6, <2>9
<1> QED BY <1>1, <1>2, <1>3

LEMMA ClientOrigin ==
    ASSUME IInv, NEW t \in Threads, NEW i \in 0 .. Len(held[t]), NEW c, At(t, i, Write("client", c))
    PROVE  \/ HomeOf[c] = t \/ ChangingEvent(t)
           \/ i > 0 /\ held[t][i] = Read("clients", HomeOf[c])
<1> DEFINE s == held[t]
           g == s[i]
           x == g[2][2]
           h == Write("client", c)
<1>1. After(t, s, i, h) /\ h \in Holds /\ i \in Nat
  BY AtAfter
<1>2. CASE i = 0
  BY <1>1, <1>2 DEF After, ShipThread, BlockThread, Read, Write
<1>3. CASE i > 0
  <2>1. g \in Holds /\ i - 1 \in 0 .. Len(s) /\ At(t, i - 1, g)
    BY <1>3 DEF IInv, TypeOK, At
  <2>2. /\ g = <<g[1], <<g[2][1], x>>>>
        /\ g[2][1] \in {"clients", "lobbies", "client", "lobby", "quests"} /\ g[1] \in {"read", "write"}
    BY <2>1, HoldsTyped
  <2> HIDE DEF g, s
  <2>3. \A b : h \in ClientsOf(b) => HomeOf[c] = b
    BY DEF ClientsOf, Write
  <2>4. \A b : h \notin LobbiesOf(b) /\ h # Write("lobbies", b)
    BY DEF LobbiesOf, Write
  <2>5. h \in Serving(t) => h \in ClientsOf(t)
    BY <2>4 DEF Serving, Read, Write
  <2> HIDE DEF h
  <2>6. \/ h \in ClientsOf(t)
        \/ h \in ClientsOf(x) /\ g[1] = "read" /\ g[2][1] = "clients"
        \/ h \in ClientsOf(BlockOf[x]) /\ g[2][1] = "lobby"
    BY <1>1, <1>3, <2>2, <2>4, <2>5 DEF After, g
  <2>7. CASE h \in ClientsOf(x) /\ g[1] = "read" /\ g[2][1] = "clients"
    BY <1>3, <2>2, <2>3, <2>7 DEF g, s, Read
  <2>8. CASE h \in ClientsOf(BlockOf[x]) /\ g[2][1] = "lobby"
    BY <2>1, <2>3, <2>8, LobbyOrigin DEF s
  <2> QED BY <2>3, <2>6, <2>7, <2>8
<1> QED BY <1>1, <1>2, <1>3

LEMMA LobbiesOrigin ==
    ASSUME IInv, NEW t \in Threads, NEW i \in 0 .. Len(held[t]), NEW b, At(t, i, Write("lobbies", b))
    PROVE  b = t /\ \A j \in 1 .. i : held[t][j] # Read("lobbies", t)
<1> DEFINE s == held[t]
           g == s[i]
           x == g[2][2]
           h == Write("lobbies", b)
<1>1. After(t, s, i, h) /\ h \in Holds /\ i \in Nat
  BY AtAfter
<1>2. CASE i = 0
  BY <1>1, <1>2 DEF After, ShipThread, BlockThread, Read, Write
<1>3. CASE i > 0
  <2>1. g \in Holds
    BY <1>3 DEF IInv, TypeOK
  <2>2. /\ g[2][1] \in {"clients", "lobbies", "client", "lobby", "quests"} /\ g[1] \in {"read", "write"}
    BY <2>1, HoldsTyped
  <2> HIDE DEF g, s
  <2>3. \A y : h \notin LobbiesOf(y) /\ h \notin ClientsOf(y)
    BY DEF LobbiesOf, ClientsOf, Write
  <2>4. h \in Serving(t) => b = t
    BY <2>3 DEF Serving, Read, Write
  <2>5. h = Write("lobbies", t) => b = t
    BY DEF Write
  <2> HIDE DEF h
  <2>6. CASE g[2][1] = "client"
    <3>1. i = 2 /\ s[1] = Read("clients", t) /\ h \in Serving(t)
      BY <1>1, <1>3, <2>6 DEF After, g
    <3>2. s[2] # Read("lobbies", t) /\ s[1] # Read("lobbies", t)
      BY <2>6, <3>1 DEF g, Read
    <3> QED BY <2>4, <3>1, <3>2 DEF s
  <2>7. CASE g[2][1] # "client"
    BY <1>1, <1>3, <2>2, <2>3, <2>5, <2>7 DEF After, g, s
  <2> QED BY <2>6, <2>7
<1> QED BY <1>1, <1>2, <1>3

-----------------------------------------------------------------------------
(* Threads that wait for each other while nobody changes the event. *)

Quiet(K) == /\ K \subseteq Threads /\ Knot(K) /\ \A t \in K : ~ ChangingEvent(t)

LEMMA InKnot ==
    ASSUME IInv, NEW K, Quiet(K), NEW t \in K
    PROVE  /\ t \in Threads /\ wait[t] \in Holds /\ wait[t] # None /\ ~ Has(t, wait[t])
           /\ held[t] \in Seq(Holds) /\ Len(held[t]) \in Nat
           /\ Len(held[t]) \in 0 .. Len(held[t]) /\ At(t, Len(held[t]), wait[t])
           /\ \E u \in K : u \in Blockers(wait[t])
BY DEF Quiet, Knot, IInv, TypeOK, At

\* A thread that holds a client's mutex and waits is serving that client.
LEMMA HoldsClient ==
    ASSUME IInv, NEW u \in Threads, wait[u] # None, NEW c, Has(u, Write("client", c))
    PROVE  /\ u \in Blocks /\ HomeOf[c] = u /\ Len(held[u]) > 1
           /\ held[u][1] = Read("clients", u) /\ held[u][2] = Write("client", c)
<1>1. PICK i \in DOMAIN held[u] : held[u][i] = Write("client", c)
  BY DEF Has, In
<1>2. held[u] \in Seq(Holds) /\ i \in 1 .. Len(held[u]) /\ Len(held[u]) \in Nat
  BY <1>1 DEF IInv, TypeOK
<1> DEFINE h == IF i < Len(held[u]) THEN held[u][i + 1] ELSE wait[u]
<1>3. At(u, i, h)
  BY <1>2 DEF At
<1> HIDE DEF h
<1>4. After(u, held[u], i, h)
  BY <1>2, <1>3, AtAfter
<1>5. i = 2 /\ u \in Blocks /\ held[u][1] = Read("clients", u)
  BY <1>1, <1>2, <1>4 DEF After, Write
<1>6. At(u, 1, held[u][2]) /\ 1 \in 0 .. Len(held[u])
  BY <1>2, <1>5 DEF At
<1>7. After(u, held[u], 1, held[u][2])
  BY <1>6, AtAfter
<1>8. held[u][2] \in ClientsOf(u)
  BY <1>5, <1>7 DEF After, Read
<1>9. HomeOf[c] = u
  BY <1>1, <1>5, <1>8 DEF ClientsOf, Write
<1> QED BY <1>1, <1>2, <1>5, <1>9

\* A list of lobbies or quests that is being written to is the last thing taken.
LEMMA HoldsNoList ==
    ASSUME IInv, NEW u \in Threads, wait[u] # None, NEW h, Has(u, h)
    PROVE  h[1] = "read" \/ h[2][1] \notin {"lobbies", "quests"}
<1>1. PICK i \in DOMAIN held[u] : held[u][i] = h
  BY DEF Has, In
<1>2. held[u] \in Seq(Holds) /\ i \in 1 .. Len(held[u]) /\ Len(held[u]) \in Nat
  BY <1>1 DEF IInv, TypeOK
<1> DEFINE g == IF i < Len(held[u]) THEN held[u][i + 1] ELSE wait[u]
<1>3. At(u, i, g)
  BY <1>2 DEF At
<1> HIDE DEF g
<1>4. After(u, held[u], i, g)
  BY <1>2, <1>3, AtAfter
<1> QED BY <1>1, <1>2, <1>4 DEF After

LEMMA Written ==
    ASSUME NEW kind, NEW x
    PROVE  /\ Write(kind, x)[1] = "write" /\ Write(kind, x)[2] = <<kind, x>>
           /\ Write(kind, x)[2][1] = kind /\ Write(kind, x)[2][2] = x
BY DEF Write

LEMMA ListHeld ==
    ASSUME IInv, NEW t \in Threads, NEW i \in 1 .. Len(held[t]), NEW b,
           held[t][i] = Read("clients", b)
    PROVE  i = 1 \/ (i = 3 /\ t \in Blocks /\ held[t][1] = Read("clients", t))
<1>1. Len(held[t]) \in Nat
  BY DEF IInv, TypeOK
<1> DEFINE j == i - 1
<1>2. j \in 0 .. Len(held[t]) /\ i = j + 1 /\ j < Len(held[t])
  BY <1>1
<1> HIDE DEF j
<1> PICK h : h = Read("clients", b)
  OBVIOUS
<1>3. At(t, j, h)
  BY <1>2 DEF At
<1>4. j = 0 \/ (j = 2 /\ t \in Blocks /\ held[t][1] = Read("clients", t))
  BY <1>2, <1>3, ListOrigin
<1> QED BY <1>2, <1>4

LEMMA ListWanted ==
    ASSUME IInv, NEW t \in Threads, NEW b, wait[t] = Read("clients", b), wait[t] # None
    PROVE  Len(held[t]) = 0
           \/ (Len(held[t]) = 2 /\ t \in Blocks /\ held[t][1] = Read("clients", t))
<1>1. Len(held[t]) \in Nat
  BY DEF IInv, TypeOK
<1>2. PICK j : j = Len(held[t])
  OBVIOUS
<1>3. PICK h : h = Read("clients", b)
  OBVIOUS
<1>4. j \in 0 .. Len(held[t]) /\ At(t, j, h)
  BY <1>1, <1>2, <1>3 DEF At
<1>5. \A y : h = Read("clients", y) =>
         j = 0 \/ (j = 2 /\ t \in Blocks /\ held[t][1] = Read("clients", t))
  <2>1. j \in 0 .. Len(held[t])
    BY <1>4
  <2>2. At(t, j, h)
    BY <1>4
  <2> QED BY <2>1, <2>2, ListOrigin
<1> QED BY <1>2, <1>3, <1>5

LEMMA LastHeld ==
    ASSUME IInv, NEW t \in Threads, NEW b, Len(held[t]) > 0,
           held[t][Len(held[t])] = Read("clients", b)
    PROVE  Len(held[t]) = 1
           \/ (Len(held[t]) = 3 /\ t \in Blocks /\ held[t][1] = Read("clients", t))
<1> PICK n : n = Len(held[t])
  OBVIOUS
<1>1. n \in 1 .. Len(held[t]) /\ held[t][n] = Read("clients", b)
  BY DEF IInv, TypeOK
<1>2. n = 1 \/ (n = 3 /\ t \in Blocks /\ held[t][1] = Read("clients", t))
  BY <1>1, ListHeld
<1> QED BY <1>2

LEMMA SearchingAt ==
    ASSUME NEW t \in Blocks, NEW b, wait[t][2][1] = "client", Len(held[t]) = 3,
           held[t][3] = Read("clients", b)
    PROVE  Searching(t)
BY DEF Searching, Last, Read

LEMMA NoWaitForLobby ==
    ASSUME IInv, NEW K, Quiet(K), NEW t \in K
    PROVE  wait[t][2][1] # "lobby"
<1> SUFFICES ASSUME wait[t][2][1] = "lobby" PROVE FALSE
  OBVIOUS
<1> DEFINE l == wait[t][2][2]
<1>1. wait[t] = Write("lobby", l) /\ wait[t][1] = "write"
  BY InKnot, HoldsTyped, ListOrigin DEF Write
<1>2. BlockOf[l] = t
  BY InKnot, LobbyOrigin DEF Quiet
<1>3. PICK u \in K : u \in Blockers(wait[t])
  BY InKnot
<1>4. Has(u, Write("lobby", l)) \/ Has(u, Read("lobby", l))
  BY <1>1, <1>3 DEF Blockers, Write, Read
<1>5. PICK i \in DOMAIN held[u] : held[u][i] \in {Write("lobby", l), Read("lobby", l)}
  BY <1>4 DEF Has, In
<1>6. u \in Threads /\ i - 1 \in 0 .. Len(held[u]) /\ At(u, i - 1, held[u][i])
  BY <1>5, InKnot DEF At
<1>7. BlockOf[l] = u
  BY <1>5, <1>6, LobbyOrigin DEF Quiet, Write, Read
<1>8. held[u][i] = Write("lobby", l)
  BY <1>5, <1>6, ListOrigin DEF Write, Read
<1> QED BY <1>1, <1>2, <1>5, <1>7, <1>8, InKnot DEF Has, In

LEMMA NoWaitForLobbies ==
    ASSUME IInv, NEW K, Quiet(K), NEW t \in K
    PROVE  wait[t][2][1] # "lobbies"
<1>1. ASSUME NEW s \in K, NEW b, wait[s] = Write("lobbies", b) PROVE FALSE
  <2>0. /\ s \in Threads /\ Len(held[s]) \in 0 .. Len(held[s])
        /\ At(s, Len(held[s]), Write("lobbies", b))
    BY <1>1, InKnot
  <2>1. b = s /\ \A j \in 1 .. Len(held[s]) : held[s][j] # Read("lobbies", s)
    BY <2>0, LobbiesOrigin
  <2>2. PICK u \in K : u \in Blockers(wait[s])
    BY InKnot
  <2>3. Has(u, Write("lobbies", b)) \/ Has(u, Read("lobbies", b))
    BY <1>1, <2>2 DEF Blockers, Write, Read
  <2>4. ~ Has(u, Write("lobbies", b))
    BY InKnot, HoldsNoList, Written
  <2>5. s \in Blocks
    BY <1>1, <2>1, InKnot, HoldsTyped DEF Write
  <2>6. u # s
    BY <2>1, <2>3, <2>4, InKnot DEF Has, In
  <2> QED BY <2>1, <2>3, <2>4, <2>5, <2>6 DEF ChangingEvent, Quiet
<1> SUFFICES ASSUME wait[t][2][1] = "lobbies" PROVE FALSE
  OBVIOUS
<1> DEFINE b == wait[t][2][2]
<1>2. wait[t] \in {Read("lobbies", b), Write("lobbies", b)}
  BY InKnot, HoldsTyped DEF Read, Write
<1>3. wait[t] = Read("lobbies", b)
  BY <1>1, <1>2
<1>4. PICK u \in K : u \in Blockers(wait[t])
  BY InKnot
<1>5. Has(u, Write("lobbies", b)) \/ wait[u] = Write("lobbies", b)
  BY <1>3, <1>4 DEF Blockers, Write, Read
<1>6. ~ Has(u, Write("lobbies", b))
  BY InKnot, HoldsNoList, Written
<1> QED BY <1>1, <1>5, <1>6

LEMMA ClientWait ==
    ASSUME IInv, NEW K, Quiet(K), NEW t \in K, wait[t][2][1] = "client"
    PROVE  \E c \in Clients, u \in K :
              /\ wait[t] = Write("client", c) /\ u # t /\ u \in Blocks /\ HomeOf[c] = u
              /\ Len(held[u]) > 1 /\ held[u][1] = Read("clients", u)
              /\ Len(held[t]) > 0 /\ held[t][Len(held[t])] = Read("clients", u)
              /\ t = Ship \/ Searching(t)
<1> DEFINE c == wait[t][2][2]
<1>1. wait[t] = Write("client", c) /\ c \in Clients
  BY InKnot, HoldsTyped, ListOrigin DEF Write
<1>2. PICK u \in K : u \in Blockers(wait[t])
  BY InKnot
<1>3. Has(u, Write("client", c)) \/ Has(u, Read("client", c))
  BY <1>1, <1>2 DEF Blockers, Write, Read
<1>4. PICK i \in DOMAIN held[u] : held[u][i] \in {Write("client", c), Read("client", c)}
  BY <1>3 DEF Has, In
<1>5. u \in Threads /\ i - 1 \in 0 .. Len(held[u]) /\ At(u, i - 1, held[u][i])
  BY <1>4, InKnot DEF At
<1>6. Has(u, Write("client", c))
  BY <1>4, <1>5, ListOrigin DEF Write, Read, Has, In
<1>7. /\ u \in Blocks /\ HomeOf[c] = u /\ Len(held[u]) > 1 /\ held[u][1] = Read("clients", u)
  BY <1>6, InKnot, HoldsClient
<1>8. u # t
  BY <1>1, <1>6, InKnot
<1> HIDE DEF c
<1> DEFINE n == Len(held[t])
<1>9. n \in 0 .. n /\ n \in Nat /\ t \in Threads /\ At(t, n, Write("client", c)) /\ held[t] \in Seq(Holds)
  BY <1>1, InKnot
<1>10. n > 0 /\ held[t][n] = Read("clients", u)
  BY <1>7, <1>8, <1>9, ClientOrigin DEF Quiet
<1>11. CASE t \in Blocks
  <2>2. n = 1 \/ n = 3
    BY <1>9, <1>10, LastHeld
  <2>3. CASE n = 1
    <3>0. At(t, 0, Read("clients", u)) /\ 0 \in 0 .. n
      BY <1>9, <1>10, <2>3 DEF At
    <3>1. After(t, held[t], 0, Read("clients", u))
      BY <1>9, <3>0, AtAfter
    <3>2. Read("clients", u) \in BlockThread(t)
      BY <1>11, <3>1, LocksAssumption DEF After
    <3> QED BY <1>8, <3>2 DEF BlockThread, Read, Write
  <2>4. CASE n = 3
    <3>1. Searching(t)
      BY <1>10, <1>11, <2>4, SearchingAt
    <3> QED BY <1>1, <1>7, <1>8, <1>10, <3>1
  <2> QED BY <2>2, <2>3, <2>4
<1>12. CASE t \notin Blocks
  BY <1>1, <1>7, <1>8, <1>9, <1>10, <1>12 DEF Threads
<1> QED BY <1>11, <1>12

LEMMA NoReaderOfQuests ==
    ASSUME IInv, NEW K, Quiet(K), NEW u \in K, NEW x
    PROVE  ~ Has(u, Read("quests", x))
<1> SUFFICES ASSUME Has(u, Read("quests", x)) PROVE FALSE
  OBVIOUS
<1>1. PICK i \in DOMAIN held[u] : held[u][i] = Read("quests", x)
  BY DEF Has, In
<1> DEFINE n == Len(held[u])
<1>2. /\ u \in Threads /\ i - 1 \in 0 .. n /\ At(u, i - 1, held[u][i]) /\ i \in 1 .. n
      /\ n \in Nat /\ n \in 0 .. n /\ At(u, n, wait[u]) /\ wait[u] \in Holds
  BY <1>1, InKnot DEF At
<1>3. i = 3
  BY <1>1, <1>2, ListOrigin DEF Read
<1> DEFINE h == IF i < n THEN held[u][i + 1] ELSE wait[u]
<1>4. At(u, i, h) /\ i \in 0 .. n
  BY <1>2, InKnot DEF At
<1> HIDE DEF h
<1>5. u \in Blocks
  BY <1>1, <1>2, <1>3, <1>4, AtAfter DEF After, Read
<1>6. wait[u][2][1] \in {"clients", "client", "quests"}
  BY <1>2, HoldsTyped, NoWaitForLobby, NoWaitForLobbies
<1>7. wait[u][2][1] # "quests"
  BY <1>2, <1>3, ListOrigin
<1>8. wait[u][2][1] # "clients"
  BY <1>2, <1>3, HoldsTyped, ListOrigin DEF Read, Write
<1>9. CASE wait[u][2][1] = "client"
  <2>1. PICK v \in K : held[u][n] = Read("clients", v) /\ n > 0
    BY <1>9, ClientWait
  <2>2. n = 1 \/ n = 3
    BY <1>2, <2>1, LastHeld
  <2>3. n = 3
    BY <1>2, <1>3, <2>2
  <2> QED BY <1>1, <1>3, <2>1, <2>3 DEF Read
<1> QED BY <1>6, <1>7, <1>8, <1>9

LEMMA NoWaitForQuests ==
    ASSUME IInv, NEW K, Quiet(K), NEW t \in K
    PROVE  wait[t][2][1] # "quests"
<1>1. ASSUME NEW s \in K, NEW x, wait[s] = Write("quests", x) PROVE FALSE
  <2>1. PICK u \in K : u \in Blockers(wait[s])
    BY InKnot
  <2>2. Has(u, Write("quests", x)) \/ Has(u, Read("quests", x))
    BY <1>1, <2>1 DEF Blockers, Write, Read
  <2>3. ~ Has(u, Write("quests", x))
    BY InKnot, HoldsNoList, Written
  <2> QED BY <2>2, <2>3, NoReaderOfQuests
<1> SUFFICES ASSUME wait[t][2][1] = "quests" PROVE FALSE
  OBVIOUS
<1> DEFINE x == wait[t][2][2]
<1>2. wait[t] \in {Read("quests", x), Write("quests", x)}
  BY InKnot, HoldsTyped DEF Read, Write
<1>3. wait[t] = Read("quests", x)
  BY <1>1, <1>2
<1>4. PICK u \in K : u \in Blockers(wait[t])
  BY InKnot
<1>5. Has(u, Write("quests", x)) \/ wait[u] = Write("quests", x)
  BY <1>3, <1>4 DEF Blockers, Write, Read
<1>6. ~ Has(u, Write("quests", x))
  BY InKnot, HoldsNoList, Written
<1> QED BY <1>1, <1>5, <1>6

\* What a thread may wait for in such a knot.
LEMMA WaitsFor ==
    ASSUME IInv, NEW K, Quiet(K), NEW t \in K
    PROVE  \/ wait[t][2][1] = "client"
           \/ \E b \in Blocks : wait[t] \in {Read("clients", b), Write("clients", b)}
BY InKnot, HoldsTyped, NoWaitForLobby, NoWaitForLobbies, NoWaitForQuests DEF Read, Write

LEMMA ServingWaits ==
    ASSUME IInv, NEW K, Quiet(K), NEW t \in K, t \in Blocks, Len(held[t]) > 1
    PROVE  Searching(t) \/ \E b \in Blocks : wait[t] = Read("clients", b) /\ Len(held[t]) = 2
<1>1. CASE wait[t][2][1] = "client"
  BY <1>1, ClientWait, LocksAssumption
<1>2. CASE \E b \in Blocks : wait[t] \in {Read("clients", b), Write("clients", b)}
  <2>1. PICK b \in Blocks : wait[t] \in {Read("clients", b), Write("clients", b)}
    BY <1>2
  <2>2. /\ t \in Threads /\ Len(held[t]) \in 0 .. Len(held[t])
        /\ At(t, Len(held[t]), wait[t])
    BY InKnot
  <2>3. CASE wait[t] = Write("clients", b)
    BY <2>2, <2>3, ListOrigin
  <2>4. CASE wait[t] = Read("clients", b)
    BY <2>2, <2>4, ListWanted, InKnot
  <2> QED BY <2>1, <2>3, <2>4
<1> QED BY <1>1, <1>2, WaitsFor

LEMMA WriterWaits ==
    ASSUME IInv, NEW K, Quiet(K), NEW t \in K, NEW b \in Blocks, wait[t] = Write("clients", b)
    PROVE  /\ t = b /\ Len(held[t]) = 0
           /\ \E v \in K : Searching(v) /\ held[v][Len(held[v])] = Read("clients", b)
<1>1. /\ t \in Threads /\ Len(held[t]) \in 0 .. Len(held[t]) /\ Len(held[t]) \in Nat
      /\ At(t, Len(held[t]), Write("clients", b))
  BY InKnot
<1>2. t = b /\ Len(held[t]) = 0
  BY <1>1, ListOrigin
<1>3. PICK v \in K : v \in Blockers(wait[t])
  BY InKnot
<1>4. Has(v, Write("clients", b)) \/ Has(v, Read("clients", b))
  BY <1>3 DEF Blockers, Write, Read
<1>5. PICK j \in DOMAIN held[v] : held[v][j] \in {Write("clients", b), Read("clients", b)}
  BY <1>4 DEF Has, In
<1> DEFINE n == Len(held[v])
<1>6. /\ v \in Threads /\ j - 1 \in 0 .. n /\ At(v, j - 1, held[v][j]) /\ j \in 1 .. n
      /\ n \in Nat /\ n \in 0 .. n /\ At(v, n, wait[v]) /\ wait[v] # None
  BY <1>5, InKnot DEF At
<1>7. v # t
  BY <1>2, <1>6
<1>8. held[v][j] = Read("clients", b)
  BY <1>2, <1>5, <1>6, <1>7, ListOrigin
<1>9. CASE j = 1
  <2>1. After(v, held[v], 0, Read("clients", b))
    BY <1>6, <1>8, <1>9, AtAfter
  <2>2. v = Ship
    BY <1>2, <1>7, <2>1 DEF After, BlockThread, Read, Write
  <2>3. wait[v][2][1] = "client"
    <3>1. ASSUME NEW x \in Blocks, wait[v] \in {Read("clients", x), Write("clients", x)} PROVE FALSE
      BY <1>6, <2>2, <3>1, ListOrigin, LocksAssumption
    <3> QED BY <3>1, WaitsFor
  <2>4. PICK u \in K : Len(held[u]) > 1 /\ held[v][n] = Read("clients", u)
    BY <2>3, ClientWait
  <2>5. n > 0
    BY <1>6
  <2>6. n = 1
    BY <1>6, <2>2, <2>4, <2>5, LastHeld, LocksAssumption
  <2>7. u = b
    BY <1>8, <1>9, <2>4, <2>6 DEF Read
  <2> QED BY <1>2, <2>4, <2>7
<1>10. CASE j # 1
  <2>1. j = 3 /\ v \in Blocks
    BY <1>6, <1>8, <1>10, ListOrigin
  <2>2. Searching(v)
    BY <1>6, <2>1, ServingWaits
  <2>3. wait[v][2][1] = "client"
    BY <2>2 DEF Searching
  <2>4. PICK u \in K : held[v][n] = Read("clients", u)
    BY <2>3, ClientWait
  <2>5. n = 1 \/ n = 3
    <3>1. n > 0
      BY <1>6
    <3> QED BY <1>6, <2>4, <3>1, LastHeld
  <2>6. n = 3
    BY <1>6, <2>1, <2>5
  <2> QED BY <1>2, <1>8, <2>1, <2>2, <2>6
<1> QED BY <1>9, <1>10

LEMMA ReaderWaits ==
    ASSUME IInv, NEW K, Quiet(K), NEW t \in K, NEW b \in Blocks, wait[t] = Read("clients", b)
    PROVE  /\ b \in K /\ Len(held[b]) = 0
           /\ \E v \in K : Searching(v) /\ held[v][Len(held[v])] = Read("clients", b)
<1>1. PICK u \in K : u \in Blockers(wait[t])
  BY InKnot
<1>2. Has(u, Write("clients", b)) \/ wait[u] = Write("clients", b)
  BY <1>1 DEF Blockers, Write, Read
<1>3. ~ Has(u, Write("clients", b))
  <2> SUFFICES ASSUME Has(u, Write("clients", b)) PROVE FALSE
    OBVIOUS
  <2>1. PICK i \in DOMAIN held[u] : held[u][i] = Write("clients", b)
    BY DEF Has, In
  <2> DEFINE n == Len(held[u])
  <2>2. /\ u \in Threads /\ i - 1 \in 0 .. n /\ At(u, i - 1, Write("clients", b)) /\ i \in 1 .. n
        /\ n \in Nat /\ n \in 0 .. n /\ At(u, n, wait[u])
    BY <2>1, InKnot DEF At
  <2>3. i = 1 /\ u = b
    BY <2>2, ListOrigin
  <2>4. \A x : held[u][1] # Read("clients", x)
    BY <2>1, <2>3 DEF Read, Write
  <2>5. ASSUME NEW x \in Blocks, wait[u] \in {Read("clients", x), Write("clients", x)} PROVE FALSE
    BY <2>2, <2>3, <2>4, <2>5, ListOrigin
  <2>6. PICK v \in K : n > 0 /\ held[u][n] = Read("clients", v)
    BY <2>5, WaitsFor, ClientWait
  <2>8. n = 1
    BY <2>2, <2>4, <2>6, LastHeld
  <2> QED BY <2>4, <2>6, <2>8
<1> QED BY <1>2, <1>3, WriterWaits

LEMMA KnotsVisit ==
    ASSUME IInv, NEW K \in SUBSET Threads, Knot(K), \A t \in K : ~ ChangingEvent(t)
    PROVE  \E t, u \in K : t # u /\ Searching(t) /\ Searching(u)
<1>1. Quiet(K)
  BY DEF Quiet
<1>2. PICK t \in K : TRUE
  BY DEF Knot
<1>3. PICK s \in K : Searching(s)
  <2>1. ASSUME NEW x \in K, NEW b \in Blocks, wait[x] \in {Read("clients", b), Write("clients", b)}
        PROVE  \E v \in K : Searching(v)
    BY <1>1, <2>1, ReaderWaits, WriterWaits
  <2>2. CASE wait[t][2][1] = "client"
    <3>1. PICK u \in K : u \in Blocks /\ Len(held[u]) > 1
      BY <1>1, <2>2, ClientWait
    <3> QED BY <1>1, <2>1, <3>1, ServingWaits
  <2> QED BY <1>1, <2>1, <2>2, WaitsFor
<1>4. wait[s][2][1] = "client"
  BY <1>3 DEF Searching
<1>5. PICK u \in K : /\ u # s /\ u \in Blocks /\ Len(held[u]) > 1
                     /\ held[s][Len(held[s])] = Read("clients", u)
  BY <1>1, <1>4, ClientWait
<1>6. CASE Searching(u)
  BY <1>3, <1>5, <1>6
<1>7. CASE ~ Searching(u)
  <2>1. PICK b \in Blocks : wait[u] = Read("clients", b)
    BY <1>1, <1>5, <1>7, ServingWaits
  <2>2. Len(held[b]) = 0
    BY <1>1, <2>1, ReaderWaits
  <2>3. PICK v \in K : Searching(v) /\ held[v][Len(held[v])] = Read("clients", b)
    BY <1>1, <2>1, ReaderWaits
  <2>4. b # u
    BY <1>5, <2>2
  <2>5. v # s
    BY <1>5, <2>3, <2>4 DEF Read
  <2> QED BY <1>3, <2>3, <2>5
<1> QED BY <1>6, <1>7

\* For any blocks and clients, and whether locks prefer readers or writers: threads of a
\* ship wait for each other only over an event or two searches.
THEOREM KnotsAreOfVisitors == Spec => []KnotsAreVisits
<1>1. IInv => KnotsAreVisits
  BY KnotsVisit DEF KnotsAreVisits
<1> QED BY <1>1, Initial, Inductive, PTL DEF Spec
===============================================================================
