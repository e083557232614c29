--------------------------- MODULE CharactersProofs ---------------------------
(***************************************************************************)
(* Proofs about Characters, for any number of players, ships and blocks,   *)
(* any number of logins, changes, faults and cuts, and queues of any       *)
(* length: as long as nothing happened that may cost a player a change,    *)
(* the last change to its character is where it should be, and nobody is   *)
(* moved on without it.  Both rest on the order of the two queues between  *)
(* a ship and the shipgate: a save is read before the question that        *)
(* follows it, and a character comes before the options that move its      *)
(* player on.                                                              *)
(***************************************************************************)
EXTENDS Characters, SequenceTheorems, WellFoundedInduction, TLAPS

-----------------------------------------------------------------------------
(* Queues, as one player sees them.                                         *)

Is(m, t, p) == m.type = t /\ m.who = p
Has(q, t, p) == \E k \in 1 .. Len(q) : Is(q[k], t, p)
Once(q, t, p) == \A i, j \in 1 .. Len(q) : Is(q[i], t, p) /\ Is(q[j], t, p) => i = j
Before(q, t, u, p) == \A i, j \in 1 .. Len(q) : Is(q[i], t, p) /\ Is(q[j], u, p) => i < j
Says(q, t, p, n) == \A k \in 1 .. Len(q) : Is(q[k], t, p) => q[k].char = n

\* What player p is told by r is no more than what it is told by q, and in that order.
Like(r, q, p) ==
    /\ \A t : Has(r, t, p) <=> Has(q, t, p)
    /\ \A t : Once(q, t, p) => Once(r, t, p)
    /\ \A t, u : Before(q, t, u, p) => Before(r, t, u, p)
    /\ \A t, n : Says(q, t, p, n) => Says(r, t, p, n)

LEMMA Nothing ==
    ASSUME NEW p
    PROVE  /\ \A t : ~Has(<<>>, t, p) /\ Once(<<>>, t, p)
           /\ \A t, u : Before(<<>>, t, u, p)
           /\ \A t, n : Says(<<>>, t, p, n)
<1>1. 1 .. Len(<<>>) = {}
  OBVIOUS
<1> QED BY <1>1 DEF Has, Once, Before, Says

LEMMA TailFacts ==
    ASSUME NEW S, NEW q \in Seq(S), q # <<>>
    PROVE  /\ Tail(q) \in Seq(S) /\ Len(Tail(q)) = Len(q) - 1
           /\ Len(q) \in Nat \ {0} /\ Head(q) = q[1] /\ Head(q) \in S
           /\ \A k \in 1 .. Len(Tail(q)) : k + 1 \in 1 .. Len(q) /\ Tail(q)[k] = q[k + 1]
           /\ \A k \in 1 .. Len(q) : k # 1 => k - 1 \in 1 .. Len(Tail(q)) /\ Tail(q)[k - 1] = q[k]
<1>1. Len(q) \in Nat \ {0} /\ Len(Tail(q)) = Len(q) - 1 /\ Tail(q) \in Seq(S)
  OBVIOUS
<1>2. \A k \in 1 .. Len(Tail(q)) : Tail(q)[k] = q[k + 1]
  OBVIOUS
<1>3. Head(q) = q[1] /\ Head(q) \in S
  BY <1>1
<1> QED BY <1>1, <1>2, <1>3

\* What is left of a queue when its head is read.
LEMMA Read ==
    ASSUME NEW S, NEW q \in Seq(S), q # <<>>, NEW p
    PROVE  /\ \A t : Has(Tail(q), t, p) => Has(q, t, p)
           /\ \A t : Has(q, t, p) => Has(Tail(q), t, p) \/ Is(Head(q), t, p)
           /\ \A t : Once(q, t, p) => Once(Tail(q), t, p)
           /\ \A t, u : Before(q, t, u, p) => Before(Tail(q), t, u, p)
           /\ \A t, n : Says(q, t, p, n) => Says(Tail(q), t, p, n)
<1> DEFINE r == Tail(q)
<1>1. /\ Len(r) = Len(q) - 1 /\ Len(q) \in Nat \ {0} /\ Head(q) = q[1]
      /\ \A k \in 1 .. Len(r) : k + 1 \in 1 .. Len(q) /\ r[k] = q[k + 1]
      /\ \A k \in 1 .. Len(q) : k # 1 => k - 1 \in 1 .. Len(r) /\ r[k - 1] = q[k]
  BY TailFacts
<1> HIDE DEF r
<1>2. \A t : Has(r, t, p) => Has(q, t, p)
  BY <1>1 DEF Has
<1>3. \A t : Has(q, t, p) => Has(r, t, p) \/ Is(Head(q), t, p)
  BY <1>1 DEF Has
<1>4. \A t : Once(q, t, p) => Once(r, t, p)
  BY <1>1 DEF Once
<1>5. \A t, u : Before(q, t, u, p) => Before(r, t, u, p)
  BY <1>1 DEF Before
<1>6. \A t, n : Says(q, t, p, n) => Says(r, t, p, n)
  BY <1>1 DEF Says
<1> QED BY <1>2, <1>3, <1>4, <1>5, <1>6 DEF r

\* What the head of a queue says of the rest.
LEMMA HeadSays ==
    ASSUME NEW S, NEW q \in Seq(S), q # <<>>, NEW p, NEW t, Is(Head(q), t, p)
    PROVE  /\ Has(q, t, p)
           /\ Once(q, t, p) => ~Has(Tail(q), t, p)
           /\ \A u : Before(q, u, t, p) => ~Has(q, u, p)
           /\ \A n : Says(q, t, p, n) => Head(q).char = n
<1> DEFINE r == Tail(q)
<1>1. /\ Len(r) = Len(q) - 1 /\ Len(q) \in Nat \ {0} /\ Head(q) = q[1]
      /\ \A k \in 1 .. Len(r) : k + 1 \in 1 .. Len(q) /\ r[k] = q[k + 1]
  BY TailFacts
<1> HIDE DEF r
<1>2. 1 \in 1 .. Len(q) /\ Is(q[1], t, p)
  BY <1>1
<1>3. Has(q, t, p)
  BY <1>2 DEF Has
<1>4. Once(q, t, p) => ~Has(r, t, p)
  BY <1>1, <1>2 DEF Once, Has
<1>5. \A u : Before(q, u, t, p) => ~Has(q, u, p)
  BY <1>1, <1>2 DEF Before, Has
<1>6. \A n : Says(q, t, p, n) => Head(q).char = n
  BY <1>1, <1>2 DEF Says
<1> QED BY <1>3, <1>4, <1>5, <1>6 DEF r

LEMMA AppendFacts ==
    ASSUME NEW S, NEW q \in Seq(S), NEW m \in S
    PROVE  /\ Append(q, m) \in Seq(S) /\ Len(Append(q, m)) = Len(q) + 1 /\ Len(q) \in Nat
           /\ Append(q, m)[Len(q) + 1] = m
           /\ \A k \in 1 .. Len(q) : Append(q, m)[k] = q[k]
OBVIOUS

\* What a queue says when a packet is put behind it.
LEMMA Written ==
    ASSUME NEW S, NEW q \in Seq(S), NEW m \in S, NEW p
    PROVE  /\ \A t : Has(Append(q, m), t, p) <=> Has(q, t, p) \/ Is(m, t, p)
           /\ \A t : Once(q, t, p) /\ (Is(m, t, p) => ~Has(q, t, p)) => Once(Append(q, m), t, p)
           /\ \A t, u : /\ Before(q, t, u, p) /\ ~(Is(m, t, p) /\ Is(m, u, p))
                        /\ Is(m, t, p) => ~Has(q, u, p)
                        => Before(Append(q, m), t, u, p)
           /\ \A t, n : Says(q, t, p, n) /\ (Is(m, t, p) => m.char = n) => Says(Append(q, m), t, p, n)
<1> DEFINE r == Append(q, m)
           L == Len(q)
<1>1. /\ Len(r) = L + 1 /\ L \in Nat /\ r[L + 1] = m
      /\ \A k \in 1 .. L : r[k] = q[k]
      /\ \A k \in 1 .. L + 1 : k \in 1 .. L \/ k = L + 1
      /\ L + 1 \in 1 .. L + 1 /\ \A k \in 1 .. L : k \in 1 .. L + 1 /\ k < L + 1
  BY AppendFacts
<1> HIDE DEF r
<1>2. \A t : Has(r, t, p) <=> Has(q, t, p) \/ Is(m, t, p)
  BY <1>1 DEF Has
<1>3. \A t : Once(q, t, p) /\ (Is(m, t, p) => ~Has(q, t, p)) => Once(r, t, p)
  BY <1>1 DEF Has, Once
<1>4. ASSUME NEW t, NEW u, Before(q, t, u, p), ~(Is(m, t, p) /\ Is(m, u, p)),
             Is(m, t, p) => ~Has(q, u, p)
      PROVE  Before(r, t, u, p)
  BY <1>1, <1>4 DEF Has, Before
<1>5. \A t, n : Says(q, t, p, n) /\ (Is(m, t, p) => m.char = n) => Says(r, t, p, n)
  BY <1>1 DEF Says
<1> QED BY <1>2, <1>3, <1>4, <1>5 DEF r

\* Another player's packet changes nothing for p.
LEMMA ReadAnothers ==
    ASSUME NEW S, NEW q \in Seq(S), q # <<>>, NEW p, Head(q).who # p
    PROVE  Like(Tail(q), q, p)
<1>1. \A t : ~Is(Head(q), t, p)
  BY DEF Is
<1> QED BY <1>1, Read DEF Like

LEMMA WrittenAnothers ==
    ASSUME NEW S, NEW q \in Seq(S), NEW m \in S, NEW p, m.who # p
    PROVE  Like(Append(q, m), q, p)
<1>1. \A t : ~Is(m, t, p)
  BY DEF Is
<1> QED BY <1>1, Written DEF Like

LEMMA LikeItself ==
    ASSUME NEW q, NEW p
    PROVE  Like(q, q, p)
BY DEF Like

LEMMA LikeThrough ==
    ASSUME NEW q, NEW r, NEW x, NEW p, Like(r, q, p), Like(x, r, p)
    PROVE  Like(x, q, p)
BY DEF Like

\* Two packets, one behind the other.
LEMMA Two ==
    ASSUME NEW S, NEW q \in Seq(S), NEW a \in S, NEW b \in S
    PROVE  q \o <<a, b>> = Append(Append(q, a), b) /\ q \o <<a>> = Append(q, a)
OBVIOUS

-----------------------------------------------------------------------------
(* The clients of a block, as one player sees them.                         *)

One(q, p) == \A i, j \in 1 .. Len(q) : q[i].who = p /\ q[j].who = p => i = j

LEMMA Members ==
    ASSUME NEW S, NEW q \in Seq(S), NEW p
    PROVE  \A x : x \in Of(p, q) <=> \E k \in 1 .. Len(q) : q[k] = x /\ q[k].who = p
<1>1. DOMAIN q = 1 .. Len(q)
  OBVIOUS
<1> QED BY <1>1 DEF Of, ToSet

LEMMA NoMembers ==
    ASSUME NEW p
    PROVE  Of(p, <<>>) = {} /\ One(<<>>, p)
BY DEF Of, ToSet, One

LEMMA Joined ==
    ASSUME NEW S, NEW q \in Seq(S), NEW c \in S, NEW p
    PROVE  /\ c.who # p => Of(p, Append(q, c)) = Of(p, q) /\ (One(q, p) => One(Append(q, c), p))
           /\ c.who = p /\ Of(p, q) = {} => Of(p, Append(q, c)) = {c} /\ One(Append(q, c), p)
<1> DEFINE r == Append(q, c)
           L == Len(q)
<1>1. /\ r \in Seq(S) /\ Len(r) = L + 1 /\ L \in Nat /\ r[L + 1] = c
      /\ \A k \in 1 .. L : r[k] = q[k]
      /\ \A k \in 1 .. L + 1 : k \in 1 .. L \/ k = L + 1
      /\ L + 1 \in 1 .. L + 1 /\ \A k \in 1 .. L : k \in 1 .. L + 1
  BY AppendFacts
<1>2. \A x : x \in Of(p, q) <=> \E k \in 1 .. L : q[k] = x /\ q[k].who = p
  BY Members
<1>3. \A x : x \in Of(p, r) <=> \E k \in 1 .. L + 1 : r[k] = x /\ r[k].who = p
  <2>1. r \in Seq(S)
    BY <1>1
  <2> HIDE DEF r
  <2>2. \A x : x \in Of(p, r) <=> \E k \in 1 .. Len(r) : r[k] = x /\ r[k].who = p
    BY <2>1, Members
  <2> QED BY <1>1, <2>2, Zenon
<1> HIDE DEF r
<1>4. ASSUME c.who # p
      PROVE  Of(p, r) = Of(p, q) /\ (One(q, p) => One(r, p))
  <2>1. ASSUME NEW x
        PROVE  x \in Of(p, r) <=> x \in Of(p, q)
    <3>1. (\E k \in 1 .. L + 1 : r[k] = x /\ r[k].who = p) <=> \E k \in 1 .. L : q[k] = x /\ q[k].who = p
      BY <1>1, <1>4
    <3> QED BY <1>2, <1>3, <3>1
  <2>2. Of(p, r) = Of(p, q)
    BY <2>1
  <2>3. One(q, p) => One(r, p)
    BY <1>1, <1>4 DEF One
  <2> QED BY <2>2, <2>3
<1>5. ASSUME c.who = p, Of(p, q) = {}
      PROVE  Of(p, r) = {c} /\ One(r, p)
  <2>1. \A k \in 1 .. L : q[k].who # p
    BY <1>2, <1>5
  <2>2. Of(p, r) = {c}
    BY <1>1, <1>3, <1>5, <2>1
  <2>3. One(r, p)
    BY <1>1, <2>1 DEF One
  <2> QED BY <2>2, <2>3
<1> QED BY <1>4, <1>5 DEF r

LEMMA RemoveFacts ==
    ASSUME NEW S, NEW q \in Seq(S), NEW i \in 1 .. Len(q)
    PROVE  /\ RemoveAt(q, i) \in Seq(S) /\ Len(RemoveAt(q, i)) = Len(q) - 1 /\ Len(q) \in Nat
           /\ \A k \in 1 .. Len(q) - 1 : RemoveAt(q, i)[k] = q[IF k < i THEN k ELSE k + 1]
<1>1. Len(q) \in Nat /\ i \in Nat /\ i >= 1 /\ i <= Len(q)
  OBVIOUS
<1>2. /\ SubSeq(q, 1, i - 1) \in Seq(S) /\ Len(SubSeq(q, 1, i - 1)) = i - 1
      /\ \A k \in 1 .. i - 1 : SubSeq(q, 1, i - 1)[k] = q[k]
  BY <1>1
<1>3. /\ SubSeq(q, i + 1, Len(q)) \in Seq(S) /\ Len(SubSeq(q, i + 1, Len(q))) = Len(q) - i
      /\ \A k \in 1 .. Len(q) - i : SubSeq(q, i + 1, Len(q))[k] = q[k + i]
  BY <1>1
<1>4. /\ RemoveAt(q, i) \in Seq(S) /\ Len(RemoveAt(q, i)) = Len(q) - 1
      /\ \A k \in 1 .. Len(q) - 1 :
             RemoveAt(q, i)[k] = IF k < i THEN SubSeq(q, 1, i - 1)[k]
                                 ELSE SubSeq(q, i + 1, Len(q))[k - (i - 1)]
  <2> DEFINE a == SubSeq(q, 1, i - 1)
             b == SubSeq(q, i + 1, Len(q))
  <2>1. RemoveAt(q, i) = a \o b
    BY DEF RemoveAt
  <2>2. a \in Seq(S) /\ b \in Seq(S) /\ Len(a) = i - 1 /\ Len(b) = Len(q) - i
    BY <1>2, <1>3
  <2> HIDE DEF a, b
  <2>3. /\ a \o b \in Seq(S) /\ Len(a \o b) = Len(a) + Len(b)
        /\ \A k \in 1 .. Len(a) + Len(b) : (a \o b)[k] = IF k <= Len(a) THEN a[k] ELSE b[k - Len(a)]
    BY <2>2, ConcatProperties
  <2>4. Len(a) + Len(b) = Len(q) - 1 /\ \A k \in 1 .. Len(q) - 1 : k <= Len(a) <=> k < i
    BY <1>1, <2>2
  <2>5. RemoveAt(q, i) \in Seq(S) /\ Len(RemoveAt(q, i)) = Len(q) - 1
    BY <2>1, <2>3, <2>4
  <2>6. \A k \in 1 .. Len(q) - 1 : RemoveAt(q, i)[k] = IF k < i THEN a[k] ELSE b[k - (i - 1)]
    BY <2>1, <2>2, <2>3, <2>4
  <2> QED BY <2>5, <2>6 DEF a, b
<1>5. ASSUME NEW k \in 1 .. Len(q) - 1
      PROVE  RemoveAt(q, i)[k] = q[IF k < i THEN k ELSE k + 1]
  <2>1. CASE k < i
    <3>1. k \in 1 .. i - 1
      BY <1>1, <2>1
    <3> QED BY <1>2, <1>4, <2>1, <3>1
  <2>2. CASE ~(k < i)
    <3>1. k - (i - 1) \in 1 .. Len(q) - i /\ k - (i - 1) + i = k + 1
      BY <1>1, <2>2
    <3> QED BY <1>3, <1>4, <2>2, <3>1
  <2> QED BY <2>1, <2>2
<1> QED BY <1>1, <1>4, <1>5

LEMMA Left ==
    ASSUME NEW S, NEW q \in Seq(S), NEW i \in 1 .. Len(q), NEW p
    PROVE  /\ q[i].who # p => /\ Of(p, RemoveAt(q, i)) = Of(p, q)
                              /\ One(q, p) => One(RemoveAt(q, i), p)
           /\ q[i].who = p /\ One(q, p) => Of(p, RemoveAt(q, i)) = {} /\ One(RemoveAt(q, i), p)
<1> DEFINE r == RemoveAt(q, i)
           L == Len(q)
           from(k) == IF k < i THEN k ELSE k + 1
<1>1. /\ r \in Seq(S) /\ Len(r) = L - 1 /\ L \in Nat
      /\ \A k \in 1 .. L - 1 : r[k] = q[from(k)]
  BY RemoveFacts
<1>2. /\ \A k \in 1 .. L - 1 : from(k) \in 1 .. L /\ from(k) # i
      /\ \A j, k \in 1 .. L - 1 : from(j) = from(k) => j = k
      /\ \A j \in 1 .. L : j # i => \E k \in 1 .. L - 1 : from(k) = j
  <2>1. ASSUME NEW j \in 1 .. L, j # i
        PROVE  \E k \in 1 .. L - 1 : from(k) = j
    <3>1. CASE j < i
      <4>1. j \in 1 .. L - 1 /\ from(j) = j
        BY <1>1, <2>1, <3>1
      <4> QED BY <4>1
    <3>2. CASE j > i
      <4>1. j - 1 \in 1 .. L - 1 /\ from(j - 1) = j
        BY <1>1, <2>1, <3>2
      <4> QED BY <4>1
    <3> QED BY <1>1, <2>1, <3>1, <3>2
  <2> QED BY <1>1, <2>1
<1>3. \A x : x \in Of(p, q) <=> \E k \in 1 .. L : q[k] = x /\ q[k].who = p
  BY Members
<1>4. \A x : x \in Of(p, r) <=> \E k \in 1 .. L - 1 : r[k] = x /\ r[k].who = p
  <2>1. r \in Seq(S)
    BY <1>1
  <2> HIDE DEF r
  <2>2. \A x : x \in Of(p, r) <=> \E k \in 1 .. Len(r) : r[k] = x /\ r[k].who = p
    BY <2>1, Members
  <2> QED BY <1>1, <2>2, Zenon
<1> HIDE DEF r, from
<1>5. ASSUME One(q, p) PROVE One(r, p)
  <2>1. ASSUME NEW j \in 1 .. L - 1, NEW k \in 1 .. L - 1, r[j].who = p, r[k].who = p
        PROVE  j = k
    <3>1. from(j) \in 1 .. L /\ from(k) \in 1 .. L
      BY <1>2
    <3>2. q[from(j)].who = p /\ q[from(k)].who = p
      BY <1>1, <2>1
    <3>3. from(j) = from(k)
      BY <1>5, <3>1, <3>2 DEF One
    <3> QED BY <1>2, <3>3
  <2> QED BY <1>1, <2>1 DEF One
<1>6. ASSUME q[i].who # p
      PROVE  Of(p, r) = Of(p, q)
  <2>1. ASSUME NEW k \in 1 .. L, q[k].who = p
        PROVE  q[k] \in Of(p, r)
    <3>1. PICK j \in 1 .. L - 1 : from(j) = k
      BY <1>2, <1>6, <2>1
    <3> QED BY <1>1, <1>4, <2>1, <3>1
  <2>2. Of(p, q) \subseteq Of(p, r)
    BY <1>3, <2>1
  <2>3. ASSUME NEW x \in Of(p, r)
        PROVE  x \in Of(p, q)
    <3>1. PICK k \in 1 .. L - 1 : r[k] = x /\ r[k].who = p
      BY <1>4
    <3>2. from(k) \in 1 .. L /\ q[from(k)] = x
      BY <1>1, <1>2, <3>1
    <3> QED BY <1>3, <3>1, <3>2
  <2> QED BY <2>2, <2>3
<1>7. ASSUME q[i].who = p, One(q, p)
      PROVE  Of(p, r) = {}
  <2>1. \A k \in 1 .. L - 1 : r[k].who # p
    BY <1>1, <1>2, <1>7 DEF One
  <2> QED BY <1>4, <2>1
<1> QED BY <1>5, <1>6, <1>7 DEF r

\* Place i of list q has c in list r.
Swapped(q, r, i, c) ==
    Len(r) = Len(q) /\ \A k \in 1 .. Len(q) : r[k] = IF k = i THEN c ELSE q[k]

LEMMA Changed ==
    ASSUME NEW S, NEW q \in Seq(S), NEW i \in 1 .. Len(q), NEW c \in S, c.who = q[i].who, NEW p,
           NEW r \in Seq(S), Swapped(q, r, i, c)
    PROVE  /\ One(q, p) => One(r, p)
           /\ c.who # p => Of(p, r) = Of(p, q)
           /\ c.who = p /\ One(q, p) => Of(p, q) = {q[i]} /\ Of(p, r) = {c}
<1> DEFINE L == Len(q)
<1>1. /\ r \in Seq(S) /\ Len(r) = L /\ L \in Nat
      /\ \A k \in 1 .. L : r[k] = IF k = i THEN c ELSE q[k]
  BY DEF Swapped
<1>2. \A k \in 1 .. L : r[k].who = q[k].who
  BY <1>1
<1>3. \A x : x \in Of(p, q) <=> \E k \in 1 .. L : q[k] = x /\ q[k].who = p
  BY Members
<1>4. \A x : x \in Of(p, r) <=> \E k \in 1 .. L : r[k] = x /\ r[k].who = p
  <2>1. r \in Seq(S)
    BY <1>1
  <2>2. \A x : x \in Of(p, r) <=> \E k \in 1 .. Len(r) : r[k] = x /\ r[k].who = p
    BY <2>1, Members
  <2> QED BY <1>1, <2>2, Zenon
<1>5. One(q, p) => One(r, p)
  BY <1>1, <1>2 DEF One
<1>6. ASSUME c.who # p
      PROVE  Of(p, r) = Of(p, q)
  <2>1. \A k \in 1 .. L : r[k].who = p => r[k] = q[k]
    BY <1>1, <1>6
  <2>2. ASSUME NEW x
        PROVE  x \in Of(p, r) <=> x \in Of(p, q)
    <3>1. (\E k \in 1 .. L : r[k] = x /\ r[k].who = p) <=> \E k \in 1 .. L : q[k] = x /\ q[k].who = p
      BY <1>2, <2>1
    <3> QED BY <1>3, <1>4, <3>1
  <2> QED BY <2>2
<1>7. ASSUME c.who = p, One(q, p)
      PROVE  Of(p, q) = {q[i]} /\ Of(p, r) = {c}
  <2>1. {j \in 1 .. L : q[j].who = p} = {i}
    BY <1>7 DEF One
  <2>2. {j \in 1 .. L : r[j].who = p} = {i}
    BY <1>2, <2>1
  <2> QED BY <1>1, <1>3, <1>4, <2>1, <2>2
<1> QED BY <1>1, <1>5, <1>6, <1>7

\* The least of some numbers, and where the first client of a player is.
LEMMA Least ==
    ASSUME NEW S \in SUBSET Nat, S # {}
    PROVE  Min(S) \in S /\ \A k \in S : Min(S) <= k
<1> DEFINE R == {ss \in Nat \X Nat : ss[1] < ss[2]}
<1>1. IsWellFoundedOn(R, Nat)
  BY NatLessThanWellFounded DEF OpToRel
<1>2. \A y, z \in Nat : <<y, z>> \notin R => z <= y
  OBVIOUS
<1> HIDE DEF R
<1>3. \E x \in S : \A y \in S : ~(<<y, x>> \in R)
  BY <1>1, WFMin
<1>4. \E x \in S : \A y \in S : x <= y
  BY <1>2, <1>3
<1> QED BY <1>4 DEF Min

LEMMA FirstFacts ==
    ASSUME NEW S, NEW q \in Seq(S), NEW p
    PROVE  /\ First(p, q) = 0 => Of(p, q) = {}
           /\ First(p, q) # 0 => First(p, q) \in 1 .. Len(q) /\ q[First(p, q)].who = p
<1> DEFINE I == {i \in 1 .. Len(q) : q[i].who = p}
<1>1. First(p, q) = IF I # {} THEN Min(I) ELSE 0
  BY DEF First, SelectInSeq
<1>2. I \in SUBSET Nat
  OBVIOUS
<1>3. I # {} => Min(I) \in I
  BY <1>2, Least
<1>4. \A x : x \in Of(p, q) <=> \E k \in I : q[k] = x
  BY Members
<1> QED BY <1>1, <1>3, <1>4

-----------------------------------------------------------------------------
(* The invariant.                                                           *)

\* What a ship (q is its queue to the shipgate, d the one back) and the shipgate tell each
\* other of player p, whose last change is n: saves come before the question for the
\* character, that one before the question for the options, and the answers likewise.
InTurn(q, d, p, n) ==
    /\ Before(q, "cdata", "creq", p) /\ Before(q, "creq", "opts", p) /\ Before(d, "char", "opts", p)
    /\ Once(q, "cdata", p) /\ Once(q, "creq", p) /\ Once(d, "char", p)
    /\ Says(q, "cdata", p, n) /\ Says(d, "char", p, n)
    /\ Has(q, "creq", p) => ~Has(d, "char", p) /\ ~Has(d, "opts", p)

\* A player has one connection.
Alone(p) ==
    /\ \A s \in Ships, b \in Blocks : One(clients[s][b], p)
    /\ \A s, t \in Ships, b, d \in Blocks :
           Of(p, clients[s][b]) # {} /\ Of(p, clients[t][d]) # {} => s = t /\ b = d

NoSaves(p) == \A s \in Ships : ~Has(up[s], "cdata", p)
Waits(p, s) == \E c \in On(p, s) : c.char = 0
Asked(p, s) == Has(up[s], "creq", p) \/ Has(down[s], "char", p)

\* Where a player's last change is, and who still asks for it.
Good(p) ==
    /\ Alone(p)
    /\ \A s \in Ships : InTurn(up[s], down[s], p, clock[p])
    /\ \A s \in Ships : Waits(p, s) <=> Asked(p, s)
    /\ \A s \in Ships : \A c \in On(p, s) :
           /\ c.moved => c.char # 0
           /\ c.char # 0 => c.char = clock[p] /\ NoSaves(p)
    /\ \A s \in Ships : Has(down[s], "char", p) => NoSaves(p)
    /\ \A s, t \in Ships : Has(up[s], "cdata", p) /\ (Has(up[t], "cdata", p) \/ Has(up[t], "creq", p)) => s = t
    /\ NoSaves(p) /\ (\A s \in Ships : \A c \in On(p, s) : c.char = 0)
          => row[p].is = "good" /\ row[p].char = clock[p]

Inv ==
    /\ TypeOK
    /\ \A p \in Players : clock[p] # 0 /\ (~upset[p] => Good(p))
    /\ \A s \in Ships : ~linked[s] => up[s] = <<>> /\ down[s] = <<>>

-----------------------------------------------------------------------------
(* What a step leaves of it for the players it does not concern.            *)

LEMMA OnFacts ==
    ASSUME NEW p, NEW s
    PROVE  \A c : c \in On(p, s) <=> \E b \in Blocks : c \in Of(p, clients[s][b])
BY DEF On

LEMMA LikeInTurn ==
    ASSUME NEW q, NEW d, NEW r, NEW e, NEW p, NEW n, InTurn(q, d, p, n), Like(r, q, p), Like(e, d, p)
    PROVE  InTurn(r, e, p, n)
BY DEF InTurn, Like

Unconcerned(p) ==
    /\ clock'[p] = clock[p] /\ row'[p] = row[p]
    /\ \A s \in Ships : Like(up'[s], up[s], p) /\ Like(down'[s], down[s], p)
    /\ \A s \in Ships, b \in Blocks :
           /\ Of(p, clients'[s][b]) = Of(p, clients[s][b])
           /\ One(clients[s][b], p) => One(clients'[s][b], p)

LEMMA Others ==
    ASSUME NEW p \in Players, Good(p), Unconcerned(p)
    PROVE  Good(p)'
<1>1. \A s \in Ships : On(p, s)' = On(p, s)
  BY DEF Unconcerned, On
<1>2. \A s \in Ships : \A t : Has(up'[s], t, p) <=> Has(up[s], t, p)
  BY DEF Unconcerned, Like
<1>3. \A s \in Ships : \A t : Has(down'[s], t, p) <=> Has(down[s], t, p)
  BY DEF Unconcerned, Like
<1>4. NoSaves(p)' <=> NoSaves(p)
  BY <1>2 DEF NoSaves
<1>5. Alone(p)'
  <2>1. \A s \in Ships, b \in Blocks : One(clients'[s][b], p)
    BY DEF Good, Alone, Unconcerned
  <2>2. \A s, t \in Ships, b, d \in Blocks :
            Of(p, clients'[s][b]) # {} /\ Of(p, clients'[t][d]) # {} => s = t /\ b = d
    BY DEF Good, Alone, Unconcerned
  <2> QED BY <2>1, <2>2 DEF Alone, Blocks
<1>6. \A s \in Ships : InTurn(up'[s], down'[s], p, clock'[p])
  BY LikeInTurn DEF Good, Unconcerned
<1>7. \A s \in Ships : Waits(p, s)' <=> Asked(p, s)'
  BY <1>1, <1>2, <1>3 DEF Good, Waits, Asked
<1>8. \A s \in Ships : \A c \in On(p, s)' :
         /\ c.moved => c.char # 0
         /\ c.char # 0 => c.char = clock'[p] /\ NoSaves(p)'
  BY <1>1, <1>4 DEF Good, Unconcerned
<1>9. \A s \in Ships : Has(down'[s], "char", p) => NoSaves(p)'
  BY <1>3, <1>4 DEF Good
<1>10. \A s, t \in Ships : Has(up'[s], "cdata", p) /\ (Has(up'[t], "cdata", p) \/ Has(up'[t], "creq", p)) => s = t
  BY <1>2 DEF Good
<1>11. NoSaves(p)' /\ (\A s \in Ships : \A c \in On(p, s)' : c.char = 0)
          => row'[p].is = "good" /\ row'[p].char = clock'[p]
  BY <1>1, <1>4 DEF Good, Unconcerned
<1> QED BY <1>5, <1>6, <1>7, <1>8, <1>9, <1>10, <1>11 DEF Good

LEMMA SameClients ==
    ASSUME NEW p \in Players, Good(p), UNCHANGED clients
    PROVE  Alone(p)' /\ \A t \in Ships : On(p, t)' = On(p, t)
<1>1. Alone(p)'
  BY DEF Good, Alone, Blocks
<1>2. \A t \in Ships : On(p, t)' = On(p, t)
  BY DEF On
<1> QED BY <1>1, <1>2

\* What the questions of Characters mean for a queue.
LEMMA SavesFacts ==
    ASSUME TypeOK, NEW p \in Players, NEW s \in Ships
    PROVE  SavesOf(p, s) # {} <=> Has(up[s], "cdata", p)
<1>1. up[s] \in Seq(UpSet)
  BY DEF TypeOK
<1>2. \A x : x \in Of(p, up[s]) <=> \E k \in 1 .. Len(up[s]) : up[s][k] = x /\ up[s][k].who = p
  BY <1>1, Members
<1> QED BY <1>2 DEF SavesOf, Has, Is

LEMMA Answered ==
    ASSUME TypeOK, NEW p \in Players, NEW s \in Ships, ~Unanswered(p, s)
    PROVE  /\ \A t : ~Has(down[s], t, p)
           /\ ~Has(up[s], "creq", p) /\ ~Has(up[s], "opts", p)
<1>1. up[s] \in Seq(UpSet) /\ down[s] \in Seq(DownSet)
  BY DEF TypeOK
<1>2. \A x : x \in Of(p, up[s]) <=> \E k \in 1 .. Len(up[s]) : up[s][k] = x /\ up[s][k].who = p
  BY <1>1, Members
<1>3. \A x : x \in Of(p, down[s]) <=> \E k \in 1 .. Len(down[s]) : down[s][k] = x /\ down[s][k].who = p
  BY <1>1, Members
<1>4. Of(p, down[s]) = {} /\ \A m \in Of(p, up[s]) : m.type = "cdata"
  BY DEF Unanswered, SavesOf
<1>5. \A t : ~Has(down[s], t, p)
  BY <1>3, <1>4 DEF Has, Is
<1>6. ~Has(up[s], "creq", p) /\ ~Has(up[s], "opts", p)
  BY <1>2, <1>4 DEF Has, Is
<1> QED BY <1>5, <1>6

-----------------------------------------------------------------------------
(* Where a player is.                                                       *)

\* What is of player p is in block b of ship s, and it is C.
Sits(cl, p, s, b, C) ==
    /\ One(cl[s][b], p) /\ Of(p, cl[s][b]) = C
    /\ \A t \in Ships, d \in Blocks : t # s \/ d # b => Of(p, cl[t][d]) = {} /\ One(cl[t][d], p)

LEMMA Sitting ==
    ASSUME NEW p, NEW s \in Ships, NEW b \in Blocks, NEW C, Sits(clients, p, s, b, C)
    PROVE  On(p, s) = C /\ \A t \in Ships : t # s => On(p, t) = {}
<1>1. \A c : c \in On(p, s) <=> c \in C
  BY DEF On, Sits
<1>2. ASSUME NEW t \in Ships, t # s PROVE On(p, t) = {}
  BY <1>2 DEF On, Sits
<1> QED BY <1>1, <1>2

LEMMA SittingThen ==
    ASSUME NEW p, NEW s \in Ships, NEW b \in Blocks, NEW c, Sits(clients', p, s, b, {c})
    PROVE  Alone(p)' /\ On(p, s)' = {c} /\ \A t \in Ships : t # s => On(p, t)' = {}
<1>1. \A x : x \in On(p, s)' <=> x = c
  BY DEF On, Sits
<1>2. ASSUME NEW t \in Ships, t # s PROVE On(p, t)' = {}
  BY <1>2 DEF On, Sits
<1>3. \A t \in Ships, d \in Blocks : One(clients'[t][d], p)
  BY DEF Sits
<1>4. \A t, u \in Ships, d, e \in Blocks :
          Of(p, clients'[t][d]) # {} /\ Of(p, clients'[u][e]) # {} => t = u /\ d = e
  BY DEF Sits
<1>5. Alone(p)'
  BY <1>3, <1>4 DEF Alone, Blocks
<1> QED BY <1>1, <1>2, <1>5

\* The connection of a player who has one.
LEMMA Seat ==
    ASSUME TypeOK, NEW p, NEW s \in Ships, NEW b \in Blocks, NEW i \in 1 .. Len(clients[s][b]),
           clients[s][b][i].who = p, Alone(p)
    PROVE  Sits(clients, p, s, b, {clients[s][b][i]})
<1> DEFINE q == clients[s][b]
<1>1. q \in Seq(ClientSet)
  BY DEF TypeOK
<1>2. One(q, p)
  BY DEF Alone
<1>3. \A x : x \in Of(p, q) <=> \E k \in 1 .. Len(q) : q[k] = x /\ q[k].who = p
  <2> HIDE DEF q
  <2> QED BY <1>1, Members
<1>4. \A x : x \in Of(p, q) <=> x = q[i]
  BY <1>2, <1>3 DEF One
<1>5. Of(p, q) = {q[i]}
  BY <1>4
<1>6. \A t \in Ships, d \in Blocks : t # s \/ d # b => Of(p, clients[t][d]) = {} /\ One(clients[t][d], p)
  <2>1. Of(p, clients[s][b]) # {}
    BY <1>5
  <2>2. \A t \in Ships, d \in Blocks : Of(p, clients[t][d]) # {} => s = t /\ b = d
    BY <2>1 DEF Alone
  <2>3. \A t \in Ships, d \in Blocks : One(clients[t][d], p)
    BY DEF Alone
  <2> QED BY <2>2, <2>3
<1> QED BY <1>2, <1>5, <1>6 DEF Sits

\* A step that gives one block another list.
Relisted(s, b, r) == clients' = [clients EXCEPT ![s][b] = r]

LEMMA RelistedFacts ==
    ASSUME TypeOK, NEW s \in Ships, NEW b \in Blocks, NEW r \in Seq(ClientSet), Relisted(s, b, r)
    PROVE  /\ clients' \in [Ships -> [Blocks -> Seq(ClientSet)]]
           /\ clients'[s][b] = r
           /\ \A t \in Ships, d \in Blocks : t # s \/ d # b => clients'[t][d] = clients[t][d]
BY DEF TypeOK, Relisted

\* What a packet more, or two, make of what a ship sends.
LEMMA SentOne ==
    ASSUME TypeOK, NEW s \in Ships, NEW a \in UpSet
    PROVE  /\ Sent(s, <<a>>) \in [Ships -> Seq(UpSet)]
           /\ \A t \in Ships : t # s => Sent(s, <<a>>)[t] = up[t]
           /\ Sent(s, <<a>>)[s] = IF linked[s] THEN Append(up[s], a) ELSE up[s]
<1>1. up \in [Ships -> Seq(UpSet)]
  BY DEF TypeOK
<1>2. up[s] \o <<a>> = Append(up[s], a) /\ Append(up[s], a) \in Seq(UpSet)
  BY <1>1, Two, AppendFacts
<1> QED BY <1>1, <1>2 DEF Sent

LEMMA SentTwo ==
    ASSUME TypeOK, NEW s \in Ships, NEW a \in UpSet, NEW m \in UpSet
    PROVE  /\ Sent(s, <<a, m>>) \in [Ships -> Seq(UpSet)]
           /\ \A t \in Ships : t # s => Sent(s, <<a, m>>)[t] = up[t]
           /\ Sent(s, <<a, m>>)[s] = IF linked[s] THEN Append(Append(up[s], a), m) ELSE up[s]
<1>1. up \in [Ships -> Seq(UpSet)]
  BY DEF TypeOK
<1>2. up[s] \o <<a, m>> = Append(Append(up[s], a), m)
  BY <1>1, Two
<1>3. Append(Append(up[s], a), m) \in Seq(UpSet)
  BY <1>1, AppendFacts
<1> QED BY <1>1, <1>2, <1>3 DEF Sent

\* The parts of Good.
LEMMA GoodParts ==
    ASSUME NEW p \in Players, Good(p)
    PROVE  /\ Alone(p)
           /\ \A s \in Ships : InTurn(up[s], down[s], p, clock[p])
           /\ \A s \in Ships : Waits(p, s) <=> Asked(p, s)
           /\ \A s \in Ships : Has(down[s], "char", p) => NoSaves(p)
           /\ \A s, t \in Ships : Has(up[s], "cdata", p) /\ (Has(up[t], "cdata", p) \/ Has(up[t], "creq", p)) => s = t
           /\ NoSaves(p) /\ (\A s \in Ships : \A c \in On(p, s) : c.char = 0)
                  => row[p].is = "good" /\ row[p].char = clock[p]
BY DEF Good

\* A player who is nowhere waits for nothing.
LEMMA Nowhere ==
    ASSUME NEW p \in Players, Good(p), ~Online(p)
    PROVE  /\ \A s \in Ships : On(p, s) = {} /\ ~Asked(p, s)
           /\ \A s \in Ships, b \in Blocks : Of(p, clients[s][b]) = {} /\ One(clients[s][b], p)
           /\ NoSaves(p) => row[p].is = "good" /\ row[p].char = clock[p]
<1>1. \A s \in Ships : On(p, s) = {}
  BY DEF Online
<1>2. \A s \in Ships : ~Asked(p, s)
  BY <1>1 DEF Good, Waits
<1>3. \A s \in Ships, b \in Blocks : Of(p, clients[s][b]) = {}
  BY <1>1 DEF On
<1>4. \A s \in Ships, b \in Blocks : One(clients[s][b], p)
  BY DEF Good, Alone
<1>5. NoSaves(p) => row[p].is = "good" /\ row[p].char = clock[p]
  BY <1>1 DEF Good
<1> QED BY <1>1, <1>2, <1>3, <1>4, <1>5

-----------------------------------------------------------------------------
(* On a ship.                                                               *)

LEMMA LoginKeeps ==
    ASSUME Inv, NEW p \in Players, NEW s \in Ships, NEW b \in Blocks, Login(p, s, b)
    PROVE  Inv'
<1> DEFINE c == [who |-> p, moved |-> FALSE, char |-> 0]
           q == [type |-> "creq", who |-> p, char |-> 0]
           o == [type |-> "opts", who |-> p, block |-> b]
           r == Append(clients[s][b], c)
<1>1. TypeOK
  BY DEF Inv
<1>2. c \in ClientSet /\ q \in UpSet /\ o \in UpSet
  BY CharactersAssumption DEF ClientSet, UpSet, Chars
<1>3. clients[s][b] \in Seq(ClientSet) /\ up[s] \in Seq(UpSet)
  BY <1>1 DEF TypeOK
<1>4. r \in Seq(ClientSet)
  BY <1>2, <1>3, AppendFacts
<1>5. Relisted(s, b, r)
  BY DEF Login, Relisted
<1> HIDE DEF c, q, o
<1>6. /\ clients' \in [Ships -> [Blocks -> Seq(ClientSet)]]
      /\ clients'[s][b] = r
      /\ \A t \in Ships, d \in Blocks : t # s \/ d # b => clients'[t][d] = clients[t][d]
  <2> HIDE DEF r
  <2> QED BY <1>1, <1>4, <1>5, RelistedFacts
<1>7. up' = Sent(s, <<q, o>>)
  BY DEF Login, Asking, q, o
<1>8. /\ up' \in [Ships -> Seq(UpSet)]
      /\ \A t \in Ships : t # s => up'[t] = up[t]
      /\ up'[s] = IF linked[s] THEN Append(Append(up[s], q), o) ELSE up[s]
  BY <1>1, <1>2, <1>7, SentTwo
<1>9. /\ UNCHANGED <<row, down, linked, cuts, faults, clock>> /\ logins' \in 0 .. MaxLogins
      /\ upset' = [upset EXCEPT ![p] = @ \/ (\/ Online(p) \/ Unanswered(p, s) \/ ~ linked[s]
                                            \/ \E x \in Ships \ {s} : SavesOf(p, x) # {})]
  BY <1>1, CharactersAssumption DEF Login, Upset, TypeOK
<1>10. upset' \in [Players -> BOOLEAN]
  BY <1>1, <1>9 DEF TypeOK
<1>11. TypeOK'
  BY <1>1, <1>6, <1>8, <1>9, <1>10 DEF TypeOK
<1>12. \A t \in Ships : ~linked'[t] => up'[t] = <<>> /\ down'[t] = <<>>
  BY <1>8, <1>9 DEF Inv
<1>13. ASSUME NEW x \in Players, x # p, ~upset'[x]
       PROVE  Good(x)'
  <2>1. Good(x)
    BY <1>1, <1>9, <1>13 DEF Inv, TypeOK
  <2>2. Of(x, r) = Of(x, clients[s][b]) /\ (One(clients[s][b], x) => One(r, x))
    BY <1>2, <1>3, <1>13, Joined DEF c
  <2>3. c.who # x /\ q.who # x /\ o.who # x
    BY <1>13 DEF c, q, o
  <2>4. Append(up[s], q) \in Seq(UpSet)
    BY <1>2, <1>3, AppendFacts
  <2>5. Like(Append(Append(up[s], q), o), up[s], x)
    <3>1. Like(Append(up[s], q), up[s], x)
      BY <1>2, <1>3, <2>3, WrittenAnothers
    <3>2. Like(Append(Append(up[s], q), o), Append(up[s], q), x)
      BY <1>2, <2>4, <2>3, WrittenAnothers
    <3> QED BY <3>1, <3>2, LikeThrough, Zenon
  <2>6. \A t \in Ships : Like(up'[t], up[t], x)
    BY <1>8, <2>5, LikeItself
  <2>7. \A t \in Ships : Like(down'[t], down[t], x)
    BY <1>9, LikeItself
  <2>8. \A t \in Ships, d \in Blocks :
            /\ Of(x, clients'[t][d]) = Of(x, clients[t][d])
            /\ One(clients[t][d], x) => One(clients'[t][d], x)
    <3> HIDE DEF r
    <3> QED BY <1>6, <2>2
  <2>9. Unconcerned(x)
    BY <1>9, <2>6, <2>7, <2>8 DEF Unconcerned
  <2> QED BY <2>1, <2>9, Others
<1>14. ASSUME ~upset'[p]
       PROVE  Good(p)'
  <2>1. ~upset[p] /\ ~Online(p) /\ ~Unanswered(p, s) /\ linked[s] /\ \A x \in Ships \ {s} : SavesOf(p, x) = {}
    BY <1>1, <1>9, <1>14 DEF TypeOK
  <2>2. Good(p)
    BY <2>1 DEF Inv
  <2>3. /\ \A t \in Ships : On(p, t) = {} /\ ~Asked(p, t)
        /\ \A t \in Ships, d \in Blocks : Of(p, clients[t][d]) = {} /\ One(clients[t][d], p)
        /\ NoSaves(p) => row[p].is = "good" /\ row[p].char = clock[p]
    BY <2>1, <2>2, Nowhere
  <2>4. Sits(clients', p, s, b, {c})
    <3>1. c.who = p /\ Of(p, clients[s][b]) = {}
      BY <2>3 DEF c
    <3>2. Of(p, r) = {c} /\ One(r, p)
      BY <1>2, <1>3, <3>1, Joined
    <3> HIDE DEF r
    <3> QED BY <1>6, <2>3, <3>2 DEF Sits
  <2>5. Alone(p)' /\ On(p, s)' = {c} /\ \A t \in Ships : t # s => On(p, t)' = {}
    BY <2>4, SittingThen
  <2>6. /\ \A t : ~Has(down[s], t, p)
        /\ ~Has(up[s], "creq", p) /\ ~Has(up[s], "opts", p)
    BY <1>1, <2>1, Answered
  <2>7. ~Is(q, "cdata", p) /\ Is(q, "creq", p) /\ ~Is(q, "opts", p)
    BY DEF Is, q
  <2>8. ~Is(o, "cdata", p) /\ ~Is(o, "creq", p) /\ Is(o, "opts", p)
    BY DEF Is, o
  <2> DEFINE u == Append(up[s], q)
             w == Append(u, o)
  <2>9. InTurn(up[s], down[s], p, clock[p])
    BY <2>2 DEF Good
  <2>10. /\ Before(u, "cdata", "creq", p) /\ Before(u, "creq", "opts", p)
         /\ Once(u, "cdata", p) /\ Once(u, "creq", p) /\ Says(u, "cdata", p, clock[p])
         /\ Has(u, "creq", p) /\ (Has(u, "cdata", p) <=> Has(up[s], "cdata", p)) /\ ~Has(u, "opts", p)
    BY <1>2, <1>3, <2>6, <2>7, <2>9, Written DEF InTurn
  <2>11. u \in Seq(UpSet)
    BY <1>2, <1>3, AppendFacts
  <2> HIDE DEF u
  <2>12. /\ Before(w, "cdata", "creq", p) /\ Before(w, "creq", "opts", p)
         /\ Once(w, "cdata", p) /\ Once(w, "creq", p) /\ Says(w, "cdata", p, clock[p])
         /\ Has(w, "creq", p) /\ (Has(w, "cdata", p) <=> Has(up[s], "cdata", p))
    BY <1>2, <2>8, <2>10, <2>11, Written
  <2> HIDE DEF w
  <2>13. up'[s] = w
    BY <1>8, <2>1 DEF u, w
  <2>14. \A t \in Ships : t # s => up'[t] = up[t]
    BY <1>8
  <2>15. \A t \in Ships : InTurn(up'[t], down'[t], p, clock'[p])
    <3>1. InTurn(w, down[s], p, clock[p])
      BY <2>6, <2>9, <2>12 DEF InTurn
    <3>2. ASSUME NEW t \in Ships PROVE InTurn(up'[t], down'[t], p, clock'[p])
      BY <1>9, <2>2, <2>13, <2>14, <3>1 DEF Good
    <3> QED BY <3>2
  <2>16. \A t \in Ships : Waits(p, t)' <=> Asked(p, t)'
    <3>1. Waits(p, s)' /\ \A t \in Ships : t # s => ~Waits(p, t)'
      BY <2>5 DEF Waits, c
    <3>2. Asked(p, s)' /\ \A t \in Ships : t # s => ~Asked(p, t)'
      BY <1>9, <2>3, <2>12, <2>13, <2>14 DEF Asked
    <3> QED BY <3>1, <3>2
  <2>17. \A t \in Ships : \A x \in On(p, t)' :
            /\ x.moved => x.char # 0
            /\ x.char # 0 => x.char = clock'[p] /\ NoSaves(p)'
    BY <2>5 DEF c
  <2>18. \A t \in Ships : ~Has(down'[t], "char", p)
    BY <1>9, <2>3 DEF Asked
  <2>19. \A t \in Ships : t # s => ~Has(up'[t], "cdata", p) /\ ~Has(up'[t], "creq", p)
    BY <1>1, <2>1, <2>3, <2>14, SavesFacts DEF Asked
  <2>20. NoSaves(p)' => row'[p].is = "good" /\ row'[p].char = clock'[p]
    BY <1>9, <2>3, <2>12, <2>13, <2>14 DEF NoSaves
  <2> QED BY <2>5, <2>15, <2>16, <2>17, <2>18, <2>19, <2>20 DEF Good
<1>15. \A x \in Players : clock'[x] # 0 /\ (~upset'[x] => Good(x)')
  BY <1>9, <1>13, <1>14 DEF Inv
<1> QED BY <1>11, <1>12, <1>15 DEF Inv

LEMMA LeaveKeeps ==
    ASSUME Inv, NEW s \in Ships, NEW b \in Blocks, NEW i \in DOMAIN clients[s][b], Leave(s, b, i)
    PROVE  Inv'
<1> DEFINE c == clients[s][b][i]
           m == [type |-> "cdata", who |-> c.who, char |-> c.char]
           r == RemoveAt(clients[s][b], i)
<1>1. TypeOK
  BY DEF Inv
<1>2. clients[s][b] \in Seq(ClientSet) /\ up[s] \in Seq(UpSet)
  BY <1>1 DEF TypeOK
<1>3. i \in 1 .. Len(clients[s][b])
  BY <1>2
<1>4. c \in ClientSet
  BY <1>2, <1>3
<1>5. c.who \in Players /\ m \in UpSet
  BY <1>4 DEF ClientSet, UpSet
<1> PICK p \in Players : p = c.who
  BY <1>5
<1>6. r \in Seq(ClientSet)
  BY <1>2, <1>3, RemoveFacts
<1>7. Relisted(s, b, r) /\ up' = Sent(s, <<m>>)
  BY DEF Leave, Relisted, Saved
<1>8. /\ UNCHANGED <<row, down, linked, logins, cuts, faults, clock>>
      /\ upset' = [upset EXCEPT ![p] = @ \/ (c.char = 0 \/ ~ linked[s])]
  BY DEF Leave, Upset
<1>9. m.type = "cdata" /\ m.who = p /\ m.char = c.char
  OBVIOUS
<1>10. \A x : /\ x # p => Of(x, r) = Of(x, clients[s][b]) /\ (One(clients[s][b], x) => One(r, x))
              /\ x = p /\ One(clients[s][b], p) => Of(p, r) = {} /\ One(r, p)
  BY <1>2, <1>3, Left
<1> HIDE DEF m, r
<1>11. /\ clients' \in [Ships -> [Blocks -> Seq(ClientSet)]]
       /\ clients'[s][b] = r
       /\ \A t \in Ships, d \in Blocks : t # s \/ d # b => clients'[t][d] = clients[t][d]
  BY <1>1, <1>6, <1>7, RelistedFacts
<1>12. /\ up' \in [Ships -> Seq(UpSet)]
       /\ \A t \in Ships : t # s => up'[t] = up[t]
       /\ up'[s] = IF linked[s] THEN Append(up[s], m) ELSE up[s]
  BY <1>1, <1>5, <1>7, SentOne
<1>13. upset' \in [Players -> BOOLEAN]
  BY <1>1, <1>5, <1>8 DEF TypeOK
<1>14. TypeOK'
  BY <1>1, <1>8, <1>11, <1>12, <1>13 DEF TypeOK
<1>15. \A t \in Ships : ~linked'[t] => up'[t] = <<>> /\ down'[t] = <<>>
  BY <1>8, <1>12 DEF Inv
<1>16. \A x \in Players : x # p => upset'[x] = upset[x]
  BY <1>1, <1>8 DEF TypeOK
<1>17. ~upset'[p] => ~upset[p] /\ c.char # 0 /\ linked[s]
  BY <1>1, <1>5, <1>8 DEF TypeOK
<1>18. ASSUME NEW x \in Players, x # p, ~upset'[x]
       PROVE  Good(x)'
  <2>1. Good(x)
    BY <1>16, <1>18 DEF Inv
  <2>2. Like(Append(up[s], m), up[s], x)
    BY <1>2, <1>5, <1>9, <1>18, WrittenAnothers
  <2>3. \A t \in Ships : Like(up'[t], up[t], x) /\ Like(down'[t], down[t], x)
    BY <1>8, <1>12, <2>2, LikeItself
  <2>4. \A t \in Ships, d \in Blocks :
            /\ Of(x, clients'[t][d]) = Of(x, clients[t][d])
            /\ One(clients[t][d], x) => One(clients'[t][d], x)
    BY <1>10, <1>11, <1>18
  <2>5. Unconcerned(x)
    BY <1>8, <2>3, <2>4 DEF Unconcerned
  <2> QED BY <2>1, <2>5, Others
<1>19. ASSUME ~upset'[p]
       PROVE  Good(p)'
  <2>1. ~upset[p] /\ c.char # 0 /\ linked[s]
    BY <1>17, <1>19
  <2>2. Good(p)
    BY <1>5, <2>1 DEF Inv
  <2>3. Sits(clients, p, s, b, {c})
    BY <1>1, <1>3, <2>2, Seat DEF Good
  <2>4. On(p, s) = {c} /\ \A t \in Ships : t # s => On(p, t) = {}
    BY <2>3, Sitting
  <2>5. c.char = clock[p] /\ NoSaves(p)
    BY <2>1, <2>2, <2>4 DEF Good
  <2>6. \A t \in Ships : ~Waits(p, t) /\ ~Asked(p, t)
    <3>1. \A t \in Ships : ~Waits(p, t)
      BY <2>1, <2>4 DEF Waits
    <3> QED BY <2>2, <3>1 DEF Good
  <2>7. Sits(clients', p, s, b, {})
    BY <1>10, <1>11, <2>3 DEF Sits
  <2>8. Alone(p)' /\ \A t \in Ships : On(p, t)' = {}
    <3>1. \A t \in Ships, d \in Blocks : Of(p, clients'[t][d]) = {} /\ One(clients'[t][d], p)
      BY <2>7 DEF Sits
    <3>2. \A t \in Ships : On(p, t)' = {}
      BY <3>1 DEF On
    <3>3. Alone(p)'
      BY <3>1 DEF Alone, Blocks
    <3> QED BY <3>2, <3>3
  <2>9. up'[s] = Append(up[s], m) /\ \A t \in Ships : t # s => up'[t] = up[t]
    BY <1>12, <2>1
  <2>10. Is(m, "cdata", p) /\ ~Is(m, "creq", p) /\ ~Is(m, "opts", p)
    BY <1>9 DEF Is
  <2>11. InTurn(up[s], down[s], p, clock[p])
    BY <2>2 DEF Good
  <2>12. /\ Before(up'[s], "cdata", "creq", p) /\ Before(up'[s], "creq", "opts", p)
         /\ Once(up'[s], "cdata", p) /\ Once(up'[s], "creq", p) /\ Says(up'[s], "cdata", p, clock[p])
         /\ ~Has(up'[s], "creq", p) /\ Has(up'[s], "cdata", p)
    BY <1>2, <1>5, <1>9, <2>5, <2>6, <2>9, <2>10, <2>11, Written DEF InTurn, NoSaves, Asked
  <2>13. \A t \in Ships : InTurn(up'[t], down'[t], p, clock'[p])
    <3>1. InTurn(up'[s], down[s], p, clock[p])
      BY <2>11, <2>12 DEF InTurn
    <3> QED BY <1>8, <2>2, <2>9, <3>1 DEF Good
  <2>14. \A t \in Ships : ~Waits(p, t)' /\ ~Asked(p, t)'
    BY <1>8, <2>6, <2>8, <2>9, <2>12 DEF Waits, Asked
  <2>15. \A t \in Ships : t # s => ~Has(up'[t], "cdata", p)
    BY <2>5, <2>9 DEF NoSaves
  <2>16. \A t \in Ships : ~Has(up'[t], "creq", p) /\ ~Has(down'[t], "char", p)
    BY <2>14 DEF Asked
  <2>17. ~NoSaves(p)'
    BY <2>12 DEF NoSaves
  <2> QED BY <2>8, <2>13, <2>14, <2>15, <2>16, <2>17 DEF Good
<1>20. \A x \in Players : clock'[x] # 0 /\ (~upset'[x] => Good(x)')
  BY <1>8, <1>18, <1>19 DEF Inv
<1> QED BY <1>14, <1>15, <1>20 DEF Inv

\* A step that changes what the client at place i of a block has, and no queue of p.
LEMMA SeatChanges ==
    ASSUME TypeOK, NEW s \in Ships, NEW b \in Blocks, NEW i \in 1 .. Len(clients[s][b]),
           NEW e \in ClientSet, e.who = clients[s][b][i].who,
           Relisted(s, b, [clients[s][b] EXCEPT ![i] = e])
    PROVE  /\ clients' \in [Ships -> [Blocks -> Seq(ClientSet)]]
           /\ \A x : x # e.who => \A t \in Ships, d \in Blocks :
                  /\ Of(x, clients'[t][d]) = Of(x, clients[t][d])
                  /\ One(clients[t][d], x) => One(clients'[t][d], x)
           /\ Alone(e.who) => /\ Sits(clients, e.who, s, b, {clients[s][b][i]})
                              /\ Sits(clients', e.who, s, b, {e})
<1> DEFINE q == clients[s][b]
           r == [q EXCEPT ![i] = e]
<1> PICK p : p = e.who
  OBVIOUS
<1>1. q \in Seq(ClientSet)
  BY DEF TypeOK
<1>2. r \in Seq(ClientSet)
  BY <1>1
<1>3. \A x : /\ One(q, x) => One(r, x)
             /\ p # x => Of(x, r) = Of(x, q)
             /\ p = x /\ One(q, x) => Of(x, r) = {e}
  <2>1. ASSUME NEW x
        PROVE  /\ One(q, x) => One(r, x)
               /\ e.who # x => Of(x, r) = Of(x, q)
               /\ e.who = x /\ One(q, x) => Of(x, r) = {e}
    <3>1. e.who = q[i].who /\ i \in 1 .. Len(q) /\ e \in ClientSet
      OBVIOUS
    <3>2. Swapped(q, r, i, e)
      BY <1>1 DEF Swapped
    <3> HIDE DEF q, r
    <3> QED BY <1>1, <1>2, <3>1, <3>2, Changed
  <2> QED BY <2>1
<1>4. Alone(p) => Sits(clients, p, s, b, {clients[s][b][i]})
  BY Seat
<1> HIDE DEF r
<1>5. /\ clients' \in [Ships -> [Blocks -> Seq(ClientSet)]]
      /\ clients'[s][b] = r
      /\ \A t \in Ships, d \in Blocks : t # s \/ d # b => clients'[t][d] = clients[t][d]
  BY <1>2, RelistedFacts DEF r
<1>6. \A x : x # p => \A t \in Ships, d \in Blocks :
          /\ Of(x, clients'[t][d]) = Of(x, clients[t][d])
          /\ One(clients[t][d], x) => One(clients'[t][d], x)
  <2>1. ASSUME NEW x, x # p, NEW t \in Ships, NEW d \in Blocks
        PROVE  /\ Of(x, clients'[t][d]) = Of(x, clients[t][d])
               /\ One(clients[t][d], x) => One(clients'[t][d], x)
    BY <1>3, <1>5, <2>1
  <2> QED BY <2>1
<1>7. ASSUME Alone(p)
      PROVE  Sits(clients', p, s, b, {e})
  <2>1. One(q, p)
    BY <1>7 DEF Alone
  <2>2. One(r, p) /\ Of(p, r) = {e}
    BY <1>3, <2>1
  <2> QED BY <1>4, <1>5, <1>7, <2>2 DEF Sits
<1> QED BY <1>4, <1>5, <1>6, <1>7

\* The one client of a player has the character, and nobody asks for it.
LEMMA HasIt ==
    ASSUME NEW p \in Players, NEW s \in Ships, NEW b \in Blocks, NEW c,
           Good(p), Sits(clients, p, s, b, {c}), c.char # 0
    PROVE  c.char = clock[p] /\ NoSaves(p) /\ \A t \in Ships : ~Asked(p, t)
<1>1. On(p, s) = {c} /\ \A t \in Ships : t # s => On(p, t) = {}
  BY Sitting
<1>2. c.char = clock[p] /\ NoSaves(p)
  BY <1>1 DEF Good
<1>3. \A t \in Ships : ~Waits(p, t)
  BY <1>1 DEF Waits
<1> QED BY <1>2, <1>3 DEF Good

LEMMA HasItThen ==
    ASSUME NEW p \in Players, NEW s \in Ships, NEW b \in Blocks, NEW e,
           Sits(clients', p, s, b, {e}), e.char = clock'[p], clock'[p] # 0,
           \A t \in Ships : InTurn(up'[t], down'[t], p, clock'[p]),
           \A t \in Ships : ~Has(up'[t], "cdata", p),
           \A t \in Ships : ~Has(up'[t], "creq", p) /\ ~Has(down'[t], "char", p)
    PROVE  Good(p)'
<1>1. Alone(p)' /\ On(p, s)' = {e} /\ \A t \in Ships : t # s => On(p, t)' = {}
  BY SittingThen
<1>2. NoSaves(p)'
  BY DEF NoSaves
<1>3. \A t \in Ships : ~Waits(p, t)'
  BY <1>1 DEF Waits
<1>4. \A t \in Ships : ~Asked(p, t)'
  BY DEF Asked
<1>5. \A t \in Ships : \A c \in On(p, t)' :
         /\ c.moved => c.char # 0
         /\ c.char # 0 => c.char = clock'[p] /\ NoSaves(p)'
  BY <1>1, <1>2
<1>6. ~(\A t \in Ships : \A c \in On(p, t)' : c.char = 0)
  BY <1>1
<1> QED BY <1>1, <1>2, <1>3, <1>4, <1>5, <1>6 DEF Good

LEMMA PlayKeeps ==
    ASSUME Inv, NEW s \in Ships, NEW b \in Blocks, NEW i \in DOMAIN clients[s][b], Play(s, b, i)
    PROVE  Inv'
<1>1. TypeOK
  BY DEF Inv
<1>2. clients[s][b] \in Seq(ClientSet) /\ i \in 1 .. Len(clients[s][b]) /\ clients[s][b][i] \in ClientSet
  BY <1>1 DEF TypeOK
<1> PICK c \in ClientSet : c = clients[s][b][i]
  BY <1>2
<1> PICK p \in Players : p = c.who
  BY DEF ClientSet
<1> PICK n : n = clock[p] + 1
  OBVIOUS
<1> PICK e : e = [c EXCEPT !.char = n]
  OBVIOUS
<1>3. c.moved /\ c.char # 0 /\ n <= MaxChanges /\ clock[p] \in Chars
  BY <1>1 DEF Play, TypeOK
<1>4. n \in Chars /\ n # 0
  BY <1>3, CharactersAssumption DEF Chars
<1>5. e \in ClientSet /\ e.who = p /\ e.char = n
  BY <1>4 DEF ClientSet
<1>6. Relisted(s, b, [clients[s][b] EXCEPT ![i] = e])
  BY <1>1, <1>2 DEF Play, Relisted, TypeOK
<1>7. UNCHANGED <<row, up, down, linked, logins, cuts, faults, upset>> /\ clock' = [clock EXCEPT ![p] = n]
  BY DEF Play
<1>8. /\ clients' \in [Ships -> [Blocks -> Seq(ClientSet)]]
      /\ \A x : x # p => \A t \in Ships, d \in Blocks :
             /\ Of(x, clients'[t][d]) = Of(x, clients[t][d])
             /\ One(clients[t][d], x) => One(clients'[t][d], x)
      /\ Alone(p) => Sits(clients, p, s, b, {c}) /\ Sits(clients', p, s, b, {e})
  <2>1. e.who = clients[s][b][i].who
    BY <1>5
  <2>2. /\ clients' \in [Ships -> [Blocks -> Seq(ClientSet)]]
        /\ \A x : x # e.who => \A t \in Ships, d \in Blocks :
               /\ Of(x, clients'[t][d]) = Of(x, clients[t][d])
               /\ One(clients[t][d], x) => One(clients'[t][d], x)
        /\ Alone(e.who) => /\ Sits(clients, e.who, s, b, {clients[s][b][i]})
                            /\ Sits(clients', e.who, s, b, {e})
    BY <1>1, <1>2, <1>5, <1>6, <2>1, SeatChanges
  <2> QED BY <1>5, <2>2
<1>9. clock' \in [Players -> Chars] /\ clock'[p] = n /\ \A x \in Players : x # p => clock'[x] = clock[x]
  BY <1>1, <1>4, <1>7 DEF TypeOK
<1>10. TypeOK'
  BY <1>1, <1>7, <1>8, <1>9 DEF TypeOK
<1>11. \A t \in Ships : ~linked'[t] => up'[t] = <<>> /\ down'[t] = <<>>
  BY <1>7 DEF Inv
<1>12. ASSUME NEW x \in Players, x # p, ~upset'[x]
       PROVE  Good(x)'
  <2>1. Good(x)
    BY <1>7, <1>12 DEF Inv
  <2>2. Unconcerned(x)
    BY <1>7, <1>8, <1>9, <1>12, LikeItself DEF Unconcerned
  <2> QED BY <2>1, <2>2, Others
<1>13. ASSUME ~upset'[p]
       PROVE  Good(p)'
  <2>1. Good(p)
    BY <1>7, <1>13 DEF Inv
  <2>2. Sits(clients, p, s, b, {c}) /\ Sits(clients', p, s, b, {e})
    BY <1>8, <2>1 DEF Good
  <2>3. NoSaves(p) /\ \A t \in Ships : ~Asked(p, t)
    BY <1>3, <2>1, <2>2, HasIt
  <2>4. \A t \in Ships : ~Has(up[t], "cdata", p) /\ ~Has(up[t], "creq", p) /\ ~Has(down[t], "char", p)
    BY <2>3 DEF NoSaves, Asked
  <2>5. \A t \in Ships : InTurn(up[t], down[t], p, n)
    BY <2>1, <2>4 DEF Good, InTurn, Says, Has
  <2> QED BY <1>4, <1>5, <1>7, <1>9, <2>2, <2>4, <2>5, HasItThen
<1>14. \A x \in Players : clock'[x] # 0 /\ (~upset'[x] => Good(x)')
  BY <1>4, <1>9, <1>12, <1>13 DEF Inv
<1> QED BY <1>10, <1>11, <1>14 DEF Inv

\* The ship reads a packet of player p's.
LEMMA ShipReads ==
    ASSUME TypeOK, NEW s \in Ships, down[s] # <<>>, down' = [down EXCEPT ![s] = Tail(@)]
    PROVE  /\ down' \in [Ships -> Seq(DownSet)] /\ down'[s] = Tail(down[s]) /\ Head(down[s]) \in DownSet
           /\ \A t \in Ships : t # s => down'[t] = down[t]
           /\ \A x : x # Head(down[s]).who => \A t \in Ships : Like(down'[t], down[t], x)
<1>1. down[s] \in Seq(DownSet)
  BY DEF TypeOK
<1>2. Tail(down[s]) \in Seq(DownSet) /\ Head(down[s]) \in DownSet
  BY <1>1, TailFacts
<1>3. /\ down' \in [Ships -> Seq(DownSet)] /\ down'[s] = Tail(down[s])
      /\ \A t \in Ships : t # s => down'[t] = down[t]
  BY <1>2 DEF TypeOK
<1>4. \A x : x # Head(down[s]).who => Like(Tail(down[s]), down[s], x)
  BY <1>1, ReadAnothers
<1> QED BY <1>2, <1>3, <1>4, LikeItself

LEMMA HandleCreqKeeps ==
    ASSUME Inv, NEW s \in Ships, HandleCreq(s)
    PROVE  Inv'
<1>1. TypeOK
  BY DEF Inv
<1> PICK m : m = Head(down[s])
  OBVIOUS
<1>2. /\ down[s] # <<>> /\ m.type = "char" /\ down' = [down EXCEPT ![s] = Tail(@)]
      /\ UNCHANGED <<row, up, linked, logins, cuts, faults, clock, upset>>
  BY DEF HandleCreq
<1>3. /\ down' \in [Ships -> Seq(DownSet)] /\ down'[s] = Tail(down[s]) /\ m \in DownSet
      /\ \A t \in Ships : t # s => down'[t] = down[t]
      /\ \A x : x # m.who => \A t \in Ships : Like(down'[t], down[t], x)
  BY <1>1, <1>2, ShipReads
<1> PICK p \in Players : p = m.who
  BY <1>3 DEF DownSet
<1>4. down[s] \in Seq(DownSet) /\ \A b \in Blocks : clients[s][b] \in Seq(ClientSet)
  BY <1>1 DEF TypeOK
<1>5. m.char \in Chars
  BY <1>2, <1>3 DEF DownSet
<1>6. ASSUME NEW at, at = {b \in Blocks : First(p, clients[s][b]) # 0}, at # {}
      PROVE  \E b \in Blocks, i \in Nat, c \in ClientSet, e \in ClientSet :
                /\ i \in 1 .. Len(clients[s][b]) /\ c = clients[s][b][i] /\ c.who = p
                /\ e = [c EXCEPT !.char = m.char]
                /\ Relisted(s, b, [clients[s][b] EXCEPT ![i] = e])
  <2>1. at \in SUBSET Nat
    BY <1>6, CharactersAssumption DEF Blocks
  <2> PICK b : b = Min(at)
    OBVIOUS
  <2>2. b \in Blocks /\ First(p, clients[s][b]) # 0
    BY <1>6, <2>1, Least
  <2> PICK i : i = First(p, clients[s][b])
    OBVIOUS
  <2>3. i \in 1 .. Len(clients[s][b]) /\ clients[s][b][i].who = p
    BY <1>4, <2>2, FirstFacts
  <2>4. clients' = [clients EXCEPT ![s][b][i].char = m.char]
    BY <1>6 DEF HandleCreq
  <2> PICK c : c = clients[s][b][i]
    OBVIOUS
  <2>5. c \in ClientSet /\ clients[s][b] \in Seq(ClientSet) /\ i \in Nat
    BY <1>4, <2>2, <2>3
  <2> PICK e : e = [c EXCEPT !.char = m.char]
    OBVIOUS
  <2>6. e \in ClientSet
    BY <1>5, <2>5 DEF ClientSet
  <2>7. Relisted(s, b, [clients[s][b] EXCEPT ![i] = e])
    BY <1>1, <2>2, <2>3, <2>4 DEF Relisted, TypeOK
  <2> QED BY <2>2, <2>3, <2>5, <2>6, <2>7
<1> PICK at : at = {b \in Blocks : First(p, clients[s][b]) # 0}
  OBVIOUS
<1>7. ASSUME at = {}
      PROVE  clients' = clients /\ \A b \in Blocks : Of(p, clients[s][b]) = {}
  <2>1. clients' = clients
    BY <1>7 DEF HandleCreq
  <2>2. \A b \in Blocks : First(p, clients[s][b]) = 0
    BY <1>7
  <2> QED BY <1>4, <2>1, <2>2, FirstFacts
<1>8. /\ clients' \in [Ships -> [Blocks -> Seq(ClientSet)]]
      /\ \A x : x # p => \A t \in Ships, d \in Blocks :
             /\ Of(x, clients'[t][d]) = Of(x, clients[t][d])
             /\ One(clients[t][d], x) => One(clients'[t][d], x)
  <2>1. CASE at = {}
    BY <1>1, <1>7, <2>1 DEF TypeOK
  <2>2. CASE at # {}
    <3>1. PICK b \in Blocks, i \in Nat, c \in ClientSet, e \in ClientSet :
                /\ i \in 1 .. Len(clients[s][b]) /\ c = clients[s][b][i] /\ c.who = p
                /\ e = [c EXCEPT !.char = m.char]
                /\ Relisted(s, b, [clients[s][b] EXCEPT ![i] = e])
      BY <1>6, <2>2
    <3>2. e.who = p /\ e.who = clients[s][b][i].who
      BY <3>1 DEF ClientSet
    <3> QED BY <1>1, <3>1, <3>2, SeatChanges
  <2> QED BY <2>1, <2>2
<1>9. TypeOK'
  BY <1>1, <1>2, <1>3, <1>8 DEF TypeOK
<1>10. \A t \in Ships : ~linked'[t] => up'[t] = <<>> /\ down'[t] = <<>>
  BY <1>2, <1>3 DEF Inv
<1>11. ASSUME NEW x \in Players, x # p, ~upset'[x]
       PROVE  Good(x)'
  <2>1. Good(x)
    BY <1>2, <1>11 DEF Inv
  <2>2. Unconcerned(x)
    BY <1>2, <1>3, <1>8, <1>11, LikeItself DEF Unconcerned
  <2> QED BY <2>1, <2>2, Others
<1>12. ASSUME ~upset'[p]
       PROVE  Good(p)'
  <2>1. Good(p)
    BY <1>2, <1>12 DEF Inv
  <2>2. InTurn(up[s], down[s], p, clock[p])
    BY <2>1 DEF Good
  <2>3. Is(Head(down[s]), "char", p)
    BY <1>2 DEF Is
  <2>4. Has(down[s], "char", p) /\ ~Has(down'[s], "char", p) /\ m.char = clock[p]
    BY <1>2, <1>3, <1>4, <2>2, <2>3, HeadSays DEF InTurn
  <2>5. NoSaves(p) /\ ~Has(up[s], "creq", p) /\ Waits(p, s)
    BY <2>1, <2>2, <2>4 DEF Good, InTurn, Asked
  <2>6. at # {}
    BY <1>7, <2>5 DEF Waits, On
  <2>7. PICK b \in Blocks, i \in Nat, c \in ClientSet, e \in ClientSet :
                /\ i \in 1 .. Len(clients[s][b]) /\ c = clients[s][b][i] /\ c.who = p
                /\ e = [c EXCEPT !.char = m.char]
                /\ Relisted(s, b, [clients[s][b] EXCEPT ![i] = e])
    BY <1>6, <2>6
  <2>8. e.who = p /\ e.char = m.char
    BY <2>7 DEF ClientSet
  <2>9. Sits(clients, p, s, b, {c}) /\ Sits(clients', p, s, b, {e})
    <3>1. Alone(e.who) /\ e.who = clients[s][b][i].who
      BY <2>1, <2>7, <2>8 DEF Good
    <3>2. Relisted(s, b, [clients[s][b] EXCEPT ![i] = e]) /\ i \in 1 .. Len(clients[s][b])
      BY <2>7
    <3>3. Sits(clients, e.who, s, b, {clients[s][b][i]}) /\ Sits(clients', e.who, s, b, {e})
      BY <1>1, <3>1, <3>2, SeatChanges
    <3>4. c = clients[s][b][i] /\ e.who = p
      BY <2>7, <2>8
    <3> QED BY <3>3, <3>4
  <2>10. \A t \in Ships : t # s => ~Asked(p, t)
    <3>1. \A t \in Ships : t # s => On(p, t) = {}
      BY <2>9, Sitting
    <3> QED BY <2>1, <3>1 DEF Good, Waits
  <2>11. \A t \in Ships : ~Has(up[t], "cdata", p) /\ ~Has(up[t], "creq", p) /\ ~Has(down'[t], "char", p)
    BY <1>3, <2>4, <2>5, <2>10 DEF NoSaves, Asked
  <2>12. Before(down'[s], "char", "opts", p) /\ Once(down'[s], "char", p) /\ Says(down'[s], "char", p, clock[p])
    BY <1>2, <1>3, <1>4, <2>2, Read DEF InTurn
  <2>13. \A t \in Ships : InTurn(up[t], down'[t], p, clock[p])
    <3>1. InTurn(up[s], down'[s], p, clock[p])
      BY <2>2, <2>5, <2>12 DEF InTurn
    <3> QED BY <1>3, <2>1, <3>1 DEF Good
  <2>14. clock'[p] = clock[p] /\ clock[p] # 0 /\ up' = up
    BY <1>2 DEF Inv
  <2> QED BY <2>4, <2>8, <2>9, <2>11, <2>13, <2>14, HasItThen
<1>13. \A x \in Players : clock'[x] # 0 /\ (~upset'[x] => Good(x)')
  BY <1>2, <1>11, <1>12 DEF Inv
<1> QED BY <1>9, <1>10, <1>13 DEF Inv

LEMMA HandleOptsKeeps ==
    ASSUME Inv, NEW s \in Ships, HandleOpts(s)
    PROVE  Inv'
<1>1. TypeOK
  BY DEF Inv
<1> PICK m : m = Head(down[s])
  OBVIOUS
<1>2. /\ down[s] # <<>> /\ m.type = "opts" /\ down' = [down EXCEPT ![s] = Tail(@)]
      /\ UNCHANGED <<row, up, linked, logins, cuts, faults, clock, upset>>
  BY DEF HandleOpts
<1>3. /\ down' \in [Ships -> Seq(DownSet)] /\ down'[s] = Tail(down[s]) /\ m \in DownSet
      /\ \A t \in Ships : t # s => down'[t] = down[t]
      /\ \A x : x # m.who => \A t \in Ships : Like(down'[t], down[t], x)
  BY <1>1, <1>2, ShipReads
<1>4. m.who \in Players /\ m.block \in Blocks
  BY <1>2, <1>3 DEF DownSet
<1>p. PICK p \in Players : p = m.who
  BY <1>4
<1>b. PICK b \in Blocks : b = m.block
  BY <1>4
<1>i. PICK i : i = First(p, clients[s][b])
  OBVIOUS
<1>5. down[s] \in Seq(DownSet) /\ clients[s][b] \in Seq(ClientSet)
  BY <1>1 DEF TypeOK
<1>6. CASE i = 0
  <2>1. clients' = clients
    BY <1>p, <1>b, <1>i, <1>6 DEF HandleOpts
  <2>2. TypeOK'
    BY <1>1, <1>2, <1>3, <2>1 DEF TypeOK
  <2>3. ASSUME NEW x \in Players, x # p, ~upset'[x]
        PROVE  Good(x)'
    <3>1. Good(x)
      BY <1>2, <2>3 DEF Inv
    <3>2. Unconcerned(x)
      BY <1>2, <1>3, <2>1, <2>3, <1>p, LikeItself DEF Unconcerned
    <3> QED BY <3>1, <3>2, Others
  <2>4. ASSUME ~upset'[p]
        PROVE  Good(p)'
    <3>1. Good(p)
      BY <1>2, <2>4 DEF Inv
    <3>2. InTurn(up[s], down[s], p, clock[p])
      BY <3>1 DEF Good
    <3>3. Is(Head(down[s]), "opts", p)
      BY <1>p, <1>2 DEF Is
    <3>4. Has(down[s], "opts", p) /\ ~Has(down[s], "char", p)
      BY <1>2, <1>5, <3>2, <3>3, HeadSays DEF InTurn
    <3>5. ~Has(down'[s], "char", p)
      BY <1>2, <1>3, <1>5, <3>4, Read
    <3>6. Before(down'[s], "char", "opts", p) /\ Once(down'[s], "char", p) /\ Says(down'[s], "char", p, clock[p])
      BY <1>2, <1>3, <1>5, <3>2, Read DEF InTurn
    <3>7. InTurn(up[s], down'[s], p, clock[p])
      BY <3>2, <3>4, <3>6 DEF InTurn
    <3>8. \A t \in Ships : InTurn(up[t], down'[t], p, clock[p])
      BY <1>3, <3>1, <3>7 DEF Good
    <3>9. \A t \in Ships : Has(down'[t], "char", p) <=> Has(down[t], "char", p)
      BY <1>3, <3>4, <3>5
    <3>10. \A t \in Ships : On(p, t)' = On(p, t)
      BY <2>1 DEF On
    <3>11. NoSaves(p)' <=> NoSaves(p)
      BY <1>2 DEF NoSaves
    <3>12. Alone(p)'
      BY <2>1, <3>1 DEF Good, Alone, Blocks
    <3>13. \A t \in Ships : Waits(p, t)' <=> Asked(p, t)'
      BY <1>2, <3>1, <3>9, <3>10 DEF Good, Waits, Asked
    <3>14. clock' = clock /\ row' = row /\ up' = up
      BY <1>2
    <3> QED BY <3>1, <3>8, <3>9, <3>10, <3>11, <3>12, <3>13, <3>14 DEF Good
  <2>5. \A t \in Ships : ~linked'[t] => up'[t] = <<>> /\ down'[t] = <<>>
    BY <1>2, <1>3 DEF Inv
  <2>6. \A x \in Players : clock'[x] # 0 /\ (~upset'[x] => Good(x)')
    BY <1>2, <2>3, <2>4 DEF Inv
  <2> QED BY <2>2, <2>5, <2>6 DEF Inv
<1>7. CASE i # 0
  <2>1. i \in 1 .. Len(clients[s][b]) /\ clients[s][b][i].who = p
    BY <1>i, <1>5, <1>7, FirstFacts
  <2>2. clients[s][b][i] \in ClientSet
    BY <1>5, <2>1
  <2>3. PICK c \in ClientSet, e \in ClientSet :
            /\ c = clients[s][b][i] /\ e = [c EXCEPT !.moved = TRUE]
            /\ e.who = c.who /\ e.who = clients[s][b][i].who /\ e.char = c.char
    <3> PICK c \in ClientSet : c = clients[s][b][i]
      BY <2>2
    <3> PICK e : e = [c EXCEPT !.moved = TRUE]
      OBVIOUS
    <3>1. e \in ClientSet /\ e.who = c.who /\ e.char = c.char
      BY DEF ClientSet
    <3> QED BY <3>1
  <2>4. clients' = [clients EXCEPT ![s][b][i].moved = TRUE]
    BY <1>p, <1>b, <1>i, <1>7 DEF HandleOpts
  <2>5. Relisted(s, b, [clients[s][b] EXCEPT ![i] = e])
    BY <1>1, <2>1, <2>3, <2>4 DEF Relisted, TypeOK
  <2>6. /\ clients' \in [Ships -> [Blocks -> Seq(ClientSet)]]
        /\ \A x : x # e.who => \A t \in Ships, d \in Blocks :
               /\ Of(x, clients'[t][d]) = Of(x, clients[t][d])
               /\ One(clients[t][d], x) => One(clients'[t][d], x)
        /\ Alone(e.who) => /\ Sits(clients, e.who, s, b, {clients[s][b][i]})
                            /\ Sits(clients', e.who, s, b, {e})
    <3>1. e.who = clients[s][b][i].who
      BY <2>3
    <3> QED BY <1>1, <2>1, <2>5, <3>1, SeatChanges
  <2>7. TypeOK'
    BY <1>1, <1>2, <1>3, <2>6 DEF TypeOK
  <2>8. e.who = p
    BY <2>1, <2>3
  <2>9. ASSUME NEW x \in Players, x # p, ~upset'[x]
        PROVE  Good(x)'
    <3>1. Good(x)
      BY <1>2, <2>9 DEF Inv
    <3>2. Unconcerned(x)
      BY <1>2, <1>3, <2>6, <2>8, <2>9, <1>p, LikeItself DEF Unconcerned
    <3> QED BY <3>1, <3>2, Others
  <2>10. ASSUME ~upset'[p]
         PROVE  Good(p)'
    <3>1. Good(p)
      BY <1>2, <2>10 DEF Inv
    <3>2. InTurn(up[s], down[s], p, clock[p])
      BY <3>1 DEF Good
    <3>3. Is(Head(down[s]), "opts", p)
      BY <1>p, <1>2 DEF Is
    <3>4. Has(down[s], "opts", p) /\ ~Has(down[s], "char", p)
      BY <1>2, <1>5, <3>2, <3>3, HeadSays DEF InTurn
    <3>5. ~Asked(p, s)
      BY <3>2, <3>4 DEF InTurn, Asked
    <3>6. Sits(clients, p, s, b, {c}) /\ Sits(clients', p, s, b, {e})
      BY <2>3, <2>6, <2>8, <3>1 DEF Good
    <3>7. On(p, s) = {c}
      BY <3>6, Sitting
    <3>8. c.char # 0
      BY <3>1, <3>5, <3>7 DEF Good, Waits
    <3>9. c.char = clock[p] /\ NoSaves(p) /\ \A t \in Ships : ~Asked(p, t)
      <4>1. Sits(clients, p, s, b, {c})
        BY <3>6
      <4> QED BY <3>1, <3>8, <4>1, HasIt
    <3>10. ~Has(down'[s], "char", p)
      BY <1>2, <1>3, <1>5, <3>4, Read
    <3>11. Before(down'[s], "char", "opts", p) /\ Once(down'[s], "char", p) /\ Says(down'[s], "char", p, clock[p])
      BY <1>2, <1>3, <1>5, <3>2, Read DEF InTurn
    <3>12. InTurn(up[s], down'[s], p, clock[p])
      BY <3>2, <3>5, <3>11 DEF InTurn, Asked
    <3>13. \A t \in Ships : InTurn(up[t], down'[t], p, clock[p])
      BY <1>3, <3>1, <3>12 DEF Good
    <3>14. \A t \in Ships : ~Has(up[t], "cdata", p) /\ ~Has(up[t], "creq", p) /\ ~Has(down'[t], "char", p)
      BY <1>3, <3>9, <3>10 DEF NoSaves, Asked
    <3>15. clock'[p] = clock[p] /\ clock[p] # 0 /\ up' = up /\ e.char = clock[p]
      BY <1>2, <2>3, <3>9 DEF Inv
    <3> QED BY <3>6, <3>13, <3>14, <3>15, HasItThen
  <2>11. \A t \in Ships : ~linked'[t] => up'[t] = <<>> /\ down'[t] = <<>>
    BY <1>2, <1>3 DEF Inv
  <2>12. \A x \in Players : clock'[x] # 0 /\ (~upset'[x] => Good(x)')
    BY <1>2, <2>9, <2>10 DEF Inv
  <2> QED BY <2>7, <2>11, <2>12 DEF Inv
<1> QED BY <1>6, <1>7

-----------------------------------------------------------------------------
(* At the shipgate.                                                         *)

LEMMA GateReads ==
    ASSUME TypeOK, NEW s \in Ships, NEW type, Got(s, type)
    PROVE  /\ up[s] # <<>> /\ up[s] \in Seq(UpSet) /\ Head(up[s]).type = type
           /\ up' \in [Ships -> Seq(UpSet)] /\ up'[s] = Tail(up[s]) /\ Head(up[s]) \in UpSet
           /\ \A t \in Ships : t # s => up'[t] = up[t]
           /\ \A x : x # Head(up[s]).who => \A t \in Ships : Like(up'[t], up[t], x)
<1>1. up[s] \in Seq(UpSet) /\ up[s] # <<>> /\ Head(up[s]).type = type
  BY DEF TypeOK, Got
<1>2. Tail(up[s]) \in Seq(UpSet) /\ Head(up[s]) \in UpSet
  BY <1>1, TailFacts
<1>3. /\ up' \in [Ships -> Seq(UpSet)] /\ up'[s] = Tail(up[s])
      /\ \A t \in Ships : t # s => up'[t] = up[t]
  BY <1>2 DEF TypeOK, Got
<1>4. \A x : x # Head(up[s]).who => Like(Tail(up[s]), up[s], x)
  BY <1>1, ReadAnothers
<1> QED BY <1>1, <1>2, <1>3, <1>4, LikeItself

LEMMA GateTells ==
    ASSUME TypeOK, NEW s \in Ships, NEW a \in DownSet, down' = [down EXCEPT ![s] = Append(@, a)]
    PROVE  /\ down' \in [Ships -> Seq(DownSet)] /\ down'[s] = Append(down[s], a) /\ down[s] \in Seq(DownSet)
           /\ \A t \in Ships : t # s => down'[t] = down[t]
           /\ \A x : x # a.who => \A t \in Ships : Like(down'[t], down[t], x)
<1>1. down[s] \in Seq(DownSet)
  BY DEF TypeOK
<1>2. Append(down[s], a) \in Seq(DownSet)
  BY <1>1, AppendFacts
<1>3. /\ down' \in [Ships -> Seq(DownSet)] /\ down'[s] = Append(down[s], a)
      /\ \A t \in Ships : t # s => down'[t] = down[t]
  BY <1>2 DEF TypeOK
<1>4. \A x : x # a.who => Like(Append(down[s], a), down[s], x)
  BY <1>1, WrittenAnothers
<1> QED BY <1>1, <1>3, <1>4, LikeItself

\* A step that leaves all clients, and the queues and the row of a player, as they were.
LEMMA NotHis ==
    ASSUME NEW x \in Players, Good(x), UNCHANGED clients, clock'[x] = clock[x], row'[x] = row[x],
           \A t \in Ships : Like(up'[t], up[t], x), \A t \in Ships : Like(down'[t], down[t], x)
    PROVE  Good(x)'
BY Others DEF Unconcerned

\* Whoever asks for its character waits for it, and for no save of its own.
LEMMA AskingIsAlone ==
    ASSUME TypeOK, NEW p \in Players, NEW s \in Ships, Good(p), Has(up[s], "creq", p),
           ~Has(up[s], "cdata", p)
    PROVE  NoSaves(p) /\ row[p].is = "good" /\ row[p].char = clock[p]
<1>1. NoSaves(p)
  BY DEF Good, NoSaves
<1>2. PICK c \in On(p, s) : c.char = 0
  BY DEF Good, Waits, Asked
<1>3. PICK b \in Blocks : c \in Of(p, clients[s][b])
  BY <1>2 DEF On
<1>4. ASSUME NEW t \in Ships, NEW d \in On(p, t)
      PROVE  d.char = 0
  <2>1. PICK e \in Blocks : d \in Of(p, clients[t][e])
    BY <1>4 DEF On
  <2>2. Of(p, clients[s][b]) # {} /\ Of(p, clients[t][e]) # {}
    BY <1>3, <2>1
  <2>3. s = t /\ b = e
    BY <2>2 DEF Good, Alone
  <2>4. One(clients[s][b], p)
    BY DEF Good, Alone
  <2>5. \A x, y \in Of(p, clients[s][b]) : x = y
    <3>1. clients[s][b] \in Seq(ClientSet)
      BY DEF TypeOK
    <3>2. \A x : x \in Of(p, clients[s][b])
                    <=> \E k \in 1 .. Len(clients[s][b]) : clients[s][b][k] = x /\ clients[s][b][k].who = p
      BY <3>1, Members
    <3> QED BY <2>4, <3>2 DEF One
  <2> QED BY <1>2, <1>3, <2>1, <2>3, <2>5
<1> QED BY <1>1, <1>4 DEF Good

LEMMA GateCreqKeeps ==
    ASSUME Inv, NEW s \in Ships, GateCreq(s)
    PROVE  Inv'
<1>1. TypeOK
  BY DEF Inv
<1>2. Got(s, "creq")
  BY DEF GateCreq
<1>3. /\ up[s] # <<>> /\ up[s] \in Seq(UpSet) /\ Head(up[s]).type = "creq"
      /\ up' \in [Ships -> Seq(UpSet)] /\ up'[s] = Tail(up[s]) /\ Head(up[s]) \in UpSet
      /\ \A t \in Ships : t # s => up'[t] = up[t]
      /\ \A x : x # Head(up[s]).who => \A t \in Ships : Like(up'[t], up[t], x)
  BY <1>1, <1>2, GateReads
<1>4. PICK p \in Players : p = Head(up[s]).who
  BY <1>3 DEF UpSet
<1>5. UNCHANGED <<row, clients, linked, logins, cuts, clock>>
  BY DEF GateCreq
<1>6. \/ /\ row[p].is = "good" /\ UNCHANGED <<faults, upset>>
         /\ down' = [down EXCEPT ![s] = Append(@, [type |-> "char", who |-> p, char |-> row[p].char])]
      \/ row[p].is # "good" /\ UNCHANGED <<down, faults, upset>>
      \/ Fault(p) /\ UNCHANGED down
  BY <1>4 DEF GateCreq
<1>7. Is(Head(up[s]), "creq", p)
  BY <1>3, <1>4 DEF Is
<1>8. PICK a \in DownSet : a = [type |-> "char", who |-> p, char |-> row[p].char]
  BY <1>1 DEF TypeOK, Rows, DownSet
<1>9. faults' \in 0 .. MaxFaults /\ upset' \in [Players -> BOOLEAN]
  <2>1. faults' \in 0 .. MaxFaults
    <3>1. faults' = faults \/ (faults < MaxFaults /\ faults' = faults + 1)
      BY <1>6 DEF Fault
    <3>2. faults \in 0 .. MaxFaults /\ MaxFaults \in Nat
      BY <1>1, CharactersAssumption DEF TypeOK
    <3> QED BY <3>1, <3>2
  <2>2. upset' \in [Players -> BOOLEAN]
    BY <1>1, <1>6 DEF TypeOK, Fault, Upset
  <2> QED BY <2>1, <2>2
<1>10. \A x \in Players : x # p => upset'[x] = upset[x]
  BY <1>1, <1>6 DEF TypeOK, Fault, Upset
<1>11. ASSUME NEW x \in Players, x # p, ~upset'[x],
              \A t \in Ships : Like(down'[t], down[t], x)
       PROVE  Good(x)'
  <2>1. Good(x)
    BY <1>10, <1>11 DEF Inv
  <2>2. \A t \in Ships : Like(up'[t], up[t], x)
    BY <1>3, <1>4, <1>11
  <2> QED BY <1>5, <1>11, <2>1, <2>2, NotHis
<1>12. ASSUME ~upset[p]
       PROVE  /\ Good(p) /\ NoSaves(p) /\ row[p].is = "good" /\ row[p].char = clock[p]
              /\ InTurn(up[s], down[s], p, clock[p]) /\ ~Has(up'[s], "creq", p) /\ Waits(p, s)
              /\ ~Has(down[s], "char", p) /\ ~Has(down[s], "opts", p)
  <2>1. Good(p)
    BY <1>12 DEF Inv
  <2>2. InTurn(up[s], down[s], p, clock[p])
    BY <2>1 DEF Good
  <2>3. Has(up[s], "creq", p) /\ ~Has(up[s], "cdata", p) /\ ~Has(Tail(up[s]), "creq", p)
    BY <1>3, <1>7, <2>2, HeadSays DEF InTurn
  <2>4. NoSaves(p) /\ row[p].is = "good" /\ row[p].char = clock[p]
    BY <1>1, <2>1, <2>3, AskingIsAlone
  <2>5. Waits(p, s)
    BY <2>1, <2>3 DEF Good, Asked
  <2> QED BY <1>3, <2>1, <2>2, <2>3, <2>4, <2>5 DEF InTurn
<1>13. CASE /\ row[p].is = "good" /\ UNCHANGED <<faults, upset>>
            /\ down' = [down EXCEPT ![s] = Append(@, [type |-> "char", who |-> p, char |-> row[p].char])]
  <2>1. down' = [down EXCEPT ![s] = Append(@, a)] /\ upset' = upset
    BY <1>8, <1>13
  <2>2. /\ down' \in [Ships -> Seq(DownSet)] /\ down'[s] = Append(down[s], a) /\ down[s] \in Seq(DownSet)
        /\ \A t \in Ships : t # s => down'[t] = down[t]
        /\ \A x : x # a.who => \A t \in Ships : Like(down'[t], down[t], x)
    BY <1>1, <2>1, GateTells
  <2>3. TypeOK'
    BY <1>1, <1>3, <1>5, <1>9, <2>2 DEF TypeOK
  <2>4. \A t \in Ships : ~linked'[t] => up'[t] = <<>> /\ down'[t] = <<>>
    BY <1>3, <1>5, <2>2 DEF Inv
  <2>5. ASSUME NEW x \in Players, x # p, ~upset'[x] PROVE Good(x)'
    <3>1. a.who = p
      BY <1>8
    <3> QED BY <1>11, <2>2, <2>5, <3>1
  <2>6. ASSUME ~upset'[p] PROVE Good(p)'
    <3>1. /\ Good(p) /\ NoSaves(p) /\ row[p].is = "good" /\ row[p].char = clock[p]
          /\ InTurn(up[s], down[s], p, clock[p]) /\ ~Has(up'[s], "creq", p) /\ Waits(p, s)
          /\ ~Has(down[s], "char", p) /\ ~Has(down[s], "opts", p)
      BY <1>12, <2>1, <2>6
    <3>2. Is(a, "char", p) /\ ~Is(a, "opts", p) /\ a.char = row[p].char
      BY <1>8 DEF Is
    <3>3. /\ Has(down'[s], "char", p) /\ Before(down'[s], "char", "opts", p) /\ Once(down'[s], "char", p)
          /\ Says(down'[s], "char", p, clock[p])
      BY <2>2, <3>1, <3>2, Written DEF InTurn
    <3>4. /\ Before(up'[s], "cdata", "creq", p) /\ Before(up'[s], "creq", "opts", p)
          /\ Once(up'[s], "cdata", p) /\ Once(up'[s], "creq", p) /\ Says(up'[s], "cdata", p, clock[p])
          /\ (Has(up'[s], "cdata", p) => Has(up[s], "cdata", p))
      <4>1. /\ \A t : Has(up'[s], t, p) => Has(up[s], t, p)
            /\ \A t : Once(up[s], t, p) => Once(up'[s], t, p)
            /\ \A t, u : Before(up[s], t, u, p) => Before(up'[s], t, u, p)
            /\ \A t, n : Says(up[s], t, p, n) => Says(up'[s], t, p, n)
        BY <1>3, Read
      <4> QED BY <3>1, <4>1 DEF InTurn
    <3>5. \A t \in Ships : InTurn(up'[t], down'[t], p, clock[p])
      <4>1. InTurn(up'[s], down'[s], p, clock[p])
        BY <3>1, <3>3, <3>4 DEF InTurn
      <4> QED BY <1>3, <2>2, <3>1, <4>1 DEF Good
    <3>6. Alone(p)' /\ \A t \in Ships : On(p, t)' = On(p, t)
      BY <1>5, <3>1, SameClients
    <3>7. NoSaves(p)' /\ \A t \in Ships : ~Has(up'[t], "cdata", p)
      BY <1>3, <3>1, <3>4 DEF NoSaves
    <3>8. \A t \in Ships : Asked(p, t)' <=> Asked(p, t)
      <4>1. Asked(p, s)' /\ Asked(p, s)
        BY <3>1, <3>3 DEF Good, Asked
      <4> QED BY <1>3, <2>2, <4>1 DEF Asked
    <3>9. \A t \in Ships : Waits(p, t)' <=> Asked(p, t)'
      BY <3>1, <3>6, <3>8 DEF Good, Waits
    <3>10. clock' = clock /\ row' = row
      BY <1>5
    <3> QED BY <3>1, <3>5, <3>6, <3>7, <3>9, <3>10 DEF Good
  <2>7. \A x \in Players : clock'[x] # 0 /\ (~upset'[x] => Good(x)')
    BY <1>5, <2>5, <2>6 DEF Inv
  <2> QED BY <2>3, <2>4, <2>7 DEF Inv
<1>14. CASE \/ row[p].is # "good" /\ UNCHANGED <<down, faults, upset>>
            \/ Fault(p) /\ UNCHANGED down
  <2>1. down' = down
    BY <1>14
  <2>2. TypeOK'
    BY <1>1, <1>3, <1>5, <1>9, <2>1 DEF TypeOK
  <2>3. \A t \in Ships : ~linked'[t] => up'[t] = <<>> /\ down'[t] = <<>>
    BY <1>3, <1>5, <2>1 DEF Inv
  <2>4. upset'[p]
    <3>1. ASSUME Fault(p) PROVE upset'[p]
      BY <1>1, <3>1 DEF Fault, Upset, TypeOK
    <3>2. ASSUME row[p].is # "good", UNCHANGED upset PROVE upset'[p]
      BY <1>12, <3>2
    <3> QED BY <1>14, <3>1, <3>2
  <2>5. ASSUME NEW x \in Players, x # p, ~upset'[x] PROVE Good(x)'
    BY <1>11, <2>1, <2>5, LikeItself
  <2>6. \A x \in Players : clock'[x] # 0 /\ (~upset'[x] => Good(x)')
    BY <1>5, <2>4, <2>5 DEF Inv
  <2> QED BY <2>2, <2>3, <2>6 DEF Inv
<1> QED BY <1>6, <1>13, <1>14

LEMMA GateOptsKeeps ==
    ASSUME Inv, NEW s \in Ships, GateOpts(s)
    PROVE  Inv'
<1>1. TypeOK
  BY DEF Inv
<1>2. Got(s, "opts")
  BY DEF GateOpts
<1>3. /\ up[s] # <<>> /\ up[s] \in Seq(UpSet) /\ Head(up[s]).type = "opts"
      /\ up' \in [Ships -> Seq(UpSet)] /\ up'[s] = Tail(up[s]) /\ Head(up[s]) \in UpSet
      /\ \A t \in Ships : t # s => up'[t] = up[t]
      /\ \A x : x # Head(up[s]).who => \A t \in Ships : Like(up'[t], up[t], x)
  BY <1>1, <1>2, GateReads
<1>4. PICK a \in DownSet : a = Head(up[s])
  BY <1>3 DEF UpSet, DownSet
<1>5. PICK p \in Players : p = a.who
  BY <1>3, <1>4 DEF UpSet
<1>6. UNCHANGED <<row, clients, linked, logins, cuts, clock>>
  BY DEF GateOpts
<1>7. \/ down' = [down EXCEPT ![s] = Append(@, a)] /\ UNCHANGED <<faults, upset>>
      \/ Fault(p) /\ UNCHANGED down
  BY <1>4, <1>5 DEF GateOpts
<1>8. Is(a, "opts", p) /\ ~Is(a, "char", p) /\ ~Is(a, "cdata", p) /\ ~Is(a, "creq", p)
  BY <1>3, <1>4, <1>5 DEF Is
<1>9. faults' \in 0 .. MaxFaults /\ upset' \in [Players -> BOOLEAN]
  <2>1. faults' \in 0 .. MaxFaults
    <3>1. faults' = faults \/ (faults < MaxFaults /\ faults' = faults + 1)
      BY <1>7 DEF Fault
    <3>2. faults \in 0 .. MaxFaults /\ MaxFaults \in Nat
      BY <1>1, CharactersAssumption DEF TypeOK
    <3> QED BY <3>1, <3>2
  <2>2. upset' \in [Players -> BOOLEAN]
    BY <1>1, <1>7 DEF TypeOK, Fault, Upset
  <2> QED BY <2>1, <2>2
<1>10. \A x \in Players : x # p => upset'[x] = upset[x]
  BY <1>1, <1>7 DEF TypeOK, Fault, Upset
<1>11. ASSUME NEW x \in Players, x # p, ~upset'[x],
              \A t \in Ships : Like(down'[t], down[t], x)
       PROVE  Good(x)'
  <2>1. Good(x)
    BY <1>10, <1>11 DEF Inv
  <2>2. \A t \in Ships : Like(up'[t], up[t], x)
    BY <1>3, <1>4, <1>5, <1>11
  <2> QED BY <1>6, <1>11, <2>1, <2>2, NotHis
<1>12. CASE down' = [down EXCEPT ![s] = Append(@, a)] /\ UNCHANGED <<faults, upset>>
  <2>1. /\ down' \in [Ships -> Seq(DownSet)] /\ down'[s] = Append(down[s], a) /\ down[s] \in Seq(DownSet)
        /\ \A t \in Ships : t # s => down'[t] = down[t]
        /\ \A x : x # a.who => \A t \in Ships : Like(down'[t], down[t], x)
    BY <1>1, <1>12, GateTells
  <2>2. TypeOK'
    BY <1>1, <1>3, <1>6, <1>9, <2>1 DEF TypeOK
  <2>3. \A t \in Ships : ~linked'[t] => up'[t] = <<>> /\ down'[t] = <<>>
    BY <1>3, <1>6, <2>1 DEF Inv
  <2>4. ASSUME NEW x \in Players, x # p, ~upset'[x] PROVE Good(x)'
    BY <1>5, <1>11, <2>1, <2>4
  <2>5. ASSUME ~upset'[p] PROVE Good(p)'
    <3>1. Good(p)
      BY <1>12, <2>5 DEF Inv
    <3>2. InTurn(up[s], down[s], p, clock[p])
      BY <3>1 DEF Good
    <3>3. Has(up[s], "opts", p) /\ ~Has(up[s], "creq", p)
      BY <1>3, <1>4, <1>8, <3>2, HeadSays DEF InTurn
    <3>4. /\ \A t : Has(up'[s], t, p) => Has(up[s], t, p)
          /\ \A t : Has(up[s], t, p) => Has(up'[s], t, p) \/ Is(a, t, p)
          /\ \A t : Once(up[s], t, p) => Once(up'[s], t, p)
          /\ \A t, u : Before(up[s], t, u, p) => Before(up'[s], t, u, p)
          /\ \A t, n : Says(up[s], t, p, n) => Says(up'[s], t, p, n)
      BY <1>3, <1>4, Read
    <3>5. /\ Has(down'[s], "char", p) <=> Has(down[s], "char", p)
          /\ Before(down'[s], "char", "opts", p) /\ Once(down'[s], "char", p)
          /\ Says(down'[s], "char", p, clock[p])
      BY <1>8, <2>1, <3>2, Written DEF InTurn
    <3>6. ~Has(up'[s], "creq", p) /\ (Has(up'[s], "cdata", p) <=> Has(up[s], "cdata", p))
      BY <1>8, <3>3, <3>4
    <3>7. \A t \in Ships : InTurn(up'[t], down'[t], p, clock[p])
      <4>1. InTurn(up'[s], down'[s], p, clock[p])
        BY <3>2, <3>4, <3>5, <3>6 DEF InTurn
      <4> QED BY <1>3, <2>1, <3>1, <4>1 DEF Good
    <3>8. \A t \in Ships : /\ Has(up'[t], "creq", p) <=> Has(up[t], "creq", p)
                           /\ Has(up'[t], "cdata", p) <=> Has(up[t], "cdata", p)
                           /\ Has(down'[t], "char", p) <=> Has(down[t], "char", p)
      BY <1>3, <2>1, <3>3, <3>5, <3>6
    <3>9. Alone(p)' /\ \A t \in Ships : On(p, t)' = On(p, t)
      BY <1>6, <3>1, SameClients
    <3>10. NoSaves(p)' <=> NoSaves(p)
      BY <3>8 DEF NoSaves
    <3>11. \A t \in Ships : Waits(p, t)' <=> Asked(p, t)'
      BY <3>1, <3>8, <3>9 DEF Good, Waits, Asked
    <3>12. clock' = clock /\ row' = row
      BY <1>6
    <3> QED BY <3>1, <3>7, <3>8, <3>9, <3>10, <3>11, <3>12 DEF Good
  <2>6. \A x \in Players : clock'[x] # 0 /\ (~upset'[x] => Good(x)')
    BY <1>6, <2>4, <2>5 DEF Inv
  <2> QED BY <2>2, <2>3, <2>6 DEF Inv
<1>13. CASE Fault(p) /\ UNCHANGED down
  <2>1. TypeOK'
    BY <1>1, <1>3, <1>6, <1>9, <1>13 DEF TypeOK
  <2>2. \A t \in Ships : ~linked'[t] => up'[t] = <<>> /\ down'[t] = <<>>
    BY <1>3, <1>6, <1>13 DEF Inv
  <2>3. upset'[p]
    BY <1>1, <1>13 DEF Fault, Upset, TypeOK
  <2>4. ASSUME NEW x \in Players, x # p, ~upset'[x] PROVE Good(x)'
    BY <1>11, <1>13, <2>4, LikeItself
  <2>5. \A x \in Players : clock'[x] # 0 /\ (~upset'[x] => Good(x)')
    BY <1>6, <2>3, <2>4 DEF Inv
  <2> QED BY <2>1, <2>2, <2>5 DEF Inv
<1> QED BY <1>7, <1>12, <1>13

LEMMA GateCdataKeeps ==
    ASSUME Inv, NEW s \in Ships, GateCdata(s)
    PROVE  Inv'
<1>1. TypeOK
  BY DEF Inv
<1>2. Got(s, "cdata")
  BY DEF GateCdata
<1>3. /\ up[s] # <<>> /\ up[s] \in Seq(UpSet) /\ Head(up[s]).type = "cdata"
      /\ up' \in [Ships -> Seq(UpSet)] /\ up'[s] = Tail(up[s]) /\ Head(up[s]) \in UpSet
      /\ \A t \in Ships : t # s => up'[t] = up[t]
      /\ \A x : x # Head(up[s]).who => \A t \in Ships : Like(up'[t], up[t], x)
  BY <1>1, <1>2, GateReads
<1>4. PICK a \in UpSet : a = Head(up[s])
  BY <1>3
<1>5. PICK p \in Players : p = a.who
  BY <1>3, <1>4 DEF UpSet
<1>6. a.char \in Chars /\ Is(a, "cdata", p) /\ ~Is(a, "creq", p)
  BY <1>3, <1>4, <1>5 DEF UpSet, Is
<1>7. UNCHANGED <<clients, down, linked, logins, cuts, clock>>
  BY DEF GateCdata
<1>8. \/ /\ \E packed \in BOOLEAN :
                row' = [row EXCEPT ![p] = [is |-> "good", packed |-> packed, char |-> a.char]]
         /\ UNCHANGED <<faults, upset>>
      \/ /\ Fault(p)
         /\ \/ UNCHANGED row
            \/ row' = [row EXCEPT ![p].is = "gone"]
  BY <1>4, <1>5 DEF GateCdata
<1>9. faults' \in 0 .. MaxFaults /\ upset' \in [Players -> BOOLEAN] /\ row' \in [Players -> Rows]
  <2>1. faults' \in 0 .. MaxFaults
    <3>1. faults' = faults \/ (faults < MaxFaults /\ faults' = faults + 1)
      BY <1>8 DEF Fault
    <3>2. faults \in 0 .. MaxFaults /\ MaxFaults \in Nat
      BY <1>1, CharactersAssumption DEF TypeOK
    <3> QED BY <3>1, <3>2
  <2>2. upset' \in [Players -> BOOLEAN]
    BY <1>1, <1>8 DEF TypeOK, Fault, Upset
  <2>3. row' \in [Players -> Rows]
    <3>1. CASE \E packed \in BOOLEAN :
                   row' = [row EXCEPT ![p] = [is |-> "good", packed |-> packed, char |-> a.char]]
      BY <1>1, <1>6, <3>1 DEF TypeOK, Rows
    <3>2. CASE row' = [row EXCEPT ![p].is = "gone"]
      BY <1>1, <3>2 DEF TypeOK, Rows
    <3>3. CASE row' = row
      BY <1>1, <3>3 DEF TypeOK
    <3> QED BY <1>8, <3>1, <3>2, <3>3
  <2> QED BY <2>1, <2>2, <2>3
<1>10. \A x \in Players : x # p => upset'[x] = upset[x] /\ row'[x] = row[x]
  BY <1>1, <1>8 DEF TypeOK, Fault, Upset
<1>11. ASSUME NEW x \in Players, x # p, ~upset'[x]
       PROVE  Good(x)'
  <2>1. Good(x)
    BY <1>10, <1>11 DEF Inv
  <2>2. \A t \in Ships : Like(up'[t], up[t], x) /\ Like(down'[t], down[t], x)
    BY <1>3, <1>4, <1>5, <1>7, <1>11, LikeItself
  <2> QED BY <1>7, <1>10, <1>11, <2>1, <2>2, NotHis
<1>12. ASSUME ~upset'[p]
       PROVE  Good(p)'
  <2>1. ~Fault(p)
    BY <1>1, <1>12 DEF Fault, Upset, TypeOK
  <2>2. row'[p].is = "good" /\ row'[p].char = a.char /\ upset' = upset
    BY <1>1, <1>8, <2>1 DEF TypeOK
  <2>3. Good(p)
    BY <1>12, <2>2 DEF Inv
  <2>4. InTurn(up[s], down[s], p, clock[p])
    BY <2>3 DEF Good
  <2>5. Has(up[s], "cdata", p) /\ ~Has(up'[s], "cdata", p) /\ a.char = clock[p]
    BY <1>3, <1>4, <1>6, <2>4, HeadSays DEF InTurn
  <2>6. /\ \A t : Has(up'[s], t, p) => Has(up[s], t, p)
        /\ \A t : Has(up[s], t, p) => Has(up'[s], t, p) \/ Is(a, t, p)
        /\ \A t : Once(up[s], t, p) => Once(up'[s], t, p)
        /\ \A t, u : Before(up[s], t, u, p) => Before(up'[s], t, u, p)
        /\ \A t, n : Says(up[s], t, p, n) => Says(up'[s], t, p, n)
    BY <1>3, <1>4, Read
  <2>7. Has(up'[s], "creq", p) <=> Has(up[s], "creq", p)
    BY <1>6, <2>6
  <2>8. \A t \in Ships : InTurn(up'[t], down'[t], p, clock[p])
    <3>1. InTurn(up'[s], down[s], p, clock[p])
      BY <2>4, <2>6 DEF InTurn
    <3> QED BY <1>3, <1>7, <2>3, <3>1 DEF Good
  <2>9. \A t \in Ships : ~Has(up'[t], "cdata", p)
    BY <1>3, <2>3, <2>5 DEF Good
  <2>10. \A t \in Ships : Asked(p, t)' <=> Asked(p, t)
    BY <1>3, <1>7, <2>7 DEF Asked
  <2>11. Alone(p)' /\ \A t \in Ships : On(p, t)' = On(p, t)
    BY <1>7, <2>3, SameClients
  <2>12. ~NoSaves(p) /\ NoSaves(p)'
    BY <2>5, <2>9 DEF NoSaves
  <2>13. \A t \in Ships : Waits(p, t)' <=> Asked(p, t)'
    BY <2>3, <2>10, <2>11 DEF Good, Waits
  <2>14. clock' = clock /\ down' = down
    BY <1>7
  <2> QED BY <2>2, <2>3, <2>5, <2>8, <2>9, <2>11, <2>12, <2>13, <2>14 DEF Good
<1>13. TypeOK'
  BY <1>1, <1>3, <1>7, <1>9 DEF TypeOK
<1>14. \A t \in Ships : ~linked'[t] => up'[t] = <<>> /\ down'[t] = <<>>
  BY <1>3, <1>7 DEF Inv
<1>15. \A x \in Players : clock'[x] # 0 /\ (~upset'[x] => Good(x)')
  BY <1>7, <1>11, <1>12 DEF Inv
<1> QED BY <1>13, <1>14, <1>15 DEF Inv

-----------------------------------------------------------------------------
(* The link, and the login server.                                          *)

LEMMA CutKeeps ==
    ASSUME Inv, NEW s \in Ships, Cut(s)
    PROVE  Inv'
<1>1. TypeOK
  BY DEF Inv
<1>2. /\ linked[s] /\ linked' = [linked EXCEPT ![s] = FALSE] /\ cuts' \in 0 .. MaxCuts
      /\ up' = [up EXCEPT ![s] = <<>>] /\ down' = [down EXCEPT ![s] = <<>>]
      /\ UNCHANGED <<row, clients, logins, faults, clock>>
  BY <1>1, CharactersAssumption DEF Cut, TypeOK
<1>3. upset' = [p \in Players |-> \/ upset[p] \/ SavesOf(p, s) # {}
                                  \/ \E c \in On(p, s) : ~ c.moved \/ c.char = 0]
  BY DEF Cut
<1>4. upset' \in [Players -> BOOLEAN]
  BY <1>1, <1>3 DEF TypeOK
<1>5. /\ up' \in [Ships -> Seq(UpSet)] /\ up'[s] = <<>> /\ \A t \in Ships : t # s => up'[t] = up[t]
      /\ down' \in [Ships -> Seq(DownSet)] /\ down'[s] = <<>> /\ \A t \in Ships : t # s => down'[t] = down[t]
      /\ linked' \in [Ships -> BOOLEAN] /\ \A t \in Ships : t # s => linked'[t] = linked[t]
  BY <1>1, <1>2 DEF TypeOK
<1>6. TypeOK'
  BY <1>1, <1>2, <1>4, <1>5 DEF TypeOK
<1>7. \A t \in Ships : ~linked'[t] => up'[t] = <<>> /\ down'[t] = <<>>
  BY <1>5 DEF Inv
<1>8. ASSUME NEW p \in Players, ~upset'[p]
      PROVE  Good(p)'
  <2>1. ~upset[p] /\ SavesOf(p, s) = {} /\ \A c \in On(p, s) : c.moved /\ c.char # 0
    BY <1>3, <1>8
  <2>2. Good(p)
    BY <2>1 DEF Inv
  <2>3. /\ \A t : ~Has(<<>>, t, p) /\ Once(<<>>, t, p)
        /\ \A t, u : Before(<<>>, t, u, p)
        /\ \A t, n : Says(<<>>, t, p, n)
    BY Nothing
  <2>4. ~Has(up[s], "cdata", p)
    BY <1>1, <2>1, SavesFacts
  <2>5. ~Waits(p, s)
    BY <2>1 DEF Waits
  <2>6. ~Asked(p, s)
    BY <2>2, <2>5 DEF Good
  <2>7. \A t \in Ships : /\ Has(up'[t], "creq", p) <=> Has(up[t], "creq", p)
                         /\ Has(up'[t], "cdata", p) <=> Has(up[t], "cdata", p)
                         /\ Has(down'[t], "char", p) <=> Has(down[t], "char", p)
    BY <1>5, <2>3, <2>4, <2>6 DEF Asked
  <2>8. \A t \in Ships : InTurn(up'[t], down'[t], p, clock[p])
    <3>1. InTurn(<<>>, <<>>, p, clock[p])
      BY <2>3 DEF InTurn
    <3> QED BY <1>5, <2>2, <3>1 DEF Good
  <2>9. Alone(p)' /\ \A t \in Ships : On(p, t)' = On(p, t)
    BY <1>2, <2>2, SameClients
  <2>10. NoSaves(p)' <=> NoSaves(p)
    BY <2>7 DEF NoSaves
  <2>11. \A t \in Ships : Waits(p, t)' <=> Asked(p, t)'
    BY <2>2, <2>7, <2>9 DEF Good, Waits, Asked
  <2>12. clock' = clock /\ row' = row
    BY <1>2
  <2> QED BY <2>2, <2>7, <2>8, <2>9, <2>10, <2>11, <2>12 DEF Good
<1>9. \A x \in Players : clock'[x] # 0 /\ (~upset'[x] => Good(x)')
  BY <1>2, <1>8 DEF Inv
<1> QED BY <1>6, <1>7, <1>9 DEF Inv

\* A step that changes nothing but whether there is a link, or nothing at all.
LEMMA LinkOnlyKeeps ==
    ASSUME Inv, linked' \in [Ships -> BOOLEAN], \A t \in Ships : linked[t] => linked'[t],
           UNCHANGED <<row, clients, up, down, logins, cuts, faults, clock, upset>>
    PROVE  Inv'
<1>1. TypeOK'
  BY DEF Inv, TypeOK
<1>2. \A t \in Ships : ~linked'[t] => up'[t] = <<>> /\ down'[t] = <<>>
  BY DEF Inv
<1>3. ASSUME NEW p \in Players, ~upset'[p] PROVE Good(p)'
  <2>1. Good(p)
    BY <1>3 DEF Inv
  <2> QED BY <2>1, NotHis, LikeItself
<1>4. \A x \in Players : clock'[x] # 0 /\ (~upset'[x] => Good(x)')
  BY <1>3 DEF Inv
<1> QED BY <1>1, <1>2, <1>4 DEF Inv

\* The player makes a new character: where it may cost nothing, nobody has the old one.
LEMMA Renewed ==
    ASSUME Inv, NEW p \in Players, NEW r \in Rows, NEW why \in BOOLEAN, clock[p] < MaxChanges,
           clock' = [clock EXCEPT ![p] = @ + 1], row' = [row EXCEPT ![p] = r],
           upset' = [upset EXCEPT ![p] = @ \/ (Elsewhere(p) \/ why)],
           (~upset[p] /\ ~Elsewhere(p) /\ ~why) => r.is = "good" /\ r.char = clock[p] + 1,
           UNCHANGED <<clients, up, down, linked, logins, cuts, faults>>
    PROVE  Inv'
<1>1. TypeOK
  BY DEF Inv
<1>2. /\ clock' \in [Players -> Chars] /\ clock'[p] = clock[p] + 1 /\ clock'[p] # 0
      /\ \A x \in Players : x # p => clock'[x] = clock[x]
  <2>1. clock[p] \in Nat /\ clock[p] + 1 \in Chars /\ clock \in [Players -> Chars]
    BY <1>1, CharactersAssumption DEF TypeOK, Chars
  <2> QED BY <2>1
<1>3. /\ row' \in [Players -> Rows] /\ row'[p] = r /\ \A x \in Players : x # p => row'[x] = row[x]
  BY <1>1 DEF TypeOK
<1>4. /\ upset' \in [Players -> BOOLEAN] /\ \A x \in Players : x # p => upset'[x] = upset[x]
      /\ ~upset'[p] => ~upset[p] /\ ~Elsewhere(p) /\ ~why
  BY <1>1 DEF TypeOK
<1>5. TypeOK'
  BY <1>1, <1>2, <1>3, <1>4 DEF TypeOK
<1>6. \A t \in Ships : ~linked'[t] => up'[t] = <<>> /\ down'[t] = <<>>
  BY DEF Inv
<1>7. ASSUME NEW x \in Players, x # p, ~upset'[x] PROVE Good(x)'
  <2>1. Good(x)
    BY <1>4, <1>7 DEF Inv
  <2> QED BY <1>2, <1>3, <1>7, <2>1, NotHis, LikeItself
<1>8. ASSUME ~upset'[p] PROVE Good(p)'
  <2>1. ~upset[p] /\ ~Online(p) /\ \A t \in Ships : SavesOf(p, t) = {}
    BY <1>4, <1>8 DEF Elsewhere
  <2>2. Good(p)
    BY <2>1 DEF Inv
  <2>3. /\ \A t \in Ships : On(p, t) = {} /\ ~Asked(p, t)
    BY <2>1, <2>2, Nowhere
  <2>4. \A t \in Ships : ~Has(up[t], "cdata", p) /\ ~Has(up[t], "creq", p) /\ ~Has(down[t], "char", p)
    BY <1>1, <2>1, <2>3, SavesFacts DEF Asked
  <2>5. \A t \in Ships : InTurn(up[t], down[t], p, clock'[p])
    BY <2>2, <2>4 DEF Good, InTurn, Says, Has
  <2>6. Alone(p)' /\ \A t \in Ships : On(p, t)' = {}
    BY <2>2, <2>3, SameClients
  <2>7. \A t \in Ships : ~Waits(p, t)' /\ ~Asked(p, t)'
    BY <2>4, <2>6 DEF Waits, Asked
  <2>8. r.is = "good" /\ r.char = clock[p] + 1
    BY <1>4, <1>8
  <2>9. up' = up /\ down' = down
    OBVIOUS
  <2> QED BY <1>2, <1>3, <2>4, <2>5, <2>6, <2>7, <2>8, <2>9 DEF Good
<1>9. \A x \in Players : clock'[x] # 0 /\ (~upset'[x] => Good(x)')
  BY <1>2, <1>7, <1>8 DEF Inv
<1> QED BY <1>5, <1>6, <1>9 DEF Inv

LEMMA CreateKeeps ==
    ASSUME Inv, NEW p \in Players, Create(p)
    PROVE  Inv'
<1> DEFINE r == [is |-> "good", packed |-> FALSE, char |-> clock[p] + 1]
<1>1. clock[p] \in Chars /\ clock[p] < MaxChanges
  BY DEF Create, Inv, TypeOK
<1>2. r \in Rows /\ r.is = "good" /\ r.char = clock[p] + 1
  BY <1>1, CharactersAssumption DEF Rows, Chars
<1>3. /\ clock' = [clock EXCEPT ![p] = @ + 1] /\ row' = [row EXCEPT ![p] = r]
      /\ upset' = [upset EXCEPT ![p] = @ \/ (Elsewhere(p) \/ FALSE)]
      /\ UNCHANGED <<clients, up, down, linked, logins, cuts, faults>>
  BY DEF Create, Upset
<1> HIDE DEF r
<1> QED BY <1>1, <1>2, <1>3, Renewed

LEMMA DressKeeps ==
    ASSUME Inv, NEW p \in Players, Dress(p)
    PROVE  Inv'
<1>1. row \in [Players -> Rows] /\ row[p] \in Rows /\ clock[p] \in Chars /\ clock[p] < MaxChanges
  BY DEF Dress, Inv, TypeOK
<1>2. PICK r : row' = [row EXCEPT ![p] = r] /\
               r \in IF row[p].packed THEN {row[p], [row[p] EXCEPT !.is = "spoilt"]}
                     ELSE {[row[p] EXCEPT !.char = clock[p] + 1]}
  <2>1. row = [row EXCEPT ![p] = row[p]]
    BY <1>1
  <2>2. CASE row[p].packed
    <3>1. CASE row' = row
      BY <2>1, <2>2, <3>1
    <3>2. CASE row' = [row EXCEPT ![p].is = "spoilt"]
      BY <2>2, <3>2
    <3> QED BY <2>2, <3>1, <3>2 DEF Dress
  <2>3. CASE ~row[p].packed
    BY <2>3 DEF Dress
  <2> QED BY <2>2, <2>3
<1>3. r \in Rows
  BY <1>1, <1>2, CharactersAssumption DEF Rows, Chars
<1>4. /\ clock' = [clock EXCEPT ![p] = @ + 1]
      /\ upset' = [upset EXCEPT ![p] = @ \/ (Elsewhere(p) \/ row[p].packed)]
      /\ UNCHANGED <<clients, up, down, linked, logins, cuts, faults>>
  BY DEF Dress, Upset
<1>5. row[p].packed \in BOOLEAN
  BY <1>1 DEF Rows
<1>6. ASSUME ~upset[p], ~Elsewhere(p), ~row[p].packed
      PROVE  r.is = "good" /\ r.char = clock[p] + 1
  <2>1. Good(p) /\ ~Online(p) /\ \A t \in Ships : SavesOf(p, t) = {}
    BY <1>6 DEF Inv, Elsewhere
  <2>2. NoSaves(p)
    BY <2>1, SavesFacts DEF NoSaves, Inv
  <2>3. row[p].is = "good"
    BY <2>1, <2>2, Nowhere
  <2> QED BY <1>1, <1>2, <1>6, <2>3 DEF Rows
<1> QED BY <1>1, <1>2, <1>3, <1>4, <1>5, <1>6, Renewed

LEMMA InitInv == Init => Inv
<1> SUFFICES ASSUME Init PROVE Inv
  OBVIOUS
<1>1. /\ row = [p \in Players |-> [is |-> "good", packed |-> FALSE, char |-> 1]]
      /\ clients = [s \in Ships |-> [b \in Blocks |-> <<>>]]
      /\ up = [s \in Ships |-> <<>>] /\ down = [s \in Ships |-> <<>>]
      /\ linked = [s \in Ships |-> TRUE] /\ logins = 0 /\ cuts = 0 /\ faults = 0
      /\ clock = [p \in Players |-> 1] /\ upset = [p \in Players |-> FALSE]
  BY DEF Init
<1>2. TypeOK
  <2>1. \A S : <<>> \in Seq(S)
    OBVIOUS
  <2>2. 1 \in Chars /\ 0 \in 0 .. MaxLogins /\ 0 \in 0 .. MaxCuts /\ 0 \in 0 .. MaxFaults
    BY CharactersAssumption DEF Chars
  <2>3. row \in [Players -> Rows]
    BY <1>1, <2>2 DEF Rows
  <2> QED BY <1>1, <2>1, <2>2, <2>3 DEF TypeOK
<1>3. ASSUME NEW p \in Players PROVE Good(p)
  <2>1. /\ \A t : ~Has(<<>>, t, p) /\ Once(<<>>, t, p)
        /\ \A t, u : Before(<<>>, t, u, p)
        /\ \A t, n : Says(<<>>, t, p, n)
    BY Nothing
  <2>2. \A s \in Ships : up[s] = <<>> /\ down[s] = <<>> /\ \A b \in Blocks : clients[s][b] = <<>>
    BY <1>1
  <2>3. \A s \in Ships, b \in Blocks : Of(p, clients[s][b]) = {} /\ One(clients[s][b], p)
    BY <2>2, NoMembers
  <2>4. Alone(p) /\ \A s \in Ships : On(p, s) = {}
    <3>1. Alone(p)
      BY <2>3 DEF Alone
    <3>2. \A s \in Ships : On(p, s) = {}
      BY <2>3 DEF On
    <3> QED BY <3>1, <3>2
  <2>5. \A s \in Ships : InTurn(up[s], down[s], p, clock[p])
    BY <2>1, <2>2 DEF InTurn
  <2>6. \A s \in Ships : ~Waits(p, s) /\ ~Asked(p, s)
    BY <2>1, <2>2, <2>4 DEF Waits, Asked
  <2>7. \A s \in Ships : ~Has(up[s], "cdata", p) /\ ~Has(down[s], "char", p)
    BY <2>1, <2>2
  <2>8. row[p].is = "good" /\ row[p].char = clock[p]
    BY <1>1
  <2> QED BY <2>4, <2>5, <2>6, <2>7, <2>8 DEF Good
<1> QED BY <1>1, <1>2, <1>3 DEF Inv

LEMMA StepKeeps == Inv /\ [Next]_vars => Inv'
<1> SUFFICES ASSUME Inv, [Next]_vars PROVE Inv'
  OBVIOUS
<1>1. CASE UNCHANGED vars
  BY <1>1, LinkOnlyKeeps DEF vars, Inv, TypeOK
<1>2. ASSUME NEW s \in Ships, ShipThread(s) PROVE Inv'
  BY <1>2, HandleCreqKeeps, HandleOptsKeeps DEF ShipThread
<1>3. ASSUME NEW s \in Ships, Gate(s) PROVE Inv'
  BY <1>3, GateCreqKeeps, GateOptsKeeps, GateCdataKeeps DEF Gate
<1>4. ASSUME NEW s \in Ships, Cut(s) PROVE Inv'
  BY <1>4, CutKeeps
<1>5. ASSUME NEW s \in Ships, Reconnect(s) PROVE Inv'
  <2>1. linked' \in [Ships -> BOOLEAN] /\ \A t \in Ships : linked[t] => linked'[t]
    BY <1>5 DEF Reconnect, Inv, TypeOK
  <2> QED BY <1>5, <2>1, LinkOnlyKeeps DEF Reconnect
<1>6. ASSUME NEW s \in Ships, NEW b \in Blocks, InBlock(s, b) PROVE Inv'
  BY <1>6, LeaveKeeps, PlayKeeps DEF InBlock
<1>7. ASSUME NEW p \in Players, Create(p) PROVE Inv'
  BY <1>7, CreateKeeps
<1>8. ASSUME NEW p \in Players, Dress(p) PROVE Inv'
  BY <1>8, DressKeeps
<1>9. ASSUME NEW p \in Players, NEW s \in Ships, NEW b \in Blocks, Login(p, s, b) PROVE Inv'
  BY <1>9, LoginKeeps
<1> QED BY <1>1, <1>2, <1>3, <1>4, <1>5, <1>6, <1>7, <1>8, <1>9 DEF Next

\* Whatever the players do and whatever is lost, the order of the queues and the place of
\* each player's last change are as Inv says.
THEOREM InvHolds == Spec => []Inv
BY InitInv, StepKeeps, PTL DEF Spec

-----------------------------------------------------------------------------
(* The properties.                                                          *)

\* Clients, queues and rows hold what their types say, whatever is lost on the way.
THEOREM TypeCorrect == Spec => []TypeOK
<1>1. Inv => TypeOK
  BY DEF Inv
<1> QED BY <1>1, InvHolds, PTL

\* The last of some of the first n numbers.
LEMMA Greatest ==
    ASSUME NEW n \in Nat, NEW S \in SUBSET (1 .. n), S # {}
    PROVE  Max(S) \in S
<1> DEFINE T == {n - k : k \in S}
<1>1. T \in SUBSET Nat /\ T # {}
  <2>1. \A k \in S : n - k \in Nat
    OBVIOUS
  <2>2. PICK k \in S : TRUE
    OBVIOUS
  <2>3. n - k \in T
    OBVIOUS
  <2> QED BY <2>1, <2>3
<1>2. Min(T) \in T /\ \A x \in T : Min(T) <= x
  <2> HIDE DEF T
  <2> QED BY <1>1, Least
<1>3. PICK m \in S : Min(T) = n - m
  BY <1>2
<1>4. \A k \in S : m >= k
  <2> TAKE k \in S
  <2>1. n - k \in T
    OBVIOUS
  <2>2. n - m <= n - k
    BY <1>2, <1>3, <2>1
  <2> QED BY <2>2
<1> QED BY <1>4 DEF Max

LEMMA LastSaveFacts ==
    ASSUME TypeOK, NEW p \in Players, NEW s \in Ships, Has(up[s], "cdata", p)
    PROVE  LastSave(p, s) \in 1 .. Len(up[s]) /\ Is(up[s][LastSave(p, s)], "cdata", p)
<1> DEFINE I == {i \in 1 .. Len(up[s]) : up[s][i].who = p /\ up[s][i].type = "cdata"}
<1>1. Len(up[s]) \in Nat
  BY DEF TypeOK
<1>2. I \in SUBSET (1 .. Len(up[s])) /\ I # {}
  BY DEF Has, Is
<1>3. LastSave(p, s) = Max(I)
  BY <1>2 DEF LastSave, SelectLastInSeq
<1>4. Max(I) \in I
  <2> HIDE DEF I
  <2> QED BY <1>1, <1>2, Greatest
<1> QED BY <1>3, <1>4 DEF Is

\* The last change to a character is with the client that has it, else in the last save on
\* its way, else in the database, as long as nothing happened that may cost a change.
THEOREM LatestIsKept == Spec => []LatestKept
<1>1. Inv => LatestKept
  <2> SUFFICES ASSUME Inv, NEW p \in Players, ~upset[p]
               PROVE  IF \E c \in AllOf(p) : c.char # 0
                      THEN \A c \in AllOf(p) : c.char = clock[p]
                      ELSE IF Saving(p) # {}
                           THEN \A s \in Saving(p) : up[s][LastSave(p, s)].char = clock[p]
                           ELSE row[p].is = "good" /\ row[p].char = clock[p]
    BY DEF LatestKept
  <2>1. Good(p) /\ TypeOK
    BY DEF Inv
  <2>2. \A c : c \in AllOf(p) <=> \E s \in Ships : c \in On(p, s)
    BY DEF AllOf
  <2>3. CASE \E c \in AllOf(p) : c.char # 0
    <3> PICK c \in AllOf(p) : c.char # 0
      BY <2>3
    <3>1. PICK s \in Ships, b \in Blocks : c \in Of(p, clients[s][b]) /\ c.char # 0
      BY <2>2 DEF On
    <3>2. clients[s][b] \in Seq(ClientSet)
      BY <2>1 DEF TypeOK
    <3>3. PICK i \in 1 .. Len(clients[s][b]) : clients[s][b][i] = c /\ clients[s][b][i].who = p
      BY <3>1, <3>2, Members
    <3>4. Sits(clients, p, s, b, {c})
      BY <2>1, <3>3, Seat DEF Good
    <3>5. On(p, s) = {c} /\ \A t \in Ships : t # s => On(p, t) = {}
      BY <3>4, Sitting
    <3>6. c.char = clock[p]
      BY <2>1, <3>1, <3>5 DEF Good
    <3> QED BY <2>2, <2>3, <3>5, <3>6
  <2>4. CASE ~(\E c \in AllOf(p) : c.char # 0)
    <3>1. ASSUME NEW s \in Saving(p)
          PROVE  up[s][LastSave(p, s)].char = clock[p]
      <4>1. s \in Ships /\ Has(up[s], "cdata", p)
        BY <2>1, SavesFacts DEF Saving
      <4> QED BY <2>1, <4>1, LastSaveFacts DEF Good, InTurn, Says
    <3>2. ASSUME Saving(p) = {}
          PROVE  row[p].is = "good" /\ row[p].char = clock[p]
      <4>1. NoSaves(p)
        BY <2>1, <3>2, SavesFacts DEF NoSaves, Saving
      <4> QED BY <2>1, <2>2, <2>4, <4>1 DEF Good
    <3> QED BY <2>4, <3>1, <3>2
  <2> QED BY <2>3, <2>4
<1> QED BY <1>1, InvHolds, PTL

\* Nobody is moved on before it has its character, as long as nothing happened that may cost
\* a change.
THEOREM MovedOnesHaveIt == Spec => []MovedOnLoaded
<1>1. Inv => MovedOnLoaded
  BY DEF Inv, Good, MovedOnLoaded, AllOf
<1> QED BY <1>1, InvHolds, PTL

\* The row of a player whom nothing has upset is one of its characters so far.
RowBehind(p) == row[p].is = "good" /\ row[p].char <= clock[p]
RowsBehind == \A p \in Players : ~upset[p] => RowBehind(p)

LEMMA SaveIsLast ==
    ASSUME Inv, NEW s \in Ships, Got(s, "cdata"), NEW m, m = Head(up[s]), ~upset[m.who]
    PROVE  m.who \in Players /\ m.char = clock[m.who]
<1>1. up[s] \in Seq(UpSet) /\ up[s] # <<>>
  BY DEF Got, Inv, TypeOK
<1>2. m \in UpSet /\ m.type = "cdata" /\ 1 \in 1 .. Len(up[s]) /\ up[s][1] = m
  BY <1>1 DEF Got
<1>3. m.who \in Players
  BY <1>2 DEF UpSet
<1>4. Says(up[s], "cdata", m.who, clock[m.who])
  BY <1>3 DEF Inv, Good, InTurn
<1> QED BY <1>2, <1>3, <1>4 DEF Says, Is

LEMMA RowStep ==
    ASSUME Inv, [Next]_vars, NEW p \in Players, ~upset'[p]
    PROVE  ~upset[p] /\ (RowBehind(p) => RowBehind(p)' /\ row'[p].char >= row[p].char)
<1>t. /\ row \in [Players -> Rows] /\ clock \in [Players -> Chars] /\ upset \in [Players -> BOOLEAN]
      /\ row[p].char \in Nat /\ clock[p] \in Nat
  <2>1. row \in [Players -> Rows] /\ clock \in [Players -> Chars] /\ upset \in [Players -> BOOLEAN]
    BY DEF Inv, TypeOK
  <2> QED BY <2>1, CharactersAssumption DEF Rows, Chars
<1> DEFINE Fine == ~upset[p] /\ (RowBehind(p) => RowBehind(p)' /\ row'[p].char >= row[p].char)
<1>1. ASSUME UNCHANGED row, clock'[p] \in Nat, clock[p] <= clock'[p], ~upset[p]
      PROVE  Fine
  BY <1>t, <1>1 DEF RowBehind
<1>2. CASE UNCHANGED vars
  BY <1>t, <1>1, <1>2 DEF vars
<1>3. ASSUME NEW s \in Ships, ShipThread(s) \/ Reconnect(s) PROVE Fine
  <2>1. UNCHANGED <<row, clock, upset>>
    BY <1>3 DEF ShipThread, HandleCreq, HandleOpts, Reconnect
  <2> QED BY <1>t, <1>1, <2>1
<1>4. ASSUME NEW s \in Ships, Cut(s) PROVE Fine
  BY <1>t, <1>1, <1>4 DEF Cut
<1>5. ASSUME NEW s \in Ships, GateCreq(s) \/ GateOpts(s) PROVE Fine
  <2>1. ~upset[p] /\ UNCHANGED <<row, clock>>
    BY <1>t, <1>5 DEF GateCreq, GateOpts, Fault, Upset
  <2> QED BY <1>t, <1>1, <2>1
<1>6. ASSUME NEW s \in Ships, GateCdata(s) PROVE Fine
  <2>1. Got(s, "cdata") /\ clock' = clock
    BY <1>6 DEF GateCdata
  <2>2. PICK m : m = Head(up[s])
    OBVIOUS
  <2>3. ~upset[p]
    BY <1>t, <1>6 DEF GateCdata, Fault, Upset
  <2>4. CASE m.who = p
    <3>1. m.char = clock[p]
      BY <2>1, <2>2, <2>3, <2>4, SaveIsLast
    <3>2. upset' = upset
      BY <1>t, <1>6, <2>2, <2>4 DEF GateCdata, Fault, Upset
    <3>3. PICK packed \in BOOLEAN : row' = [row EXCEPT ![m.who] = [is |-> "good", packed |-> packed, char |-> m.char]]
      BY <1>t, <1>6, <2>2, <2>4 DEF GateCdata, Fault, Upset
    <3>4. row'[p].is = "good" /\ row'[p].char = clock[p]
      BY <1>t, <2>4, <3>1, <3>3
    <3> QED BY <1>t, <2>1, <2>3, <3>4 DEF RowBehind
  <2>5. CASE m.who # p
    <3>1. row'[p] = row[p]
      BY <1>t, <1>6, <2>2, <2>5 DEF GateCdata
    <3> QED BY <1>t, <2>1, <2>3, <3>1 DEF RowBehind
  <2> QED BY <2>4, <2>5
<1>7. ASSUME NEW s \in Ships, NEW b \in Blocks, InBlock(s, b) PROVE Fine
  <2>1. ASSUME NEW i \in DOMAIN clients[s][b], Leave(s, b, i) PROVE Fine
    <3>1. ~upset[p] /\ UNCHANGED <<row, clock>>
      BY <1>t, <2>1 DEF Leave, Upset
    <3> QED BY <1>t, <1>1, <3>1
  <2>2. ASSUME NEW i \in DOMAIN clients[s][b], Play(s, b, i) PROVE Fine
    <3>1. PICK q : clock' = [clock EXCEPT ![q] = clock[q] + 1]
      BY <2>2 DEF Play
    <3>2. clock'[p] = clock[p] \/ clock'[p] = clock[p] + 1
      BY <1>t, <3>1
    <3>3. ~upset[p] /\ UNCHANGED row
      BY <2>2 DEF Play
    <3> QED BY <1>t, <1>1, <3>2, <3>3
  <2> QED BY <1>7, <2>1, <2>2 DEF InBlock
<1>8. ASSUME NEW q \in Players, Create(q) \/ Dress(q) PROVE Fine
  <2>1. ~upset[p] /\ clock' = [clock EXCEPT ![q] = clock[q] + 1]
    BY <1>t, <1>8 DEF Create, Dress, Upset
  <2>2. CASE q = p
    <3>1. row'[p].is = row[p].is \/ row'[p].is = "good"
      <4>1. CASE Create(q)
        BY <1>t, <2>2, <4>1 DEF Create
      <4>2. CASE Dress(q)
        <5>1. ~row[q].packed
          BY <1>t, <2>2, <4>2 DEF Dress, Upset
        <5>2. row' = [row EXCEPT ![q].char = clock[q] + 1]
          BY <4>2, <5>1 DEF Dress
        <5> QED BY <1>t, <2>2, <5>2 DEF Rows
      <4> QED BY <1>8, <4>1, <4>2
    <3>2. row'[p].char = clock[p] + 1
      <4>1. CASE Create(q)
        BY <1>t, <2>2, <4>1 DEF Create
      <4>2. CASE Dress(q)
        <5>1. ~row[q].packed
          BY <1>t, <2>2, <4>2 DEF Dress, Upset
        <5>2. row' = [row EXCEPT ![q].char = clock[q] + 1]
          BY <4>2, <5>1 DEF Dress
        <5> QED BY <1>t, <2>2, <5>2 DEF Rows
      <4> QED BY <1>8, <4>1, <4>2
    <3>3. clock'[p] = clock[p] + 1
      BY <1>t, <2>1, <2>2
    <3> QED BY <1>t, <2>1, <3>1, <3>2, <3>3 DEF RowBehind
  <2>3. CASE q # p
    <3>1. row'[p] = row[p] /\ clock'[p] = clock[p]
      BY <1>t, <1>8, <2>1, <2>3 DEF Create, Dress
    <3> QED BY <1>t, <2>1, <3>1 DEF RowBehind
  <2> QED BY <2>2, <2>3
<1>9. ASSUME NEW q \in Players, NEW s \in Ships, NEW b \in Blocks, Login(q, s, b) PROVE Fine
  <2>1. ~upset[p] /\ UNCHANGED <<row, clock>>
    BY <1>t, <1>9 DEF Login, Upset
  <2> QED BY <1>t, <1>1, <2>1
<1> QED BY <1>2, <1>3, <1>4, <1>5, <1>6, <1>7, <1>8, <1>9 DEF Next, Gate

\* No save puts an older character over a newer one, and a row can always be read, unless
\* something happened that Upset lists (handle_cdata of the shipgate, and the order in which
\* a ship saves and asks).
THEOREM NoRowGoesBack == Spec => RowsGoForward
<1>1. Init => RowsBehind
  <2> SUFFICES ASSUME Init, NEW p \in Players PROVE RowBehind(p)
    BY DEF RowsBehind
  <2> QED BY DEF Init, RowBehind
<1>2. Inv /\ RowsBehind /\ [Next]_vars => RowsBehind'
  BY RowStep DEF RowsBehind
<1>3. Inv /\ RowsBehind /\ [Next]_vars =>
        [\A p \in Players : ~ upset'[p] => row'[p].is = "good" /\ row'[p].char >= row[p].char]_vars
  BY RowStep DEF RowsBehind, RowBehind
<1> QED BY <1>1, <1>2, <1>3, InvHolds, PTL DEF Spec, RowsGoForward
===============================================================================
