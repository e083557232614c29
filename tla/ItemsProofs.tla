------------------------------ MODULE ItemsProofs ------------------------------
(***************************************************************************)
(* Proofs about Items, for any number of players and slots, inventories    *)
(* and banks of any size, any stacks and any items to start with: what a   *)
(* client sees under an id is one item, on the floor, in the inventories   *)
(* and at the bank, and playing neither makes nor loses goods or money but *)
(* where the code is known to do it.                                       *)
(***************************************************************************)
EXTENDS Items, SequenceTheorems, FiniteSetTheorems, WellFoundedInduction, TLAPS

-----------------------------------------------------------------------------
(* Sums.  SumFunctionOnSet is defined by recursion over the subsets of the *)
(* set: what follows is all that is used of it.                            *)

Total(F, T) == SumFunctionOnSet(F, T)
Some1(s) == CHOOSE x \in s : TRUE
Step(F, T, g) == [s \in SUBSET T |-> IF s = {} THEN 0 ELSE F[Some1(s)] + g[s \ {Some1(s)}]]

LEMMA Unfolded ==
    ASSUME NEW F, NEW T
    PROVE  Total(F, T) = (CHOOSE g : g = Step(F, T, g))[T]
BY DEF Total, SumFunctionOnSet, FoldFunctionOnSet, MapThenFoldSet, Step, Some1

LEMMA SomeOne ==
    ASSUME NEW s, s # {}
    PROVE  Some1(s) \in s
BY DEF Some1

\* The least of some numbers, the least of some subsets.
LEMMA Smallest ==
    ASSUME NEW S \in SUBSET Nat, S # {}
    PROVE  \E x \in S : \A y \in S : x <= y
<1> DEFINE R == {ss \in Nat \X Nat : ss[1] < ss[2]}
<1>1. IsWellFoundedOn(R, Nat)
  BY NatLessThanWellFounded DEF OpToRel
<1>2. \A y, z \in Nat : <<y, z>> \notin R => z <= y
  OBVIOUS
<1> HIDE DEF R
<1>3. \E x \in S : \A y \in S : ~(<<y, x>> \in R)
  BY <1>1, WFMin
<1> QED BY <1>2, <1>3

LEMMA SmallestSet ==
    ASSUME NEW T, IsFiniteSet(T), NEW B \in SUBSET SUBSET T, B # {}
    PROVE  \E s \in B : \A x \in s : s \ {x} \notin B
<1> DEFINE R == StrictSubsetOrdering(T)
<1>1. IsWellFoundedOn(R, SUBSET T)
  BY FS_StrictSubsetOrderingWellFounded, FS_FiniteSubsetsOfFinite
<1>2. \A s \in SUBSET T : \A x \in s : <<s \ {x}, s>> \in R
  BY DEF StrictSubsetOrdering
<1> HIDE DEF R
<1>3. \E s \in B : \A t \in B : ~(<<t, s>> \in R)
  BY <1>1, WFMin
<1> QED BY <1>2, <1>3

\* The recursion has a solution: one for sets of up to n elements gives one for n + 1.
Solves(g, F, T, n) ==
    \A s \in SUBSET T : Cardinality(s) <= n =>
        g[s] = IF s = {} THEN 0 ELSE F[Some1(s)] + g[s \ {Some1(s)}]

LEMMA OneLess ==
    ASSUME NEW T, IsFiniteSet(T), NEW s \in SUBSET T
    PROVE  /\ IsFiniteSet(s) /\ Cardinality(s) \in Nat /\ Cardinality(s) <= Cardinality(T)
           /\ s # {} => Some1(s) \in s /\ Cardinality(s \ {Some1(s)}) = Cardinality(s) - 1
           /\ Cardinality(s) = 0 <=> s = {}
<1>1. IsFiniteSet(s) /\ Cardinality(s) <= Cardinality(T)
  BY FS_Subset
<1>2. Cardinality(s) \in Nat
  BY <1>1, FS_CardinalityType
<1>3. Cardinality(s) = 0 <=> s = {}
  BY <1>1, FS_EmptySet
<1>4. ASSUME s # {} PROVE Some1(s) \in s /\ Cardinality(s \ {Some1(s)}) = Cardinality(s) - 1
  <2>1. Some1(s) \in s
    BY <1>4, SomeOne
  <2> QED BY <1>1, <2>1, FS_RemoveElement
<1> QED BY <1>1, <1>2, <1>3, <1>4

LEMMA OneMore ==
    ASSUME NEW T, IsFiniteSet(T), NEW F, NEW g, NEW n \in Nat, Solves(g, F, T, n)
    PROVE  Solves(Step(F, T, g), F, T, n + 1)
<1> DEFINE h == Step(F, T, g)
<1>1. \A s \in SUBSET T : h[s] = IF s = {} THEN 0 ELSE F[Some1(s)] + g[s \ {Some1(s)}]
  BY DEF Step
<1> HIDE DEF h
<1>2. ASSUME NEW s \in SUBSET T, Cardinality(s) <= n + 1, s # {}
      PROVE  h[s] = F[Some1(s)] + h[s \ {Some1(s)}]
  <2> DEFINE t == s \ {Some1(s)}
  <2>1. t \in SUBSET T /\ Cardinality(t) <= n
    BY <1>2, OneLess
  <2> HIDE DEF t
  <2>2. g[t] = h[t]
    BY <1>1, <2>1 DEF Solves
  <2> QED BY <1>1, <1>2, <2>2 DEF t
<1> QED BY <1>1, <1>2 DEF Solves, h

LEMMA Solution ==
    ASSUME NEW T, IsFiniteSet(T), NEW F
    PROVE  \E g : g = Step(F, T, g)
<1> DEFINE Bad == {n \in Nat : \A g : ~Solves(g, F, T, n)}
<1>1. 0 \notin Bad
  <2> DEFINE g == [s \in SUBSET T |-> 0]
  <2>1. ASSUME NEW s \in SUBSET T, Cardinality(s) <= 0 PROVE s = {}
    <3>1. Cardinality(s) \in Nat /\ (Cardinality(s) = 0 <=> s = {})
      BY OneLess
    <3> QED BY <2>1, <3>1
  <2>2. Solves(g, F, T, 0)
    BY <2>1 DEF Solves
  <2> QED BY <2>2
<1>2. ASSUME NEW n \in Nat, n + 1 \in Bad PROVE n \in Bad
  BY <1>2, OneMore
<1>3. Bad \in SUBSET Nat
  OBVIOUS
<1> HIDE DEF Bad
<1>4. Bad = {}
  <2>1. SUFFICES ASSUME Bad # {} PROVE FALSE
    OBVIOUS
  <2>2. PICK n \in Bad : \A m \in Bad : n <= m
    BY <1>3, <2>1, Smallest
  <2>3. n \in Nat \ {0}
    BY <1>1, <1>3, <2>2
  <2>4. n - 1 \in Nat /\ n - 1 + 1 = n
    BY <2>3
  <2>5. n - 1 \in Bad
    BY <1>2, <2>2, <2>4
  <2> QED BY <2>2, <2>3, <2>5
<1>5. Cardinality(T) \in Nat
  BY FS_CardinalityType
<1>6. PICK g : Solves(g, F, T, Cardinality(T))
  BY <1>4, <1>5 DEF Bad
<1> DEFINE h == Step(F, T, g)
<1>7. /\ \A s \in SUBSET T : h[s] = IF s = {} THEN 0 ELSE F[Some1(s)] + g[s \ {Some1(s)}]
      /\ h = [s \in SUBSET T |-> h[s]]
  BY DEF Step
<1> HIDE DEF h
<1>8. \A s \in SUBSET T : g[s] = h[s]
  BY <1>6, <1>7, OneLess DEF Solves
<1>9. \A s \in SUBSET T : s # {} => g[s \ {Some1(s)}] = h[s \ {Some1(s)}]
  BY <1>8
<1>10. h = Step(F, T, h)
  BY <1>7, <1>9 DEF Step
<1> QED BY <1>10

Solved(g, F, T) ==
    \A s \in SUBSET T : g[s] = IF s = {} THEN 0 ELSE F[Some1(s)] + g[s \ {Some1(s)}]

LEMMA Chosen ==
    ASSUME NEW T, IsFiniteSet(T), NEW F
    PROVE  \E g : Solved(g, F, T) /\ Total(F, T) = g[T]
<1> DEFINE g == CHOOSE h : h = Step(F, T, h)
<1>1. g = Step(F, T, g)
  BY Solution
<1>2. Total(F, T) = g[T]
  BY Unfolded
<1> HIDE DEF g
<1>3. \A s \in SUBSET T : Step(F, T, g)[s] = IF s = {} THEN 0 ELSE F[Some1(s)] + g[s \ {Some1(s)}]
  BY DEF Step
<1>4. Solved(g, F, T)
  BY <1>1, <1>3 DEF Solved
<1> QED BY <1>2, <1>4

\* Two solutions agree where both are defined.
LEMMA Agreed ==
    ASSUME NEW T, IsFiniteSet(T), NEW F, NEW g, NEW h,
           Solved(g, F, T), Solved(h, F, T)
    PROVE  g[T] = h[T]
<1> DEFINE B == {s \in SUBSET T : g[s] # h[s]}
<1>1. SUFFICES ASSUME B # {} PROVE FALSE
  <2>1. T \in SUBSET T
    OBVIOUS
  <2> QED BY <2>1
<1>2. B \in SUBSET SUBSET T
  OBVIOUS
<1> HIDE DEF B
<1>3. PICK s \in B : \A x \in s : s \ {x} \notin B
  BY <1>1, <1>2, SmallestSet
<1>4. s \in SUBSET T /\ g[s] # h[s]
  BY <1>3 DEF B
<1>5. s # {}
  BY <1>4 DEF Solved
<1>6. Some1(s) \in s
  BY <1>5, SomeOne
<1>7. g[s \ {Some1(s)}] = h[s \ {Some1(s)}]
  BY <1>3, <1>4, <1>6 DEF B
<1> QED BY <1>4, <1>5, <1>7 DEF Solved

\* The sum over a set by the sums over its subsets.
LEMMA Recursion ==
    ASSUME NEW T, IsFiniteSet(T), NEW F
    PROVE  Total(F, T) = IF T = {} THEN 0 ELSE F[Some1(T)] + Total(F, T \ {Some1(T)})
<1>1. PICK g : Solved(g, F, T) /\ Total(F, T) = g[T]
  BY Chosen
<1>2. T \in SUBSET T
  OBVIOUS
<1>3. CASE T = {}
  BY <1>1, <1>2, <1>3 DEF Solved
<1>4. CASE T # {}
  <2> DEFINE U == T \ {Some1(T)}
  <2>1. IsFiniteSet(U) /\ U \in SUBSET T
    BY FS_Subset
  <2>2. SUBSET U \subseteq SUBSET T
    BY <2>1
  <2> HIDE DEF U
  <2>3. PICK h : Solved(h, F, U) /\ Total(F, U) = h[U]
    BY <2>1, Chosen
  <2>4. Solved(g, F, U)
    BY <1>1, <2>2 DEF Solved
  <2>5. h[U] = g[U]
    BY <2>1, <2>3, <2>4, Agreed
  <2> QED BY <1>1, <1>2, <1>4, <2>3, <2>5 DEF U, Solved
<1> QED BY <1>3, <1>4

\* Sums of numbers.
Counts(F, T) == IsFiniteSet(T) /\ \A x \in T : F[x] \in Nat

LEMMA CountsLess ==
    ASSUME NEW F, NEW T, Counts(F, T), NEW s \in SUBSET T
    PROVE  Counts(F, s)
BY FS_Subset DEF Counts

LEMMA TotalNat ==
    ASSUME NEW F, NEW T, Counts(F, T)
    PROVE  Total(F, T) \in Nat
<1> DEFINE B == {s \in SUBSET T : Total(F, s) \notin Nat}
<1>1. SUFFICES ASSUME B # {} PROVE FALSE
  <2>1. T \in SUBSET T
    OBVIOUS
  <2> QED BY <2>1
<1>2. B \in SUBSET SUBSET T /\ IsFiniteSet(T)
  BY DEF Counts
<1> HIDE DEF B
<1>3. PICK s \in B : \A x \in s : s \ {x} \notin B
  BY <1>1, <1>2, SmallestSet
<1>4. s \in SUBSET T /\ Total(F, s) \notin Nat
  BY <1>3 DEF B
<1>5. IsFiniteSet(s) /\ Counts(F, s)
  BY <1>4, CountsLess DEF Counts
<1>6. Total(F, s) = IF s = {} THEN 0 ELSE F[Some1(s)] + Total(F, s \ {Some1(s)})
  BY <1>5, Recursion
<1>7. s # {}
  BY <1>4, <1>6
<1>8. Some1(s) \in s
  BY <1>7, SomeOne
<1>9. Total(F, s \ {Some1(s)}) \in Nat /\ F[Some1(s)] \in Nat
  BY <1>3, <1>4, <1>5, <1>8 DEF B, Counts
<1> QED BY <1>4, <1>6, <1>7, <1>9

\* Whichever is taken out first.
LEMMA TotalSplit ==
    ASSUME NEW F, NEW T, Counts(F, T), NEW x \in T
    PROVE  Total(F, T) = F[x] + Total(F, T \ {x})
<1> DEFINE B == {s \in SUBSET T : \E z \in s : Total(F, s) # F[z] + Total(F, s \ {z})}
<1>1. SUFFICES ASSUME B # {} PROVE FALSE
  <2>1. T \in SUBSET T
    OBVIOUS
  <2> QED BY <2>1
<1>2. B \in SUBSET SUBSET T /\ IsFiniteSet(T)
  BY DEF Counts
<1> HIDE DEF B
<1>3. PICK s \in B : \A z \in s : s \ {z} \notin B
  BY <1>1, <1>2, SmallestSet
<1>4. s \in SUBSET T
  BY <1>2, <1>3
<1>5. PICK z \in s : Total(F, s) # F[z] + Total(F, s \ {z})
  BY <1>3 DEF B
<1> DEFINE y == Some1(s)
<1>6. y \in s
  BY <1>5, SomeOne
<1>7. \A t \in SUBSET s : Counts(F, t) /\ IsFiniteSet(t) /\ Total(F, t) \in Nat
  BY <1>4, CountsLess, TotalNat DEF Counts
<1>8. s \in SUBSET s
  OBVIOUS
<1>9. Total(F, s) = F[y] + Total(F, s \ {y})
  BY <1>6, <1>7, <1>8, Recursion
<1> HIDE DEF y
<1>10. y # z
  BY <1>5, <1>9
<1>11. s \ {z} \in SUBSET T /\ s \ {z} \notin B /\ y \in s \ {z}
  BY <1>3, <1>4, <1>6, <1>10
<1>12. Total(F, s \ {z}) = F[y] + Total(F, (s \ {z}) \ {y})
  BY <1>11 DEF B
<1>13. s \ {y} \in SUBSET T /\ s \ {y} \notin B /\ z \in s \ {y}
  BY <1>3, <1>4, <1>5, <1>6, <1>10
<1>14. Total(F, s \ {y}) = F[z] + Total(F, (s \ {y}) \ {z})
  BY <1>13 DEF B
<1>15. (s \ {y}) \ {z} = (s \ {z}) \ {y} /\ (s \ {z}) \ {y} \in SUBSET s
  OBVIOUS
<1> DEFINE rest == Total(F, (s \ {z}) \ {y})
<1>16. rest \in Nat /\ F[y] \in Nat /\ F[z] \in Nat
  BY <1>4, <1>5, <1>6, <1>7, <1>15 DEF Counts
<1>17. Total(F, s \ {z}) = F[y] + rest /\ Total(F, s \ {y}) = F[z] + rest
  BY <1>12, <1>14, <1>15
<1> HIDE DEF rest
<1> QED BY <1>5, <1>9, <1>16, <1>17

LEMMA TotalEmpty ==
    ASSUME NEW F
    PROVE  Total(F, {}) = 0
BY Recursion, FS_EmptySet

\* Sums over two sets whose elements match.
Matches(F, S, G, T, h) ==
    /\ \A x \in S : h[x] \in T /\ F[x] = G[h[x]]
    /\ \A x, y \in S : h[x] = h[y] => x = y
    /\ \A z \in T : \E x \in S : h[x] = z

LEMMA TotalMatch ==
    ASSUME NEW F, NEW S, NEW G, NEW T, NEW h, Counts(F, S), Counts(G, T), Matches(F, S, G, T, h)
    PROVE  Total(F, S) = Total(G, T)
<1> DEFINE Im(s) == {h[x] : x \in s}
           B == {s \in SUBSET S : Total(F, s) # Total(G, Im(s))}
<1>1. SUFFICES ASSUME B # {} PROVE FALSE
  <2>1. Im(S) = T /\ S \in SUBSET S
    BY DEF Matches
  <2> QED BY <2>1
<1>2. B \in SUBSET SUBSET S /\ IsFiniteSet(S)
  BY DEF Counts
<1> HIDE DEF B
<1>3. PICK s \in B : \A z \in s : s \ {z} \notin B
  BY <1>1, <1>2, SmallestSet
<1>4. s \in SUBSET S /\ Total(F, s) # Total(G, Im(s))
  BY <1>3 DEF B
<1>5. s # {}
  <2>1. SUFFICES ASSUME s = {} PROVE FALSE
    OBVIOUS
  <2>2. Im(s) = {}
    BY <2>1
  <2> QED BY <1>4, <2>1, <2>2, TotalEmpty
<1>6. PICK z \in s : TRUE
  BY <1>5
<1>7. Im(s) \in SUBSET T /\ h[z] \in Im(s)
  BY <1>4, <1>6 DEF Matches
<1>8. Im(s \ {z}) = Im(s) \ {h[z]}
  BY <1>4, <1>6 DEF Matches
<1>9. Total(F, s \ {z}) = Total(G, Im(s \ {z}))
  BY <1>3, <1>4, <1>6 DEF B
<1> HIDE DEF Im
<1>10. Total(F, s) = F[z] + Total(F, s \ {z})
  BY <1>4, <1>6, CountsLess, TotalSplit
<1>11. Counts(G, Im(s))
  BY <1>7, CountsLess
<1>12. Total(G, Im(s)) = G[h[z]] + Total(G, Im(s) \ {h[z]})
  BY <1>7, <1>11, TotalSplit
<1>13. F[z] = G[h[z]]
  BY <1>4, <1>6 DEF Matches
<1> QED BY <1>4, <1>8, <1>9, <1>10, <1>12, <1>13

LEMMA TotalSame ==
    ASSUME NEW F, NEW G, NEW T, Counts(F, T), \A x \in T : F[x] = G[x]
    PROVE  Total(F, T) = Total(G, T)
<1>1. Counts(G, T)
  BY DEF Counts
<1>2. Matches(F, T, G, T, [x \in T |-> x])
  BY DEF Matches
<1> QED BY <1>1, <1>2, TotalMatch

\* Only what x counts for changes.
LEMMA TotalChange ==
    ASSUME NEW F, NEW G, NEW T, NEW x \in T, Counts(F, T), Counts(G, T),
           \A y \in T : y # x => F[y] = G[y]
    PROVE  Total(G, T) + F[x] = Total(F, T) + G[x]
<1> DEFINE U == T \ {x}
<1>1. Counts(F, U) /\ Counts(G, U)
  BY CountsLess
<1>2. Total(F, U) = Total(G, U)
  <2>1. \A y \in U : F[y] = G[y]
    OBVIOUS
  <2> HIDE DEF U
  <2> QED BY <1>1, <2>1, TotalSame
<1>3. Total(F, T) = F[x] + Total(F, U) /\ Total(G, T) = G[x] + Total(G, U)
  BY TotalSplit
<1>4. Total(F, U) \in Nat
  BY <1>1, TotalNat
<1>5. F[x] \in Nat /\ G[x] \in Nat
  BY DEF Counts
<1> HIDE DEF U
<1> QED BY <1>2, <1>3, <1>4, <1>5

-----------------------------------------------------------------------------
(* Lists of items.                                                          *)

LEMMA AppendFacts ==
    ASSUME NEW S, NEW q \in Seq(S), NEW m \in S
    PROVE  /\ Append(q, m) \in Seq(S) /\ Len(Append(q, m)) = Len(q) + 1 /\ Len(q) \in Nat
           /\ Append(q, m)[Len(q) + 1] = m
           /\ \A k \in 1 .. Len(q) : Append(q, m)[k] = q[k]
OBVIOUS

LEMMA Elements ==
    ASSUME NEW S, NEW q \in Seq(S)
    PROVE  \A k \in 1 .. Len(q) : q[k] \in S
OBVIOUS

LEMMA PutFirst ==
    ASSUME NEW S, NEW q \in Seq(S), NEW m \in S
    PROVE  /\ <<m>> \o q \in Seq(S) /\ Len(<<m>> \o q) = Len(q) + 1 /\ Len(q) \in Nat
           /\ (<<m>> \o q)[1] = m
           /\ \A k \in 1 .. Len(q) : (<<m>> \o q)[k + 1] = q[k]
OBVIOUS

LEMMA RemoveFacts ==
    ASSUME NEW S, NEW q \in Seq(S), NEW i \in 1 .. Len(q)
    PROVE  /\ RemoveAt(q, i) \in Seq(S) /\ Len(RemoveAt(q, i)) = Len(q) - 1 /\ Len(q) \in Nat
           /\ \A k \in 1 .. Len(q) - 1 : RemoveAt(q, i)[k] = q[IF k < i THEN k ELSE k + 1]
<1>1. Len(q) \in Nat /\ i \in Nat /\ i >= 1 /\ i <= Len(q)
  OBVIOUS
<1>2. /\ SubSeq(q, 1, i - 1) \in Seq(S) /\ Len(SubSeq(q, 1, i - 1)) = i - 1
      /\ \A k \in 1 .. i - 1 : SubSeq(q, 1, i - 1)[k] = q[k]
  BY <1>1
<1>3. /\ SubSeq(q, i + 1, Len(q)) \in Seq(S) /\ Len(SubSeq(q, i + 1, Len(q))) = Len(q) - i
      /\ \A k \in 1 .. Len(q) - i : SubSeq(q, i + 1, Len(q))[k] = q[k + i]
  BY <1>1
<1>4. /\ RemoveAt(q, i) \in Seq(S) /\ Len(RemoveAt(q, i)) = Len(q) - 1
      /\ \A k \in 1 .. Len(q) - 1 :
             RemoveAt(q, i)[k] = IF k < i THEN SubSeq(q, 1, i - 1)[k]
                                 ELSE SubSeq(q, i + 1, Len(q))[k - (i - 1)]
  <2> DEFINE a == SubSeq(q, 1, i - 1)
             b == SubSeq(q, i + 1, Len(q))
  <2>1. RemoveAt(q, i) = a \o b
    BY DEF RemoveAt
  <2>2. a \in Seq(S) /\ b \in Seq(S) /\ Len(a) = i - 1 /\ Len(b) = Len(q) - i
    BY <1>2, <1>3
  <2> HIDE DEF a, b
  <2>3. /\ a \o b \in Seq(S) /\ Len(a \o b) = Len(a) + Len(b)
        /\ \A k \in 1 .. Len(a) + Len(b) : (a \o b)[k] = IF k <= Len(a) THEN a[k] ELSE b[k - Len(a)]
    BY <2>2, ConcatProperties
  <2>4. Len(a) + Len(b) = Len(q) - 1 /\ \A k \in 1 .. Len(q) - 1 : k <= Len(a) <=> k < i
    BY <1>1, <2>2
  <2>5. RemoveAt(q, i) \in Seq(S) /\ Len(RemoveAt(q, i)) = Len(q) - 1
    BY <2>1, <2>3, <2>4
  <2>6. \A k \in 1 .. Len(q) - 1 : RemoveAt(q, i)[k] = IF k < i THEN a[k] ELSE b[k - (i - 1)]
    BY <2>1, <2>2, <2>3, <2>4
  <2> QED BY <2>5, <2>6 DEF a, b
<1>5. ASSUME NEW k \in 1 .. Len(q) - 1
      PROVE  RemoveAt(q, i)[k] = q[IF k < i THEN k ELSE k + 1]
  <2>1. CASE k < i
    <3>1. k \in 1 .. i - 1
      BY <1>1, <2>1
    <3> QED BY <1>2, <1>4, <2>1, <3>1
  <2>2. CASE ~(k < i)
    <3>1. k - (i - 1) \in 1 .. Len(q) - i /\ k - (i - 1) + i = k + 1
      BY <1>1, <2>2
    <3> QED BY <1>3, <1>4, <2>2, <3>1
  <2> QED BY <2>1, <2>2
<1> QED BY <1>1, <1>4, <1>5

\* The first place with an id, the first with a kind.
LEMMA PlaceFacts ==
    ASSUME NEW items \in Seq(Item), NEW id, id \in IdsOf(items)
    PROVE  Place(items, id) \in 1 .. Len(items) /\ items[Place(items, id)].id = id
<1> DEFINE I == {i \in 1 .. Len(items) : items[i].id = id}
<1>1. DOMAIN items = 1 .. Len(items) /\ Len(items) \in Nat
  OBVIOUS
<1>2. I \in SUBSET Nat /\ I # {}
  BY <1>1 DEF IdsOf
<1> HIDE DEF I
<1>3. PICK i \in I : \A j \in I : i <= j
  BY <1>2, Smallest
<1>4. i \in 1 .. Len(items) /\ items[i].id = id
  BY <1>3 DEF I
<1>5. \A j \in 1 .. i - 1 : items[j].id # id
  BY <1>1, <1>3, <1>4 DEF I
<1> QED BY <1>1, <1>4, <1>5 DEF Place

LEMMA PlaceOfKindFacts ==
    ASSUME NEW items \in Seq(Item), NEW kind, HasKind(items, kind)
    PROVE  PlaceOfKind(items, kind) \in 1 .. Len(items) /\ items[PlaceOfKind(items, kind)].kind = kind
<1> DEFINE I == {i \in 1 .. Len(items) : items[i].kind = kind}
<1>1. DOMAIN items = 1 .. Len(items) /\ Len(items) \in Nat
  OBVIOUS
<1>2. I \in SUBSET Nat /\ I # {}
  BY <1>1 DEF HasKind
<1> HIDE DEF I
<1>3. PICK i \in I : \A j \in I : i <= j
  BY <1>2, Smallest
<1>4. i \in 1 .. Len(items) /\ items[i].kind = kind
  BY <1>3 DEF I
<1>5. \A j \in 1 .. i - 1 : items[j].kind # kind
  BY <1>1, <1>3, <1>4 DEF I
<1> QED BY <1>1, <1>4, <1>5 DEF PlaceOfKind

LEMMA PlaceOfOne ==
    ASSUME NEW items \in Seq(Item), NEW i \in 1 .. Len(items), IdsOnce(items)
    PROVE  Place(items, items[i].id) = i
<1>1. DOMAIN items = 1 .. Len(items)
  OBVIOUS
<1>2. items[i].id \in IdsOf(items)
  BY <1>1 DEF IdsOf
<1> QED BY <1>1, <1>2, PlaceFacts DEF IdsOnce

\* What a list is called: the ids in it, each with its kind.
Names(items) == {<<items[i].id, items[i].kind>> : i \in DOMAIN items}

LEMMA Listed ==
    ASSUME NEW items \in Seq(Item)
    PROVE  /\ DOMAIN items = 1 .. Len(items) /\ Len(items) \in Nat
           /\ \A i \in 1 .. Len(items) : /\ items[i] \in Item
                                         /\ items[i].id \in Ids /\ items[i].kind \in AllKinds
                                         /\ items[i].n \in Nat
                                         /\ items[i].id \in IdsOf(items)
                                         /\ <<items[i].id, items[i].kind>> \in Names(items)
           /\ \A id : id \in IdsOf(items) <=> \E i \in 1 .. Len(items) : items[i].id = id
           /\ \A x : x \in Names(items) <=>
                  \E i \in 1 .. Len(items) : x = <<items[i].id, items[i].kind>>
           /\ \A id : id \in IdsOf(items) <=> \E x \in Names(items) : x[1] = id
           /\ IdsOnce(items) <=> \A i, j \in 1 .. Len(items) : items[i].id = items[j].id => i = j
<1>1. DOMAIN items = 1 .. Len(items) /\ Len(items) \in Nat
  OBVIOUS
<1>2. \A i \in 1 .. Len(items) : items[i] \in Item
  OBVIOUS
<1>3. \A i \in 1 .. Len(items) : /\ items[i].id \in Ids /\ items[i].kind \in AllKinds
                                 /\ items[i].n \in Nat
  BY <1>2 DEF Item
<1>4. /\ \A id : id \in IdsOf(items) <=> \E i \in 1 .. Len(items) : items[i].id = id
      /\ \A x : x \in Names(items) <=> \E i \in 1 .. Len(items) : x = <<items[i].id, items[i].kind>>
  BY <1>1 DEF IdsOf, Names
<1>5. IdsOnce(items) <=> \A i, j \in 1 .. Len(items) : items[i].id = items[j].id => i = j
  BY <1>1 DEF IdsOnce
<1>6. ASSUME NEW id
      PROVE  id \in IdsOf(items) <=> \E x \in Names(items) : x[1] = id
  <2>1. ASSUME id \in IdsOf(items)
        PROVE  \E x \in Names(items) : x[1] = id
    <3>1. PICK i \in 1 .. Len(items) : items[i].id = id
      BY <1>4, <2>1
    <3>2. <<items[i].id, items[i].kind>> \in Names(items)
      BY <1>4
    <3> QED BY <3>1, <3>2
  <2>2. ASSUME NEW x \in Names(items), x[1] = id
        PROVE  id \in IdsOf(items)
    <3>1. PICK i \in 1 .. Len(items) : x = <<items[i].id, items[i].kind>>
      BY <1>4
    <3> QED BY <1>4, <2>2, <3>1
  <2> QED BY <2>1, <2>2
<1> QED BY <1>1, <1>2, <1>3, <1>4, <1>5, <1>6

LEMMA TypedIds ==
    ASSUME NEW items \in Seq(Item)
    PROVE  \A id \in IdsOf(items) : id \in Ids
BY Listed

\* What a list is when every item of it is one of another list, no two the same.
LEMMA Sublist ==
    ASSUME NEW items \in Seq(Item), NEW r \in Seq(Item), NEW from,
           \A k \in 1 .. Len(r) : /\ from[k] \in 1 .. Len(items)
                                  /\ r[k].id = items[from[k]].id /\ r[k].kind = items[from[k]].kind,
           \A j, k \in 1 .. Len(r) : from[j] = from[k] => j = k
    PROVE  /\ Names(r) \subseteq Names(items) /\ IdsOf(r) \subseteq IdsOf(items)
           /\ IdsOnce(items) => IdsOnce(r)
<1>1. ASSUME NEW x \in Names(r) PROVE x \in Names(items)
  <2>1. PICK k \in 1 .. Len(r) : x = <<r[k].id, r[k].kind>>
    BY Listed
  <2>2. x = <<items[from[k]].id, items[from[k]].kind>> /\ from[k] \in 1 .. Len(items)
    BY <2>1
  <2> QED BY <2>2, Listed
<1>2. IdsOf(r) \subseteq IdsOf(items)
  BY <1>1, Listed
<1>3. ASSUME IdsOnce(items), NEW j \in 1 .. Len(r), NEW k \in 1 .. Len(r), r[j].id = r[k].id
      PROVE  j = k
  <2>1. from[j] \in 1 .. Len(items) /\ from[k] \in 1 .. Len(items)
    OBVIOUS
  <2>2. items[from[j]].id = items[from[k]].id
    BY <1>3
  <2>3. from[j] = from[k]
    BY <1>3, <2>1, <2>2, Listed
  <2> QED BY <2>3
<1>4. IdsOnce(items) => IdsOnce(r)
  BY <1>3, Listed
<1> QED BY <1>1, <1>2, <1>4

LEMMA RemoveNames ==
    ASSUME NEW items \in Seq(Item), NEW i \in 1 .. Len(items)
    PROVE  /\ RemoveAt(items, i) \in Seq(Item) /\ Len(RemoveAt(items, i)) <= Len(items)
           /\ Names(RemoveAt(items, i)) \subseteq Names(items)
           /\ IdsOf(RemoveAt(items, i)) \subseteq IdsOf(items)
           /\ IdsOnce(items) => /\ IdsOnce(RemoveAt(items, i))
                                /\ items[i].id \notin IdsOf(RemoveAt(items, i))
<1> DEFINE r == RemoveAt(items, i)
           from == [k \in 1 .. Len(items) - 1 |-> IF k < i THEN k ELSE k + 1]
<1>1. /\ r \in Seq(Item) /\ Len(r) = Len(items) - 1 /\ Len(items) \in Nat
      /\ \A k \in 1 .. Len(items) - 1 : r[k] = items[from[k]]
  BY RemoveFacts
<1>2. /\ \A k \in 1 .. Len(r) : from[k] \in 1 .. Len(items) /\ from[k] # i
      /\ \A j, k \in 1 .. Len(r) : from[j] = from[k] => j = k
  BY <1>1
<1>3. \A k \in 1 .. Len(r) : r[k] = items[from[k]]
  BY <1>1
<1> HIDE DEF r, from
<1>4. /\ Names(r) \subseteq Names(items) /\ IdsOf(r) \subseteq IdsOf(items)
      /\ IdsOnce(items) => IdsOnce(r)
  <2>1. \A k \in 1 .. Len(r) : /\ from[k] \in 1 .. Len(items)
                               /\ r[k].id = items[from[k]].id /\ r[k].kind = items[from[k]].kind
    BY <1>2, <1>3
  <2> QED BY <1>1, <1>2, <2>1, Sublist
<1>5. ASSUME IdsOnce(items), items[i].id \in IdsOf(r) PROVE FALSE
  <2>1. PICK k \in 1 .. Len(r) : r[k].id = items[i].id
    BY <1>1, <1>5, Listed
  <2>2. items[from[k]].id = items[i].id /\ from[k] \in 1 .. Len(items)
    BY <1>2, <1>3, <2>1
  <2>3. from[k] = i
    BY <1>5, <2>2, Listed
  <2> QED BY <1>2, <2>3
<1>6. Len(r) <= Len(items)
  BY <1>1
<1> QED BY <1>1, <1>4, <1>5, <1>6 DEF r

\* What is left when a stack gives some, or an item all, of itself.
LEMMA TakeNames ==
    ASSUME NEW items \in Seq(Item), NEW i \in 1 .. Len(items), NEW id, Place(items, id) = i,
           items[i].id = id, NEW n \in Nat
    PROVE  /\ TakeFrom(items, id, n) \in Seq(Item) /\ Len(TakeFrom(items, id, n)) <= Len(items)
           /\ Names(TakeFrom(items, id, n)) \subseteq Names(items)
           /\ IdsOf(TakeFrom(items, id, n)) \subseteq IdsOf(items)
           /\ IdsOnce(items) => /\ IdsOnce(TakeFrom(items, id, n))
                                /\ id \in IdsOf(TakeFrom(items, id, n)) =>
                                       /\ items[i].kind \in Stackables
                                       /\ HasKind(TakeFrom(items, id, n), items[i].kind)
<1>1. CASE ~(items[i].kind \in Stackables /\ n < items[i].n)
  <2>1. TakeFrom(items, id, n) = RemoveAt(items, i)
    BY <1>1 DEF TakeFrom
  <2> QED BY <2>1, RemoveNames
<1>2. CASE items[i].kind \in Stackables /\ n < items[i].n
  <2> DEFINE r == TakeFrom(items, id, n)
             from == [k \in 1 .. Len(items) |-> k]
  <2>1. r = [items EXCEPT ![i].n = @ - n]
    BY <1>2 DEF TakeFrom
  <2>2. items[i] \in Item /\ items[i].n \in Nat /\ Len(items) \in Nat
    BY Listed
  <2>3. items[i].n - n \in Nat
    BY <1>2, <2>2
  <2>8. [items[i] EXCEPT !.n = @ - n] \in Item
    BY <2>2, <2>3 DEF Item
  <2>4. r \in Seq(Item) /\ Len(r) = Len(items)
    BY <2>1, <2>8
  <2>5. \A k \in 1 .. Len(items) : r[k].id = items[k].id /\ r[k].kind = items[k].kind
    <3>1. ASSUME NEW k \in 1 .. Len(items)
          PROVE  r[k] = IF k = i THEN [items[i] EXCEPT !.n = @ - n] ELSE items[k]
      BY <2>1
    <3> QED BY <2>2, <3>1 DEF Item
  <2> HIDE DEF r
  <2>6. /\ Names(r) \subseteq Names(items) /\ IdsOf(r) \subseteq IdsOf(items)
        /\ IdsOnce(items) => IdsOnce(r)
    <3>1. \A k \in 1 .. Len(r) : /\ from[k] \in 1 .. Len(items)
                                 /\ r[k].id = items[from[k]].id /\ r[k].kind = items[from[k]].kind
      BY <2>4, <2>5
    <3>2. \A j, k \in 1 .. Len(r) : from[j] = from[k] => j = k
      BY <2>4
    <3> HIDE DEF from
    <3> QED BY <2>4, <3>1, <3>2, Sublist
  <2>7. HasKind(r, items[i].kind)
    <3>1. DOMAIN r = 1 .. Len(items) /\ r[i].kind = items[i].kind
      BY <2>4, <2>5, Listed
    <3> QED BY <3>1 DEF HasKind
  <2> QED BY <1>2, <2>4, <2>6, <2>7, Listed DEF r
<1> QED BY <1>1, <1>2

LEMMA AppendNames ==
    ASSUME NEW items \in Seq(Item), NEW it \in Item
    PROVE  /\ Append(items, it) \in Seq(Item) /\ Len(Append(items, it)) = Len(items) + 1
           /\ Names(Append(items, it)) = Names(items) \cup {<<it.id, it.kind>>}
           /\ IdsOf(Append(items, it)) = IdsOf(items) \cup {it.id}
           /\ IdsOnce(items) /\ it.id \notin IdsOf(items) => IdsOnce(Append(items, it))
<1> DEFINE r == Append(items, it)
           L == Len(items)
<1>1. /\ r \in Seq(Item) /\ Len(r) = L + 1 /\ L \in Nat /\ r[L + 1] = it
      /\ \A k \in 1 .. L : r[k] = items[k]
      /\ \A k \in 1 .. L + 1 : k \in 1 .. L \/ k = L + 1
      /\ L + 1 \in 1 .. L + 1 /\ \A k \in 1 .. L : k \in 1 .. L + 1
  BY AppendFacts
<1> HIDE DEF r
<1>2. ASSUME NEW x PROVE x \in Names(r) <=> x \in Names(items) \/ x = <<it.id, it.kind>>
  <2>1. x \in Names(r) <=> \E i \in 1 .. L + 1 : x = <<r[i].id, r[i].kind>>
    BY <1>1, Listed
  <2>2. x \in Names(items) <=> \E i \in 1 .. L : x = <<items[i].id, items[i].kind>>
    BY Listed
  <2> QED BY <1>1, <2>1, <2>2
<1>3. Names(r) = Names(items) \cup {<<it.id, it.kind>>}
  BY <1>2
<1>4. IdsOf(r) = IdsOf(items) \cup {it.id}
  <2>1. ASSUME NEW id PROVE id \in IdsOf(r) <=> id \in IdsOf(items) \/ id = it.id
    <3>1. id \in IdsOf(r) <=> \E i \in 1 .. L + 1 : r[i].id = id
      BY <1>1, Listed
    <3>2. id \in IdsOf(items) <=> \E i \in 1 .. L : items[i].id = id
      BY Listed
    <3> QED BY <1>1, <3>1, <3>2
  <2> QED BY <2>1
<1>5. ASSUME IdsOnce(items), it.id \notin IdsOf(items) PROVE IdsOnce(r)
  <2>1. \A i, j \in 1 .. L : items[i].id = items[j].id => i = j
    BY <1>5, Listed
  <2>2. \A i \in 1 .. L : items[i].id # it.id
    BY <1>5, Listed
  <2>3. \A i, j \in 1 .. L + 1 : r[i].id = r[j].id => i = j
    BY <1>1, <2>1, <2>2
  <2> QED BY <1>1, <2>3, Listed
<1> QED BY <1>1, <1>3, <1>4, <1>5 DEF r

LEMMA PutFirstNames ==
    ASSUME NEW items \in Seq(Item), NEW it \in Item
    PROVE  /\ <<it>> \o items \in Seq(Item) /\ Len(<<it>> \o items) = Len(items) + 1
           /\ IdsOf(<<it>> \o items) = IdsOf(items) \cup {it.id}
           /\ IdsOnce(items) /\ it.id \notin IdsOf(items) => IdsOnce(<<it>> \o items)
<1> DEFINE r == <<it>> \o items
           L == Len(items)
<1>1. /\ r \in Seq(Item) /\ Len(r) = L + 1 /\ L \in Nat /\ r[1] = it
      /\ \A k \in 1 .. L : r[k + 1] = items[k] /\ k + 1 \in 1 .. L + 1
      /\ \A k \in 1 .. L + 1 : k # 1 => k - 1 \in 1 .. L /\ r[k] = items[k - 1]
      /\ 1 \in 1 .. L + 1
  <2>1. /\ r \in Seq(Item) /\ Len(r) = L + 1 /\ L \in Nat /\ r[1] = it
        /\ \A k \in 1 .. L : r[k + 1] = items[k]
    BY PutFirst
  <2>2. ASSUME NEW k \in 1 .. L + 1, k # 1 PROVE k - 1 \in 1 .. L /\ r[k] = items[k - 1]
    <3>1. k - 1 \in 1 .. L /\ k - 1 + 1 = k
      BY <2>1, <2>2
    <3> QED BY <2>1, <3>1
  <2> HIDE DEF r
  <2> QED BY <2>1, <2>2
<1> HIDE DEF r
<1>2. IdsOf(r) = IdsOf(items) \cup {it.id}
  <2>1. ASSUME NEW id PROVE id \in IdsOf(r) <=> id \in IdsOf(items) \/ id = it.id
    <3>1. id \in IdsOf(r) <=> \E i \in 1 .. L + 1 : r[i].id = id
      BY <1>1, Listed
    <3>2. id \in IdsOf(items) <=> \E i \in 1 .. L : items[i].id = id
      BY Listed
    <3> QED BY <1>1, <3>1, <3>2
  <2> QED BY <2>1
<1>3. ASSUME IdsOnce(items), it.id \notin IdsOf(items) PROVE IdsOnce(r)
  <2>1. \A i, j \in 1 .. L : items[i].id = items[j].id => i = j
    BY <1>3, Listed
  <2>2. \A i \in 1 .. L : items[i].id # it.id
    BY <1>3, Listed
  <2>3. ASSUME NEW i \in 1 .. L + 1, NEW j \in 1 .. L + 1, r[i].id = r[j].id
        PROVE  i = j
    <3>1. CASE i # 1 /\ j # 1
      <4>1. i - 1 \in 1 .. L /\ r[i] = items[i - 1] /\ j - 1 \in 1 .. L /\ r[j] = items[j - 1]
        BY <1>1, <3>1
      <4>2. i - 1 = j - 1
        BY <2>1, <2>3, <4>1
      <4> QED BY <1>1, <4>2
    <3>2. CASE i = 1 \/ j = 1
      <4>1. ASSUME NEW k \in 1 .. L + 1, k # 1 PROVE r[k].id # r[1].id
        <5>1. k - 1 \in 1 .. L /\ r[k] = items[k - 1]
          BY <1>1, <4>1
        <5> QED BY <1>1, <2>2, <5>1
      <4> QED BY <1>1, <2>3, <3>2, <4>1
    <3> QED BY <3>1, <3>2
  <2> QED BY <1>1, <2>3, Listed
<1> QED BY <1>1, <1>2, <1>3 DEF r

LEMMA MergeNames ==
    ASSUME NEW items \in Seq(Item), NEW it \in Item
    PROVE  /\ Merge(items, it) \in Seq(Item)
           /\ Len(Merge(items, it)) \in {Len(items), Len(items) + 1}
           /\ Names(Merge(items, it)) \subseteq Names(items) \cup {<<it.id, it.kind>>}
           /\ IdsOf(Merge(items, it)) \subseteq IdsOf(items) \cup {it.id}
           /\ IdsOnce(items) /\ it.id \notin IdsOf(items) => IdsOnce(Merge(items, it))
           /\ IdsOnce(items) /\ it.kind \in Stackables /\ HasKind(items, it.kind)
                  => IdsOnce(Merge(items, it))
<1>1. CASE ~(it.kind \in Stackables /\ HasKind(items, it.kind))
  <2>1. Merge(items, it) = Append(items, it)
    BY <1>1 DEF Merge
  <2> QED BY <1>1, <2>1, AppendNames
<1>2. CASE it.kind \in Stackables /\ HasKind(items, it.kind)
  <2> DEFINE r == Merge(items, it)
             from == [k \in 1 .. Len(items) |-> k]
  <2>p. PICK i \in 1 .. Len(items) : i = PlaceOfKind(items, it.kind)
    BY <1>2, PlaceOfKindFacts
  <2>1. r = [items EXCEPT ![i].n = @ + it.n]
    BY <1>2, <2>p DEF Merge
  <2>2. items[i] \in Item /\ items[i].n \in Nat /\ Len(items) \in Nat
    BY Listed
  <2>3. items[i].n + it.n \in Nat
    BY <2>2 DEF Item
  <2>4. [items[i] EXCEPT !.n = @ + it.n] \in Item
    BY <2>2, <2>3 DEF Item
  <2>5. r \in Seq(Item) /\ Len(r) = Len(items)
    BY <2>1, <2>4
  <2>6. \A k \in 1 .. Len(items) : r[k].id = items[k].id /\ r[k].kind = items[k].kind
    <3>1. ASSUME NEW k \in 1 .. Len(items)
          PROVE  r[k] = IF k = i THEN [items[i] EXCEPT !.n = @ + it.n] ELSE items[k]
      BY <2>1
    <3> QED BY <2>2, <3>1 DEF Item
  <2> HIDE DEF r
  <2>7. /\ Names(r) \subseteq Names(items) /\ IdsOf(r) \subseteq IdsOf(items)
        /\ IdsOnce(items) => IdsOnce(r)
    <3>1. \A k \in 1 .. Len(r) : /\ from[k] \in 1 .. Len(items)
                                 /\ r[k].id = items[from[k]].id /\ r[k].kind = items[from[k]].kind
      BY <2>5, <2>6
    <3>2. \A j, k \in 1 .. Len(r) : from[j] = from[k] => j = k
      BY <2>5
    <3> HIDE DEF from
    <3> QED BY <2>5, <3>1, <3>2, Sublist
  <2> QED BY <2>5, <2>7 DEF r
<1> QED BY <1>1, <1>2

\* A list in another order.
Sorted(items, order) == [i \in DOMAIN items |-> items[order[i]]]

LEMMA SortNames ==
    ASSUME NEW items \in Seq(Item), NEW order \in SetToSeqs(DOMAIN items)
    PROVE  LET r == Sorted(items, order) IN
           /\ r \in Seq(Item) /\ Len(r) = Len(items)
           /\ Names(r) \subseteq Names(items) /\ IdsOf(r) \subseteq IdsOf(items)
           /\ IdsOnce(items) => IdsOnce(r)
           /\ \A i \in 1 .. Len(items) : order[i] \in 1 .. Len(items) /\ r[i] = items[order[i]]
           /\ \A i, j \in 1 .. Len(items) : order[i] = order[j] => i = j
<1> DEFINE L == Len(items)
           r == Sorted(items, order)
<1>1. DOMAIN items = 1 .. L /\ L \in Nat
  OBVIOUS
<1>2. Cardinality(1 .. L) = L
  BY <1>1, FS_Interval
<1>3. /\ order \in [1 .. L -> 1 .. L]
      /\ \A i, j \in 1 .. L : i # j => order[i] # order[j]
  BY <1>1, <1>2 DEF SetToSeqs
<1>4. r = [i \in 1 .. L |-> items[order[i]]]
  BY <1>1 DEF Sorted
<1>5. \A i \in 1 .. L : items[order[i]] \in Item
  BY <1>1, <1>3
<1>6. r \in Seq(Item) /\ Len(r) = L
  BY <1>1, <1>4, <1>5
<1>7. \A i \in 1 .. L : r[i] = items[order[i]]
  BY <1>4
<1> HIDE DEF r
<1>8. /\ Names(r) \subseteq Names(items) /\ IdsOf(r) \subseteq IdsOf(items)
      /\ IdsOnce(items) => IdsOnce(r)
  <2>1. \A k \in 1 .. Len(r) : /\ order[k] \in 1 .. Len(items)
                               /\ r[k].id = items[order[k]].id /\ r[k].kind = items[order[k]].kind
    BY <1>3, <1>6, <1>7
  <2>2. \A j, k \in 1 .. Len(r) : order[j] = order[k] => j = k
    BY <1>3, <1>6
  <2> QED BY <1>6, <2>1, <2>2, Sublist
<1> QED BY <1>3, <1>6, <1>7, <1>8 DEF r

\* A list whose items get other ids.
LEMMA RenamedList ==
    ASSUME NEW items \in Seq(Item), NEW f, \A i \in 1 .. Len(items) : f[i] \in Ids
    PROVE  LET r == [i \in DOMAIN items |-> [items[i] EXCEPT !.id = f[i]]] IN
           /\ r \in Seq(Item) /\ Len(r) = Len(items)
           /\ \A i \in 1 .. Len(items) : r[i].id = f[i] /\ r[i].kind = items[i].kind /\ r[i].n = items[i].n
           /\ KindsOf(r) = KindsOf(items)
           /\ \A x \in Names(r) : /\ \E i \in 1 .. Len(items) : x[1] = f[i]
                                  /\ \E y \in Names(items) : x[2] = y[2]
           /\ (\A i, j \in 1 .. Len(items) : f[i] = f[j] => i = j) => IdsOnce(r)
<1> DEFINE L == Len(items)
           r == [i \in DOMAIN items |-> [items[i] EXCEPT !.id = f[i]]]
<1>1. DOMAIN items = 1 .. L /\ L \in Nat
  OBVIOUS
<1>2. r = [i \in 1 .. L |-> [items[i] EXCEPT !.id = f[i]]]
  BY <1>1
<1>3. ASSUME NEW i \in 1 .. L
      PROVE  /\ [items[i] EXCEPT !.id = f[i]] \in Item
             /\ r[i].id = f[i] /\ r[i].kind = items[i].kind /\ r[i].n = items[i].n
  <2>1. items[i] \in Item
    BY <1>1
  <2> QED BY <1>2, <2>1 DEF Item
<1>4. r \in Seq(Item) /\ Len(r) = L
  BY <1>1, <1>2, <1>3
<1>5. KindsOf(r) = KindsOf(items)
  <2>1. DOMAIN r = DOMAIN items
    BY <1>1, <1>2
  <2> HIDE DEF r
  <2> QED BY <1>1, <1>3, <2>1 DEF KindsOf
<1> HIDE DEF r
<1>6. ASSUME NEW x \in Names(r)
      PROVE  /\ \E i \in 1 .. Len(items) : x[1] = f[i]
             /\ \E y \in Names(items) : x[2] = y[2]
  <2>1. PICK i \in 1 .. L : x = <<r[i].id, r[i].kind>>
    BY <1>4, Listed
  <2>2. x[1] = f[i] /\ x[2] = items[i].kind
    BY <1>3, <2>1
  <2>3. <<items[i].id, items[i].kind>> \in Names(items)
    BY Listed
  <2> QED BY <2>2, <2>3
<1>7. ASSUME \A i, j \in 1 .. L : f[i] = f[j] => i = j
      PROVE  IdsOnce(r)
  <2>1. ASSUME NEW i \in 1 .. L, NEW j \in 1 .. L, r[i].id = r[j].id PROVE i = j
    <3>1. r[i].id = f[i] /\ r[j].id = f[j]
      BY <1>3
    <3> QED BY <1>7, <2>1, <3>1
  <2> QED BY <1>4, <2>1, Listed
<1> QED BY <1>3, <1>4, <1>5, <1>6, <1>7 DEF r

LEMMA IdTypes ==
    /\ NoId \in Ids /\ \A n \in Nat : <<"game", 0, n>> \in Ids
    /\ \A s \in Slots, n \in Int : <<"slot", s, n>> \in Ids /\ <<"bank", s, n>> \in Ids
BY DEF Ids, NoId

LEMMA NumberedFacts ==
    ASSUME NEW items \in Seq(Item), NEW s \in Slots, NEW h \in Int
    PROVE  LET r == Numbered(items, s, h) IN
           /\ r \in Seq(Item) /\ Len(r) = Len(items) /\ KindsOf(r) = KindsOf(items)
           /\ \A i \in 1 .. Len(items) : r[i].kind = items[i].kind /\ r[i].n = items[i].n
           /\ \A x \in Names(r) : /\ \E i \in 1 .. Len(items) : x[1] = <<"slot", s, FirstNumber(h) + i - 1>>
                                  /\ \E y \in Names(items) : x[2] = y[2]
           /\ IdsOnce(r)
<1> DEFINE f == [i \in 1 .. Len(items) |-> <<"slot", s, FirstNumber(h) + i - 1>>]
           r == [i \in DOMAIN items |-> [items[i] EXCEPT !.id = f[i]]]
<1>1. DOMAIN items = 1 .. Len(items) /\ Len(items) \in Nat
  OBVIOUS
<1>2. r = Numbered(items, s, h)
  BY <1>1 DEF Numbered
<1>3. \A i \in 1 .. Len(items) : f[i] = <<"slot", s, FirstNumber(h) + i - 1>>
  OBVIOUS
<1> HIDE DEF f
<1>4. \A i \in 1 .. Len(items) : f[i] \in Ids
  <2>1. \A i \in 1 .. Len(items) : FirstNumber(h) + i - 1 \in Int
    BY DEF FirstNumber
  <2> QED BY <1>3, <2>1, IdTypes
<1>5. /\ r \in Seq(Item) /\ Len(r) = Len(items)
      /\ \A i \in 1 .. Len(items) : r[i].id = f[i] /\ r[i].kind = items[i].kind /\ r[i].n = items[i].n
      /\ KindsOf(r) = KindsOf(items)
      /\ \A x \in Names(r) : /\ \E i \in 1 .. Len(items) : x[1] = f[i]
                             /\ \E y \in Names(items) : x[2] = y[2]
      /\ (\A i, j \in 1 .. Len(items) : f[i] = f[j] => i = j) => IdsOnce(r)
  BY <1>4, RenamedList
<1> HIDE DEF r
<1>6. FirstNumber(h) \in Int
  BY DEF FirstNumber
<1>7. \A i, j \in 1 .. Len(items) : f[i] = f[j] => i = j
  <2>1. ASSUME NEW i \in 1 .. Len(items), NEW j \in 1 .. Len(items), f[i] = f[j] PROVE i = j
    <3>1. FirstNumber(h) + i - 1 = FirstNumber(h) + j - 1
      BY <1>3, <2>1
    <3> QED BY <1>1, <1>6, <3>1
  <2> QED BY <2>1
<1> QED BY <1>2, <1>3, <1>5, <1>7

LEMMA RenumberedFacts ==
    ASSUME NEW items \in Seq(Item), NEW s \in Slots
    PROVE  LET r == Renumbered(items, s) IN
           /\ r \in Seq(Item) /\ Len(r) = Len(items) /\ KindsOf(r) = KindsOf(items)
           /\ \A i \in 1 .. Len(items) : r[i].kind = items[i].kind /\ r[i].n = items[i].n
           /\ \A x \in Names(r) : /\ x[1][1] = "bank"
                                  /\ \E y \in Names(items) : x[2] = y[2]
           /\ IdsOnce(r)
<1> DEFINE f == [i \in 1 .. Len(items) |-> <<"bank", s, i - 1>>]
           r == [i \in DOMAIN items |-> [items[i] EXCEPT !.id = f[i]]]
<1>1. DOMAIN items = 1 .. Len(items) /\ Len(items) \in Nat
  OBVIOUS
<1>2. r = Renumbered(items, s)
  BY <1>1 DEF Renumbered
<1>3. \A i \in 1 .. Len(items) : f[i] = <<"bank", s, i - 1>>
  OBVIOUS
<1> HIDE DEF f
<1>4. \A i \in 1 .. Len(items) : f[i] \in Ids
  <2>1. \A i \in 1 .. Len(items) : i - 1 \in Int
    OBVIOUS
  <2> QED BY <1>3, <2>1, IdTypes
<1>5. /\ r \in Seq(Item) /\ Len(r) = Len(items)
      /\ \A i \in 1 .. Len(items) : r[i].id = f[i] /\ r[i].kind = items[i].kind /\ r[i].n = items[i].n
      /\ KindsOf(r) = KindsOf(items)
      /\ \A x \in Names(r) : /\ \E i \in 1 .. Len(items) : x[1] = f[i]
                             /\ \E y \in Names(items) : x[2] = y[2]
      /\ (\A i, j \in 1 .. Len(items) : f[i] = f[j] => i = j) => IdsOnce(r)
  BY <1>4, RenamedList
<1> HIDE DEF r
<1>7. \A i, j \in 1 .. Len(items) : f[i] = f[j] => i = j
  <2>1. ASSUME NEW i \in 1 .. Len(items), NEW j \in 1 .. Len(items), f[i] = f[j] PROVE i = j
    <3>1. i - 1 = j - 1
      BY <1>3, <2>1
    <3> QED BY <1>1, <3>1
  <2> QED BY <2>1
<1>8. \A i \in 1 .. Len(items) : f[i][1] = "bank"
  BY <1>3
<1> QED BY <1>2, <1>5, <1>7, <1>8

LEMMA UnnumberedFacts ==
    ASSUME NEW items \in Seq(Item)
    PROVE  LET r == Unnumbered(items) IN
           /\ r \in Seq(Item) /\ Len(r) = Len(items) /\ KindsOf(r) = KindsOf(items)
           /\ \A i \in 1 .. Len(items) : r[i].kind = items[i].kind /\ r[i].n = items[i].n
           /\ \A x \in Names(r) : /\ x[1] = NoId
                                  /\ \E y \in Names(items) : x[2] = y[2]
<1> DEFINE f == [i \in 1 .. Len(items) |-> NoId]
           r == [i \in DOMAIN items |-> [items[i] EXCEPT !.id = f[i]]]
<1>1. DOMAIN items = 1 .. Len(items) /\ Len(items) \in Nat
  OBVIOUS
<1>2. r = Unnumbered(items)
  BY <1>1 DEF Unnumbered
<1>3. \A i \in 1 .. Len(items) : f[i] = NoId
  OBVIOUS
<1> HIDE DEF f
<1>4. \A i \in 1 .. Len(items) : f[i] \in Ids
  BY <1>3, IdTypes
<1>5. /\ r \in Seq(Item) /\ Len(r) = Len(items)
      /\ \A i \in 1 .. Len(items) : r[i].id = f[i] /\ r[i].kind = items[i].kind /\ r[i].n = items[i].n
      /\ KindsOf(r) = KindsOf(items)
      /\ \A x \in Names(r) : /\ \E i \in 1 .. Len(items) : x[1] = f[i]
                             /\ \E y \in Names(items) : x[2] = y[2]
      /\ (\A i, j \in 1 .. Len(items) : f[i] = f[j] => i = j) => IdsOnce(r)
  BY <1>4, RenamedList
<1> HIDE DEF r
<1> QED BY <1>2, <1>3, <1>5

-----------------------------------------------------------------------------
(* The invariant.                                                           *)

\* Who is in the game sits in a slot of his own, one that was given; a slot that never
\* was has given no numbers.
Seats ==
    /\ \A p, q \in Present : slot[p] = slot[q] => p = q
    /\ \A p \in Present : visits[slot[p]] # 0
    /\ \A s \in Slots : visits[s] = 0 => high[s] = 0

\* Ids are those that the slots give and those that the game has given so far.
Known(id) ==
    \/ id[1] = "slot"
    \/ id[1] = "game" /\ id[3] < made

FloorKnown == \A id \in IdsOf(floor) : Known(id)

\* While no slot was given twice its number is the highest of those on its ids.
Fresh == \A s \in Slots : visits[s] < 2
Given(id) == id[1] = "slot" => id[3] <= high[id[2]] /\ visits[id[2]] # 0
Numbers ==
    Fresh => /\ \A id \in IdsOf(floor) : Given(id)
             /\ \A p \in Present : \A id \in IdsOf(inv[p]) : Given(id)

\* At the bank: ids there differ, and one that is in the inventory too is that of a stack
\* that was divided between the two.
Counter(p) ==
    /\ IdsOnce(bank[p])
    /\ \A id \in IdsOf(bank[p]) : Known(id) \/ id[1] = "bank"
    /\ \A x \in Names(inv[p]) : \A y \in Names(bank[p]) :
           x[1] = y[1] => x[2] = y[2] /\ x[2] \in Stackables

\* Between the two packets of a split what was asked for stays there.
Splitting(p) ==
    /\ asks[p] \in {"split"} \X Ids \X Nat
    /\ asks[p][3] > 0
    /\ \/ asks[p][2] = NoId /\ asks[p][3] <= purse[p]
       \/ \E i \in 1 .. Len(inv[p]) : /\ inv[p][i].id = asks[p][2] /\ inv[p][i].kind \in Stackables
                                      /\ asks[p][3] <= inv[p][i].n

NoMoney(p) ==
    /\ \A x \in Names(inv[p]) : x[2] # Meseta
    /\ \A x \in Names(bank[p]) : x[2] # Meseta
    /\ \A i \in DOMAIN mirror[p] : mirror[p][i] # Meseta

His(p) ==
    /\ slot[p] = -1 => asks[p] = Play
    /\ slot[p] # -1 => IdsOnce(inv[p]) /\ \A id \in IdsOf(inv[p]) : Known(id)
    /\ asks[p] = AtBank => Counter(p)
    /\ asks[p] \notin {Play, AtBank} => Splitting(p)
    /\ NoMoney(p)

Inv == TypeOK /\ Seats /\ FloorKnown /\ Numbers /\ IdsNameItems /\ \A p \in Players : His(p)

-----------------------------------------------------------------------------
(* What a step leaves as it is.                                             *)

LEMMA Others ==
    ASSUME NEW p \in Players, TypeOK, His(p), made' \in Nat, slot[p] # -1 => made <= made',
           slot'[p] = slot[p], inv'[p] = inv[p], bank'[p] = bank[p], mirror'[p] = mirror[p],
           asks'[p] = asks[p], purse'[p] = purse[p]
    PROVE  His(p)'
<1>1. slot[p] = -1 => asks[p] # AtBank /\ asks[p] \in {Play, AtBank}
  BY DEF His, Play, AtBank
<1>2. inv[p] \in Seq(Item) /\ bank[p] \in Seq(Item) /\ made \in Nat
  BY DEF TypeOK
<1>3. \A id \in Ids : slot[p] # -1 /\ Known(id) => Known(id)'
  BY <1>2 DEF Known, Ids
<1>4. (\A id \in IdsOf(inv[p]) : id \in Ids) /\ \A id \in IdsOf(bank[p]) : id \in Ids
  BY <1>2, TypedIds
<1>5. (slot[p] = -1 => asks[p] = Play)'
  BY DEF His
<1>6. (slot[p] # -1 => IdsOnce(inv[p]) /\ \A id \in IdsOf(inv[p]) : Known(id))'
  BY <1>3, <1>4 DEF His
<1>7. (asks[p] = AtBank => Counter(p))'
  BY <1>1, <1>3, <1>4 DEF His, Counter
<1>8. (asks[p] \notin {Play, AtBank} => Splitting(p))'
  BY DEF His, Splitting
<1>9. NoMoney(p)'
  BY DEF His, NoMoney
<1> QED BY <1>5, <1>6, <1>7, <1>8, <1>9 DEF His

\* What p has and what lies on the floor change between the two, and what is new has an
\* id that nothing had.
New(id) == id \notin IdsOf(floor) /\ \A q \in Present : id \notin IdsOf(inv[q])

LEMMA NamesKept ==
    ASSUME NEW p \in Players, TypeOK, TypeOK', Numbers, IdsNameItems, slot[p] # -1,
           slot' = slot, visits' = visits, \A s \in Slots : high[s] <= high'[s],
           \A q \in Players : q # p => inv'[q] = inv[q], NEW N,
           \A id \in IdsOf(floor') : id \in IdsOf(floor) \/ id \in IdsOf(inv[p]) \/ id \in N,
           \A id \in IdsOf(inv'[p]) : id \in IdsOf(floor) \/ id \in IdsOf(inv[p]) \/ id \in N,
           Fresh => \A id \in N : New(id) /\ Given(id)',
           Fresh => /\ IdsOnce(floor') /\ IdsOnce(inv'[p])
                    /\ \A id \in IdsOf(inv'[p]) : id \notin IdsOf(floor')
    PROVE  Numbers' /\ IdsNameItems'
<1>1. SUFFICES ASSUME Fresh PROVE Numbers' /\ IdsNameItems'
  BY DEF Fresh, Numbers, IdsNameItems
<1>2. p \in Present /\ Present' = Present
  BY DEF Present
<1>3. /\ inv \in [Players -> Seq(Item)] /\ floor \in Seq(Item)
      /\ high \in [Slots -> Int] /\ high' \in [Slots -> Int]
  BY DEF TypeOK
<1>4. \A id \in Ids : id[1] = "slot" => id[2] \in Slots /\ id[3] \in Int
  BY DEF Ids
<1>5. \A id \in Ids : Given(id) => Given(id)'
  BY <1>3, <1>4 DEF Given
<1>6. /\ \A id \in IdsOf(floor) : id \in Ids
      /\ \A q \in Players : \A id \in IdsOf(inv[q]) : id \in Ids
  BY <1>3, TypedIds
<1>7. /\ \A id \in IdsOf(floor) : Given(id)
      /\ \A q \in Present : \A id \in IdsOf(inv[q]) : Given(id)
  BY <1>1 DEF Numbers
<1>8. /\ \A id \in IdsOf(floor) : Given(id)'
      /\ \A q \in Present : \A id \in IdsOf(inv[q]) : Given(id)'
  BY <1>5, <1>6, <1>7 DEF Present
<1>9. \A id \in IdsOf(floor') : Given(id)'
  BY <1>1, <1>2, <1>8
<1>10. ASSUME NEW q \in Present, NEW id \in IdsOf(inv'[q])
       PROVE  Given(id)'
  <2>1. CASE q = p
    BY <1>1, <1>2, <1>8, <1>10, <2>1
  <2>2. CASE q # p
    BY <1>8, <2>2 DEF Present
  <2> QED BY <2>1, <2>2
<1>11. Numbers'
  BY <1>2, <1>9, <1>10 DEF Numbers
<1>12. /\ IdsOnce(floor)
       /\ \A q \in Present : IdsOnce(inv[q]) /\ \A id \in IdsOf(inv[q]) : id \notin IdsOf(floor)
       /\ \A q, r \in Present : q # r => \A id \in IdsOf(inv[q]) : id \notin IdsOf(inv[r])
  BY <1>1 DEF IdsNameItems, Fresh
<1>13. ASSUME NEW q \in Present, q # p, NEW id \in IdsOf(inv[q])
       PROVE  id \notin IdsOf(inv'[p]) /\ id \notin IdsOf(floor')
  BY <1>1, <1>2, <1>12, <1>13 DEF New
<1>14. ASSUME NEW q \in Present
       PROVE  IdsOnce(inv'[q]) /\ IdsOf(inv'[q]) \cap IdsOf(floor') = {}
  <2>1. CASE q = p
    BY <1>1, <2>1
  <2>2. CASE q # p
    BY <1>12, <1>13, <2>2 DEF Present
  <2> QED BY <2>1, <2>2
<1>15. ASSUME NEW q \in Present, NEW r \in Present, q # r
       PROVE  IdsOf(inv'[q]) \cap IdsOf(inv'[r]) = {}
  <2>1. CASE q = p
    BY <1>13, <1>15, <2>1 DEF Present
  <2>2. CASE r = p
    BY <1>13, <1>15, <2>2 DEF Present
  <2>3. CASE q # p /\ r # p
    BY <1>12, <1>15, <2>3 DEF Present
  <2> QED BY <2>1, <2>2, <2>3
<1>16. IdsNameItems'
  BY <1>1, <1>2, <1>14, <1>15 DEF IdsNameItems
<1> QED BY <1>11, <1>16

LEMMA NamesMoved ==
    ASSUME NEW p \in Players, TypeOK, TypeOK', Numbers, IdsNameItems, slot[p] # -1,
           slot' = slot, visits' = visits, \A s \in Slots : high[s] <= high'[s],
           \A q \in Players : q # p => inv'[q] = inv[q],
           \A id \in IdsOf(floor') : id \in IdsOf(floor) \/ id \in IdsOf(inv[p]),
           \A id \in IdsOf(inv'[p]) : id \in IdsOf(floor) \/ id \in IdsOf(inv[p]),
           Fresh => /\ IdsOnce(floor') /\ IdsOnce(inv'[p])
                    /\ \A id \in IdsOf(inv'[p]) : id \notin IdsOf(floor')
    PROVE  Numbers' /\ IdsNameItems'
<1>1. PICK N : N = {}
  OBVIOUS
<1>2. /\ \A id \in IdsOf(floor') : id \in IdsOf(floor) \/ id \in IdsOf(inv[p]) \/ id \in N
      /\ \A id \in IdsOf(inv'[p]) : id \in IdsOf(floor) \/ id \in IdsOf(inv[p]) \/ id \in N
  OBVIOUS
<1>3. Fresh => \A id \in N : New(id) /\ Given(id)'
  BY <1>1
<1> QED BY <1>2, <1>3, NamesKept

LEMMA NewOfGame ==
    ASSUME TypeOK, FloorKnown, \A q \in Players : His(q), NEW id, id = <<"game", 0, made>>
    PROVE  /\ New(id) /\ Given(id)' /\ (made < made' => Known(id)')
           /\ \A q \in Players : asks[q] = AtBank => id \notin IdsOf(bank[q])
<1>1. made \in Nat /\ ~Known(id) /\ id[1] # "bank"
  BY DEF TypeOK, Known
<1>2. Given(id)' /\ (made < made' => Known(id)')
  BY DEF Given, Known
<1> QED BY <1>1, <1>2 DEF New, FloorKnown, His, Counter, Present

LEMMA NewOfSlot ==
    ASSUME TypeOK, Numbers, NEW s \in Slots, Fresh
    PROVE  New(<<"slot", s, high[s] + 1>>)
<1>1. high[s] \in Int
  BY DEF TypeOK
<1>2. ~Given(<<"slot", s, high[s] + 1>>)
  BY <1>1 DEF Given
<1> QED BY <1>2 DEF New, Numbers

LEMMA KindsTyped ==
    ASSUME NEW items \in Seq(Item)
    PROVE  /\ KindsOf(items) \in Seq(AllKinds)
           /\ (\A x \in Names(items) : x[2] # Meseta) =>
                  \A i \in DOMAIN KindsOf(items) : KindsOf(items)[i] # Meseta
<1>1. DOMAIN items = 1 .. Len(items) /\ Len(items) \in Nat
  OBVIOUS
<1>2. \A i \in 1 .. Len(items) : items[i].kind \in AllKinds /\ <<items[i].id, items[i].kind>> \in Names(items)
  BY Listed
<1>3. KindsOf(items) = [i \in 1 .. Len(items) |-> items[i].kind]
  BY <1>1 DEF KindsOf
<1>4. KindsOf(items) \in Seq(AllKinds)
  <2>1. \A i \in 1 .. Len(items) : items[i].kind \in AllKinds
    BY <1>2
  <2> QED BY <1>1, <1>3, <2>1
<1> QED BY <1>2, <1>3, <1>4

-----------------------------------------------------------------------------
(* The steps.                                                               *)

LEMMA InitInv ==
    ASSUME Init
    PROVE  Inv
<1> USE ItemsAssumption DEF Init
<1>1. ASSUME NEW p \in Players
      PROVE  /\ inv[p] \in Seq(Item) /\ Len(inv[p]) <= InvMax
             /\ \A x \in Names(inv[p]) : x[2] # Meseta
  <2>1. StartInv[p] \in Seq([id : {NoId}, kind : Kinds, n : 1 .. StackMax]) /\ Len(StartInv[p]) <= InvMax
    BY StartAssumption
  <2>2. \A i \in 1 .. Len(StartInv[p]) : StartInv[p][i] \in [id : {NoId}, kind : Kinds, n : 1 .. StackMax]
    BY <2>1, Elements
  <2>3. \A i \in 1 .. Len(StartInv[p]) : StartInv[p][i] \in Item /\ StartInv[p][i].kind # Meseta
    BY <2>2, IdTypes DEF Item, AllKinds
  <2>4. StartInv[p] \in Seq(Item)
    BY <2>1, <2>3
  <2>5. ASSUME NEW x \in Names(StartInv[p]) PROVE x[2] # Meseta
    <3>1. PICK i \in DOMAIN StartInv[p] : x = <<StartInv[p][i].id, StartInv[p][i].kind>>
      BY DEF Names
    <3>2. DOMAIN StartInv[p] = 1 .. Len(StartInv[p])
      BY <2>4
    <3> QED BY <2>3, <3>1, <3>2
  <2> QED BY <2>1, <2>4, <2>5
<1>2. <<>> \in Seq(Item) /\ Len(<<>>) = 0 /\ Names(<<>>) = {} /\ IdsOf(<<>>) = {} /\ IdsOnce(<<>>)
  BY DEF Names, IdsOf, IdsOnce
<1>3. TypeOK
  <2>1. inv \in [Players -> Seq(Item)]
    BY <1>1, StartAssumption
  <2>2. \A p \in Players : mirror[p] \in Seq(AllKinds)
    BY <1>1, KindsTyped
  <2> QED BY <1>1, <1>2, <2>1, <2>2 DEF TypeOK
<1>4. Present = {} /\ \A p \in Players : slot[p] = -1 /\ asks[p] = Play
  BY DEF Present
<1>5. Seats /\ FloorKnown /\ Numbers /\ IdsNameItems
  BY <1>2, <1>4 DEF Seats, FloorKnown, Numbers, IdsNameItems
<1>6. \A p \in Players : His(p)
  <2>1. ASSUME NEW p \in Players PROVE NoMoney(p)
    BY <1>1, <1>2, KindsTyped DEF NoMoney
  <2> QED BY <1>4, <2>1 DEF His, Play, AtBank
<1> QED BY <1>3, <1>5, <1>6 DEF Inv

LEMMA JoinKeeps ==
    ASSUME Inv, NEW p \in Players, Join(p)
    PROVE  Inv'
<1>t. TypeOK /\ Seats /\ FloorKnown /\ Numbers /\ IdsNameItems /\ \A q \in Players : His(q)
  BY DEF Inv
<1>s. PICK s \in Slots : s = Min(Vacant) /\ \A q \in Present : slot[q] # s
  <2>1. Vacant \in SUBSET Nat /\ Vacant # {}
    BY ItemsAssumption DEF Join, Vacant, Slots
  <2>2. \E x \in Vacant : \A y \in Vacant : x <= y
    BY <2>1, Smallest
  <2>3. Min(Vacant) \in Vacant
    BY <2>2 DEF Min
  <2> QED BY <2>3 DEF Vacant
<1>i. PICK items \in Seq(Item) : items = Numbered(inv[p], s, high[s])
  BY <1>t, NumberedFacts DEF TypeOK
<1>1. /\ slot[p] = -1 /\ slot' = [slot EXCEPT ![p] = s] /\ inv' = [inv EXCEPT ![p] = items]
      /\ high' = [high EXCEPT ![s] = FirstNumber(high[s]) + Len(inv[p]) - 1]
      /\ visits' = [visits EXCEPT ![s] = IF visits[s] = 0 THEN 1 ELSE 2]
      /\ joins' = joins + 1
      /\ UNCHANGED <<mirror, asks, kicked, floor, made, purse, bank, bankPurse>>
  BY <1>s, <1>i DEF Join
<1>2. /\ Len(items) = Len(inv[p]) /\ IdsOnce(items) /\ high[s] \in Int /\ Len(inv[p]) \in Nat
      /\ \A x \in Names(items) : /\ \E i \in 1 .. Len(inv[p]) : x[1] = <<"slot", s, FirstNumber(high[s]) + i - 1>>
                                 /\ \E y \in Names(inv[p]) : x[2] = y[2]
  <2>1. inv[p] \in Seq(Item) /\ high[s] \in Int
    BY <1>t DEF TypeOK
  <2>2. Len(inv[p]) \in Nat
    BY <2>1
  <2> QED BY <1>i, <2>1, <2>2, NumberedFacts
<1>3. \A id \in IdsOf(items) : \E i \in 1 .. Len(inv[p]) : id = <<"slot", s, FirstNumber(high[s]) + i - 1>>
  <2>1. ASSUME NEW id \in IdsOf(items)
        PROVE  \E i \in 1 .. Len(inv[p]) : id = <<"slot", s, FirstNumber(high[s]) + i - 1>>
    <3>1. PICK x \in Names(items) : x[1] = id
      BY Listed
    <3> QED BY <1>2, <3>1
  <2> QED BY <2>1
<1>4. TypeOK'
  <2>1. FirstNumber(high[s]) + Len(inv[p]) - 1 \in Int
    BY <1>2 DEF FirstNumber
  <2>2. slot' \in [Players -> Slots \cup {-1}] /\ high' \in [Slots -> Int] /\ visits' \in [Slots -> 0 .. 2]
    BY <1>t, <1>1, <2>1 DEF TypeOK
  <2>3. inv' \in [Players -> Seq(Item)] /\ \A q \in Players : Len(inv'[q]) <= InvMax
    BY <1>t, <1>1, <1>2 DEF TypeOK
  <2>4. joins' \in Nat
    BY <1>t, <1>1 DEF TypeOK
  <2> QED BY <1>t, <1>1, <2>2, <2>3, <2>4 DEF TypeOK
<1>5. /\ Present' = Present \cup {p} /\ p \notin Present
      /\ slot'[p] = s /\ \A q \in Present : slot'[q] = slot[q]
      /\ inv'[p] = items /\ \A q \in Present : inv'[q] = inv[q]
  BY <1>t, <1>1 DEF TypeOK, Present, Slots
<1>6. Seats'
  <2>1. \A q, r \in Present' : slot'[q] = slot'[r] => q = r
    BY <1>s, <1>t, <1>5 DEF Seats
  <2>2. \A q \in Present' : visits'[slot'[q]] # 0
    BY <1>s, <1>t, <1>1, <1>5 DEF Seats, TypeOK, Present
  <2>3. \A r \in Slots : visits'[r] = 0 => high'[r] = 0
    BY <1>t, <1>1 DEF Seats, TypeOK
  <2> QED BY <2>1, <2>2, <2>3 DEF Seats
<1>7. FloorKnown'
  BY <1>t, <1>1 DEF FloorKnown, Known
<1>8. ASSUME Fresh'
      PROVE  /\ Fresh /\ visits[s] = 0 /\ high[s] = 0
             /\ \A id \in IdsOf(items) : Given(id)' /\ id[1] = "slot" /\ id[2] = s
             /\ \A id \in Ids : Given(id) => Given(id)' /\ ~(id[1] = "slot" /\ id[2] = s)
  <2>1. visits[s] = 0 /\ Fresh
    BY <1>t, <1>1, <1>8 DEF Fresh, TypeOK
  <2>2. high[s] = 0 /\ high'[s] = Len(inv[p]) - 1 /\ visits'[s] # 0
    BY <1>t, <1>1, <1>2, <2>1 DEF Seats, TypeOK, FirstNumber
  <2>3. ASSUME NEW id \in IdsOf(items) PROVE Given(id)' /\ id[1] = "slot" /\ id[2] = s
    <3>1. PICK i \in 1 .. Len(inv[p]) : id = <<"slot", s, FirstNumber(high[s]) + i - 1>>
      BY <1>3
    <3>2. id[1] = "slot" /\ id[2] = s /\ id[3] = i - 1
      BY <2>2, <3>1 DEF FirstNumber
    <3> QED BY <1>2, <2>2, <3>2 DEF Given
  <2>4. ASSUME NEW id \in Ids, Given(id) PROVE Given(id)' /\ ~(id[1] = "slot" /\ id[2] = s)
    <3>1. id[1] = "slot" => id[2] \in Slots
      BY DEF Ids
    <3>2. id[1] = "slot" => id[2] # s
      BY <2>1, <2>4 DEF Given
    <3> QED BY <1>t, <1>1, <2>4, <3>1, <3>2 DEF Given, TypeOK
  <2> QED BY <2>1, <2>2, <2>3, <2>4
<1>9. /\ \A id \in IdsOf(floor) : id \in Ids
      /\ \A q \in Players : \A id \in IdsOf(inv[q]) : id \in Ids
  BY <1>t, TypedIds DEF TypeOK
<1>10. ASSUME Fresh'
       PROVE  /\ \A id \in IdsOf(floor) : Given(id)
              /\ \A q \in Present : \A id \in IdsOf(inv[q]) : Given(id)
  BY <1>t, <1>8, <1>10 DEF Numbers
<1>11. Numbers'
  <2>1. SUFFICES ASSUME Fresh' PROVE Numbers'
    BY DEF Numbers
  <2>2. \A id \in IdsOf(floor') : Given(id)'
    BY <1>1, <1>8, <1>9, <1>10, <2>1
  <2>3. \A q \in Present' : \A id \in IdsOf(inv'[q]) : Given(id)'
    BY <1>5, <1>8, <1>9, <1>10, <2>1 DEF Present
  <2> QED BY <2>2, <2>3 DEF Numbers
<1>12. IdsNameItems'
  <2>1. SUFFICES ASSUME Fresh' PROVE IdsNameItems'
    BY DEF IdsNameItems, Fresh
  <2>2. /\ IdsOnce(floor)
        /\ \A q \in Present : IdsOnce(inv[q]) /\ IdsOf(inv[q]) \cap IdsOf(floor) = {}
        /\ \A q, r \in Present : q # r => IdsOf(inv[q]) \cap IdsOf(inv[r]) = {}
    BY <1>t, <1>8, <2>1 DEF IdsNameItems, Fresh
  <2>3. /\ \A id \in IdsOf(floor) : id \notin IdsOf(items)
        /\ \A q \in Present : \A id \in IdsOf(inv[q]) : id \notin IdsOf(items)
    BY <1>8, <1>9, <1>10, <2>1 DEF Present
  <2>4. \A q \in Present' : IdsOnce(inv'[q]) /\ IdsOf(inv'[q]) \cap IdsOf(floor') = {}
    BY <1>1, <1>2, <1>5, <2>2, <2>3
  <2>5. \A q, r \in Present' : q # r => IdsOf(inv'[q]) \cap IdsOf(inv'[r]) = {}
    BY <1>5, <2>2, <2>3
  <2> QED BY <1>1, <2>2, <2>4, <2>5 DEF IdsNameItems
<1>13. ASSUME NEW q \in Players PROVE His(q)'
  <2>1. CASE q # p
    <3>1. /\ slot'[q] = slot[q] /\ inv'[q] = inv[q] /\ bank'[q] = bank[q] /\ mirror'[q] = mirror[q]
          /\ asks'[q] = asks[q] /\ purse'[q] = purse[q] /\ made' = made /\ made \in Nat
      BY <1>t, <1>1, <2>1 DEF TypeOK
    <3> QED BY <1>t, <3>1, Others
  <2>2. CASE q = p
    <3>1. asks'[p] = Play /\ Play # AtBank
      BY <1>t, <1>1 DEF His, Play, AtBank
    <3>2. \A id \in IdsOf(items) : Known(id)'
      BY <1>3 DEF Known
    <3>3. NoMoney(p)'
      <4>1. NoMoney(p)
        BY <1>t DEF His
      <4>2. \A x \in Names(inv'[p]) : x[2] # Meseta
        BY <1>2, <1>5, <4>1 DEF NoMoney
      <4> QED BY <1>1, <4>1, <4>2 DEF NoMoney
    <3> QED BY <1>2, <1>5, <2>2, <3>1, <3>2, <3>3 DEF His
  <2> QED BY <2>1, <2>2
<1> QED BY <1>4, <1>6, <1>7, <1>11, <1>12, <1>13 DEF Inv

LEMMA LeaveKeeps ==
    ASSUME Inv, NEW p \in Players, Leave(p)
    PROVE  Inv'
<1>t. TypeOK /\ Seats /\ FloorKnown /\ Numbers /\ IdsNameItems /\ \A q \in Players : His(q)
  BY DEF Inv
<1>i. PICK items \in Seq(Item) : items = Unnumbered(inv[p])
  BY <1>t, UnnumberedFacts DEF TypeOK
<1>b. PICK box \in Seq(Item) : box = Unnumbered(bank[p])
  BY <1>t, UnnumberedFacts DEF TypeOK
<1>k. PICK kinds \in Seq(AllKinds) : kinds = KindsOf(inv[p])
  BY <1>t, KindsTyped DEF TypeOK
<1>1. /\ p \in Present /\ slot' = [slot EXCEPT ![p] = -1] /\ inv' = [inv EXCEPT ![p] = items]
      /\ bank' = [bank EXCEPT ![p] = box] /\ mirror' = [mirror EXCEPT ![p] = kinds]
      /\ asks' = [asks EXCEPT ![p] = Play] /\ kicked' = kicked \ {p}
      /\ UNCHANGED <<purse, bankPurse, joins>>
      /\ \/ /\ Present = {p} /\ floor' = <<>> /\ made' = 0
            /\ high' = [s \in Slots |-> 0] /\ visits' = [s \in Slots |-> 0]
         \/ UNCHANGED <<floor, high, made, visits>>
  BY <1>i, <1>b, <1>k DEF Leave, Present, game
<1>2. NoMoney(p)
  BY <1>t DEF His
<1>3. /\ Len(items) = Len(inv[p]) /\ \A x \in Names(items) : x[2] # Meseta
      /\ Len(box) = Len(bank[p]) /\ \A x \in Names(box) : x[2] # Meseta
      /\ \A i \in DOMAIN kinds : kinds[i] # Meseta
  <2>1. inv[p] \in Seq(Item) /\ bank[p] \in Seq(Item)
    BY <1>t DEF TypeOK
  <2>2. /\ Len(items) = Len(inv[p]) /\ \A x \in Names(items) : \E y \in Names(inv[p]) : x[2] = y[2]
    BY <1>i, <2>1, UnnumberedFacts
  <2>3. /\ Len(box) = Len(bank[p]) /\ \A x \in Names(box) : \E y \in Names(bank[p]) : x[2] = y[2]
    BY <1>b, <2>1, UnnumberedFacts
  <2>4. \A i \in DOMAIN kinds : kinds[i] # Meseta
    BY <1>2, <1>k, <2>1, KindsTyped DEF NoMoney
  <2> QED BY <1>2, <2>2, <2>3, <2>4 DEF NoMoney
<1>4. TypeOK'
  <2>1. inv' \in [Players -> Seq(Item)] /\ bank' \in [Players -> Seq(Item)]
    BY <1>t, <1>1 DEF TypeOK
  <2>2. \A q \in Players : Len(inv'[q]) <= InvMax /\ Len(bank'[q]) <= BankMax
    BY <1>t, <1>1, <1>3 DEF TypeOK
  <2>3. /\ slot' \in [Players -> Slots \cup {-1}] /\ asks' \in [Players -> {Play, AtBank} \cup ({"split"} \X Ids \X Nat)]
        /\ mirror' \in [Players -> Seq(AllKinds)] /\ kicked' \subseteq Players
    BY <1>t, <1>1 DEF TypeOK
  <2>4. floor' \in Seq(Item) /\ high' \in [Slots -> Int] /\ made' \in Nat /\ visits' \in [Slots -> 0 .. 2]
    <3>1. <<>> \in Seq(Item) /\ 0 \in 0 .. 2 /\ 0 \in Nat /\ 0 \in Int
      OBVIOUS
    <3>2. CASE UNCHANGED <<floor, high, made, visits>>
      BY <1>t, <3>2 DEF TypeOK
    <3>3. CASE ~UNCHANGED <<floor, high, made, visits>>
      BY <1>1, <3>1, <3>3
    <3> QED BY <3>2, <3>3
  <2> QED BY <1>t, <1>1, <2>1, <2>2, <2>3, <2>4 DEF TypeOK
<1>5. /\ Present' = Present \ {p}
      /\ \A q \in Present' : q \in Players /\ slot'[q] = slot[q] /\ inv'[q] = inv[q]
  BY <1>t, <1>1 DEF TypeOK, Present
<1>6. ASSUME Present = {p}, floor' = <<>>, made' = 0,
             high' = [s \in Slots |-> 0], visits' = [s \in Slots |-> 0]
      PROVE  Seats' /\ FloorKnown' /\ Numbers' /\ IdsNameItems'
  <2>1. Present' = {} /\ IdsOf(floor') = {} /\ IdsOnce(floor')
    BY <1>5, <1>6 DEF IdsOf, IdsOnce
  <2> QED BY <1>6, <2>1 DEF Seats, FloorKnown, Numbers, IdsNameItems
<1>7. ASSUME UNCHANGED <<floor, high, made, visits>>
      PROVE  Seats' /\ FloorKnown' /\ Numbers' /\ IdsNameItems'
  <2>1. Seats'
    BY <1>t, <1>5, <1>7 DEF Seats
  <2>2. FloorKnown'
    BY <1>t, <1>7 DEF FloorKnown, Known
  <2>3. Numbers'
    BY <1>t, <1>5, <1>7 DEF Numbers, Fresh, Given
  <2>4. IdsNameItems'
    BY <1>t, <1>5, <1>7 DEF IdsNameItems
  <2> QED BY <2>1, <2>2, <2>3, <2>4
<1>8. ASSUME NEW q \in Players PROVE His(q)'
  <2>1. CASE q # p
    <3>1. /\ slot'[q] = slot[q] /\ inv'[q] = inv[q] /\ bank'[q] = bank[q] /\ mirror'[q] = mirror[q]
          /\ asks'[q] = asks[q] /\ purse'[q] = purse[q]
      BY <1>t, <1>1, <2>1 DEF TypeOK
    <3>2. made' \in Nat /\ (slot[q] # -1 => made <= made')
      BY <1>t, <1>1, <2>1 DEF TypeOK, Present
    <3> QED BY <1>t, <3>1, <3>2, Others
  <2>2. CASE q = p
    <3>1. slot'[p] = -1 /\ asks'[p] = Play /\ Play # AtBank
      BY <1>t, <1>1 DEF TypeOK, Play, AtBank
    <3>2. inv'[p] = items /\ bank'[p] = box /\ mirror'[p] = kinds
      BY <1>t, <1>1 DEF TypeOK
    <3>3. NoMoney(p)'
      BY <1>3, <3>2 DEF NoMoney
    <3> QED BY <2>2, <3>1, <3>3 DEF His
  <2> QED BY <2>1, <2>2
<1> QED BY <1>1, <1>4, <1>6, <1>7, <1>8 DEF Inv

\* A step in the game disturbs only what it changes.
OnlyHis(p) ==
    /\ slot[p] # -1 /\ slot' = slot /\ visits' = visits
    /\ \A q \in Players : q # p => /\ inv'[q] = inv[q] /\ bank'[q] = bank[q] /\ mirror'[q] = mirror[q]
                                   /\ asks'[q] = asks[q] /\ purse'[q] = purse[q]

LEMMA StepKeeps ==
    ASSUME Inv, NEW p \in Players, OnlyHis(p), TypeOK', made <= made',
           \A s \in Slots : visits[s] = 0 => high'[s] = 0,
           FloorKnown', Numbers', IdsNameItems', His(p)'
    PROVE  Inv'
<1>1. Present' = Present /\ Seats'
  BY DEF OnlyHis, Present, Inv, Seats
<1>2. ASSUME NEW q \in Players, q # p PROVE His(q)'
  <2>1. /\ slot'[q] = slot[q] /\ inv'[q] = inv[q] /\ bank'[q] = bank[q] /\ mirror'[q] = mirror[q]
        /\ asks'[q] = asks[q] /\ purse'[q] = purse[q] /\ made' \in Nat
    BY <1>2 DEF OnlyHis, TypeOK
  <2>2. TypeOK /\ His(q)
    BY DEF Inv
  <2> QED BY <2>1, <2>2, Others
<1> QED BY <1>1, <1>2 DEF Inv

\* A step that touches neither the ids in the game nor what gives them.
LEMMA SameNames ==
    ASSUME Inv, NEW p \in Players, OnlyHis(p), TypeOK', UNCHANGED <<floor, high, made>>,
           IdsOnce(inv'[p]), IdsOf(inv'[p]) \subseteq IdsOf(inv[p]), His(p)'
    PROVE  Inv'
<1>1. TypeOK /\ Seats /\ FloorKnown /\ Numbers /\ IdsNameItems
  BY DEF Inv
<1>2. /\ slot[p] # -1 /\ slot' = slot /\ visits' = visits /\ made \in Nat
      /\ \A s \in Slots : high[s] \in Int
      /\ \A q \in Players : q # p => inv'[q] = inv[q]
  BY <1>1 DEF OnlyHis, TypeOK
<1>3. Numbers' /\ IdsNameItems'
  <2>1. Fresh => /\ IdsOnce(floor') /\ IdsOnce(inv'[p])
                 /\ \A id \in IdsOf(inv'[p]) : id \notin IdsOf(floor')
    BY <1>1, <1>2 DEF IdsNameItems, Fresh, Present
  <2>2. \A s \in Slots : high[s] <= high'[s]
    BY <1>2
  <2>3. /\ \A id \in IdsOf(floor') : id \in IdsOf(floor) \/ id \in IdsOf(inv[p])
        /\ \A id \in IdsOf(inv'[p]) : id \in IdsOf(floor) \/ id \in IdsOf(inv[p])
    OBVIOUS
  <2> QED BY <1>1, <1>2, <2>1, <2>2, <2>3, NamesMoved
<1>4. FloorKnown' /\ \A s \in Slots : visits[s] = 0 => high'[s] = 0
  BY <1>1 DEF FloorKnown, Known, Seats
<1> QED BY <1>2, <1>3, <1>4, StepKeeps

LEMMA MakeItemKeeps ==
    ASSUME Inv, NEW kind \in Gifts, MakeItem(kind)
    PROVE  Inv'
<1>t. TypeOK /\ Seats /\ FloorKnown /\ Numbers /\ IdsNameItems /\ \A q \in Players : His(q)
  BY DEF Inv
<1>p. PICK p \in Players : slot[p] # -1
  BY DEF MakeItem, Present
<1>i. PICK it \in Item : it = [id |-> <<"game", 0, made>>, kind |-> kind, n |-> 1]
  <2>1. kind \in AllKinds
    BY ItemsAssumption DEF AllKinds
  <2> QED BY <1>t, <2>1, IdTypes DEF Item, TypeOK
<1>1. /\ floor' = <<it>> \o floor /\ made' = made + 1
      /\ UNCHANGED <<slot, mirror, asks, kicked, high, visits, inv, purse, bank, bankPurse, joins>>
      /\ floor \in Seq(Item) /\ made \in Nat /\ \A s \in Slots : high[s] \in Int
  BY <1>t, <1>i DEF MakeItem, things, TypeOK
<1>2. /\ <<it>> \o floor \in Seq(Item) /\ IdsOf(<<it>> \o floor) = IdsOf(floor) \cup {it.id}
      /\ IdsOnce(floor) /\ it.id \notin IdsOf(floor) => IdsOnce(<<it>> \o floor)
  BY <1>1, PutFirstNames
<1>3. TypeOK'
  BY <1>t, <1>1, <1>2 DEF TypeOK
<1>4. /\ it.id = <<"game", 0, made>> /\ Known(it.id)' /\ New(it.id) /\ Given(it.id)'
  <2>1. it.id = <<"game", 0, made>>
    BY <1>i
  <2>2. New(it.id) /\ Given(it.id)' /\ (made < made' => Known(it.id)')
    BY <1>t, <2>1, NewOfGame
  <2> QED BY <1>1, <2>1, <2>2
<1>5. OnlyHis(p)
  BY <1>p, <1>1 DEF OnlyHis
<1>6. FloorKnown'
  <2>1. \A id \in IdsOf(floor) : Known(id)'
    <3>1. \A id \in Ids : Known(id) => Known(id)'
      BY <1>1 DEF Known, Ids
    <3> QED BY <1>t, <1>1, <3>1, TypedIds DEF FloorKnown
  <2> QED BY <1>1, <1>2, <1>4, <2>1 DEF FloorKnown
<1>7. Numbers' /\ IdsNameItems'
  <2>1. Fresh => /\ IdsOnce(floor') /\ IdsOnce(inv'[p])
                 /\ \A id \in IdsOf(inv'[p]) : id \notin IdsOf(floor')
    BY <1>t, <1>p, <1>1, <1>2, <1>4 DEF IdsNameItems, Fresh, Present, New
  <2>2. /\ \A id \in IdsOf(floor') : id \in IdsOf(floor) \/ id \in IdsOf(inv[p]) \/ id \in {it.id}
        /\ \A id \in IdsOf(inv'[p]) : id \in IdsOf(floor) \/ id \in IdsOf(inv[p]) \/ id \in {it.id}
        /\ Fresh => \A id \in {it.id} : New(id) /\ Given(id)'
    BY <1>1, <1>2, <1>4
  <2>3. slot' = slot /\ visits' = visits /\ \A s \in Slots : high[s] <= high'[s]
    BY <1>1
  <2>4. \A q \in Players : q # p => inv'[q] = inv[q]
    BY <1>1
  <2> QED BY <1>t, <1>p, <1>3, <2>1, <2>2, <2>3, <2>4, NamesKept
<1>8. His(p)'
  <2>1. /\ slot'[p] = slot[p] /\ inv'[p] = inv[p] /\ bank'[p] = bank[p] /\ mirror'[p] = mirror[p]
        /\ asks'[p] = asks[p] /\ purse'[p] = purse[p] /\ made' \in Nat /\ made <= made'
    BY <1>1
  <2> QED BY <1>t, <2>1, Others
<1>9. made <= made' /\ \A s \in Slots : visits[s] = 0 => high'[s] = 0
  BY <1>t, <1>1 DEF Seats
<1> QED BY <1>3, <1>5, <1>6, <1>7, <1>8, <1>9, StepKeeps

LEMMA DropItemKeeps ==
    ASSUME Inv, NEW p \in Players, NEW i \in DOMAIN inv[p], DropItem(p, i)
    PROVE  Inv'
<1>t. TypeOK /\ Seats /\ FloorKnown /\ Numbers /\ IdsNameItems /\ \A q \in Players : His(q)
  BY DEF Inv
<1>0. /\ slot[p] # -1 /\ asks[p] = Play /\ inv[p] \in Seq(Item) /\ floor \in Seq(Item)
      /\ i \in 1 .. Len(inv[p]) /\ IdsOnce(inv[p])
      /\ made \in Nat /\ \A s \in Slots : high[s] \in Int
  <2>1. inv[p] \in Seq(Item)
    BY <1>t DEF TypeOK
  <2> QED BY <1>t, <2>1 DEF DropItem, Ready, TypeOK, His
<1>i. PICK it \in Item : it = inv[p][i]
  BY <1>0, Elements
<1>r. PICK rest \in Seq(Item) : rest = RemoveAt(inv[p], i)
  BY <1>0, RemoveNames
<1>1. /\ floor' = <<it>> \o floor /\ inv' = [inv EXCEPT ![p] = rest]
      /\ UNCHANGED <<slot, mirror, asks, kicked, high, made, visits, purse, bank, bankPurse, joins>>
  BY <1>0, <1>i, <1>r, PlaceOfOne DEF DropItem
<1>2. /\ <<it>> \o floor \in Seq(Item) /\ IdsOf(<<it>> \o floor) = IdsOf(floor) \cup {it.id}
      /\ IdsOnce(floor) /\ it.id \notin IdsOf(floor) => IdsOnce(<<it>> \o floor)
  BY <1>0, PutFirstNames
<1>3. /\ Len(rest) <= Len(inv[p]) /\ Names(rest) \subseteq Names(inv[p])
      /\ IdsOf(rest) \subseteq IdsOf(inv[p]) /\ IdsOnce(rest) /\ it.id \notin IdsOf(rest)
      /\ it.id \in IdsOf(inv[p])
  BY <1>0, <1>i, <1>r, RemoveNames, Listed
<1>4. inv'[p] = rest /\ \A q \in Players : q # p => inv'[q] = inv[q]
  BY <1>t, <1>1 DEF TypeOK
<1>5. TypeOK'
  <2>1. Len(rest) <= InvMax
    <3>1. Len(rest) \in Nat /\ Len(inv[p]) \in Nat /\ Len(inv[p]) <= InvMax /\ InvMax \in Nat
      BY <1>t, <1>0, ItemsAssumption DEF TypeOK
    <3> QED BY <1>3, <3>1
  <2>2. inv' \in [Players -> Seq(Item)] /\ \A q \in Players : Len(inv'[q]) <= InvMax
    BY <1>t, <1>1, <2>1 DEF TypeOK
  <2> QED BY <1>t, <1>1, <1>2, <2>2 DEF TypeOK
<1>6. OnlyHis(p)
  BY <1>0, <1>1, <1>4 DEF OnlyHis
<1>7. FloorKnown'
  BY <1>t, <1>0, <1>1, <1>2, <1>3 DEF FloorKnown, Known, His
<1>8. Numbers' /\ IdsNameItems'
  <2>1. Fresh => /\ IdsOnce(floor) /\ \A id \in IdsOf(inv[p]) : id \notin IdsOf(floor)
    BY <1>t, <1>0 DEF IdsNameItems, Fresh, Present
  <2>2. Fresh => /\ IdsOnce(floor') /\ IdsOnce(inv'[p])
                 /\ \A id \in IdsOf(inv'[p]) : id \notin IdsOf(floor')
    BY <1>1, <1>2, <1>3, <1>4, <2>1
  <2>3. /\ \A id \in IdsOf(floor') : id \in IdsOf(floor) \/ id \in IdsOf(inv[p])
        /\ \A id \in IdsOf(inv'[p]) : id \in IdsOf(floor) \/ id \in IdsOf(inv[p])
    BY <1>1, <1>2, <1>3, <1>4
  <2>4. slot' = slot /\ visits' = visits /\ \A s \in Slots : high[s] <= high'[s]
    BY <1>0, <1>1
  <2> QED BY <1>t, <1>0, <1>4, <1>5, <2>2, <2>3, <2>4, NamesMoved
<1>9. His(p)'
  <2>1. \A id \in IdsOf(inv'[p]) : Known(id)'
    BY <1>t, <1>0, <1>1, <1>3, <1>4 DEF His, Known
  <2>2. NoMoney(p)'
    BY <1>t, <1>1, <1>3, <1>4 DEF His, NoMoney
  <2>3. asks'[p] = Play /\ Play # AtBank /\ Play \in {Play, AtBank}
    BY <1>0, <1>1 DEF Play, AtBank
  <2> QED BY <1>3, <1>4, <2>1, <2>2, <2>3 DEF His
<1>10. made <= made' /\ \A s \in Slots : visits[s] = 0 => high'[s] = 0
  BY <1>t, <1>0, <1>1 DEF Seats
<1> QED BY <1>5, <1>6, <1>7, <1>8, <1>9, <1>10, StepKeeps

\* Steps that leave the items where they are.
LEMMA DropPosKeeps ==
    ASSUME Inv, NEW p \in Players, NEW id \in IdsOf(inv[p]) \cup {NoId}, NEW n \in Nat, DropPos(p, id, n)
    PROVE  Inv'
<1>t. TypeOK /\ \A q \in Players : His(q)
  BY DEF Inv
<1>0. slot[p] # -1 /\ inv[p] \in Seq(Item) /\ IdsOnce(inv[p])
  BY <1>t DEF TypeOK, DropPos, Ready, His
<1>a. PICK ask \in {"split"} \X Ids \X Nat : ask = <<"split", id, n>>
  BY <1>0, TypedIds, IdTypes
<1>1. /\ asks' = [asks EXCEPT ![p] = ask] /\ ask[2] = id /\ ask[3] = n
      /\ UNCHANGED <<slot, mirror, kicked, floor, high, made, visits, inv, purse, bank, bankPurse, joins>>
  BY <1>a DEF DropPos, game, things
<1>2. TypeOK'
  BY <1>t, <1>1 DEF TypeOK
<1>3. OnlyHis(p)
  BY <1>t, <1>0, <1>1 DEF OnlyHis, TypeOK
<1>4. His(p)'
  <2>1. asks'[p] = ask /\ ask # Play /\ ask # AtBank
    BY <1>t, <1>a, <1>1 DEF TypeOK, Play, AtBank
  <2>2. Splitting(p)'
    <3>1. n > 0 /\ \/ id = NoId /\ n <= purse[p]
                   \/ \E i \in 1 .. Len(inv[p]) : /\ inv[p][i].id = id /\ inv[p][i].kind \in Stackables
                                                  /\ n <= inv[p][i].n
      BY <1>0 DEF DropPos
    <3> QED BY <1>1, <2>1, <3>1 DEF Splitting
  <2>3. NoMoney(p)'
    BY <1>t, <1>1 DEF His, NoMoney
  <2>4. (slot[p] # -1 => IdsOnce(inv[p]) /\ \A x \in IdsOf(inv[p]) : Known(x))'
    BY <1>t, <1>1 DEF His, Known
  <2> QED BY <1>0, <1>1, <2>1, <2>2, <2>3, <2>4 DEF His
<1> QED BY <1>0, <1>1, <1>2, <1>3, <1>4, SameNames

LEMMA SortInvKeeps ==
    ASSUME Inv, NEW p \in Players, SortInv(p)
    PROVE  Inv'
<1>t. TypeOK /\ \A q \in Players : His(q)
  BY DEF Inv
<1>0. slot[p] # -1 /\ asks[p] = Play /\ inv[p] \in Seq(Item) /\ IdsOnce(inv[p])
  BY <1>t DEF TypeOK, SortInv, Ready, His
<1>o. PICK order \in SetToSeqs(DOMAIN inv[p]) :
          inv' = [inv EXCEPT ![p] = Sorted(inv[p], order)]
  BY DEF SortInv, Sorted
<1>r. PICK r \in Seq(Item) : r = Sorted(inv[p], order)
  BY <1>0, SortNames
<1>1. /\ inv' = [inv EXCEPT ![p] = r]
      /\ UNCHANGED <<slot, mirror, asks, kicked, floor, high, made, visits, purse, bank, bankPurse, joins>>
  BY <1>o, <1>r DEF SortInv, game
<1>2. /\ Len(r) = Len(inv[p]) /\ Names(r) \subseteq Names(inv[p])
      /\ IdsOf(r) \subseteq IdsOf(inv[p]) /\ IdsOnce(r)
  BY <1>0, <1>r, SortNames
<1>3. inv'[p] = r /\ \A q \in Players : q # p => inv'[q] = inv[q]
  BY <1>t, <1>1 DEF TypeOK
<1>4. TypeOK'
  <2>1. inv' \in [Players -> Seq(Item)] /\ \A q \in Players : Len(inv'[q]) <= InvMax
    BY <1>t, <1>1, <1>2 DEF TypeOK
  <2> QED BY <1>t, <1>1, <2>1 DEF TypeOK
<1>5. OnlyHis(p)
  BY <1>0, <1>1, <1>3 DEF OnlyHis
<1>6. His(p)'
  <2>1. \A x \in IdsOf(inv'[p]) : Known(x)'
    BY <1>t, <1>0, <1>1, <1>2, <1>3 DEF His, Known
  <2>2. NoMoney(p)'
    BY <1>t, <1>1, <1>2, <1>3 DEF His, NoMoney
  <2>3. asks'[p] = Play /\ Play # AtBank /\ Play \in {Play, AtBank}
    BY <1>0, <1>1 DEF Play, AtBank
  <2> QED BY <1>2, <1>3, <2>1, <2>2, <2>3 DEF His
<1> QED BY <1>1, <1>2, <1>3, <1>4, <1>5, <1>6, SameNames

LEMMA OpenBankKeeps ==
    ASSUME Inv, NEW p \in Players, OpenBank(p)
    PROVE  Inv'
<1>t. TypeOK /\ \A q \in Players : His(q)
  BY DEF Inv
<1>0. /\ slot[p] # -1 /\ asks[p] = Play /\ inv[p] \in Seq(Item) /\ IdsOnce(inv[p])
      /\ bank[p] \in Seq(Item) /\ slot[p] \in Slots
  BY <1>t DEF TypeOK, OpenBank, Ready, His
<1>r. PICK r \in Seq(Item) : r = Renumbered(bank[p], slot[p])
  BY <1>0, RenumberedFacts
<1>1. /\ bank' = [bank EXCEPT ![p] = r] /\ asks' = [asks EXCEPT ![p] = AtBank]
      /\ UNCHANGED <<slot, mirror, kicked, floor, high, made, visits, inv, purse, bankPurse, joins>>
  BY <1>r DEF OpenBank, game
<1>2. /\ Len(r) = Len(bank[p]) /\ IdsOnce(r)
      /\ \A x \in Names(r) : x[1][1] = "bank" /\ \E y \in Names(bank[p]) : x[2] = y[2]
  BY <1>0, <1>r, RenumberedFacts
<1>3. bank'[p] = r /\ asks'[p] = AtBank /\ \A q \in Players : q # p => bank'[q] = bank[q]
  BY <1>t, <1>1 DEF TypeOK
<1>4. TypeOK'
  <2>1. bank' \in [Players -> Seq(Item)] /\ \A q \in Players : Len(bank'[q]) <= BankMax
    BY <1>t, <1>1, <1>2 DEF TypeOK
  <2>2. asks' \in [Players -> {Play, AtBank} \cup ({"split"} \X Ids \X Nat)]
    BY <1>t, <1>1 DEF TypeOK
  <2> QED BY <1>t, <1>1, <2>1, <2>2 DEF TypeOK
<1>5. OnlyHis(p)
  BY <1>t, <1>0, <1>1, <1>3 DEF OnlyHis, TypeOK
<1>6. His(p)'
  <2>1. \A x \in IdsOf(inv[p]) : Known(x) /\ x[1] # "bank"
    BY <1>t, <1>0 DEF His, Known
  <2>2. Counter(p)'
    <3>1. \A id \in IdsOf(bank'[p]) : id[1] = "bank"
      BY <1>2, <1>3, Listed
    <3>2. \A x \in Names(inv[p]) : x[1] \in IdsOf(inv[p])
      BY <1>0, Listed
    <3>3. \A x \in Names(inv[p]) : \A y \in Names(bank'[p]) : x[1] # y[1]
      BY <1>2, <1>3, <2>1, <3>2
    <3> QED BY <1>1, <1>2, <1>3, <3>1, <3>3 DEF Counter
  <2>3. NoMoney(p)'
    BY <1>t, <1>1, <1>2, <1>3 DEF His, NoMoney
  <2> QED BY <1>0, <1>1, <1>3, <2>1, <2>2, <2>3 DEF His, Known, AtBank, Play
<1> QED BY <1>0, <1>1, <1>4, <1>5, <1>6, SameNames

LEMMA CloseBankKeeps ==
    ASSUME Inv, NEW p \in Players, CloseBank(p)
    PROVE  Inv'
<1>t. TypeOK /\ \A q \in Players : His(q)
  BY DEF Inv
<1>0. /\ slot[p] # -1 /\ inv[p] \in Seq(Item) /\ bank[p] \in Seq(Item)
      /\ IdsOnce(inv[p]) /\ \A x \in IdsOf(inv[p]) : Known(x)
  BY <1>t DEF TypeOK, CloseBank, His, AtBank, Play
<1>r. PICK r \in Seq(Item) : r = Unnumbered(bank[p])
  BY <1>0, UnnumberedFacts
<1>1. /\ bank' = [bank EXCEPT ![p] = r] /\ asks' = [asks EXCEPT ![p] = Play]
      /\ UNCHANGED <<slot, mirror, kicked, floor, high, made, visits, inv, purse, bankPurse, joins>>
  BY <1>r DEF CloseBank, game
<1>2. Len(r) = Len(bank[p]) /\ \A x \in Names(r) : \E y \in Names(bank[p]) : x[2] = y[2]
  BY <1>0, <1>r, UnnumberedFacts
<1>3. bank'[p] = r /\ asks'[p] = Play /\ \A q \in Players : q # p => bank'[q] = bank[q]
  BY <1>t, <1>1 DEF TypeOK
<1>4. TypeOK'
  <2>1. bank' \in [Players -> Seq(Item)] /\ \A q \in Players : Len(bank'[q]) <= BankMax
    BY <1>t, <1>1, <1>2 DEF TypeOK
  <2>2. asks' \in [Players -> {Play, AtBank} \cup ({"split"} \X Ids \X Nat)]
    BY <1>t, <1>1 DEF TypeOK
  <2> QED BY <1>t, <1>1, <2>1, <2>2 DEF TypeOK
<1>5. OnlyHis(p)
  BY <1>t, <1>0, <1>1, <1>3 DEF OnlyHis, TypeOK
<1>6. His(p)'
  <2>1. NoMoney(p)'
    BY <1>t, <1>1, <1>2, <1>3 DEF His, NoMoney
  <2> QED BY <1>0, <1>1, <1>3, <2>1 DEF His, Known, AtBank, Play
<1> QED BY <1>0, <1>1, <1>4, <1>5, <1>6, SameNames

LEMMA MesetaKeeps ==
    ASSUME Inv, NEW p \in Players, NEW n \in Nat, DepositMeseta(p, n) \/ WithdrawMeseta(p, n)
    PROVE  Inv'
<1>t. TypeOK /\ \A q \in Players : His(q)
  BY DEF Inv
<1>0. slot[p] # -1 /\ asks[p] = AtBank /\ inv[p] \in Seq(Item) /\ IdsOnce(inv[p])
  BY <1>t DEF TypeOK, DepositMeseta, WithdrawMeseta, Banking, His, AtBank, Play
<1>1. /\ UNCHANGED <<slot, mirror, asks, kicked, floor, high, made, visits, inv, bank, joins>>
      /\ \E a, b \in 0 .. MesetaMax : /\ purse' = [purse EXCEPT ![p] = a]
                                      /\ bankPurse' = [bankPurse EXCEPT ![p] = b]
  <2>0. purse[p] \in 0 .. MesetaMax /\ bankPurse[p] \in 0 .. MesetaMax /\ MesetaMax \in Nat
    BY <1>t, ItemsAssumption DEF TypeOK
  <2>1. CASE DepositMeseta(p, n)
    <3>1. purse[p] - n \in 0 .. MesetaMax /\ bankPurse[p] + n \in 0 .. MesetaMax
      BY <2>0, <2>1 DEF DepositMeseta
    <3> QED BY <2>1, <3>1 DEF DepositMeseta, Left, game
  <2>2. CASE WithdrawMeseta(p, n)
    <3>1. purse[p] + n \in 0 .. MesetaMax /\ bankPurse[p] - n \in 0 .. MesetaMax
      BY <2>0, <2>2 DEF WithdrawMeseta
    <3> QED BY <2>2, <3>1 DEF WithdrawMeseta, game
  <2> QED BY <2>1, <2>2
<1>2. TypeOK'
  BY <1>t, <1>1 DEF TypeOK
<1>3. OnlyHis(p)
  BY <1>t, <1>0, <1>1 DEF OnlyHis, TypeOK
<1>4. His(p)'
  BY <1>t, <1>0, <1>1 DEF His, Known, Counter, NoMoney, AtBank, Play
<1> QED BY <1>0, <1>1, <1>2, <1>3, <1>4, SameNames

\* The split itself: what is asked for is still there.
LEMMA SplitFacts ==
    ASSUME Inv, NEW p \in Players, asks[p] \notin {Play, AtBank}
    PROVE  /\ slot[p] \in Slots /\ asks[p][2] \in Ids /\ asks[p][3] \in Nat \ {0}
           /\ asks[p][2] = NoId => asks[p][3] <= purse[p]
           /\ asks[p][2] # NoId =>
                  \E i \in 1 .. Len(inv[p]) : /\ inv[p][i].id = asks[p][2] /\ Place(inv[p], asks[p][2]) = i
                                              /\ inv[p][i].kind \in Stackables /\ asks[p][3] <= inv[p][i].n
<1>t. TypeOK /\ His(p)
  BY DEF Inv
<1>1. /\ Splitting(p) /\ slot[p] # -1 /\ inv[p] \in Seq(Item)
      /\ IdsOnce(inv[p]) /\ \A id \in IdsOf(inv[p]) : Known(id)
  BY <1>t DEF His, TypeOK
<1>2. slot[p] \in Slots /\ asks[p][2] \in Ids /\ asks[p][3] \in Nat \ {0}
  BY <1>t, <1>1 DEF Splitting, TypeOK
<1>3. NoId \notin IdsOf(inv[p])
  BY <1>1 DEF NoId, Known
<1>4. ASSUME NEW i \in 1 .. Len(inv[p]), inv[p][i].id = asks[p][2]
      PROVE  asks[p][2] # NoId /\ Place(inv[p], asks[p][2]) = i
  BY <1>1, <1>3, <1>4, PlaceOfOne, Listed
<1> QED BY <1>1, <1>2, <1>4 DEF Splitting

LEMMA DropStackKeeps ==
    ASSUME Inv, NEW p \in Players, DropStack(p)
    PROVE  Inv'
<1>t. TypeOK /\ Seats /\ FloorKnown /\ Numbers /\ IdsNameItems /\ \A q \in Players : His(q)
  BY DEF Inv
<1>s. asks[p] \notin {Play, AtBank} /\ p \notin kicked
  BY DEF DropStack
<1>p. PICK s \in Slots, id \in Ids, n \in Nat \ {0} : s = slot[p] /\ id = asks[p][2] /\ n = asks[p][3]
  BY <1>s, SplitFacts
<1>0. /\ slot[p] # -1 /\ inv[p] \in Seq(Item) /\ floor \in Seq(Item) /\ mirror[p] \in Seq(AllKinds)
      /\ IdsOnce(inv[p]) /\ \A x \in IdsOf(inv[p]) : Known(x)
      /\ made \in Nat /\ \A r \in Slots : high[r] \in Int
      /\ purse[p] \in 0 .. MesetaMax /\ MesetaMax \in Nat
  BY <1>t, <1>s, ItemsAssumption DEF TypeOK, His
<1>k. PICK of \in AllKinds : of = IF id = NoId THEN Meseta ELSE KindInMirror(p, Place(inv[p], id))
  BY <1>0 DEF KindInMirror, AllKinds
<1>h. PICK h \in Int : h = high[s] + 1
  BY <1>0
<1>i. PICK it \in Item : it = [id |-> <<"slot", s, h>>, kind |-> of, n |-> n]
  BY IdTypes DEF Item
<1>r. PICK rest \in Seq(Item), left \in 0 .. MesetaMax :
          /\ rest = IF id = NoId THEN inv[p] ELSE TakeFrom(inv[p], id, n)
          /\ left = IF id = NoId THEN purse[p] - n ELSE purse[p]
          /\ Len(rest) <= Len(inv[p]) /\ Names(rest) \subseteq Names(inv[p])
          /\ IdsOf(rest) \subseteq IdsOf(inv[p]) /\ IdsOnce(rest)
  <2>1. CASE id = NoId
    <3>1. purse[p] - n \in 0 .. MesetaMax
      <4>1. n <= purse[p]
        BY <1>p, <1>s, <2>1, SplitFacts
      <4> QED BY <1>0, <4>1
    <3>2. Len(inv[p]) \in Nat
      BY <1>0
    <3> QED BY <1>0, <2>1, <3>1, <3>2
  <2>2. CASE id # NoId
    <3>1. PICK i \in 1 .. Len(inv[p]) : inv[p][i].id = id /\ Place(inv[p], id) = i
      BY <1>p, <1>s, <2>2, SplitFacts
    <3>2. /\ TakeFrom(inv[p], id, n) \in Seq(Item) /\ Len(TakeFrom(inv[p], id, n)) <= Len(inv[p])
          /\ Names(TakeFrom(inv[p], id, n)) \subseteq Names(inv[p])
          /\ IdsOf(TakeFrom(inv[p], id, n)) \subseteq IdsOf(inv[p])
          /\ IdsOnce(TakeFrom(inv[p], id, n))
      BY <1>0, <3>1, TakeNames
    <3> QED BY <1>0, <2>2, <3>2
  <2> QED BY <2>1, <2>2
<1>1. /\ floor' = <<it>> \o floor /\ high' = [high EXCEPT ![s] = h]
      /\ inv' = [inv EXCEPT ![p] = rest] /\ purse' = [purse EXCEPT ![p] = left]
      /\ asks' = [asks EXCEPT ![p] = Play]
      /\ UNCHANGED <<slot, mirror, kicked, made, visits, bank, bankPurse, joins>>
  <2>1. /\ floor' = <<it>> \o floor /\ high' = [high EXCEPT ![s] = h]
        /\ asks' = [asks EXCEPT ![p] = Play]
        /\ UNCHANGED <<slot, mirror, kicked, made, visits, bank, bankPurse, joins>>
    BY <1>p, <1>k, <1>h, <1>i DEF DropStack, NumberOfSplit
  <2>2. inv' = [inv EXCEPT ![p] = rest] /\ purse' = [purse EXCEPT ![p] = left]
    <3>1. inv = [inv EXCEPT ![p] = inv[p]] /\ purse = [purse EXCEPT ![p] = purse[p]]
      BY <1>t DEF TypeOK
    <3> QED BY <1>p, <1>r, <3>1 DEF DropStack, Left
  <2> QED BY <2>1, <2>2
<1>2. /\ inv'[p] = rest /\ asks'[p] = Play
      /\ \A q \in Players : q # p => inv'[q] = inv[q] /\ purse'[q] = purse[q] /\ asks'[q] = asks[q]
  BY <1>t, <1>1 DEF TypeOK
<1>3. /\ <<it>> \o floor \in Seq(Item) /\ IdsOf(<<it>> \o floor) = IdsOf(floor) \cup {it.id}
      /\ IdsOnce(floor) /\ it.id \notin IdsOf(floor) => IdsOnce(<<it>> \o floor)
  BY <1>0, PutFirstNames
<1>4. TypeOK'
  <2>1. Len(rest) <= InvMax
    <3>1. Len(rest) \in Nat /\ Len(inv[p]) \in Nat /\ Len(inv[p]) <= InvMax /\ InvMax \in Nat
      BY <1>t, <1>0, ItemsAssumption DEF TypeOK
    <3> QED BY <1>r, <3>1
  <2>2. inv' \in [Players -> Seq(Item)] /\ \A q \in Players : Len(inv'[q]) <= InvMax
    BY <1>t, <1>1, <2>1 DEF TypeOK
  <2>3. /\ purse' \in [Players -> 0 .. MesetaMax] /\ high' \in [Slots -> Int]
        /\ asks' \in [Players -> {Play, AtBank} \cup ({"split"} \X Ids \X Nat)]
    BY <1>t, <1>1 DEF TypeOK
  <2> QED BY <1>t, <1>1, <1>3, <2>2, <2>3 DEF TypeOK
<1>5. OnlyHis(p)
  BY <1>0, <1>1, <1>2 DEF OnlyHis
<1>6. FloorKnown'
  <2>1. Known(it.id)'
    BY <1>i DEF Known
  <2> QED BY <1>t, <1>1, <1>3, <2>1 DEF FloorKnown, Known
<1>7. p \in Present /\ visits[s] # 0 /\ high'[s] = h
  BY <1>t, <1>p, <1>0, <1>1 DEF Seats, Present, TypeOK
<1>8. Numbers' /\ IdsNameItems'
  <2>1. Fresh => New(it.id)
    <3>1. it.id = <<"slot", s, high[s] + 1>>
      BY <1>h, <1>i
    <3> QED BY <1>t, <3>1, NewOfSlot
  <2>2. Given(it.id)'
    BY <1>1, <1>i, <1>7 DEF Given
  <2>3. Fresh => IdsOnce(floor) /\ \A x \in IdsOf(inv[p]) : x \notin IdsOf(floor)
    BY <1>t, <1>7 DEF IdsNameItems, Fresh
  <2>4. Fresh => /\ IdsOnce(floor') /\ IdsOnce(inv'[p])
                 /\ \A x \in IdsOf(inv'[p]) : x \notin IdsOf(floor')
    BY <1>1, <1>2, <1>3, <1>r, <1>7, <2>1, <2>3 DEF New
  <2>5. /\ \A x \in IdsOf(floor') : x \in IdsOf(floor) \/ x \in IdsOf(inv[p]) \/ x \in {it.id}
        /\ \A x \in IdsOf(inv'[p]) : x \in IdsOf(floor) \/ x \in IdsOf(inv[p]) \/ x \in {it.id}
        /\ Fresh => \A x \in {it.id} : New(x) /\ Given(x)'
    BY <1>1, <1>2, <1>3, <1>r, <2>1, <2>2
  <2>6. slot' = slot /\ visits' = visits /\ \A r \in Slots : high[r] <= high'[r]
    BY <1>t, <1>0, <1>1, <1>h DEF TypeOK
  <2> QED BY <1>t, <1>0, <1>2, <1>4, <2>4, <2>5, <2>6, NamesKept
<1>9. His(p)'
  <2>1. \A x \in IdsOf(inv'[p]) : Known(x)'
    BY <1>0, <1>1, <1>2, <1>r DEF Known
  <2>2. NoMoney(p)'
    BY <1>t, <1>1, <1>2, <1>r DEF His, NoMoney
  <2>3. Play # AtBank /\ Play \in {Play, AtBank}
    BY DEF Play, AtBank
  <2> QED BY <1>2, <1>r, <2>1, <2>2, <2>3 DEF His
<1>10. made <= made' /\ \A r \in Slots : visits[r] = 0 => high'[r] = 0
  BY <1>t, <1>0, <1>1, <1>7 DEF Seats, TypeOK
<1> QED BY <1>4, <1>5, <1>6, <1>8, <1>9, <1>10, StepKeeps

LEMMA PickUpKeeps ==
    ASSUME Inv, NEW p \in Players, NEW id \in IdsOf(floor), PickUp(p, id)
    PROVE  Inv'
<1>t. TypeOK /\ Seats /\ FloorKnown /\ Numbers /\ IdsNameItems /\ \A q \in Players : His(q)
  BY DEF Inv
<1>0. /\ slot[p] # -1 /\ asks[p] = Play /\ inv[p] \in Seq(Item) /\ floor \in Seq(Item)
      /\ IdsOnce(inv[p]) /\ \A x \in IdsOf(inv[p]) : Known(x)
      /\ made \in Nat /\ \A s \in Slots : high[s] \in Int
      /\ purse[p] \in 0 .. MesetaMax /\ MesetaMax \in Nat
  BY <1>t, ItemsAssumption DEF PickUp, Ready, TypeOK, His
<1>p. PICK i \in 1 .. Len(floor) : i = Place(floor, id) /\ floor[i].id = id
  BY <1>0, PlaceFacts
<1>i. PICK it \in Item : it = floor[i]
  BY <1>0, Elements
<1>f. PICK rest \in Seq(Item) : rest = RemoveAt(floor, i)
  BY <1>0, RemoveNames
<1>1. /\ floor' = rest
      /\ UNCHANGED <<slot, mirror, asks, high, made, visits, bank, bankPurse, joins>>
      /\ \/ it.kind = Meseta /\ purse' = [purse EXCEPT ![p] = Carried(@, it.n)] /\ UNCHANGED <<inv, kicked>>
         \/ /\ it.kind # Meseta /\ CanAdd(inv[p], it) /\ inv' = [inv EXCEPT ![p] = Merge(@, it)]
            /\ UNCHANGED <<kicked, purse>>
         \/ it.kind # Meseta /\ kicked' = kicked \cup {p} /\ UNCHANGED <<inv, purse>>
  BY <1>p, <1>i, <1>f DEF PickUp, Kick
<1>2. /\ IdsOf(rest) \subseteq IdsOf(floor) /\ it.id = id
      /\ IdsOnce(floor) => IdsOnce(rest) /\ it.id \notin IdsOf(rest)
  BY <1>0, <1>p, <1>i, <1>f, RemoveNames
<1>r. PICK r \in Seq(Item) :
          /\ inv' = [inv EXCEPT ![p] = r] /\ Len(r) <= InvMax /\ IdsOnce(r)
          /\ \A x \in Names(r) : x \in Names(inv[p]) \/ (x = <<it.id, it.kind>> /\ it.kind # Meseta)
          /\ \A x \in IdsOf(r) : x \in IdsOf(inv[p]) \/ x = it.id
  <2>1. CASE UNCHANGED inv
    <3>1. inv' = [inv EXCEPT ![p] = inv[p]] /\ Len(inv[p]) <= InvMax
      BY <1>t, <2>1 DEF TypeOK
    <3> QED BY <1>0, <3>1
  <2>2. CASE it.kind # Meseta /\ CanAdd(inv[p], it) /\ inv' = [inv EXCEPT ![p] = Merge(@, it)]
    <3>1. /\ Merge(inv[p], it) \in Seq(Item)
          /\ Len(Merge(inv[p], it)) \in {Len(inv[p]), Len(inv[p]) + 1}
          /\ Names(Merge(inv[p], it)) \subseteq Names(inv[p]) \cup {<<it.id, it.kind>>}
          /\ IdsOf(Merge(inv[p], it)) \subseteq IdsOf(inv[p]) \cup {it.id}
          /\ IdsOnce(Merge(inv[p], it))
      BY <1>0, <2>2, MergeNames DEF CanAdd
    <3>2. Len(inv[p]) # InvMax /\ Len(inv[p]) <= InvMax /\ InvMax \in Nat /\ Len(inv[p]) \in Nat
      BY <1>t, <1>0, <2>2, ItemsAssumption DEF CanAdd, TypeOK
    <3>3. Len(Merge(inv[p], it)) <= InvMax
      BY <3>1, <3>2
    <3> QED BY <2>2, <3>1, <3>3
  <2> QED BY <1>1, <2>1, <2>2
<1>3. /\ inv'[p] = r /\ \A q \in Players : q # p => inv'[q] = inv[q]
      /\ \A q \in Players : q # p => purse'[q] = purse[q]
  BY <1>t, <1>1, <1>r DEF TypeOK
<1>4. TypeOK'
  <2>1. inv' \in [Players -> Seq(Item)] /\ \A q \in Players : Len(inv'[q]) <= InvMax
    BY <1>t, <1>r DEF TypeOK
  <2>2. purse' \in [Players -> 0 .. MesetaMax]
    <3>1. it.n \in Nat
      BY DEF Item
    <3>2. Carried(purse[p], it.n) \in 0 .. MesetaMax
      <4>1. {purse[p] + it.n, MesetaMax} \in SUBSET Nat
        BY <1>0, <3>1
      <4>2. \E x \in {purse[p] + it.n, MesetaMax} : \A y \in {purse[p] + it.n, MesetaMax} : x <= y
        BY <4>1, Smallest
      <4> QED BY <4>1, <4>2 DEF Carried, Min
    <3> QED BY <1>t, <1>1, <3>2 DEF TypeOK
  <2>3. kicked' \subseteq Players
    BY <1>t, <1>1 DEF TypeOK
  <2> QED BY <1>t, <1>1, <2>1, <2>2, <2>3 DEF TypeOK
<1>5. OnlyHis(p)
  BY <1>0, <1>1, <1>3 DEF OnlyHis
<1>6. FloorKnown'
  BY <1>t, <1>1, <1>2 DEF FloorKnown, Known
<1>7. Numbers' /\ IdsNameItems'
  <2>1. Fresh => IdsOnce(floor) /\ \A x \in IdsOf(inv[p]) : x \notin IdsOf(floor)
    BY <1>t, <1>0 DEF IdsNameItems, Fresh, Present
  <2>2. Fresh => /\ IdsOnce(floor') /\ IdsOnce(inv'[p])
                 /\ \A x \in IdsOf(inv'[p]) : x \notin IdsOf(floor')
    BY <1>1, <1>2, <1>3, <1>r, <2>1
  <2>3. /\ \A x \in IdsOf(floor') : x \in IdsOf(floor) \/ x \in IdsOf(inv[p])
        /\ \A x \in IdsOf(inv'[p]) : x \in IdsOf(floor) \/ x \in IdsOf(inv[p])
    BY <1>1, <1>2, <1>3, <1>r
  <2>4. slot' = slot /\ visits' = visits /\ \A s \in Slots : high[s] <= high'[s]
    BY <1>0, <1>1
  <2> QED BY <1>t, <1>0, <1>3, <1>4, <2>2, <2>3, <2>4, NamesMoved
<1>8. His(p)'
  <2>1. \A x \in IdsOf(inv'[p]) : Known(x)'
    BY <1>t, <1>0, <1>1, <1>2, <1>3, <1>r DEF FloorKnown, Known
  <2>2. NoMoney(p)'
    <3>1. \A x \in Names(inv'[p]) : x[2] # Meseta
      BY <1>t, <1>3, <1>r DEF His, NoMoney
    <3> QED BY <1>t, <1>1, <3>1 DEF His, NoMoney
  <2>3. asks'[p] = Play /\ Play # AtBank /\ Play \in {Play, AtBank}
    BY <1>0, <1>1 DEF Play, AtBank
  <2> QED BY <1>3, <1>r, <2>1, <2>2, <2>3 DEF His
<1>9. made <= made' /\ \A s \in Slots : visits[s] = 0 => high'[s] = 0
  BY <1>t, <1>0, <1>1 DEF Seats
<1> QED BY <1>4, <1>5, <1>6, <1>7, <1>8, <1>9, StepKeeps

LEMMA DepositKeeps ==
    ASSUME Inv, NEW p \in Players, NEW i \in DOMAIN inv[p], NEW n \in Nat, Deposit(p, i, n)
    PROVE  Inv'
<1>t. TypeOK /\ \A q \in Players : His(q)
  BY DEF Inv
<1>0. /\ slot[p] # -1 /\ asks[p] = AtBank /\ inv[p] \in Seq(Item) /\ bank[p] \in Seq(Item)
      /\ i \in 1 .. Len(inv[p]) /\ IdsOnce(inv[p]) /\ \A x \in IdsOf(inv[p]) : Known(x)
      /\ Counter(p) /\ NoMoney(p)
  <2>1. inv[p] \in Seq(Item) /\ bank[p] \in Seq(Item)
    BY <1>t DEF TypeOK
  <2> QED BY <1>t, <2>1 DEF Deposit, Banking, His, AtBank, Play
<1>i. PICK it \in Item : /\ it = [inv[p][i] EXCEPT !.n = n]
                         /\ it.id = inv[p][i].id /\ it.kind = inv[p][i].kind /\ it.n = n
  <2>1. inv[p][i] \in Item
    BY <1>0, Elements
  <2> DEFINE m == [inv[p][i] EXCEPT !.n = n]
  <2>2. m \in Item /\ m.id = inv[p][i].id /\ m.kind = inv[p][i].kind /\ m.n = n
    BY <2>1 DEF Item
  <2> HIDE DEF m
  <2> QED BY <2>2 DEF m
<1>p. Place(inv[p], it.id) = i
  BY <1>0, <1>i, PlaceOfOne
<1>r. PICK rest \in Seq(Item) :
          /\ rest = TakeFrom(inv[p], it.id, n)
          /\ Len(rest) <= Len(inv[p]) /\ Names(rest) \subseteq Names(inv[p])
          /\ IdsOf(rest) \subseteq IdsOf(inv[p]) /\ IdsOnce(rest)
          /\ it.id \in IdsOf(rest) => it.kind \in Stackables
  BY <1>0, <1>i, <1>p, TakeNames
<1>1. /\ inv' = [inv EXCEPT ![p] = rest]
      /\ UNCHANGED <<slot, mirror, asks, floor, high, made, visits, purse, bankPurse, joins>>
      /\ \/ CanDeposit(bank[p]) /\ bank' = [bank EXCEPT ![p] = Merge(@, it)] /\ UNCHANGED kicked
         \/ kicked' = kicked \cup {p} /\ UNCHANGED bank
  BY <1>i, <1>r DEF Deposit, Kick, game
<1>2. <<it.id, it.kind>> \in Names(inv[p]) /\ it.id \in IdsOf(inv[p])
  BY <1>0, <1>i, Listed
<1>3. it.id \in IdsOf(bank[p]) => it.kind \in Stackables /\ HasKind(bank[p], it.kind)
  <2>1. SUFFICES ASSUME it.id \in IdsOf(bank[p])
                 PROVE  it.kind \in Stackables /\ HasKind(bank[p], it.kind)
    OBVIOUS
  <2>2. PICK j \in 1 .. Len(bank[p]) : bank[p][j].id = it.id
    BY <1>0, <2>1, Listed
  <2>3. PICK x, y : x = <<it.id, it.kind>> /\ y = <<bank[p][j].id, bank[p][j].kind>>
    OBVIOUS
  <2>4. x \in Names(inv[p]) /\ y \in Names(bank[p]) /\ x[1] = y[1]
    BY <1>0, <1>2, <2>2, <2>3, Listed
  <2>5. x[2] = y[2] /\ x[2] \in Stackables
    BY <1>0, <2>4 DEF Counter
  <2>6. bank[p][j].kind = it.kind /\ it.kind \in Stackables
    BY <2>3, <2>5
  <2>7. j \in DOMAIN bank[p]
    BY <1>0
  <2> QED BY <2>6, <2>7 DEF HasKind
<1>b. PICK b \in Seq(Item) :
          /\ bank' = [bank EXCEPT ![p] = b] /\ Len(b) <= BankMax /\ IdsOnce(b)
          /\ \A x \in Names(b) : x \in Names(bank[p]) \/ x = <<it.id, it.kind>>
          /\ \A x \in IdsOf(b) : x \in IdsOf(bank[p]) \/ x = it.id
  <2>1. CASE UNCHANGED bank
    <3>1. bank' = [bank EXCEPT ![p] = bank[p]] /\ Len(bank[p]) <= BankMax
      BY <1>t, <2>1 DEF TypeOK
    <3> QED BY <1>0, <3>1 DEF Counter
  <2>2. CASE CanDeposit(bank[p]) /\ bank' = [bank EXCEPT ![p] = Merge(@, it)]
    <3>1. /\ Merge(bank[p], it) \in Seq(Item)
          /\ Len(Merge(bank[p], it)) \in {Len(bank[p]), Len(bank[p]) + 1}
          /\ Names(Merge(bank[p], it)) \subseteq Names(bank[p]) \cup {<<it.id, it.kind>>}
          /\ IdsOf(Merge(bank[p], it)) \subseteq IdsOf(bank[p]) \cup {it.id}
          /\ IdsOnce(Merge(bank[p], it))
      BY <1>0, <1>3, MergeNames DEF Counter
    <3>2. Len(bank[p]) # BankMax /\ Len(bank[p]) <= BankMax /\ BankMax \in Nat /\ Len(bank[p]) \in Nat
      BY <1>t, <1>0, <2>2, ItemsAssumption DEF CanDeposit, TypeOK
    <3>3. Len(Merge(bank[p], it)) <= BankMax
      BY <3>1, <3>2
    <3> QED BY <2>2, <3>1, <3>3
  <2> QED BY <1>1, <2>1, <2>2
<1>4. /\ inv'[p] = rest /\ bank'[p] = b
      /\ \A q \in Players : q # p => inv'[q] = inv[q] /\ bank'[q] = bank[q]
  BY <1>t, <1>1, <1>b DEF TypeOK
<1>5. TypeOK'
  <2>1. Len(rest) <= InvMax
    <3>1. Len(rest) \in Nat /\ Len(inv[p]) \in Nat /\ Len(inv[p]) <= InvMax /\ InvMax \in Nat
      BY <1>t, <1>0, ItemsAssumption DEF TypeOK
    <3> QED BY <1>r, <3>1
  <2>2. inv' \in [Players -> Seq(Item)] /\ \A q \in Players : Len(inv'[q]) <= InvMax
    BY <1>t, <1>1, <2>1 DEF TypeOK
  <2>3. bank' \in [Players -> Seq(Item)] /\ \A q \in Players : Len(bank'[q]) <= BankMax
    BY <1>t, <1>b DEF TypeOK
  <2>4. kicked' \subseteq Players
    BY <1>t, <1>1 DEF TypeOK
  <2> QED BY <1>t, <1>1, <2>2, <2>3, <2>4 DEF TypeOK
<1>6. OnlyHis(p)
  BY <1>0, <1>1, <1>4 DEF OnlyHis
<1>7. His(p)'
  <2>1. \A x \in IdsOf(inv'[p]) : Known(x)'
    BY <1>0, <1>1, <1>4, <1>r DEF Known
  <2>2. Counter(p)'
    <3>1. \A id \in IdsOf(bank'[p]) : Known(id)' \/ id[1] = "bank"
      BY <1>0, <1>1, <1>2, <1>4, <1>b DEF Counter, Known
    <3>2. ASSUME NEW x \in Names(inv'[p]), NEW y \in Names(bank'[p]), x[1] = y[1]
          PROVE  x[2] = y[2] /\ x[2] \in Stackables
      <4>1. x \in Names(inv[p])
        BY <1>4, <1>r
      <4>2. CASE y \in Names(bank[p])
        BY <1>0, <3>2, <4>1, <4>2 DEF Counter
      <4>3. CASE y = <<it.id, it.kind>>
        <5>1. PICK k \in 1 .. Len(inv[p]) : x = <<inv[p][k].id, inv[p][k].kind>>
          BY <1>0, <4>1, Listed
        <5>2. inv[p][k].id = it.id
          BY <3>2, <4>3, <5>1
        <5>3. k = i
          BY <1>0, <1>i, <5>2, Listed
        <5>4. it.id \in IdsOf(rest)
          <6>1. x \in Names(rest) /\ x[1] = it.id
            BY <1>4, <5>1, <5>2
          <6> QED BY <6>1, Listed
        <5> QED BY <1>i, <1>r, <4>3, <5>1, <5>3, <5>4
      <4> QED BY <1>4, <1>b, <4>2, <4>3
    <3> QED BY <1>4, <1>b, <3>1, <3>2 DEF Counter
  <2>3. NoMoney(p)'
    <3>1. \A x \in Names(inv'[p]) : x[2] # Meseta
      BY <1>0, <1>4, <1>r DEF NoMoney
    <3>2. \A x \in Names(bank'[p]) : x[2] # Meseta
      BY <1>0, <1>2, <1>4, <1>b DEF NoMoney
    <3> QED BY <1>0, <1>1, <3>1, <3>2 DEF NoMoney
  <2> QED BY <1>0, <1>1, <1>4, <1>r, <2>1, <2>2, <2>3 DEF His, AtBank, Play
<1> QED BY <1>1, <1>4, <1>r, <1>5, <1>6, <1>7, SameNames

LEMMA WithdrawKeeps ==
    ASSUME Inv, NEW p \in Players, NEW i \in DOMAIN bank[p], NEW n \in Nat, Withdraw(p, i, n)
    PROVE  Inv'
<1>t. TypeOK /\ Seats /\ FloorKnown /\ Numbers /\ IdsNameItems /\ \A q \in Players : His(q)
  BY DEF Inv
<1>0. /\ slot[p] # -1 /\ asks[p] = AtBank /\ inv[p] \in Seq(Item) /\ bank[p] \in Seq(Item)
      /\ i \in 1 .. Len(bank[p]) /\ IdsOnce(inv[p]) /\ \A x \in IdsOf(inv[p]) : Known(x)
      /\ Counter(p) /\ NoMoney(p) /\ IdsOnce(bank[p]) /\ floor \in Seq(Item)
      /\ made \in Nat /\ \A s \in Slots : high[s] \in Int
  <2>1. inv[p] \in Seq(Item) /\ bank[p] \in Seq(Item)
    BY <1>t DEF TypeOK
  <2> QED BY <1>t, <2>1 DEF Withdraw, Banking, His, Counter, AtBank, Play, TypeOK
<1>o. PICK out \in Item : /\ out = [bank[p][i] EXCEPT !.n = n]
                          /\ out.id = bank[p][i].id /\ out.kind = bank[p][i].kind /\ out.n = n
  <2>1. bank[p][i] \in Item
    BY <1>0, Elements
  <2> DEFINE m == [bank[p][i] EXCEPT !.n = n]
  <2>2. m \in Item /\ m.id = bank[p][i].id /\ m.kind = bank[p][i].kind /\ m.n = n
    BY <2>1 DEF Item
  <2> HIDE DEF m
  <2> QED BY <2>2 DEF m
<1>i. PICK it \in Item : /\ it = [out EXCEPT !.id = <<"game", 0, made>>]
                         /\ it.id = <<"game", 0, made>> /\ it.kind = out.kind /\ it.n = n
  <2>1. <<"game", 0, made>> \in Ids
    BY <1>0, IdTypes
  <2> DEFINE m == [out EXCEPT !.id = <<"game", 0, made>>]
  <2>2. m \in Item /\ m.id = <<"game", 0, made>> /\ m.kind = out.kind /\ m.n = n
    BY <1>o, <2>1 DEF Item
  <2> HIDE DEF m
  <2> QED BY <2>2 DEF m
<1>p. Place(bank[p], out.id) = i
  BY <1>0, <1>o, PlaceOfOne
<1>r. PICK rest \in Seq(Item) :
          /\ rest = TakeFrom(bank[p], out.id, n)
          /\ Len(rest) <= Len(bank[p]) /\ Names(rest) \subseteq Names(bank[p])
          /\ IdsOf(rest) \subseteq IdsOf(bank[p]) /\ IdsOnce(rest)
          /\ out.id \in IdsOf(rest) => out.kind \in Stackables /\ HasKind(rest, out.kind)
  BY <1>0, <1>o, <1>p, TakeNames
<1>1. /\ made' = made + 1
      /\ UNCHANGED <<slot, mirror, asks, floor, high, visits, purse, bankPurse, joins>>
      /\ \/ /\ CanAdd(inv[p], it) /\ inv' = [inv EXCEPT ![p] = Merge(@, it)]
            /\ bank' = [bank EXCEPT ![p] = rest] /\ UNCHANGED kicked
         \/ /\ bank' = [bank EXCEPT ![p] = PutBack(rest, out)]
            /\ kicked' = kicked \cup {p} /\ UNCHANGED inv
  BY <1>o, <1>i, <1>r DEF Withdraw, Kick
<1>g. PICK g : g = it.id
  OBVIOUS
<1>2. New(g) /\ Given(g)' /\ Known(g)' /\ g \notin IdsOf(bank[p])
  <2>1. g = <<"game", 0, made>> /\ made < made'
    BY <1>0, <1>1, <1>i, <1>g
  <2> QED BY <1>t, <1>0, <2>1, NewOfGame
<1>3. /\ Len(rest) <= BankMax /\ Len(rest) \in Nat /\ BankMax \in Nat
      /\ Len(inv[p]) <= InvMax /\ Len(inv[p]) \in Nat /\ InvMax \in Nat
  <2>1. Len(rest) \in Nat /\ Len(bank[p]) \in Nat /\ Len(inv[p]) \in Nat
    BY <1>0
  <2>2. Len(bank[p]) <= BankMax /\ Len(inv[p]) <= InvMax /\ BankMax \in Nat /\ InvMax \in Nat
    BY <1>t, ItemsAssumption DEF TypeOK
  <2> QED BY <1>r, <2>1, <2>2
<1>a. PICK r \in Seq(Item) :
          /\ inv' = [inv EXCEPT ![p] = r] /\ Len(r) <= InvMax /\ IdsOnce(r)
          /\ \A x \in Names(r) : x \in Names(inv[p]) \/ x = <<g, out.kind>>
          /\ \A x \in IdsOf(r) : x \in IdsOf(inv[p]) \/ x = g
  <2>1. CASE UNCHANGED inv
    <3>1. inv' = [inv EXCEPT ![p] = inv[p]]
      BY <1>t, <2>1 DEF TypeOK
    <3> QED BY <1>0, <1>3, <3>1
  <2>2. CASE CanAdd(inv[p], it) /\ inv' = [inv EXCEPT ![p] = Merge(@, it)]
    <3>1. /\ Merge(inv[p], it) \in Seq(Item)
          /\ Len(Merge(inv[p], it)) \in {Len(inv[p]), Len(inv[p]) + 1}
          /\ Names(Merge(inv[p], it)) \subseteq Names(inv[p]) \cup {<<it.id, it.kind>>}
          /\ IdsOf(Merge(inv[p], it)) \subseteq IdsOf(inv[p]) \cup {it.id}
          /\ IdsOnce(Merge(inv[p], it))
      BY <1>0, <2>2, MergeNames DEF CanAdd
    <3>2. Len(Merge(inv[p], it)) <= InvMax
      BY <1>3, <2>2, <3>1 DEF CanAdd
    <3> QED BY <1>g, <1>i, <2>2, <3>1, <3>2
  <2> QED BY <1>1, <2>1, <2>2
<1>b. PICK b \in Seq(Item) :
          /\ bank' = [bank EXCEPT ![p] = b] /\ Len(b) <= BankMax /\ IdsOnce(b)
          /\ \A x \in Names(b) : x \in Names(bank[p])
          /\ \A x \in IdsOf(b) : x \in IdsOf(bank[p])
  <2>1. CASE bank' = [bank EXCEPT ![p] = rest]
    BY <1>3, <1>r, <2>1
  <2>2. CASE bank' = [bank EXCEPT ![p] = PutBack(rest, out)]
    <3>1. /\ Merge(rest, out) \in Seq(Item)
          /\ Len(Merge(rest, out)) \in {Len(rest), Len(rest) + 1}
          /\ Names(Merge(rest, out)) \subseteq Names(rest) \cup {<<out.id, out.kind>>}
          /\ IdsOf(Merge(rest, out)) \subseteq IdsOf(rest) \cup {out.id}
          /\ IdsOnce(Merge(rest, out))
      BY <1>r, MergeNames
    <3>2. <<out.id, out.kind>> \in Names(bank[p]) /\ out.id \in IdsOf(bank[p])
      BY <1>0, <1>o, Listed
    <3>3. CASE CanDeposit(rest)
      <4>1. Len(Merge(rest, out)) <= BankMax
        BY <1>3, <3>1, <3>3 DEF CanDeposit
      <4> QED BY <1>r, <2>2, <3>1, <3>2, <3>3, <4>1 DEF PutBack
    <3>4. CASE ~CanDeposit(rest)
      BY <1>3, <1>r, <2>2, <3>4 DEF PutBack
    <3> QED BY <3>3, <3>4
  <2> QED BY <1>1, <2>1, <2>2
<1>4. /\ inv'[p] = r /\ bank'[p] = b
      /\ \A q \in Players : q # p => inv'[q] = inv[q] /\ bank'[q] = bank[q]
  BY <1>t, <1>a, <1>b DEF TypeOK
<1>5. TypeOK'
  <2>1. inv' \in [Players -> Seq(Item)] /\ \A q \in Players : Len(inv'[q]) <= InvMax
    BY <1>t, <1>a DEF TypeOK
  <2>2. bank' \in [Players -> Seq(Item)] /\ \A q \in Players : Len(bank'[q]) <= BankMax
    BY <1>t, <1>b DEF TypeOK
  <2>3. kicked' \subseteq Players /\ made' \in Nat
    BY <1>t, <1>1 DEF TypeOK
  <2> QED BY <1>t, <1>1, <2>1, <2>2, <2>3 DEF TypeOK
<1>6. OnlyHis(p)
  BY <1>0, <1>1, <1>4 DEF OnlyHis
<1>7. \A x \in Ids : Known(x) => Known(x)'
  BY <1>0, <1>1 DEF Known, Ids
<1>8. FloorKnown'
  BY <1>t, <1>0, <1>1, <1>7, TypedIds DEF FloorKnown
<1>9. Numbers' /\ IdsNameItems'
  <2>1. Fresh => IdsOnce(floor) /\ \A x \in IdsOf(inv[p]) : x \notin IdsOf(floor)
    BY <1>t, <1>0 DEF IdsNameItems, Fresh, Present
  <2>2. Fresh => /\ IdsOnce(floor') /\ IdsOnce(inv'[p])
                 /\ \A x \in IdsOf(inv'[p]) : x \notin IdsOf(floor')
    BY <1>1, <1>2, <1>4, <1>a, <2>1 DEF New
  <2>3. /\ \A x \in IdsOf(floor') : x \in IdsOf(floor) \/ x \in IdsOf(inv[p]) \/ x \in {g}
        /\ \A x \in IdsOf(inv'[p]) : x \in IdsOf(floor) \/ x \in IdsOf(inv[p]) \/ x \in {g}
        /\ Fresh => \A x \in {g} : New(x) /\ Given(x)'
    BY <1>1, <1>2, <1>4, <1>a
  <2>4. slot' = slot /\ visits' = visits /\ \A s \in Slots : high[s] <= high'[s]
    BY <1>0, <1>1
  <2>5. \A q \in Players : q # p => inv'[q] = inv[q]
    BY <1>4
  <2> QED BY <1>t, <1>0, <1>5, <2>2, <2>3, <2>4, <2>5, NamesKept
<1>10. His(p)'
  <2>1. \A x \in IdsOf(inv'[p]) : Known(x)'
    BY <1>0, <1>2, <1>4, <1>7, <1>a, TypedIds
  <2>2. Counter(p)'
    <3>1. \A id \in IdsOf(bank'[p]) : Known(id)' \/ id[1] = "bank"
      BY <1>0, <1>4, <1>7, <1>b, TypedIds DEF Counter
    <3>2. ASSUME NEW x \in Names(inv'[p]), NEW y \in Names(bank'[p]), x[1] = y[1]
          PROVE  x[2] = y[2] /\ x[2] \in Stackables
      <4>1. y \in Names(bank[p]) /\ y[1] \in IdsOf(bank[p])
        BY <1>0, <1>4, <1>b, Listed
      <4>2. x[1] # g
        BY <1>2, <3>2, <4>1
      <4>3. x \in Names(inv[p])
        BY <1>4, <1>a, <4>2
      <4> QED BY <1>0, <3>2, <4>1, <4>3 DEF Counter
    <3> QED BY <1>4, <1>b, <3>1, <3>2 DEF Counter
  <2>3. NoMoney(p)'
    <3>1. <<out.id, out.kind>> \in Names(bank[p])
      BY <1>0, <1>o, Listed
    <3>2. out.kind # Meseta
      BY <1>0, <3>1 DEF NoMoney
    <3>3. \A x \in Names(inv'[p]) : x[2] # Meseta
      BY <1>0, <1>4, <1>a, <3>2 DEF NoMoney
    <3>4. \A x \in Names(bank'[p]) : x[2] # Meseta
      BY <1>0, <1>4, <1>b DEF NoMoney
    <3> QED BY <1>0, <1>1, <3>3, <3>4 DEF NoMoney
  <2> QED BY <1>0, <1>1, <1>4, <1>a, <2>1, <2>2, <2>3 DEF His, AtBank, Play
<1>11. made <= made' /\ \A s \in Slots : visits[s] = 0 => high'[s] = 0
  BY <1>t, <1>0, <1>1 DEF Seats
<1> QED BY <1>5, <1>6, <1>8, <1>9, <1>10, <1>11, StepKeeps

-----------------------------------------------------------------------------
(* The theorems about ids.                                                  *)

LEMMA NextKeeps ==
    ASSUME Inv, [Next]_vars
    PROVE  Inv'
<1>1. CASE UNCHANGED vars
  BY <1>1 DEF vars, game, things, Inv, TypeOK, Seats, FloorKnown, Known, Numbers, Fresh, Given,
              IdsNameItems, Present, His, Counter, Splitting, NoMoney
<1>2. ASSUME NEW p \in Players, NEW id \in IdsOf(inv[p]) \cup {NoId},
             NEW n \in 1 .. Max({StackMax, MesetaMax}), DropPos(p, id, n)
      PROVE  Inv'
  <2>1. n \in Nat
    OBVIOUS
  <2> QED BY <1>2, <2>1, DropPosKeeps
<1>3. ASSUME NEW p \in Players, NEW i \in DOMAIN inv[p], NEW n \in 1 .. StackMax, Deposit(p, i, n)
      PROVE  Inv'
  BY <1>3, DepositKeeps
<1>4. ASSUME NEW p \in Players, NEW i \in DOMAIN bank[p], NEW n \in 1 .. StackMax, Withdraw(p, i, n)
      PROVE  Inv'
  BY <1>4, WithdrawKeeps
<1>5. ASSUME NEW p \in Players, NEW n \in 1 .. MesetaMax, DepositMeseta(p, n) \/ WithdrawMeseta(p, n)
      PROVE  Inv'
  BY <1>5, MesetaKeeps
<1> QED BY <1>1, <1>2, <1>3, <1>4, <1>5, JoinKeeps, LeaveKeeps, DropStackKeeps, SortInvKeeps,
           OpenBankKeeps, CloseBankKeeps, DropItemKeeps, PickUpKeeps, MakeItemKeeps DEF Next

\* The invariant holds of every behaviour of the handlers: it says what an id that a slot or
\* the game gave is, who sits where, and that what a client waits for is still there.
THEOREM InvHolds == Spec => []Inv
<1>1. Init => Inv
  BY InitInv
<1>2. Inv /\ [Next]_vars => Inv'
  BY NextKeeps
<1> QED BY <1>1, <1>2, PTL DEF Spec

\* Every list stays a list of items no longer than it may be, and nobody carries less
\* than nothing or more than MesetaMax (the code's own limits, subcmd.c and items.c).
THEOREM TypeCorrect == Spec => []TypeOK
<1>1. Inv => TypeOK
  BY DEF Inv
<1> QED BY <1>1, InvHolds, PTL

\* While no slot was given twice, one id is one item for all clients (join_game, lobby.c and
\* the handlers that give ids).
THEOREM OneIdOneItem == Spec => []IdsNameItems
<1>1. Inv => IdsNameItems
  BY DEF Inv
<1> QED BY <1>1, InvHolds, PTL

\* A client at the bank sees every item under an id of its own (cleanup_bb_bank,
\* item_deposit_to_bank and handle_bb_bank_action).
THEOREM OneIdAtTheBank == Spec => []BankIdsNameItems
<1>1. Inv => BankIdsNameItems
  BY DEF Inv, His, Counter, BankIdsNameItems
<1> QED BY <1>1, InvHolds, PTL

\* Only these steps throw a player out.
Thrown(p) ==
    \/ \E id \in IdsOf(floor) : PickUp(p, id)
    \/ \E i \in DOMAIN inv[p], n \in 1 .. StackMax : Deposit(p, i, n)
    \/ \E i \in DOMAIN bank[p], n \in 1 .. StackMax : Withdraw(p, i, n)

LEMMA WhoIsThrown ==
    ASSUME [Next]_vars, NEW p \in kicked' \ kicked
    PROVE  p \in Players /\ kicked' = kicked \cup {p} /\ Thrown(p)
<1>1. CASE UNCHANGED vars
  BY <1>1 DEF vars
<1>2. ASSUME NEW q \in Players,
             Join(q) \/ Leave(q) \/ DropStack(q) \/ SortInv(q) \/ OpenBank(q) \/ CloseBank(q)
      PROVE  FALSE
  BY <1>2 DEF Join, Leave, DropStack, SortInv, OpenBank, CloseBank
<1>3. ASSUME NEW q \in Players, NEW i \in DOMAIN inv[q], DropItem(q, i)
      PROVE  FALSE
  BY <1>3 DEF DropItem
<1>4. ASSUME NEW q \in Players, NEW id \in IdsOf(inv[q]) \cup {NoId},
             NEW n \in 1 .. Max({StackMax, MesetaMax}), DropPos(q, id, n)
      PROVE  FALSE
  BY <1>4 DEF DropPos
<1>5. ASSUME NEW q \in Players, NEW n \in 1 .. MesetaMax, DepositMeseta(q, n) \/ WithdrawMeseta(q, n)
      PROVE  FALSE
  BY <1>5 DEF DepositMeseta, WithdrawMeseta
<1>6. ASSUME NEW kind \in Gifts, MakeItem(kind)
      PROVE  FALSE
  BY <1>6 DEF MakeItem
<1>7. ASSUME NEW q \in Players, NEW id \in IdsOf(floor), PickUp(q, id)
      PROVE  p \in Players /\ kicked' = kicked \cup {p} /\ Thrown(p)
  <2>1. kicked' = kicked \cup {q} \/ kicked' = kicked
    BY <1>7 DEF PickUp, Kick
  <2> QED BY <1>7, <2>1 DEF Thrown
<1>8. ASSUME NEW q \in Players, NEW i \in DOMAIN inv[q], NEW n \in 1 .. StackMax, Deposit(q, i, n)
      PROVE  p \in Players /\ kicked' = kicked \cup {p} /\ Thrown(p)
  <2>1. kicked' = kicked \cup {q} \/ kicked' = kicked
    BY <1>8 DEF Deposit, Kick
  <2> QED BY <1>8, <2>1 DEF Thrown
<1>9. ASSUME NEW q \in Players, NEW i \in DOMAIN bank[q], NEW n \in 1 .. StackMax, Withdraw(q, i, n)
      PROVE  p \in Players /\ kicked' = kicked \cup {p} /\ Thrown(p)
  <2>1. kicked' = kicked \cup {q} \/ kicked' = kicked
    BY <1>9 DEF Withdraw, Kick
  <2> QED BY <1>9, <2>1 DEF Thrown
<1> QED BY <1>1, <1>2, <1>3, <1>4, <1>5, <1>6, <1>7, <1>8, <1>9 DEF Next

LEMMA ThrownStep ==
    ASSUME Inv, [Next]_vars, NEW p \in kicked' \ kicked
    PROVE  \/ Len(inv[p]) = InvMax \/ Len(bank[p]) = BankMax
           \/ \E s \in Slots : visits[s] = 2
<1>t. TypeOK /\ FloorKnown /\ IdsNameItems /\ \A q \in Players : His(q)
  BY DEF Inv
<1>1. p \in Players /\ p \in kicked' /\ p \notin kicked /\ Thrown(p)
  BY WhoIsThrown
<1>2. ASSUME NEW id \in IdsOf(floor), PickUp(p, id), Len(inv[p]) # InvMax
      PROVE  \E s \in Slots : visits[s] = 2
  <2>1. floor \in Seq(Item) /\ p \in Present
    BY <1>t, <1>1, <1>2 DEF TypeOK, PickUp, Ready, Present
  <2>2. floor[Place(floor, id)].id = id
    BY <2>1, PlaceFacts
  <2>3. ~CanAdd(inv[p], floor[Place(floor, id)])
    BY <1>1, <1>2 DEF PickUp
  <2>4. id \in IdsOf(inv[p])
    BY <1>2, <2>2, <2>3 DEF CanAdd
  <2>5. ~(\A s \in Slots : visits[s] < 2)
    BY <1>t, <2>1, <2>4 DEF IdsNameItems
  <2>6. \A s \in Slots : visits[s] \in 0 .. 2
    BY <1>t DEF TypeOK
  <2> QED BY <2>5, <2>6
<1>3. ASSUME NEW i \in DOMAIN inv[p], NEW n \in 1 .. StackMax, Deposit(p, i, n)
      PROVE  Len(bank[p]) = BankMax
  BY <1>1, <1>3 DEF Deposit, CanDeposit
<1>4. ASSUME NEW i \in DOMAIN bank[p], NEW n \in 1 .. StackMax, Withdraw(p, i, n)
      PROVE  Len(inv[p]) = InvMax
  <2>1. PICK id : id = <<"game", 0, made>>
    OBVIOUS
  <2>2. id \notin IdsOf(inv[p])
    <3>1. p \in Present
      BY <1>t, <1>1, <1>4 DEF Withdraw, Banking, His, Present, AtBank, Play
    <3> QED BY <1>t, <2>1, <3>1, NewOfGame DEF New
  <2>3. PICK out : out = [bank[p][i] EXCEPT !.n = n]
    OBVIOUS
  <2>4. PICK it : it = [out EXCEPT !.id = id]
    OBVIOUS
  <2>5. ~CanAdd(inv[p], it)
    BY <1>1, <1>4, <2>1, <2>3, <2>4 DEF Withdraw
  <2>6. it.id = id
    <3>1. bank[p] \in Seq(Item) /\ i \in 1 .. Len(bank[p])
      BY <1>t, <1>1 DEF TypeOK
    <3>2. bank[p][i] \in Item
      BY <3>1, Elements
    <3> QED BY <2>3, <2>4, <3>2 DEF Item
  <2> QED BY <2>2, <2>5, <2>6 DEF CanAdd
<1> QED BY <1>1, <1>2, <1>3, <1>4 DEF Thrown

\* A client that asks for what it sees is thrown out only when its inventory or bank is
\* full, or when a slot was given twice (item_add_to_inv and item_deposit_to_bank).
THEOREM ThrownOnlyFor == Spec => ThrownOutFor
<1>1. Inv /\ [Next]_vars => [\A p \in kicked' \ kicked : \/ Len(inv[p]) = InvMax \/ Len(bank[p]) = BankMax
                                                         \/ \E s \in Slots : visits[s] = 2]_vars
  BY ThrownStep
<1> QED BY <1>1, InvHolds, PTL DEF Spec, ThrownOutFor

-----------------------------------------------------------------------------
(* How much there is.                                                       *)

Worths(items, kind) == [i \in DOMAIN items |-> Worth(items[i], kind)]

LEMMA UnitsAs ==
    ASSUME NEW items \in Seq(Item), NEW kind
    PROVE  /\ Units(items, kind) = Total(Worths(items, kind), 1 .. Len(items))
           /\ Counts(Worths(items, kind), 1 .. Len(items))
           /\ \A i \in 1 .. Len(items) : Worths(items, kind)[i] = Worth(items[i], kind)
           /\ \A i \in 1 .. Len(items) : Worth(items[i], kind) \in Nat
           /\ Units(items, kind) \in Nat
<1>1. DOMAIN items = 1 .. Len(items) /\ Len(items) \in Nat /\ DOMAIN Worths(items, kind) = 1 .. Len(items)
  BY DEF Worths
<1>2. Units(items, kind) = Total(Worths(items, kind), 1 .. Len(items))
  BY <1>1 DEF Units, SumFunction, Total, Worths
<1>3. \A i \in 1 .. Len(items) : Worths(items, kind)[i] = Worth(items[i], kind)
  BY <1>1 DEF Worths
<1>4. \A i \in 1 .. Len(items) : Worth(items[i], kind) \in Nat
  <2>1. \A i \in 1 .. Len(items) : items[i].n \in Nat
    BY Listed
  <2> QED BY <2>1 DEF Worth
<1>5. Counts(Worths(items, kind), 1 .. Len(items))
  BY <1>1, <1>3, <1>4, FS_Interval DEF Counts
<1>6. Units(items, kind) \in Nat
  BY <1>2, <1>5, TotalNat
<1> QED BY <1>2, <1>3, <1>4, <1>5, <1>6

LEMMA UnitsSame ==
    ASSUME NEW items \in Seq(Item), NEW r \in Seq(Item), NEW kind, Len(r) = Len(items),
           \A i \in 1 .. Len(items) : Worth(r[i], kind) = Worth(items[i], kind)
    PROVE  Units(r, kind) = Units(items, kind)
<1>1. \A i \in 1 .. Len(items) : Worths(r, kind)[i] = Worths(items, kind)[i]
  BY UnitsAs
<1>2. /\ Units(r, kind) = Total(Worths(r, kind), 1 .. Len(items))
      /\ Units(items, kind) = Total(Worths(items, kind), 1 .. Len(items))
      /\ Counts(Worths(r, kind), 1 .. Len(items))
  BY UnitsAs
<1> QED BY <1>1, <1>2, TotalSame

LEMMA UnitsChange ==
    ASSUME NEW items \in Seq(Item), NEW r \in Seq(Item), NEW kind, Len(r) = Len(items),
           NEW i \in 1 .. Len(items), \A j \in 1 .. Len(items) : j # i => r[j] = items[j]
    PROVE  Units(r, kind) + Worth(items[i], kind) = Units(items, kind) + Worth(r[i], kind)
<1>1. /\ \A j \in 1 .. Len(items) : j # i => Worths(items, kind)[j] = Worths(r, kind)[j]
      /\ Worths(items, kind)[i] = Worth(items[i], kind) /\ Worths(r, kind)[i] = Worth(r[i], kind)
  BY UnitsAs
<1>2. /\ Units(r, kind) = Total(Worths(r, kind), 1 .. Len(items))
      /\ Units(items, kind) = Total(Worths(items, kind), 1 .. Len(items))
      /\ Counts(Worths(r, kind), 1 .. Len(items)) /\ Counts(Worths(items, kind), 1 .. Len(items))
  BY UnitsAs
<1>3. Total(Worths(r, kind), 1 .. Len(items)) + Worths(items, kind)[i]
        = Total(Worths(items, kind), 1 .. Len(items)) + Worths(r, kind)[i]
  BY <1>1, <1>2, TotalChange
<1> QED BY <1>1, <1>2, <1>3

\* A list that is another without its item i, in some order.
Omits(r, items, i, from) ==
    /\ \A k \in 1 .. Len(r) : from[k] \in 1 .. Len(items) /\ from[k] # i /\ r[k] = items[from[k]]
    /\ \A j, k \in 1 .. Len(r) : from[j] = from[k] => j = k
    /\ \A j \in 1 .. Len(items) : j # i => \E k \in 1 .. Len(r) : from[k] = j

LEMMA UnitsWithout ==
    ASSUME NEW items \in Seq(Item), NEW r \in Seq(Item), NEW kind, NEW i \in 1 .. Len(items),
           NEW from, Omits(r, items, i, from)
    PROVE  Units(items, kind) = Worth(items[i], kind) + Units(r, kind)
<1> DEFINE D == 1 .. Len(r)
           T == (1 .. Len(items)) \ {i}
           F == Worths(r, kind)
           G == Worths(items, kind)
<1>1. /\ Units(r, kind) = Total(F, D) /\ Counts(F, D) /\ \A k \in D : F[k] = Worth(r[k], kind)
  BY UnitsAs
<1>2. /\ Units(items, kind) = Total(G, 1 .. Len(items)) /\ Counts(G, 1 .. Len(items))
      /\ \A k \in 1 .. Len(items) : G[k] = Worth(items[k], kind)
  BY UnitsAs
<1>3. Counts(G, T)
  BY <1>2, CountsLess
<1>4. Matches(F, D, G, T, from)
  <2>1. \A k \in D : from[k] \in T /\ F[k] = G[from[k]]
    BY <1>1, <1>2 DEF Omits
  <2>2. \A z \in T : \E k \in D : from[k] = z
    BY DEF Omits
  <2>3. \A j, k \in D : from[j] = from[k] => j = k
    BY DEF Omits
  <2> HIDE DEF F, G, T, D
  <2> QED BY <2>1, <2>2, <2>3 DEF Matches
<1>5. Total(G, 1 .. Len(items)) = G[i] + Total(G, T)
  <2> HIDE DEF G
  <2> QED BY <1>2, TotalSplit
<1> HIDE DEF F, G, D, T
<1>6. Total(F, D) = Total(G, T)
  BY <1>1, <1>3, <1>4, TotalMatch
<1> QED BY <1>1, <1>2, <1>5, <1>6

LEMMA RemoveUnits ==
    ASSUME NEW items \in Seq(Item), NEW i \in 1 .. Len(items), NEW kind
    PROVE  Units(items, kind) = Worth(items[i], kind) + Units(RemoveAt(items, i), kind)
<1> DEFINE r == RemoveAt(items, i)
           from == [k \in 1 .. Len(items) - 1 |-> IF k < i THEN k ELSE k + 1]
<1>1. /\ r \in Seq(Item) /\ Len(r) = Len(items) - 1 /\ Len(items) \in Nat
      /\ \A k \in 1 .. Len(items) - 1 : r[k] = items[from[k]]
  BY RemoveFacts
<1>2. /\ \A k \in 1 .. Len(r) : from[k] \in 1 .. Len(items) /\ from[k] # i
      /\ \A j, k \in 1 .. Len(r) : from[j] = from[k] => j = k
  BY <1>1
<1>3. ASSUME NEW j \in 1 .. Len(items), j # i PROVE \E k \in 1 .. Len(r) : from[k] = j
  <2>1. CASE j < i
    <3>1. j \in 1 .. Len(r) /\ from[j] = j
      BY <1>1, <2>1
    <3> QED BY <3>1
  <2>2. CASE j > i
    <3>1. j - 1 \in 1 .. Len(r) /\ from[j - 1] = j
      BY <1>1, <2>2
    <3> QED BY <3>1
  <2> QED BY <1>1, <1>3, <2>1, <2>2
<1>4. \A k \in 1 .. Len(r) : from[k] \in 1 .. Len(items) /\ from[k] # i /\ r[k] = items[from[k]]
  BY <1>1, <1>2
<1> HIDE DEF r, from
<1>5. Units(items, kind) = Worth(items[i], kind) + Units(r, kind)
  <2>1. Omits(r, items, i, from)
    BY <1>2, <1>3, <1>4 DEF Omits
  <2> QED BY <1>1, <2>1, UnitsWithout
<1> QED BY <1>5 DEF r

LEMMA AppendUnits ==
    ASSUME NEW items \in Seq(Item), NEW it \in Item, NEW kind
    PROVE  Units(Append(items, it), kind) = Worth(it, kind) + Units(items, kind)
<1> DEFINE r == Append(items, it)
           L == Len(items)
           from == [k \in 1 .. L |-> k]
<1>1. /\ r \in Seq(Item) /\ Len(r) = L + 1 /\ L \in Nat /\ r[L + 1] = it
      /\ \A k \in 1 .. L : r[k] = items[k]
  BY AppendFacts
<1> HIDE DEF r
<1>2. L + 1 \in 1 .. Len(r)
  BY <1>1
<1>3. /\ \A k \in 1 .. L : from[k] \in 1 .. Len(r) /\ from[k] # L + 1 /\ items[k] = r[from[k]]
      /\ \A j, k \in 1 .. L : from[j] = from[k] => j = k
      /\ \A j \in 1 .. Len(r) : j # L + 1 => \E k \in 1 .. L : from[k] = j
  BY <1>1
<1> HIDE DEF from
<1>4. Units(r, kind) = Worth(r[L + 1], kind) + Units(items, kind)
  <2>1. Omits(items, r, L + 1, from)
    BY <1>3 DEF Omits
  <2> QED BY <1>1, <1>2, <2>1, UnitsWithout
<1> QED BY <1>1, <1>4 DEF r

LEMMA PutFirstUnits ==
    ASSUME NEW items \in Seq(Item), NEW it \in Item, NEW kind
    PROVE  Units(<<it>> \o items, kind) = Worth(it, kind) + Units(items, kind)
<1> DEFINE r == <<it>> \o items
           L == Len(items)
           from == [k \in 1 .. L |-> k + 1]
<1>1. /\ r \in Seq(Item) /\ Len(r) = L + 1 /\ L \in Nat /\ r[1] = it
      /\ \A k \in 1 .. L : r[k + 1] = items[k]
  BY PutFirst
<1> HIDE DEF r
<1>2. 1 \in 1 .. Len(r)
  BY <1>1
<1>3. /\ \A k \in 1 .. L : from[k] \in 1 .. Len(r) /\ from[k] # 1 /\ items[k] = r[from[k]]
      /\ \A j, k \in 1 .. L : from[j] = from[k] => j = k
  BY <1>1
<1>4. ASSUME NEW j \in 1 .. Len(r), j # 1 PROVE \E k \in 1 .. L : from[k] = j
  <2>1. j - 1 \in 1 .. L /\ from[j - 1] = j
    BY <1>1, <1>4
  <2> QED BY <2>1
<1> HIDE DEF from
<1>5. Units(r, kind) = Worth(r[1], kind) + Units(items, kind)
  <2>1. Omits(items, r, 1, from)
    BY <1>3, <1>4 DEF Omits
  <2> QED BY <1>1, <1>2, <2>1, UnitsWithout
<1> QED BY <1>1, <1>5 DEF r

LEMMA SortUnits ==
    ASSUME NEW items \in Seq(Item), NEW order \in SetToSeqs(DOMAIN items), NEW kind
    PROVE  Units(Sorted(items, order), kind) = Units(items, kind)
<1> DEFINE r == Sorted(items, order)
           D == 1 .. Len(items)
           F == Worths(r, kind)
           G == Worths(items, kind)
<1>1. /\ r \in Seq(Item) /\ Len(r) = Len(items)
      /\ \A i \in D : order[i] \in D /\ r[i] = items[order[i]]
      /\ \A i, j \in D : order[i] = order[j] => i = j
  BY SortNames
<1>2. \A j \in D : \E i \in D : order[i] = j
  <2>1. Len(items) \in Nat /\ IsFiniteSet(D) /\ Cardinality(D) = Len(items) /\ DOMAIN items = D
    <3>1. Len(items) \in Nat /\ DOMAIN items = D
      OBVIOUS
    <3> QED BY <3>1, FS_Interval
  <2>2. order \in [D -> D]
    BY <2>1 DEF SetToSeqs
  <2> HIDE DEF D
  <2>3. order \in Injection(D, D)
    BY <1>1, <2>2 DEF Injection, IsInjective
  <2>4. order \in Surjection(D, D)
    BY <2>1, <2>3, FS_Injection
  <2> QED BY <2>4 DEF Surjection
<1> HIDE DEF r
<1>3. /\ Units(r, kind) = Total(F, D) /\ Counts(F, D) /\ \A k \in D : F[k] = Worth(r[k], kind)
  BY <1>1, UnitsAs
<1>4. /\ Units(items, kind) = Total(G, D) /\ Counts(G, D) /\ \A k \in D : G[k] = Worth(items[k], kind)
  BY UnitsAs
<1> HIDE DEF F, G, D
<1>5. Matches(F, D, G, D, order)
  BY <1>1, <1>2, <1>3, <1>4 DEF Matches
<1>6. Total(F, D) = Total(G, D)
  BY <1>3, <1>4, <1>5, TotalMatch
<1> QED BY <1>3, <1>4, <1>6 DEF r

\* What is taken of an item is missing: part of a stack, or all of it.
LEMMA TakeUnits ==
    ASSUME NEW items \in Seq(Item), NEW i \in 1 .. Len(items), NEW id, Place(items, id) = i,
           NEW n \in Nat, n > 0, n <= items[i].n,
           NEW part \in Item, part.kind = items[i].kind, part.n = n,
           NEW kind, kind \in Kinds \/ items[i].kind # kind
    PROVE  Units(TakeFrom(items, id, n), kind) + Worth(part, kind) = Units(items, kind)
<1>0. items[i] \in Item /\ items[i].n \in Nat
  BY Listed
<1>1. CASE ~(items[i].kind \in Stackables /\ n < items[i].n)
  <2>1. TakeFrom(items, id, n) = RemoveAt(items, i)
    BY <1>1 DEF TakeFrom
  <2>2. Worth(part, kind) = Worth(items[i], kind)
    <3>1. CASE items[i].kind # kind
      BY <3>1 DEF Worth
    <3>2. CASE items[i].kind = kind /\ kind \in Singles
      BY <3>2 DEF Worth
    <3>3. CASE items[i].kind = kind /\ kind \in Stackables
      <4>1. n = items[i].n
        BY <1>0, <1>1, <3>3
      <4> QED BY <4>1 DEF Worth
    <3> QED BY <3>1, <3>2, <3>3 DEF Kinds
  <2>3. Units(items, kind) = Worth(items[i], kind) + Units(RemoveAt(items, i), kind)
    BY RemoveUnits
  <2>4. Worth(items[i], kind) \in Nat /\ Units(RemoveAt(items, i), kind) \in Nat
    BY UnitsAs, RemoveNames
  <2> QED BY <2>1, <2>2, <2>3, <2>4
<1>2. CASE items[i].kind \in Stackables /\ n < items[i].n
  <2> DEFINE r == TakeFrom(items, id, n)
             rest == [items[i] EXCEPT !.n = @ - n]
  <2>1. r = [items EXCEPT ![i] = rest]
    BY <1>2 DEF TakeFrom
  <2>2. items[i].n - n \in Nat
    BY <1>0, <1>2
  <2>3. rest \in Item /\ rest.kind = items[i].kind /\ rest.n = items[i].n - n
    BY <1>0, <2>2 DEF Item
  <2> HIDE DEF rest
  <2>4. /\ r \in Seq(Item) /\ Len(r) = Len(items) /\ r[i] = rest
        /\ \A j \in 1 .. Len(items) : j # i => r[j] = items[j]
    BY <2>1, <2>3
  <2> HIDE DEF r
  <2>5. Units(r, kind) + Worth(items[i], kind) = Units(items, kind) + Worth(rest, kind)
    BY <2>4, UnitsChange
  <2>6. Worth(items[i], kind) = Worth(rest, kind) + Worth(part, kind)
    <3>1. items[i].kind \notin Singles
      BY <1>2, ItemsAssumption
    <3> QED BY <1>0, <2>3, <3>1 DEF Worth
  <2>7. Units(r, kind) \in Nat /\ Units(items, kind) \in Nat
    BY <2>4, UnitsAs
  <2>8. Worth(rest, kind) \in Nat /\ Worth(part, kind) \in Nat
    BY <1>0, <2>2, <2>3 DEF Worth
  <2> QED BY <2>5, <2>6, <2>7, <2>8 DEF r
<1> QED BY <1>1, <1>2

\* What is merged in is there.
LEMMA MergeUnits ==
    ASSUME NEW items \in Seq(Item), NEW it \in Item, NEW kind
    PROVE  Units(Merge(items, it), kind) = Units(items, kind) + Worth(it, kind)
<1>0. it.n \in Nat /\ Worth(it, kind) \in Nat
  BY DEF Item, Worth
<1>1. CASE ~(it.kind \in Stackables /\ HasKind(items, it.kind))
  <2>1. Merge(items, it) = Append(items, it)
    BY <1>1 DEF Merge
  <2>2. Units(Append(items, it), kind) = Worth(it, kind) + Units(items, kind)
    BY AppendUnits
  <2>3. Units(items, kind) \in Nat
    BY UnitsAs
  <2> QED BY <1>0, <2>1, <2>2, <2>3
<1>2. CASE it.kind \in Stackables /\ HasKind(items, it.kind)
  <2>p. PICK i \in 1 .. Len(items) : i = PlaceOfKind(items, it.kind) /\ items[i].kind = it.kind
    BY <1>2, PlaceOfKindFacts
  <2> DEFINE r == Merge(items, it)
             sum == [items[i] EXCEPT !.n = @ + it.n]
  <2>1. r = [items EXCEPT ![i] = sum]
    BY <1>2, <2>p DEF Merge
  <2>2. items[i] \in Item /\ items[i].n \in Nat /\ items[i].n + it.n \in Nat
    <3>1. items[i] \in Item /\ items[i].n \in Nat
      BY Listed
    <3> QED BY <1>0, <3>1
  <2>3. sum \in Item /\ sum.kind = items[i].kind /\ sum.n = items[i].n + it.n
    BY <2>2 DEF Item
  <2> HIDE DEF sum
  <2>4. /\ r \in Seq(Item) /\ Len(r) = Len(items) /\ r[i] = sum
        /\ \A j \in 1 .. Len(items) : j # i => r[j] = items[j]
    BY <2>1, <2>3
  <2> HIDE DEF r
  <2>5. Units(r, kind) + Worth(items[i], kind) = Units(items, kind) + Worth(sum, kind)
    BY <2>4, UnitsChange
  <2>6. Worth(sum, kind) = Worth(items[i], kind) + Worth(it, kind) /\ Worth(items[i], kind) \in Nat
    <3>1. it.kind \notin Singles
      BY <1>2, ItemsAssumption
    <3> QED BY <1>0, <2>p, <2>2, <2>3, <3>1 DEF Worth
  <2>7. Units(r, kind) \in Nat /\ Units(items, kind) \in Nat
    BY <2>4, UnitsAs
  <2> QED BY <1>0, <2>5, <2>6, <2>7 DEF r
<1> QED BY <1>1, <1>2

\* Goods and money change by what changes on the floor and for one player.
Here(p, kind) == Units(floor, kind) + (Units(inv[p], kind) + Units(bank[p], kind))
Coins(p) == Units(floor, Meseta) + (purse[p] + bankPurse[p])

LEMMA GoodsBalance ==
    ASSUME NEW p \in Players, TypeOK, TypeOK', NEW kind,
           \A q \in Players : q # p => /\ Units(inv'[q], kind) = Units(inv[q], kind)
                                       /\ Units(bank'[q], kind) = Units(bank[q], kind),
           Here(p, kind)' = Here(p, kind)
    PROVE  Goods(kind)' = Goods(kind)
<1> DEFINE F == [q \in Players |-> Units(inv[q], kind) + Units(bank[q], kind)]
           G == [q \in Players |-> Units(inv'[q], kind) + Units(bank'[q], kind)]
<1>1. /\ \A q \in Players : Units(inv[q], kind) \in Nat /\ Units(bank[q], kind) \in Nat
      /\ \A q \in Players : Units(inv'[q], kind) \in Nat /\ Units(bank'[q], kind) \in Nat
      /\ Units(floor, kind) \in Nat /\ Units(floor', kind) \in Nat
  BY UnitsAs DEF TypeOK
<1>2. /\ \A q \in Players : F[q] = Units(inv[q], kind) + Units(bank[q], kind)
      /\ \A q \in Players : G[q] = Units(inv'[q], kind) + Units(bank'[q], kind)
  OBVIOUS
<1>3. /\ Goods(kind) = Units(floor, kind) + Total(F, Players)
      /\ Goods(kind)' = Units(floor', kind) + Total(G, Players)
  BY DEF Goods, SumFunction, Total
<1> HIDE DEF F, G
<1>4. \A q \in Players : F[q] \in Nat /\ G[q] \in Nat
  BY <1>1, <1>2
<1>5. Counts(F, Players) /\ Counts(G, Players)
  BY <1>4, ItemsAssumption DEF Counts
<1>6. \A q \in Players : q # p => F[q] = G[q]
  BY <1>2
<1>7. Total(G, Players) + F[p] = Total(F, Players) + G[p]
  BY <1>5, <1>6, TotalChange
<1>8. Total(G, Players) \in Nat /\ Total(F, Players) \in Nat
  BY <1>5, TotalNat
<1>9. Units(floor', kind) + G[p] = Units(floor, kind) + F[p]
  BY <1>2 DEF Here
<1> QED BY <1>1, <1>3, <1>4, <1>7, <1>8, <1>9

LEMMA MoneyBalance ==
    ASSUME NEW p \in Players, TypeOK, TypeOK',
           \A q \in Players : q # p => purse'[q] = purse[q] /\ bankPurse'[q] = bankPurse[q]
    PROVE  /\ Money' + Coins(p) = Money + Coins(p)'
           /\ Money \in Nat /\ Money' \in Nat /\ Coins(p) \in Nat /\ Coins(p)' \in Nat
<1> DEFINE F == [q \in Players |-> purse[q] + bankPurse[q]]
           G == [q \in Players |-> purse'[q] + bankPurse'[q]]
<1>1. /\ \A q \in Players : purse[q] \in Nat /\ bankPurse[q] \in Nat
      /\ \A q \in Players : purse'[q] \in Nat /\ bankPurse'[q] \in Nat
      /\ Units(floor, Meseta) \in Nat /\ Units(floor', Meseta) \in Nat
  BY UnitsAs DEF TypeOK
<1>2. /\ \A q \in Players : F[q] = purse[q] + bankPurse[q]
      /\ \A q \in Players : G[q] = purse'[q] + bankPurse'[q]
  OBVIOUS
<1>3. /\ Money = Units(floor, Meseta) + Total(F, Players)
      /\ Money' = Units(floor', Meseta) + Total(G, Players)
  BY DEF Money, SumFunction, Total
<1> HIDE DEF F, G
<1>4. \A q \in Players : F[q] \in Nat /\ G[q] \in Nat
  BY <1>1, <1>2
<1>5. Counts(F, Players) /\ Counts(G, Players)
  BY <1>4, ItemsAssumption DEF Counts
<1>6. \A q \in Players : q # p => F[q] = G[q]
  BY <1>2
<1>7. Total(G, Players) + F[p] = Total(F, Players) + G[p]
  BY <1>5, <1>6, TotalChange
<1>8. Total(G, Players) \in Nat /\ Total(F, Players) \in Nat
  BY <1>5, TotalNat
<1>9. Coins(p) = Units(floor, Meseta) + F[p] /\ Coins(p)' = Units(floor', Meseta) + G[p]
  BY <1>2 DEF Coins
<1> QED BY <1>1, <1>3, <1>4, <1>7, <1>8, <1>9

-----------------------------------------------------------------------------
(* What a step does to how much there is.                                   *)

\* The rest of the game has what it had.
OthersKeep(p) ==
    \A q \in Players : q # p => /\ inv'[q] = inv[q] /\ bank'[q] = bank[q]
                                /\ purse'[q] = purse[q] /\ bankPurse'[q] = bankPurse[q]
AsMany(r, items) ==
    Len(r) = Len(items) /\ \A i \in 1 .. Len(items) : r[i].kind = items[i].kind /\ r[i].n = items[i].n
GoodsSame == \A kind \in Kinds : Goods(kind)' = Goods(kind)

LEMMA AsManyUnits ==
    ASSUME NEW items \in Seq(Item), NEW r \in Seq(Item), NEW kind, AsMany(r, items)
    PROVE  Units(r, kind) = Units(items, kind)
<1>1. Len(r) = Len(items) /\ \A i \in 1 .. Len(items) : Worth(r[i], kind) = Worth(items[i], kind)
  BY DEF AsMany, Worth
<1> QED BY <1>1, UnitsSame

LEMMA HereSame ==
    ASSUME NEW p \in Players, TypeOK, TypeOK', OthersKeep(p),
           \A kind \in Kinds : Here(p, kind)' = Here(p, kind)
    PROVE  GoodsSame
<1>1. SUFFICES ASSUME NEW kind \in Kinds PROVE Goods(kind)' = Goods(kind)
  BY DEF GoodsSame
<1>2. \A q \in Players : q # p => /\ Units(inv'[q], kind) = Units(inv[q], kind)
                                  /\ Units(bank'[q], kind) = Units(bank[q], kind)
  BY DEF OthersKeep
<1>3. Here(p, kind)' = Here(p, kind)
  OBVIOUS
<1> QED BY <1>2, <1>3, GoodsBalance

LEMMA SameLists ==
    ASSUME NEW p \in Players, TypeOK, TypeOK', OthersKeep(p), UNCHANGED floor,
           AsMany(inv'[p], inv[p]), AsMany(bank'[p], bank[p])
    PROVE  GoodsSame
<1>1. /\ inv[p] \in Seq(Item) /\ inv'[p] \in Seq(Item)
      /\ bank[p] \in Seq(Item) /\ bank'[p] \in Seq(Item)
  BY DEF TypeOK
<1>2. ASSUME NEW kind \in Kinds PROVE Here(p, kind)' = Here(p, kind)
  BY <1>1, AsManyUnits DEF Here
<1> QED BY <1>2, HereSame

LEMMA CoinsSame ==
    ASSUME NEW p \in Players, TypeOK, TypeOK', OthersKeep(p), Coins(p)' = Coins(p)
    PROVE  Money' = Money
<1>1. \A q \in Players : q # p => purse'[q] = purse[q] /\ bankPurse'[q] = bankPurse[q]
  BY DEF OthersKeep
<1>2. /\ Money' + Coins(p) = Money + Coins(p)'
      /\ Money \in Nat /\ Money' \in Nat /\ Coins(p) \in Nat /\ Coins(p)' \in Nat
  BY <1>1, MoneyBalance
<1> QED BY <1>2

LEMMA CoinsLess ==
    ASSUME NEW p \in Players, TypeOK, TypeOK', OthersKeep(p), Coins(p)' < Coins(p)
    PROVE  Money' < Money
<1>1. \A q \in Players : q # p => purse'[q] = purse[q] /\ bankPurse'[q] = bankPurse[q]
  BY DEF OthersKeep
<1>2. /\ Money' + Coins(p) = Money + Coins(p)'
      /\ Money \in Nat /\ Money' \in Nat /\ Coins(p) \in Nat /\ Coins(p)' \in Nat
  BY <1>1, MoneyBalance
<1> QED BY <1>2

\* No list of a player holds money, and no good is money.
LEMMA NotMoney ==
    ASSUME Inv, NEW p \in Players
    PROVE  /\ \A i \in 1 .. Len(inv[p]) : inv[p][i].kind # Meseta
           /\ \A i \in 1 .. Len(bank[p]) : bank[p][i].kind # Meseta
           /\ \A i : KindInMirror(p, i) # Meseta
           /\ \A it, kind : it.kind # kind => Worth(it, kind) = 0
<1>1. NoMoney(p) /\ inv[p] \in Seq(Item) /\ bank[p] \in Seq(Item)
  BY DEF Inv, His, TypeOK
<1>2. /\ \A i \in 1 .. Len(inv[p]) : inv[p][i].kind # Meseta
      /\ \A i \in 1 .. Len(bank[p]) : bank[p][i].kind # Meseta
  <2>1. /\ \A i \in 1 .. Len(inv[p]) : <<inv[p][i].id, inv[p][i].kind>> \in Names(inv[p])
        /\ \A i \in 1 .. Len(bank[p]) : <<bank[p][i].id, bank[p][i].kind>> \in Names(bank[p])
    BY <1>1, Listed
  <2> QED BY <1>1, <2>1 DEF NoMoney
<1>3. \A i : KindInMirror(p, i) # Meseta
  BY <1>1, ItemsAssumption DEF NoMoney, KindInMirror
<1> QED BY <1>2, <1>3 DEF Worth

LEMMA JoinBalance ==
    ASSUME Inv, TypeOK', NEW p \in Players, Join(p)
    PROVE  GoodsSame /\ Money' = Money
<1>t. TypeOK
  BY DEF Inv
<1>p. PICK s \in Slots, h \in Int : /\ inv' = [inv EXCEPT ![p] = Numbered(@, s, h)]
                                    /\ UNCHANGED <<floor, purse, bank, bankPurse>>
  <2>1. \A s \in Slots : high[s] \in Int
    BY <1>t DEF TypeOK
  <2>2. Min(Vacant) \in Slots
    <3>1. Vacant \in SUBSET Nat /\ Vacant # {} /\ \A x \in Vacant : x \in Slots
      BY ItemsAssumption DEF Vacant, Slots, Join
    <3>2. \E x \in Vacant : \A y \in Vacant : x <= y
      BY <3>1, Smallest
    <3> QED BY <3>1, <3>2 DEF Min
  <2> QED BY <2>1, <2>2 DEF Join
<1>1. inv'[p] = Numbered(inv[p], s, h) /\ inv[p] \in Seq(Item) /\ bank[p] \in Seq(Item)
  BY <1>t, <1>p DEF TypeOK
<1>2. OthersKeep(p)
  BY <1>t, <1>p DEF OthersKeep, TypeOK
<1>3. AsMany(inv'[p], inv[p])
  <2>1. PICK r : r = Numbered(inv[p], s, h)
    OBVIOUS
  <2>2. /\ Len(r) = Len(inv[p])
        /\ \A i \in 1 .. Len(inv[p]) : r[i].kind = inv[p][i].kind /\ r[i].n = inv[p][i].n
    BY <1>1, <2>1, NumberedFacts
  <2> QED BY <1>1, <2>1, <2>2 DEF AsMany
<1>4. AsMany(bank'[p], bank[p])
  BY <1>p DEF AsMany
<1>5. GoodsSame
  BY <1>t, <1>p, <1>2, <1>3, <1>4, SameLists
<1>6. Coins(p)' = Coins(p)
  BY <1>p DEF Coins
<1> QED BY <1>t, <1>2, <1>5, <1>6, CoinsSame

LEMMA CountersBalance ==
    ASSUME Inv, TypeOK', NEW p \in Players, OpenBank(p) \/ CloseBank(p)
    PROVE  GoodsSame /\ Money' = Money
<1>t. TypeOK
  BY DEF Inv
<1>1. /\ inv[p] \in Seq(Item) /\ bank[p] \in Seq(Item)
      /\ UNCHANGED <<floor, inv, purse, bankPurse>>
      /\ \A q \in Players : q # p => bank'[q] = bank[q]
  BY <1>t DEF TypeOK, OpenBank, CloseBank, game
<1>2. AsMany(bank'[p], bank[p])
  <2>1. CASE OpenBank(p)
    <3>1. slot[p] \in Slots /\ bank'[p] = Renumbered(bank[p], slot[p])
      BY <1>t, <2>1 DEF TypeOK, OpenBank, Ready
    <3>2. PICK s \in Slots : s = slot[p]
      BY <3>1
    <3>3. PICK r : r = Renumbered(bank[p], s)
      OBVIOUS
    <3>4. /\ Len(r) = Len(bank[p])
          /\ \A i \in 1 .. Len(bank[p]) : r[i].kind = bank[p][i].kind /\ r[i].n = bank[p][i].n
      BY <1>1, <3>3, RenumberedFacts
    <3> QED BY <3>1, <3>2, <3>3, <3>4 DEF AsMany
  <2>2. CASE CloseBank(p)
    <3>1. bank'[p] = Unnumbered(bank[p])
      BY <1>t, <2>2 DEF TypeOK, CloseBank
    <3> QED BY <1>1, <3>1, UnnumberedFacts DEF AsMany
  <2> QED BY <2>1, <2>2
<1>3. OthersKeep(p)
  BY <1>1 DEF OthersKeep
<1>4. AsMany(inv'[p], inv[p])
  BY <1>1 DEF AsMany
<1>5. GoodsSame
  BY <1>t, <1>1, <1>2, <1>3, <1>4, SameLists
<1>6. Coins(p)' = Coins(p)
  BY <1>1 DEF Coins
<1> QED BY <1>t, <1>3, <1>5, <1>6, CoinsSame

\* The last to leave takes what is on the floor with the game.
LEMMA LeaveBalance ==
    ASSUME Inv, TypeOK', NEW p \in Players, Leave(p)
    PROVE  \/ GoodsSame /\ Money' = Money
           \/ Present' = {} /\ (Money' = Money \/ Money' < Money)
<1>t. TypeOK
  BY DEF Inv
<1>1. /\ inv' = [inv EXCEPT ![p] = Unnumbered(@)] /\ bank' = [bank EXCEPT ![p] = Unnumbered(@)]
      /\ slot' = [slot EXCEPT ![p] = -1] /\ UNCHANGED <<purse, bankPurse>>
      /\ IF Present = {p} THEN floor' = <<>> ELSE UNCHANGED floor
  BY DEF Leave, game
<1>2. /\ inv'[p] = Unnumbered(inv[p]) /\ bank'[p] = Unnumbered(bank[p])
      /\ inv[p] \in Seq(Item) /\ bank[p] \in Seq(Item) /\ floor \in Seq(Item)
  BY <1>t, <1>1 DEF TypeOK
<1>3. OthersKeep(p)
  BY <1>t, <1>1 DEF OthersKeep, TypeOK
<1>4. CASE Present # {p}
  <2>1. AsMany(inv'[p], inv[p]) /\ AsMany(bank'[p], bank[p])
    BY <1>2, UnnumberedFacts DEF AsMany
  <2>2. GoodsSame
    BY <1>t, <1>1, <1>3, <1>4, <2>1, SameLists
  <2>3. Coins(p)' = Coins(p)
    BY <1>1, <1>4 DEF Coins
  <2> QED BY <1>t, <1>3, <2>2, <2>3, CoinsSame
<1>5. CASE Present = {p}
  <2>1. \A q \in Players : slot'[q] = -1
    BY <1>t, <1>1, <1>5 DEF Present, TypeOK
  <2>2. Present' = {}
    BY <2>1 DEF Present
  <2>3. Units(floor', Meseta) = 0 /\ Units(floor, Meseta) \in Nat
    <3>1. floor' = <<>> /\ floor' \in Seq(Item) /\ 1 .. Len(floor') = {}
      BY <1>1, <1>5
    <3> QED BY <1>2, <3>1, UnitsAs, TotalEmpty
  <2>4. purse[p] \in Nat /\ bankPurse[p] \in Nat
    BY <1>t, ItemsAssumption DEF TypeOK
  <2>5. Coins(p)' = Coins(p) \/ Coins(p)' < Coins(p)
    BY <1>1, <2>3, <2>4 DEF Coins
  <2> QED BY <1>t, <1>3, <2>2, <2>5, CoinsSame, CoinsLess
<1> QED BY <1>4, <1>5

LEMMA DropItemBalance ==
    ASSUME Inv, TypeOK', NEW p \in Players, NEW i \in DOMAIN inv[p], DropItem(p, i)
    PROVE  GoodsSame /\ Money' = Money
<1>t. TypeOK /\ His(p)
  BY DEF Inv
<1>0. inv[p] \in Seq(Item) /\ floor \in Seq(Item) /\ i \in 1 .. Len(inv[p]) /\ IdsOnce(inv[p])
  BY <1>t DEF TypeOK, His, DropItem, Ready
<1>i. PICK it \in Item : it = inv[p][i]
  BY <1>0, Elements
<1>1. Place(inv[p], it.id) = i
  BY <1>0, <1>i, PlaceOfOne
<1>2. /\ floor' = <<it>> \o floor /\ inv' = [inv EXCEPT ![p] = RemoveAt(@, i)]
      /\ UNCHANGED <<purse, bank, bankPurse>>
  BY <1>i, <1>1 DEF DropItem
<1>3. inv'[p] = RemoveAt(inv[p], i) /\ OthersKeep(p)
  BY <1>t, <1>2 DEF TypeOK, OthersKeep
<1>4. ASSUME NEW kind
      PROVE  /\ Units(floor', kind) = Worth(it, kind) + Units(floor, kind)
             /\ Units(inv[p], kind) = Worth(it, kind) + Units(inv'[p], kind)
             /\ Worth(it, kind) \in Nat /\ Units(floor, kind) \in Nat /\ Units(inv'[p], kind) \in Nat
             /\ Units(bank[p], kind) \in Nat
  <2>1. inv'[p] \in Seq(Item) /\ bank[p] \in Seq(Item)
    BY <1>t DEF TypeOK
  <2>2. Worth(it, kind) \in Nat
    BY DEF Worth, Item
  <2> QED BY <1>0, <1>i, <1>2, <1>3, <2>1, <2>2, PutFirstUnits, RemoveUnits, UnitsAs
<1>5. ASSUME NEW kind \in Kinds PROVE Here(p, kind)' = Here(p, kind)
  <2>1. /\ Here(p, kind) = Units(floor, kind) + (Units(inv[p], kind) + Units(bank[p], kind))
        /\ Here(p, kind)' = Units(floor', kind) + (Units(inv'[p], kind) + Units(bank[p], kind))
    BY <1>2 DEF Here
  <2>2. /\ Units(floor', kind) = Worth(it, kind) + Units(floor, kind)
        /\ Units(inv[p], kind) = Worth(it, kind) + Units(inv'[p], kind)
        /\ Worth(it, kind) \in Nat /\ Units(floor, kind) \in Nat /\ Units(inv'[p], kind) \in Nat
        /\ Units(bank[p], kind) \in Nat
    BY <1>4
  <2> QED BY <2>1, <2>2
<1>6. GoodsSame
  BY <1>t, <1>3, <1>5, HereSame
<1>7. Worth(it, Meseta) = 0
  BY <1>0, <1>i, NotMoney
<1>8. Coins(p)' = Coins(p)
  BY <1>2, <1>4, <1>7 DEF Coins
<1> QED BY <1>t, <1>3, <1>6, <1>8, CoinsSame

LEMMA SortBalance ==
    ASSUME Inv, TypeOK', NEW p \in Players, SortInv(p)
    PROVE  GoodsSame /\ Money' = Money
<1>t. TypeOK
  BY DEF Inv
<1>0. inv[p] \in Seq(Item)
  BY <1>t DEF TypeOK
<1>p. PICK order \in SetToSeqs(DOMAIN inv[p]) :
          /\ inv'[p] = Sorted(inv[p], order) /\ \A q \in Players : q # p => inv'[q] = inv[q]
          /\ UNCHANGED <<floor, purse, bank, bankPurse>>
  BY <1>t DEF SortInv, Sorted, TypeOK, game
<1>1. OthersKeep(p)
  BY <1>p DEF OthersKeep
<1>2. ASSUME NEW kind \in Kinds PROVE Here(p, kind)' = Here(p, kind)
  <2>1. Units(inv'[p], kind) = Units(inv[p], kind)
    BY <1>0, <1>p, SortUnits
  <2> QED BY <1>p, <2>1 DEF Here
<1>3. Coins(p)' = Coins(p)
  BY <1>p DEF Coins
<1> QED BY <1>t, <1>1, <1>2, <1>3, HereSame, CoinsSame

\* The second packet of a split: the floor gets what the stack gives, if c->items shows the
\* same there.
LEMMA DropStackBalance ==
    ASSUME Inv, TypeOK', NEW p \in Players, DropStack(p)
    PROVE  (GoodsSame \/ SplitAstray(p)) /\ Money' = Money
<1>t. TypeOK
  BY DEF Inv
<1>s. asks[p] \notin {Play, AtBank} /\ p \notin kicked /\ asks'[p] = Play
  BY <1>t DEF DropStack, TypeOK
<1>p. PICK s \in Slots, id \in Ids, n \in Nat \ {0} : s = slot[p] /\ id = asks[p][2] /\ n = asks[p][3]
  BY <1>s, SplitFacts
<1>0. /\ inv[p] \in Seq(Item) /\ bank[p] \in Seq(Item) /\ floor \in Seq(Item) /\ mirror[p] \in Seq(AllKinds)
      /\ high[s] \in Int /\ purse[p] \in Nat /\ bankPurse[p] \in Nat
      /\ inv'[p] \in Seq(Item)
  BY <1>t, ItemsAssumption DEF TypeOK
<1>k. PICK of \in AllKinds : of = IF id = NoId THEN Meseta ELSE KindInMirror(p, Place(inv[p], id))
  BY <1>0 DEF KindInMirror, AllKinds
<1>h. PICK h \in Int : h = high[s] + 1
  BY <1>0
<1>i. PICK it \in Item : it = [id |-> <<"slot", s, h>>, kind |-> of, n |-> n]
  BY IdTypes DEF Item
<1>1. /\ floor' = <<it>> \o floor /\ UNCHANGED <<bank, bankPurse>> /\ OthersKeep(p)
  <2>1. floor' = <<it>> \o floor /\ UNCHANGED <<bank, bankPurse>>
    BY <1>p, <1>k, <1>h, <1>i DEF DropStack, NumberOfSplit
  <2>2. \A q \in Players : q # p => inv'[q] = inv[q] /\ purse'[q] = purse[q]
    BY <1>t DEF DropStack, TypeOK
  <2> QED BY <2>1, <2>2 DEF OthersKeep
<1>2. it.kind = of /\ it.n = n /\ \A kind : Worth(it, kind) \in Nat
  BY <1>i DEF Worth
<1>3. ASSUME NEW kind
      PROVE  /\ Units(floor', kind) = Worth(it, kind) + Units(floor, kind)
             /\ Units(floor, kind) \in Nat /\ Units(inv[p], kind) \in Nat /\ Units(inv'[p], kind) \in Nat
             /\ Units(bank[p], kind) \in Nat
             /\ Here(p, kind) = Units(floor, kind) + (Units(inv[p], kind) + Units(bank[p], kind))
             /\ Here(p, kind)' = Units(floor', kind) + (Units(inv'[p], kind) + Units(bank[p], kind))
  BY <1>0, <1>1, PutFirstUnits, UnitsAs DEF Here
<1>4. /\ Coins(p) = Units(floor, Meseta) + (purse[p] + bankPurse[p])
      /\ Coins(p)' = Units(floor', Meseta) + (purse'[p] + bankPurse[p])
  BY <1>1 DEF Coins
<1>5. CASE id = NoId
  <2>1. of = Meseta /\ inv'[p] = inv[p] /\ purse'[p] = purse[p] - n /\ n <= purse[p]
    BY <1>t, <1>s, <1>p, <1>k, <1>5, SplitFacts DEF DropStack, Left, TypeOK
  <2>2. ASSUME NEW kind \in Kinds PROVE Here(p, kind)' = Here(p, kind)
    <3>1. Worth(it, kind) = 0
      BY <1>2, <2>1, <2>2, ItemsAssumption DEF Worth
    <3>2. /\ Units(floor', kind) = Worth(it, kind) + Units(floor, kind) /\ Units(floor, kind) \in Nat
          /\ Here(p, kind) = Units(floor, kind) + (Units(inv[p], kind) + Units(bank[p], kind))
          /\ Here(p, kind)' = Units(floor', kind) + (Units(inv'[p], kind) + Units(bank[p], kind))
      BY <1>3
    <3> QED BY <2>1, <3>1, <3>2
  <2>3. Worth(it, Meseta) = n
    <3>1. Meseta \notin Singles
      BY ItemsAssumption DEF Kinds
    <3> QED BY <1>2, <2>1, <3>1 DEF Worth
  <2>4. Units(floor', Meseta) = n + Units(floor, Meseta) /\ Units(floor, Meseta) \in Nat
    BY <1>3, <2>3
  <2>5. Coins(p)' = Coins(p)
    BY <1>0, <1>4, <2>1, <2>4
  <2> QED BY <1>t, <1>1, <2>2, <2>5, HereSame, CoinsSame
<1>6. CASE id # NoId
  <2>1. PICK i \in 1 .. Len(inv[p]) : /\ inv[p][i].id = id /\ Place(inv[p], id) = i
                                      /\ inv[p][i].kind \in Stackables /\ n <= inv[p][i].n
    BY <1>p, <1>s, <1>6, SplitFacts
  <2>2. /\ of = KindInMirror(p, i) /\ of # Meseta
        /\ inv'[p] = TakeFrom(inv[p], id, n) /\ purse'[p] = purse[p]
    BY <1>t, <1>p, <1>k, <1>6, <2>1, NotMoney DEF DropStack, TypeOK
  <2>3. ASSUME of = inv[p][i].kind PROVE GoodsSame
    <3>1. ASSUME NEW kind \in Kinds PROVE Here(p, kind)' = Here(p, kind)
      <4>1. Units(inv'[p], kind) + Worth(it, kind) = Units(inv[p], kind)
        <5>1. n \in Nat /\ n > 0 /\ it.kind = inv[p][i].kind /\ it.n = n
          BY <1>2, <2>3
        <5>2. kind \in Kinds \/ inv[p][i].kind # kind
          BY <3>1
        <5>3. Units(TakeFrom(inv[p], id, n), kind) + Worth(it, kind) = Units(inv[p], kind)
          BY <1>0, <2>1, <5>1, <5>2, TakeUnits
        <5> QED BY <2>2, <5>3
      <4>2. /\ Units(floor', kind) = Worth(it, kind) + Units(floor, kind)
            /\ Units(floor, kind) \in Nat /\ Units(inv[p], kind) \in Nat /\ Units(inv'[p], kind) \in Nat
            /\ Units(bank[p], kind) \in Nat /\ Worth(it, kind) \in Nat
            /\ Here(p, kind) = Units(floor, kind) + (Units(inv[p], kind) + Units(bank[p], kind))
            /\ Here(p, kind)' = Units(floor', kind) + (Units(inv'[p], kind) + Units(bank[p], kind))
        BY <1>2, <1>3
      <4> QED BY <4>1, <4>2
    <3> QED BY <1>t, <1>1, <3>1, HereSame
  <2>4. ASSUME of # inv[p][i].kind PROVE SplitAstray(p)
    <3>1. asks[p][2] = id /\ Place(inv[p], asks[p][2]) = i
      BY <1>p, <2>1
    <3>2. KindInMirror(p, i) # inv[p][i].kind
      BY <2>2, <2>4
    <3> QED BY <1>s, <1>6, <3>1, <3>2 DEF SplitAstray
  <2>5. Money' = Money
    <3>1. Worth(it, Meseta) = 0
      BY <1>2, <2>2 DEF Worth
    <3>2. Units(floor', Meseta) = Worth(it, Meseta) + Units(floor, Meseta) /\ Units(floor, Meseta) \in Nat
      BY <1>3
    <3>3. Coins(p)' = Coins(p)
      BY <1>0, <1>4, <2>2, <3>1, <3>2
    <3> QED BY <1>t, <1>1, <3>3, CoinsSame
  <2> QED BY <2>3, <2>4, <2>5
<1> QED BY <1>5, <1>6

\* What a full inventory refuses is gone from the floor; money is lost only to the limit of
\* what a character carries.
LEMMA PickUpBalance ==
    ASSUME Inv, TypeOK', NEW p \in Players, NEW id \in IdsOf(floor), PickUp(p, id)
    PROVE  /\ GoodsSame \/ kicked' \ kicked # {}
           /\ \/ Money' = Money
              \/ Money' < Money /\ Len(floor') < Len(floor) /\ purse'[p] = MesetaMax
<1>t. TypeOK
  BY DEF Inv
<1>0. /\ inv[p] \in Seq(Item) /\ bank[p] \in Seq(Item) /\ floor \in Seq(Item) /\ inv'[p] \in Seq(Item)
      /\ purse[p] \in Nat /\ purse'[p] \in Nat /\ bankPurse[p] \in Nat /\ p \notin kicked
      /\ purse[p] <= MesetaMax /\ MesetaMax \in Nat
  BY <1>t, ItemsAssumption DEF TypeOK, PickUp, Ready
<1>p. PICK i \in 1 .. Len(floor) : i = Place(floor, id)
  BY <1>0, PlaceFacts
<1>i. PICK it \in Item : it = floor[i]
  BY <1>0, Elements
<1>1. /\ floor' = RemoveAt(floor, i) /\ UNCHANGED <<bank, bankPurse>>
      /\ \/ it.kind = Meseta /\ purse'[p] = Carried(purse[p], it.n) /\ inv'[p] = inv[p]
         \/ it.kind # Meseta /\ inv'[p] = Merge(inv[p], it) /\ purse'[p] = purse[p]
         \/ it.kind # Meseta /\ p \in kicked' /\ inv'[p] = inv[p] /\ purse'[p] = purse[p]
  BY <1>t, <1>p, <1>i DEF PickUp, Kick, TypeOK
<1>2. OthersKeep(p)
  <2>1. \A q \in Players : q # p => inv'[q] = inv[q] /\ purse'[q] = purse[q]
    BY <1>t DEF PickUp, TypeOK
  <2> QED BY <1>1, <2>1 DEF OthersKeep
<1>3. ASSUME NEW kind
      PROVE  /\ Units(floor, kind) = Worth(it, kind) + Units(floor', kind)
             /\ Units(floor', kind) \in Nat /\ Units(inv[p], kind) \in Nat /\ Units(inv'[p], kind) \in Nat
             /\ Units(bank[p], kind) \in Nat /\ Worth(it, kind) \in Nat
             /\ Here(p, kind) = Units(floor, kind) + (Units(inv[p], kind) + Units(bank[p], kind))
             /\ Here(p, kind)' = Units(floor', kind) + (Units(inv'[p], kind) + Units(bank[p], kind))
  <2>1. floor' \in Seq(Item)
    BY DEF TypeOK
  <2>2. Worth(it, kind) \in Nat
    BY DEF Worth, Item
  <2>3. Units(floor, kind) = Worth(it, kind) + Units(floor', kind)
    BY <1>0, <1>i, <1>1, RemoveUnits
  <2> QED BY <1>0, <1>1, <2>1, <2>2, <2>3, UnitsAs DEF Here
<1>4. /\ Coins(p) = Units(floor, Meseta) + (purse[p] + bankPurse[p])
      /\ Coins(p)' = Units(floor', Meseta) + (purse'[p] + bankPurse[p])
      /\ Units(floor, Meseta) = Worth(it, Meseta) + Units(floor', Meseta)
      /\ Units(floor', Meseta) \in Nat
  BY <1>1, <1>3 DEF Coins
<1>5. CASE it.kind = Meseta
  <2>1. purse'[p] = Carried(purse[p], it.n) /\ inv'[p] = inv[p] /\ Meseta \notin Kinds
    BY <1>1, <1>5, ItemsAssumption
  <2>2. ASSUME NEW kind \in Kinds PROVE Here(p, kind)' = Here(p, kind)
    <3>1. Worth(it, kind) = 0
      BY <1>5, <2>1, <2>2 DEF Worth
    <3>2. /\ Units(floor, kind) = Worth(it, kind) + Units(floor', kind) /\ Units(floor', kind) \in Nat
          /\ Here(p, kind) = Units(floor, kind) + (Units(inv[p], kind) + Units(bank[p], kind))
          /\ Here(p, kind)' = Units(floor', kind) + (Units(inv'[p], kind) + Units(bank[p], kind))
      BY <1>3
    <3> QED BY <2>1, <3>1, <3>2
  <2>3. GoodsSame
    BY <1>t, <1>2, <2>2, HereSame
  <2>4. Worth(it, Meseta) = it.n /\ it.n \in Nat
    BY <1>5, <2>1 DEF Worth, Kinds, Item
  <2>5. \/ purse'[p] = purse[p] + it.n
        \/ purse'[p] = MesetaMax /\ MesetaMax < purse[p] + it.n
    <3>1. PICK have \in Nat : have = purse[p] + it.n
      BY <1>0, <2>4
    <3>2. purse'[p] = Min({have, MesetaMax})
      BY <2>1, <3>1 DEF Carried
    <3>3. CASE have <= MesetaMax
      <4>1. \E x \in {have, MesetaMax} : \A y \in {have, MesetaMax} : x <= y
        BY <1>0, <3>3
      <4>2. Min({have, MesetaMax}) \in {have, MesetaMax} /\ Min({have, MesetaMax}) <= have
            /\ Min({have, MesetaMax}) <= MesetaMax
        BY <4>1 DEF Min
      <4> QED BY <1>0, <3>1, <3>2, <3>3, <4>2
    <3>4. CASE MesetaMax < have
      <4>1. \E x \in {have, MesetaMax} : \A y \in {have, MesetaMax} : x <= y
        BY <1>0, <3>4
      <4>2. Min({have, MesetaMax}) \in {have, MesetaMax} /\ Min({have, MesetaMax}) <= MesetaMax
        BY <4>1 DEF Min
      <4> QED BY <1>0, <3>1, <3>2, <3>4, <4>2
    <3>5. have <= MesetaMax \/ MesetaMax < have
      BY <1>0, <3>1
    <3> QED BY <3>3, <3>4, <3>5
  <2>6. CASE purse'[p] = purse[p] + it.n
    <3>1. Coins(p)' = Coins(p)
      <4>1. PICK n \in Nat, u \in Nat, a \in Nat, b \in Nat :
                n = it.n /\ u = Units(floor', Meseta) /\ a = purse[p] /\ b = bankPurse[p]
        BY <1>0, <1>4, <2>4
      <4>2. Coins(p) = (n + u) + (a + b) /\ Coins(p)' = u + ((a + n) + b)
        BY <1>4, <2>4, <2>6, <4>1
      <4> QED BY <4>2
    <3> QED BY <1>t, <1>2, <2>3, <3>1, CoinsSame
  <2>7. CASE purse'[p] = MesetaMax /\ MesetaMax < purse[p] + it.n
    <3>1. Coins(p)' < Coins(p)
      <4>1. PICK n \in Nat, u \in Nat, a \in Nat, b \in Nat :
                n = it.n /\ u = Units(floor', Meseta) /\ a = purse[p] /\ b = bankPurse[p]
        BY <1>0, <1>4, <2>4
      <4>2. Coins(p) = (n + u) + (a + b) /\ Coins(p)' = u + (MesetaMax + b) /\ MesetaMax < a + n
        BY <1>4, <2>4, <2>7, <4>1
      <4> QED BY <1>0, <4>2
    <3>2. Len(floor') < Len(floor)
      <4>1. Len(RemoveAt(floor, i)) = Len(floor) - 1 /\ Len(floor) \in Nat
        BY <1>0, RemoveFacts
      <4> QED BY <1>1, <4>1
    <3>3. Money' < Money
      BY <1>t, <1>2, <3>1, CoinsLess
    <3> QED BY <2>3, <2>7, <3>2, <3>3
  <2> QED BY <2>5, <2>6, <2>7
<1>6. CASE it.kind # Meseta
  <2>1. purse'[p] = purse[p] /\ Worth(it, Meseta) = 0
    BY <1>1, <1>6 DEF Worth
  <2>2. Coins(p)' = Coins(p)
    BY <1>0, <1>4, <2>1
  <2>3. Money' = Money
    BY <1>t, <1>2, <2>2, CoinsSame
  <2>4. ASSUME inv'[p] = Merge(inv[p], it) PROVE GoodsSame
    <3>1. ASSUME NEW kind \in Kinds PROVE Here(p, kind)' = Here(p, kind)
      <4>1. Units(inv'[p], kind) = Units(inv[p], kind) + Worth(it, kind)
        BY <1>0, <2>4, MergeUnits
      <4>2. /\ Units(floor, kind) = Worth(it, kind) + Units(floor', kind)
            /\ Units(floor', kind) \in Nat /\ Units(inv[p], kind) \in Nat
            /\ Units(bank[p], kind) \in Nat /\ Worth(it, kind) \in Nat
            /\ Here(p, kind) = Units(floor, kind) + (Units(inv[p], kind) + Units(bank[p], kind))
            /\ Here(p, kind)' = Units(floor', kind) + (Units(inv'[p], kind) + Units(bank[p], kind))
        BY <1>3
      <4> QED BY <4>1, <4>2
    <3> QED BY <1>t, <1>2, <3>1, HereSame
  <2> QED BY <1>0, <1>1, <1>6, <2>3, <2>4
<1> QED BY <1>5, <1>6

\* What a bank without space refuses is gone.
LEMMA DepositBalance ==
    ASSUME Inv, TypeOK', NEW p \in Players, NEW i \in DOMAIN inv[p], NEW n \in 1 .. StackMax, Deposit(p, i, n)
    PROVE  /\ GoodsSame \/ kicked' \ kicked # {}
           /\ Money' = Money
           /\ p \in kicked' => bank'[p] = bank[p]
<1>t. TypeOK /\ His(p)
  BY DEF Inv
<1>0. /\ asks[p] = AtBank /\ inv[p] \in Seq(Item) /\ bank[p] \in Seq(Item)
      /\ i \in 1 .. Len(inv[p]) /\ IdsOnce(inv[p]) /\ inv'[p] \in Seq(Item) /\ bank'[p] \in Seq(Item)
      /\ p \notin kicked /\ n \in Nat /\ n > 0 /\ n <= inv[p][i].n
  BY <1>t DEF TypeOK, Deposit, Banking, His, AtBank, Play
<1>i. PICK it \in Item : /\ it = [inv[p][i] EXCEPT !.n = n]
                         /\ it.id = inv[p][i].id /\ it.kind = inv[p][i].kind /\ it.n = n
  <2>1. inv[p][i] \in Item
    BY <1>0, Elements
  <2> DEFINE m == [inv[p][i] EXCEPT !.n = n]
  <2>2. m \in Item /\ m.id = inv[p][i].id /\ m.kind = inv[p][i].kind /\ m.n = n
    BY <1>0, <2>1 DEF Item
  <2> HIDE DEF m
  <2> QED BY <2>2 DEF m
<1>p. Place(inv[p], it.id) = i
  BY <1>0, <1>i, PlaceOfOne
<1>1. /\ inv'[p] = TakeFrom(inv[p], it.id, n) /\ UNCHANGED <<floor, purse, bankPurse>>
      /\ \/ bank'[p] = Merge(bank[p], it) /\ kicked' = kicked
         \/ bank'[p] = bank[p] /\ p \in kicked'
  BY <1>t, <1>i DEF Deposit, Kick, TypeOK, game
<1>2. OthersKeep(p)
  <2>1. \A q \in Players : q # p => inv'[q] = inv[q] /\ bank'[q] = bank[q]
    BY <1>t DEF Deposit, TypeOK
  <2> QED BY <1>1, <2>1 DEF OthersKeep
<1>3. Coins(p)' = Coins(p)
  BY <1>1 DEF Coins
<1>4. Money' = Money
  BY <1>t, <1>2, <1>3, CoinsSame
<1>5. ASSUME bank'[p] = Merge(bank[p], it) PROVE GoodsSame
  <2>1. ASSUME NEW kind \in Kinds PROVE Here(p, kind)' = Here(p, kind)
    <3>1. Units(bank'[p], kind) = Units(bank[p], kind) + Worth(it, kind)
      BY <1>0, <1>5, MergeUnits
    <3>2. Units(TakeFrom(inv[p], it.id, n), kind) + Worth(it, kind) = Units(inv[p], kind)
      <4>1. kind \in Kinds \/ inv[p][i].kind # kind
        BY <2>1
      <4>2. PICK id : id = it.id
        OBVIOUS
      <4>3. Place(inv[p], id) = i /\ it.kind = inv[p][i].kind /\ it.n = n
        BY <1>i, <1>p, <4>2
      <4> QED BY <1>0, <4>1, <4>2, <4>3, TakeUnits
    <3>3. /\ Units(inv'[p], kind) \in Nat /\ Units(inv[p], kind) \in Nat /\ Units(bank[p], kind) \in Nat
          /\ Units(floor, kind) \in Nat /\ Worth(it, kind) \in Nat
      <4>1. floor \in Seq(Item)
        BY <1>t DEF TypeOK
      <4>2. Worth(it, kind) \in Nat
        BY DEF Worth, Item
      <4> QED BY <1>0, <4>1, <4>2, UnitsAs
    <3>4. Units(inv'[p], kind) + Units(bank'[p], kind) = Units(inv[p], kind) + Units(bank[p], kind)
      BY <1>1, <3>1, <3>2, <3>3
    <3> QED BY <1>1, <3>4 DEF Here
  <2> QED BY <1>t, <1>2, <2>1, HereSame
<1> QED BY <1>0, <1>1, <1>4, <1>5

\* What a full inventory refuses goes back, as long as the bank has space for it.
LEMMA WithdrawBalance ==
    ASSUME Inv, TypeOK', NEW p \in Players, NEW i \in DOMAIN bank[p], NEW n \in 1 .. StackMax, Withdraw(p, i, n)
    PROVE  /\ GoodsSame \/ kicked' \ kicked # {}
           /\ Money' = Money
           /\ p \in kicked' => \A kind \in Kinds : \/ Units(bank'[p], kind) = Units(bank[p], kind)
                                                   \/ Len(bank[p]) = BankMax
<1>t. TypeOK /\ His(p)
  BY DEF Inv
<1>0. /\ asks[p] = AtBank /\ inv[p] \in Seq(Item) /\ bank[p] \in Seq(Item)
      /\ i \in 1 .. Len(bank[p]) /\ IdsOnce(bank[p]) /\ inv'[p] \in Seq(Item) /\ bank'[p] \in Seq(Item)
      /\ p \notin kicked /\ n \in Nat /\ n > 0 /\ n <= bank[p][i].n /\ made \in Nat
  BY <1>t DEF TypeOK, Withdraw, Banking, His, Counter, AtBank, Play
<1>o. PICK out \in Item : /\ out = [bank[p][i] EXCEPT !.n = n]
                          /\ out.id = bank[p][i].id /\ out.kind = bank[p][i].kind /\ out.n = n
  <2>1. bank[p][i] \in Item
    BY <1>0, Elements
  <2> DEFINE m == [bank[p][i] EXCEPT !.n = n]
  <2>2. m \in Item /\ m.id = bank[p][i].id /\ m.kind = bank[p][i].kind /\ m.n = n
    BY <1>0, <2>1 DEF Item
  <2> HIDE DEF m
  <2> QED BY <2>2 DEF m
<1>i. PICK it \in Item : it = [out EXCEPT !.id = <<"game", 0, made>>] /\ it.kind = out.kind /\ it.n = n
  <2>1. <<"game", 0, made>> \in Ids
    BY <1>0, IdTypes
  <2> DEFINE m == [out EXCEPT !.id = <<"game", 0, made>>]
  <2>2. m \in Item /\ m.kind = out.kind /\ m.n = n
    BY <1>o, <2>1 DEF Item
  <2> HIDE DEF m
  <2> QED BY <2>2 DEF m
<1>p. Place(bank[p], out.id) = i
  BY <1>0, <1>o, PlaceOfOne
<1>r. PICK rest \in Seq(Item) : rest = TakeFrom(bank[p], out.id, n) /\ Len(rest) <= Len(bank[p])
  BY <1>0, <1>o, <1>p, TakeNames
<1>1. /\ UNCHANGED <<floor, purse, bankPurse>>
      /\ \/ inv'[p] = Merge(inv[p], it) /\ bank'[p] = rest /\ kicked' = kicked
         \/ inv'[p] = inv[p] /\ bank'[p] = PutBack(rest, out) /\ p \in kicked'
  BY <1>t, <1>o, <1>i, <1>r DEF Withdraw, Kick, TypeOK
<1>2. OthersKeep(p)
  <2>1. \A q \in Players : q # p => inv'[q] = inv[q] /\ bank'[q] = bank[q]
    BY <1>t DEF Withdraw, TypeOK
  <2> QED BY <1>1, <2>1 DEF OthersKeep
<1>3. Coins(p)' = Coins(p)
  BY <1>1 DEF Coins
<1>4. Money' = Money
  BY <1>t, <1>2, <1>3, CoinsSame
<1>5. ASSUME NEW kind \in Kinds
      PROVE  /\ Units(rest, kind) + Worth(out, kind) = Units(bank[p], kind)
             /\ Worth(it, kind) = Worth(out, kind)
             /\ Units(rest, kind) \in Nat /\ Units(bank[p], kind) \in Nat /\ Worth(out, kind) \in Nat
             /\ Units(inv[p], kind) \in Nat /\ Units(floor, kind) \in Nat
  <2>1. kind \in Kinds \/ bank[p][i].kind # kind
    BY <1>5
  <2>2. Units(rest, kind) + Worth(out, kind) = Units(bank[p], kind)
    <3>1. PICK id : id = out.id
      OBVIOUS
    <3>2. Place(bank[p], id) = i /\ out.kind = bank[p][i].kind /\ out.n = n
      BY <1>o, <1>p, <3>1
    <3>3. Units(TakeFrom(bank[p], id, n), kind) + Worth(out, kind) = Units(bank[p], kind)
      BY <1>0, <2>1, <3>2, TakeUnits
    <3> QED BY <1>r, <3>1, <3>3
  <2>3. Worth(it, kind) = Worth(out, kind) /\ Worth(out, kind) \in Nat
    BY <1>o, <1>i DEF Worth, Item
  <2>4. floor \in Seq(Item)
    BY <1>t DEF TypeOK
  <2> QED BY <1>0, <2>2, <2>3, <2>4, UnitsAs
<1>6. ASSUME inv'[p] = Merge(inv[p], it), bank'[p] = rest PROVE GoodsSame
  <2>1. ASSUME NEW kind \in Kinds PROVE Here(p, kind)' = Here(p, kind)
    <3>1. Units(inv'[p], kind) = Units(inv[p], kind) + Worth(it, kind)
      BY <1>0, <1>6, MergeUnits
    <3>2. /\ Units(rest, kind) + Worth(out, kind) = Units(bank[p], kind)
          /\ Worth(it, kind) = Worth(out, kind)
          /\ Units(rest, kind) \in Nat /\ Units(bank[p], kind) \in Nat /\ Worth(out, kind) \in Nat
          /\ Units(inv[p], kind) \in Nat
      BY <1>5
    <3>3. Units(inv'[p], kind) + Units(bank'[p], kind) = Units(inv[p], kind) + Units(bank[p], kind)
      BY <1>6, <3>1, <3>2
    <3> QED BY <1>1, <3>3 DEF Here
  <2> QED BY <1>t, <1>2, <2>1, HereSame
<1>7. ASSUME bank'[p] = PutBack(rest, out), NEW kind \in Kinds
      PROVE  Units(bank'[p], kind) = Units(bank[p], kind) \/ Len(bank[p]) = BankMax
  <2>1. CASE CanDeposit(rest)
    <3>1. Units(Merge(rest, out), kind) = Units(rest, kind) + Worth(out, kind)
      BY MergeUnits
    <3>2. Units(bank'[p], kind) = Units(bank[p], kind)
      BY <1>5, <1>7, <2>1, <3>1 DEF PutBack
    <3> QED BY <3>2
  <2>2. CASE ~CanDeposit(rest)
    <3>1. Len(bank[p]) <= BankMax /\ Len(bank[p]) \in Nat /\ BankMax \in Nat
      BY <1>t, <1>0, ItemsAssumption DEF TypeOK
    <3> QED BY <1>r, <2>2, <3>1 DEF CanDeposit
  <2> QED BY <2>1, <2>2
<1>8. p \in kicked' => bank'[p] = PutBack(rest, out)
  BY <1>0, <1>1
<1> QED BY <1>0, <1>1, <1>4, <1>6, <1>7, <1>8

LEMMA MesetaBalance ==
    ASSUME Inv, TypeOK', NEW p \in Players, NEW n \in 1 .. MesetaMax,
           DepositMeseta(p, n) \/ WithdrawMeseta(p, n)
    PROVE  GoodsSame /\ Money' = Money
<1>t. TypeOK
  BY DEF Inv
<1>1. UNCHANGED <<floor, inv, bank>> /\ purse[p] \in Nat /\ bankPurse[p] \in Nat /\ n \in Nat
  BY <1>t, ItemsAssumption DEF TypeOK, DepositMeseta, WithdrawMeseta, game
<1>2. purse'[p] + bankPurse'[p] = purse[p] + bankPurse[p]
  <2>1. CASE DepositMeseta(p, n)
    <3>1. purse'[p] = purse[p] - n /\ bankPurse'[p] = bankPurse[p] + n
      BY <1>t, <2>1 DEF TypeOK, DepositMeseta, Left
    <3> QED BY <1>1, <3>1
  <2>2. CASE WithdrawMeseta(p, n)
    <3>1. purse'[p] = purse[p] + n /\ bankPurse'[p] = bankPurse[p] - n
      BY <1>t, <2>2 DEF TypeOK, WithdrawMeseta
    <3> QED BY <1>1, <3>1
  <2> QED BY <2>1, <2>2
<1>3. OthersKeep(p)
  BY <1>t, <1>1 DEF OthersKeep, TypeOK, DepositMeseta, WithdrawMeseta
<1>4. Coins(p)' = Coins(p)
  BY <1>1, <1>2 DEF Coins
<1>5. \A kind \in Kinds : Here(p, kind)' = Here(p, kind)
  BY <1>1 DEF Here
<1> QED BY <1>t, <1>3, <1>4, <1>5, HereSame, CoinsSame

\* What no step does with the lists and the purses changes nothing.
LEMMA NothingMoved ==
    ASSUME UNCHANGED <<floor, inv, bank, purse, bankPurse>>
    PROVE  GoodsSame /\ Money' = Money
BY DEF GoodsSame, Goods, Money

-----------------------------------------------------------------------------
(* The theorems about how much there is.                                    *)

MadeOne == made' > made /\ Len(floor') > Len(floor)

LEMMA MakeItemGrows ==
    ASSUME Inv, NEW kind \in Gifts, MakeItem(kind)
    PROVE  MadeOne
<1>1. floor \in Seq(Item) /\ made \in Nat
  BY DEF Inv, TypeOK
<1>2. PICK it \in Item : floor' = <<it>> \o floor
  <2>1. <<"game", 0, made>> \in Ids /\ kind \in AllKinds
    BY <1>1, IdTypes, ItemsAssumption DEF AllKinds
  <2> QED BY <2>1 DEF MakeItem, Item
<1>3. Len(floor') = Len(floor) + 1 /\ Len(floor) \in Nat
  BY <1>1, <1>2, PutFirst
<1>4. made' = made + 1
  BY DEF MakeItem
<1> QED BY <1>1, <1>3, <1>4 DEF MadeOne

LEMMA BalanceStep ==
    ASSUME Inv, [Next]_vars
    PROVE  /\ \/ GoodsSame \/ MadeOne \/ Present' = {} \/ kicked' \ kicked # {}
              \/ \E p \in Players : SplitAstray(p)
           /\ \/ Money' = Money \/ MadeOne
              \/ Present' = {} /\ Money' < Money
              \/ Money' < Money /\ Len(floor') < Len(floor) /\ \E p \in Players : purse'[p] = MesetaMax
<1> DEFINE Fine == /\ \/ GoodsSame \/ MadeOne \/ Present' = {} \/ kicked' \ kicked # {}
                      \/ \E p \in Players : SplitAstray(p)
                   /\ \/ Money' = Money \/ MadeOne
                      \/ Present' = {} /\ Money' < Money
                      \/ Money' < Money /\ Len(floor') < Len(floor) /\ \E p \in Players : purse'[p] = MesetaMax
<1>t. TypeOK'
  BY NextKeeps DEF Inv
<1>1. CASE UNCHANGED vars
  BY <1>1, NothingMoved DEF vars, game, things
<1>2. ASSUME NEW p \in Players, NEW id \in IdsOf(inv[p]) \cup {NoId},
             NEW n \in 1 .. Max({StackMax, MesetaMax}), DropPos(p, id, n)
      PROVE  Fine
  BY <1>2, NothingMoved DEF DropPos, game, things
<1>3. ASSUME NEW p \in Players, NEW i \in DOMAIN inv[p], NEW n \in 1 .. StackMax, Deposit(p, i, n)
      PROVE  Fine
  BY <1>t, <1>3, DepositBalance
<1>4. ASSUME NEW p \in Players, NEW i \in DOMAIN bank[p], NEW n \in 1 .. StackMax, Withdraw(p, i, n)
      PROVE  Fine
  BY <1>t, <1>4, WithdrawBalance
<1>5. ASSUME NEW p \in Players, NEW n \in 1 .. MesetaMax, DepositMeseta(p, n) \/ WithdrawMeseta(p, n)
      PROVE  Fine
  BY <1>t, <1>5, MesetaBalance
<1>6. ASSUME NEW p \in Players, NEW i \in DOMAIN inv[p], DropItem(p, i)
      PROVE  Fine
  BY <1>t, <1>6, DropItemBalance
<1>7. ASSUME NEW p \in Players, NEW id \in IdsOf(floor), PickUp(p, id)
      PROVE  Fine
  BY <1>t, <1>7, PickUpBalance
<1>8. ASSUME NEW p \in Players,
             Join(p) \/ Leave(p) \/ DropStack(p) \/ SortInv(p) \/ OpenBank(p) \/ CloseBank(p)
      PROVE  Fine
  BY <1>t, <1>8, JoinBalance, LeaveBalance, DropStackBalance, SortBalance, CountersBalance
<1>9. ASSUME NEW kind \in Gifts, MakeItem(kind)
      PROVE  Fine
  BY <1>9, MakeItemGrows
<1> QED BY <1>1, <1>2, <1>3, <1>4, <1>5, <1>6, <1>7, <1>8, <1>9 DEF Next

\* Playing neither loses nor makes a good, but for what a GM or a monster drops, the floor of
\* a game that ends, a handler that gives up halfway and a split of something else (the
\* handlers of subcmd.c with items.c).
THEOREM GoodsStay == Spec => GoodsKept
<1>1. Inv /\ [Next]_vars =>
        [\A kind \in Kinds : \/ Goods(kind)' = Goods(kind)
                             \/ made' > made /\ Len(floor') > Len(floor)
                             \/ Present' = {}
                             \/ kicked' \ kicked # {}
                             \/ \E p \in Players : SplitAstray(p)]_vars
  BY BalanceStep DEF GoodsSame, MadeOne
<1> QED BY <1>1, InvHolds, PTL DEF Spec, GoodsKept

\* Money is lost to the limit of what a character carries and with a game's floor, and is
\* never made by playing (handle_bb_pick_up, handle_bb_drop_stack, handle_bb_bank_action).
THEOREM MoneyStays == Spec => MoneyKept
<1>1. Inv /\ [Next]_vars =>
        [\/ Money' = Money
         \/ made' > made /\ Len(floor') > Len(floor)
         \/ Present' = {} /\ Money' < Money
         \/ Money' < Money /\ Len(floor') < Len(floor) /\ \E p \in Players : purse'[p] = MesetaMax]_vars
  BY BalanceStep DEF MadeOne
<1> QED BY <1>1, InvHolds, PTL DEF Spec, MoneyKept

LEMMA BankStep ==
    ASSUME Inv, [Next]_vars, NEW p \in kicked' \ kicked, NEW kind \in Kinds
    PROVE  Units(bank'[p], kind) >= Units(bank[p], kind) \/ Len(bank[p]) = BankMax
<1>t. TypeOK /\ TypeOK'
  BY NextKeeps DEF Inv
<1>1. p \in Players /\ p \in kicked' /\ p \notin kicked /\ Thrown(p)
  BY WhoIsThrown
<1>2. Units(bank[p], kind) \in Nat
  BY <1>t, <1>1, UnitsAs DEF TypeOK
<1>3. ASSUME NEW id \in IdsOf(floor), PickUp(p, id)
      PROVE  bank'[p] = bank[p]
  BY <1>3 DEF PickUp
<1>4. ASSUME NEW i \in DOMAIN inv[p], NEW n \in 1 .. StackMax, Deposit(p, i, n)
      PROVE  bank'[p] = bank[p]
  BY <1>t, <1>1, <1>4, DepositBalance
<1>5. ASSUME NEW i \in DOMAIN bank[p], NEW n \in 1 .. StackMax, Withdraw(p, i, n)
      PROVE  Units(bank'[p], kind) = Units(bank[p], kind) \/ Len(bank[p]) = BankMax
  BY <1>t, <1>1, <1>5, WithdrawBalance
<1>6. Units(bank'[p], kind) = Units(bank[p], kind) \/ Len(bank[p]) = BankMax
  BY <1>1, <1>3, <1>4, <1>5 DEF Thrown
<1> QED BY <1>2, <1>6

\* Who is thrown out over a full inventory still has in the bank what came out of it, unless
\* the bank was full (handle_bb_bank_action puts it back).
THEOREM BankStaysWhole == Spec => BankKeeps
<1>1. Inv /\ [Next]_vars =>
        [\A p \in kicked' \ kicked : \A kind \in Kinds :
             \/ Units(bank'[p], kind) >= Units(bank[p], kind) \/ Len(bank[p]) = BankMax]_vars
  BY BankStep
<1> QED BY <1>1, InvHolds, PTL DEF Spec, BankKeeps
===============================================================================
