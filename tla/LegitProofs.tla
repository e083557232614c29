----------------------------- MODULE LegitProofs ------------------------------
(***************************************************************************)
(* Proofs about Legit, for any number of players.  The two counters of a   *)
(* check nobody disturbs are the sizes of two disjoint sets of players,    *)
(* and each player of the game is in one of them or owes one answer: that  *)
(* is what makes comparing a count with num_clients mean what it should.   *)
(***************************************************************************)
EXTENDS Legit, FiniteSetTheorems, TLAPS

Answered == cleared \cup failed

\* What the counters of an undisturbed check stand for.
Tally ==
    check /\ ~disturbed /\ Version = "dc" =>
        /\ cleared \cap failed = {}
        /\ Answered \subseteq members
        /\ done = Cardinality(Answered)
        /\ passed = Cardinality(cleared)
        /\ done < Cardinality(members)
        /\ \A p \in members : asked[p] = IF p \in Answered THEN 0 ELSE 1

\* The other versions never get legit mode.
OthersNever == Version # "dc" => ~mode

IInv == TypeOK /\ Tally /\ OthersNever

LEMMA Finiteness ==
    ASSUME NEW S \in SUBSET Players
    PROVE  IsFiniteSet(S) /\ Cardinality(S) \in Nat
BY LegitAssumption, FS_Subset, FS_CardinalityType

LEMMA Initially == Init => IInv
<1> SUFFICES ASSUME Init PROVE IInv
  OBVIOUS
<1>1. TypeOK
  BY DEF Init, TypeOK
<1>2. ~check /\ ~mode
  BY DEF Init
<1> QED
  BY <1>1, <1>2 DEF IInv, Tally, OthersNever

\* The state after a counted answer, before the check is finished or not.
LEMMA CountedOnce ==
    ASSUME IInv, NEW p \in members, NEW ok \in BOOLEAN,
           check, ~disturbed, Version = "dc", asked[p] > 0,
           asked' = [asked EXCEPT ![p] = @ - 1],
           Count(p, ok), UNCHANGED members
    PROVE  /\ cleared' \cap failed' = {}
           /\ Answered' \subseteq members
           /\ done' = Cardinality(Answered') /\ done' \in Nat
           /\ passed' = Cardinality(cleared') /\ passed' \in Nat
           /\ done' <= Cardinality(members)
           /\ \A q \in members : asked'[q] = IF q \in Answered' THEN 0 ELSE 1
           /\ cleared' \in SUBSET Players /\ failed' \in SUBSET Players
<1>1. /\ members \in SUBSET Players /\ cleared \in SUBSET Players /\ failed \in SUBSET Players
      /\ asked \in [Players -> Nat]
      /\ p \in Players
  BY DEF IInv, TypeOK
<1>2. /\ cleared \cap failed = {}
      /\ Answered \subseteq members
      /\ done = Cardinality(Answered)
      /\ passed = Cardinality(cleared)
      /\ done < Cardinality(members)
      /\ \A q \in members : asked[q] = IF q \in Answered THEN 0 ELSE 1
  BY DEF IInv, Tally
<1>3. p \notin Answered /\ asked[p] = 1
  BY <1>2
<1>4. /\ done' = done + 1
      /\ passed' = IF ok THEN passed + 1 ELSE passed
      /\ cleared' = IF ok THEN cleared \cup {p} ELSE cleared
      /\ failed' = IF ok THEN failed ELSE failed \cup {p}
  BY DEF Count
<1>5. Answered' = Answered \cup {p}
  BY <1>4 DEF Answered
<1>6. cleared' \cap failed' = {} /\ Answered' \subseteq members
  <2>1. p \notin cleared /\ p \notin failed
    BY <1>3 DEF Answered
  <2> QED BY <1>2, <1>4, <1>5, <2>1
<1>7. /\ done' = Cardinality(Answered') /\ done' \in Nat
      /\ done' <= Cardinality(members)
  <2>1. Answered \in SUBSET Players
    BY <1>1 DEF Answered
  <2>2. Cardinality(Answered \cup {p}) = Cardinality(Answered) + 1
    BY <2>1, <1>3, Finiteness, FS_AddElement
  <2>3. Cardinality(Answered) \in Nat /\ Cardinality(members) \in Nat
    BY <2>1, <1>1, Finiteness
  <2> QED BY <2>2, <2>3, <1>2, <1>4, <1>5
<1>8. passed' = Cardinality(cleared') /\ passed' \in Nat
  <2>1. Cardinality(cleared) \in Nat
    BY <1>1, Finiteness
  <2>2. CASE ok
    <3>1. p \notin cleared
      BY <1>3 DEF Answered
    <3>2. Cardinality(cleared \cup {p}) = Cardinality(cleared) + 1
      BY <3>1, <1>1, Finiteness, FS_AddElement
    <3> QED BY <2>1, <2>2, <3>2, <1>2, <1>4
  <2>3. CASE ~ok
    BY <2>1, <2>3, <1>2, <1>4
  <2> QED BY <2>2, <2>3
<1>9. \A q \in members : asked'[q] = IF q \in Answered' THEN 0 ELSE 1
  BY <1>1, <1>2, <1>3, <1>5
<1>10. cleared' \in SUBSET Players /\ failed' \in SUBSET Players
  BY <1>1, <1>4
<1> QED BY <1>6, <1>7, <1>8, <1>9, <1>10

LEMMA TypesKept == TypeOK /\ [Next]_vars => TypeOK'
<1> SUFFICES ASSUME TypeOK, [Next]_vars PROVE TypeOK'
  OBVIOUS
<1>1. ASSUME NEW p \in Players, Join(p) PROVE TypeOK'
  BY <1>1 DEF TypeOK, Join, history
<1>2. ASSUME NEW p \in Players, Leave(p) PROVE TypeOK'
  BY <1>2 DEF TypeOK, Leave, Part
<1>3. ASSUME NEW p \in Players, Disconnect(p) PROVE TypeOK'
  BY <1>3 DEF TypeOK, Disconnect, Part, gameVars, history
<1>4. CASE StartCheck
  BY <1>4 DEF TypeOK, StartCheck, gameVars
<1>5. CASE Normal
  BY <1>5 DEF TypeOK, Normal, gameVars, history
<1>6. ASSUME NEW p \in Players, NEW ok \in BOOLEAN, Answer(p, ok) PROVE TypeOK'
  <2>1. /\ asked[p] > 0 /\ asked' = [asked EXCEPT ![p] = @ - 1]
        /\ UNCHANGED <<gameVars, disturbed>>
        /\ Count(p, ok) \/ UNCHANGED <<done, passed, mode, check, cleared, failed>>
    BY <1>6 DEF Answer
  <2>2. asked' \in [Players -> Nat]
    BY <2>1 DEF TypeOK
  <2>3. CASE Count(p, ok)
    <3>1. done' \in Nat /\ passed' \in Nat /\ cleared' \in SUBSET Players /\ failed' \in SUBSET Players
      BY <2>3 DEF Count, TypeOK
    <3>2. mode' \in BOOLEAN /\ check' \in BOOLEAN
      BY <2>3 DEF Count, Finish, TypeOK
    <3> QED BY <2>1, <2>2, <3>1, <3>2 DEF TypeOK, gameVars
  <2>4. CASE UNCHANGED <<done, passed, mode, check, cleared, failed>>
    BY <2>1, <2>2, <2>4 DEF TypeOK, gameVars
  <2> QED BY <2>1, <2>3, <2>4
<1>7. CASE UNCHANGED vars
  BY <1>7 DEF TypeOK, vars, gameVars, history
<1> QED BY <1>1, <1>2, <1>3, <1>4, <1>5, <1>6, <1>7 DEF Next

LEMMA Inductive == IInv /\ [Next]_vars => IInv'
<1> SUFFICES ASSUME IInv, [Next]_vars PROVE Tally' /\ OthersNever'
  BY TypesKept DEF IInv
<1>1. TypeOK /\ Tally /\ OthersNever
  BY DEF IInv
<1>2. ASSUME NEW p \in Players, Join(p) PROVE Tally' /\ OthersNever'
  BY <1>1, <1>2 DEF Join, Tally, OthersNever
<1>3. ASSUME NEW p \in Players, Part(p) PROVE Tally' /\ OthersNever'
  <2>1. check' => disturbed'
    BY <1>3 DEF Part
  <2>2. mode' => mode
    BY <1>3 DEF Part
  <2> QED BY <1>1, <2>1, <2>2 DEF Tally, OthersNever
<1>4. ASSUME NEW p \in Players, Disconnect(p) PROVE Tally' /\ OthersNever'
  <2>1. CASE Part(p)
    BY <1>3, <2>1
  <2>2. CASE /\ p \notin members
             /\ UNCHANGED <<gameVars, check, mode, done, passed, history>>
    <3>1. \A q \in members : asked'[q] = asked[q]
      BY <1>1, <1>4, <2>2 DEF Disconnect, TypeOK
    <3> QED BY <1>1, <2>2, <3>1 DEF Tally, OthersNever, Answered, gameVars, history
  <2> QED BY <1>4, <2>1, <2>2 DEF Disconnect
<1>5. CASE StartCheck
  <2>1. OthersNever'
    BY <1>1, <1>5 DEF StartCheck, OthersNever
  <2>2. Tally'
    <3>1. /\ cleared' = {} /\ failed' = {} /\ done' = 0 /\ passed' = 0 /\ members' = members
          /\ leader \in members
          /\ asked' = [p \in Players |-> asked[p] + IF p \in members THEN 1 ELSE 0]
          /\ disturbed' = (\E p \in members : asked[p] > 0)
      BY <1>5 DEF StartCheck, gameVars
    <3>2. Answered' = {}
      BY <3>1 DEF Answered
    <3>3. Cardinality(cleared') = 0 /\ Cardinality(Answered') = 0
      BY <3>1, <3>2, FS_EmptySet
    <3>4. 0 < Cardinality(members)
      <4>1. IsFiniteSet(members) /\ Cardinality(members) \in Nat /\ members # {}
        BY <1>1, <3>1, Finiteness DEF TypeOK
      <4>2. Cardinality(members) # 0
        BY <4>1, FS_EmptySet
      <4> QED BY <4>1, <4>2
    <3>5. ASSUME ~disturbed' PROVE \A p \in members : asked'[p] = 1
      <4>1. \A p \in members : p \in Players /\ asked[p] \in Nat /\ ~(asked[p] > 0)
        BY <1>1, <3>1, <3>5 DEF TypeOK
      <4> QED BY <3>1, <4>1
    <3> QED BY <3>1, <3>2, <3>3, <3>4, <3>5 DEF Tally
  <2> QED BY <2>1, <2>2
<1>6. CASE Normal
  BY <1>1, <1>6 DEF Normal, Tally, OthersNever, Answered, gameVars, history
<1>7. ASSUME NEW p \in Players, NEW ok \in BOOLEAN, Answer(p, ok) PROVE Tally' /\ OthersNever'
  <2>1. /\ asked[p] > 0 /\ asked' = [asked EXCEPT ![p] = @ - 1]
        /\ UNCHANGED <<gameVars, disturbed>>
    BY <1>7 DEF Answer
  <2>2. CASE p \in members /\ check /\ Version # "bb"
    <3>1. Count(p, ok)
      BY <1>7, <2>2 DEF Answer
    <3>2. CASE Version # "dc"
      <4>1. UNCHANGED mode
        BY <1>1, <2>2, <3>1, <3>2, LegitAssumption DEF Count
      <4> QED BY <1>1, <3>2, <4>1 DEF Tally, OthersNever
    <3>3. CASE Version = "dc" /\ ~disturbed
      <4>1. /\ cleared' \cap failed' = {}
            /\ Answered' \subseteq members
            /\ done' = Cardinality(Answered')
            /\ passed' = Cardinality(cleared')
            /\ done' <= Cardinality(members) /\ done' \in Nat
            /\ \A q \in members : asked'[q] = IF q \in Answered' THEN 0 ELSE 1
        BY <2>1, <2>2, <3>1, <3>3, CountedOnce DEF gameVars
      <4>2. check' => done' # Cardinality(members)
        BY <3>1, <3>3 DEF Count, Finish
      <4>3. Cardinality(members) \in Nat
        BY <1>1, Finiteness DEF TypeOK
      <4>4. check' => done' < Cardinality(members)
        BY <4>1, <4>2, <4>3
      <4> QED BY <2>1, <3>3, <4>1, <4>4 DEF Tally, OthersNever, gameVars
    <3>4. CASE Version = "dc" /\ disturbed
      BY <2>1, <3>4 DEF Tally, OthersNever
    <3> QED BY <1>1, <3>2, <3>3, <3>4 DEF TypeOK
  <2>3. CASE ~(p \in members /\ check /\ Version # "bb")
    <3>1. UNCHANGED <<done, passed, mode, check, cleared, failed>>
      BY <1>7, <2>3 DEF Answer
    <3>2. ASSUME check, Version = "dc" PROVE \A q \in members : asked'[q] = asked[q]
      BY <1>1, <2>1, <2>3, <3>2 DEF TypeOK
    <3> QED BY <1>1, <2>1, <3>1, <3>2 DEF Tally, OthersNever, Answered, gameVars
  <2> QED BY <2>2, <2>3
<1>8. CASE UNCHANGED vars
  BY <1>1, <1>8 DEF vars, gameVars, history, Tally, OthersNever, Answered
<1>9. ASSUME NEW p \in Players, Leave(p) PROVE Tally' /\ OthersNever'
  BY <1>3, <1>9 DEF Leave
<1> QED BY <1>2, <1>4, <1>5, <1>6, <1>7, <1>8, <1>9 DEF Next

LEMMA Invariant == Spec => []IInv
BY Initially, Inductive, PTL DEF Spec

\* Every variable keeps its type.
THEOREM TypeCorrect == Spec => []TypeOK
<1>1. IInv => TypeOK
  BY DEF IInv
<1> QED BY <1>1, Invariant, PTL

\* In a check that nobody disturbs each player's answer is counted or still to come, and
\* at least one is still to come.
THEOREM EveryAnswerCounts == Spec => []AllAccountedFor
<1>1. IInv => AllAccountedFor
  <2> SUFFICES ASSUME IInv, check, ~disturbed, Version = "dc"
               PROVE  LET owing == {p \in members : asked[p] > 0} IN
                      /\ done + Cardinality(owing) = Cardinality(members)
                      /\ owing # {}
    BY DEF AllAccountedFor
  <2> DEFINE owing == {p \in members : asked[p] > 0}
  <2>1. /\ Answered \subseteq members /\ members \in SUBSET Players
        /\ done = Cardinality(Answered)
        /\ done < Cardinality(members)
        /\ \A p \in members : asked[p] = IF p \in Answered THEN 0 ELSE 1
    BY DEF IInv, Tally, TypeOK
  <2>2. owing = members \ Answered /\ members \cap Answered = Answered
    BY <2>1
  <2>3. /\ IsFiniteSet(members) /\ Cardinality(members) \in Nat
        /\ IsFiniteSet(Answered) /\ Cardinality(Answered) \in Nat
    BY <2>1, Finiteness, FS_Subset, FS_CardinalityType
  <2>4. Cardinality(members \ Answered) = Cardinality(members) - Cardinality(Answered)
    BY <2>2, <2>3, FS_Difference
  <2>5. done + Cardinality(owing) = Cardinality(members)
    BY <2>1, <2>2, <2>3, <2>4
  <2>6. owing # {}
    <3> SUFFICES ASSUME owing = {} PROVE FALSE
      OBVIOUS
    <3>1. Cardinality(owing) = 0
      BY FS_EmptySet
    <3> HIDE DEF owing
    <3> QED BY <2>1, <2>3, <2>5, <3>1
  <2> QED BY <2>5, <2>6
<1> QED BY <1>1, Invariant, PTL

\* What a finished check says, when nobody disturbed it.
LEMMA Verdict ==
    ASSUME IInv, [Next]_vars, check, ~check', ~disturbed', members' # {}
    PROVE  \E p \in members, ok \in BOOLEAN :
              /\ Version = "dc" /\ ~disturbed /\ members' = members
              /\ asked[p] > 0 /\ asked' = [asked EXCEPT ![p] = @ - 1]
              /\ Count(p, ok)
              /\ done' = Cardinality(members)
              /\ mode' = (mode \/ passed' = Cardinality(members))
<1>1. ASSUME NEW p \in Players, Part(p) PROVE FALSE
  BY <1>1 DEF Part
<1>2. \A p \in Players : ~Join(p) /\ ~Leave(p) /\ ~Disconnect(p)
  <2>1. ASSUME NEW p \in Players, Disconnect(p) PROVE FALSE
    BY <1>1, <2>1 DEF Disconnect
  <2>2. ASSUME NEW p \in Players, Leave(p) PROVE FALSE
    BY <1>1, <2>2 DEF Leave
  <2> QED BY <2>1, <2>2 DEF Join
<1>3. ~StartCheck /\ ~Normal /\ ~UNCHANGED vars
  BY DEF StartCheck, Normal, vars
<1>4. PICK p \in Players, ok \in BOOLEAN : Answer(p, ok)
  BY <1>2, <1>3 DEF Next
<1>5. /\ p \in members /\ Count(p, ok) /\ asked[p] > 0
      /\ asked' = [asked EXCEPT ![p] = @ - 1] /\ ~disturbed /\ members' = members
      /\ Version # "bb"
  BY <1>4 DEF Answer, gameVars
<1>6. Version = "dc"
  BY <1>5, LegitAssumption DEF Count
<1>7. Finish(done', passed')
  BY <1>5, <1>6 DEF Count
<1>8. done' = Cardinality(members) /\ mode' = (mode \/ passed' = Cardinality(members))
  BY <1>7 DEF Finish
<1> QED BY <1>5, <1>6, <1>8

\* When legit mode comes on after a check that nobody disturbed, every player in the game
\* has answered that check and passed it.
THEOREM SoundCheck == Spec => SoundIfUndisturbed
<1>1. ASSUME IInv, [Next]_vars, ~mode, mode', ~disturbed' PROVE members' \subseteq cleared'
  <2>1. PICK p \in Players, ok \in BOOLEAN : Answer(p, ok)
    <3>1. \A p \in Players : ~Part(p)
      BY <1>1 DEF Part
    <3>2. \A p \in Players : ~Join(p) /\ ~Leave(p) /\ ~Disconnect(p)
      BY <1>1, <3>1 DEF Join, Leave, Disconnect
    <3>3. ~StartCheck /\ ~Normal /\ ~UNCHANGED vars
      BY <1>1 DEF StartCheck, Normal, vars
    <3> QED BY <1>1, <3>2, <3>3 DEF Next
  <2>2. /\ p \in members /\ check /\ Count(p, ok) /\ asked[p] > 0
        /\ asked' = [asked EXCEPT ![p] = @ - 1] /\ ~disturbed /\ members' = members
        /\ Version # "bb"
    BY <1>1, <2>1 DEF Answer, gameVars
  <2>3. Version = "dc" /\ Finish(done', passed')
    BY <1>1, <2>2, LegitAssumption DEF Count
  <2>4. passed' = Cardinality(members)
    BY <1>1, <2>3 DEF Finish
  <2>5. Answered' \subseteq members /\ passed' = Cardinality(cleared')
    BY <1>1, <2>2, <2>3, CountedOnce
  <2>6. cleared' \subseteq members
    BY <2>5 DEF Answered
  <2>7. IsFiniteSet(members)
    BY <1>1, Finiteness DEF IInv, TypeOK
  <2>8. cleared' = members
    BY <2>4, <2>5, <2>6, <2>7, FS_Subset
  <2> QED BY <2>2, <2>8
<1>2. IInv /\ [Next]_vars => [~mode /\ mode' /\ ~disturbed' => members' \subseteq cleared']_vars
  BY <1>1
<1> QED BY <1>2, Invariant, PTL DEF Spec, SoundIfUndisturbed

\* A check that ends without legit mode has a cause: a failing player, or a disturbance.
THEOREM FailuresHaveCauses == Spec => FailsForCause
<1>1. ASSUME IInv, [Next]_vars, check, ~check', ~mode', members' # {}, ~disturbed'
      PROVE  failed' # {}
  <2> SUFFICES ASSUME failed' = {} PROVE FALSE
    OBVIOUS
  <2>1. PICK p \in members, ok \in BOOLEAN :
              /\ Version = "dc" /\ ~disturbed /\ members' = members
              /\ asked[p] > 0 /\ asked' = [asked EXCEPT ![p] = @ - 1]
              /\ Count(p, ok)
              /\ done' = Cardinality(members)
              /\ mode' = (mode \/ passed' = Cardinality(members))
    BY <1>1, Verdict
  <2>2. done' = Cardinality(Answered') /\ passed' = Cardinality(cleared')
    BY <1>1, <2>1, CountedOnce
  <2>3. Answered' = cleared'
    BY DEF Answered
  <2> QED BY <1>1, <2>1, <2>2, <2>3
<1>2. IInv /\ [Next]_vars =>
          [check /\ ~check' /\ ~mode' /\ members' # {} => failed' # {} \/ disturbed']_vars
  BY <1>1
<1> QED BY <1>2, Invariant, PTL DEF Spec, FailsForCause
=============================================================================
