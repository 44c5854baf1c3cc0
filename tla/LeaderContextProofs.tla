------------------------- MODULE LeaderContextProofs -------------------------
(***************************************************************************)
(* Proofs about the leader rotation, for every committee and every order   *)
(* of its ids.                                                             *)
(***************************************************************************)
EXTENDS LeaderContext, TLAPS, FiniteSetTheorems

\* The history is an honest record and disjoint from elligible.
HistoryClear ==
    StartClear(order) => IsInjective(history) /\ elligible \cap Range(history) = {}

\* A server that led less than Limit rounds ago is in the history at its age.
AgesInHistory == \A i \in Ids : age[i] < Limit => history[age[i] + 1] = i

\* What a round may add to elligible it also takes: the draw set never grows
\* past what new() leaves, one more than n - Limit if START_ID was not clear.
ElligibleBound ==
    /\ Cardinality(elligible) <= NumNodes - Limit + 1
    /\ StartClear(order) => Cardinality(elligible) <= NumNodes - Limit

\* The inductive invariant.
RotationInv ==
    /\ TypeOK
    /\ next_leader \in elligible
    /\ current_leader \notin elligible
    /\ EveryoneRotates
    /\ HistoryClear
    /\ AgesInHistory
    /\ ElligibleBound

\* The committee's size is a natural number above Limit.
LEMMA Sizes == NumNodes \in Nat /\ Limit \in Nat \ {0} /\ Limit < NumNodes
<1>1. NumNodes \in Nat
  BY LeaderAssumption, FS_CardinalityType DEF NumNodes
<1> QED BY <1>1, LeaderAssumption

\* What Pushed does to a history: the oldest goes, the new leader comes first.
LEMMA PushedHistory ==
    ASSUME NEW h \in [1 .. Limit -> Ids], NEW l \in Ids
    PROVE  /\ Pushed(h, l) \in [1 .. Limit -> Ids]
           /\ Pushed(h, l)[1] = l
           /\ \A i \in 1 .. (Limit - 1) : Pushed(h, l)[i + 1] = h[i]
           /\ Range(Pushed(h, l)) \subseteq Range(h) \cup {l}
           /\ Range(h) \subseteq Range(Pushed(h, l)) \cup {h[Limit]}
<1>1. /\ Pushed(h, l) \in [1 .. Limit -> Ids]
      /\ Pushed(h, l)[1] = l
      /\ \A i \in 1 .. (Limit - 1) : Pushed(h, l)[i + 1] = h[i]
  BY Sizes DEF Pushed
<1>2. Range(Pushed(h, l)) \subseteq Range(h) \cup {l}
  BY Sizes DEF Pushed, Range
<1>3. Range(h) \subseteq Range(Pushed(h, l)) \cup {h[Limit]}
  <2> SUFFICES ASSUME NEW i \in 1 .. Limit, i # Limit
               PROVE  h[i] \in Range(Pushed(h, l))
    BY Sizes DEF Range
  <2>1. i + 1 \in 1 .. Limit /\ Pushed(h, l)[i + 1] = h[i]
    BY <1>1, Sizes
  <2> QED BY <1>1, <2>1 DEF Range
<1> QED BY <1>1, <1>2, <1>3

\* Rotating a clear history by a server outside of it leaves it clear.
LEMMA RotationClear ==
    ASSUME NEW h \in [1 .. Limit -> Ids], NEW el \in SUBSET Ids, NEW l \in Ids,
           IsInjective(h), el \cap Range(h) = {}, l \in el \/ l = h[Limit]
    PROVE  /\ IsInjective(Pushed(h, l))
           /\ Rotated(el, h, l) \cap Range(Pushed(h, l)) = {}
<1> DEFINE g == Pushed(h, l)
<1>1. DOMAIN g = 1 .. Limit /\ DOMAIN h = 1 .. Limit
  BY DEF Pushed
<1>2. \A i \in 1 .. (Limit - 1) : h[i] # l
  <2>1. CASE l \in el
    BY <2>1, <1>1, Sizes DEF Range
  <2>2. CASE l = h[Limit]
    BY <2>2, <1>1, Sizes DEF IsInjective
  <2> QED BY <2>1, <2>2
<1>3. \A i \in 2 .. Limit : g[i] = h[i - 1] /\ i - 1 \in 1 .. (Limit - 1)
  BY Sizes DEF Pushed
<1>4. g[1] = l
  BY Sizes DEF Pushed
<1> HIDE DEF g
<1>5. IsInjective(g)
  <2> SUFFICES ASSUME NEW a \in 1 .. Limit, NEW b \in 1 .. Limit, g[a] = g[b]
               PROVE  a = b
    BY <1>1 DEF IsInjective
  <2>1. CASE a = 1 \/ b = 1
    BY <2>1, <1>2, <1>3, <1>4, Sizes
  <2>2. CASE a # 1 /\ b # 1
    <3>1. a \in 2 .. Limit /\ b \in 2 .. Limit
      BY <2>2, Sizes
    <3>2. h[a - 1] = h[b - 1] /\ a - 1 \in 1 .. Limit /\ b - 1 \in 1 .. Limit
      BY <3>1, <1>3, Sizes
    <3>3. a - 1 = b - 1
      BY <3>2, <1>1 DEF IsInjective
    <3> QED BY <3>1, <3>3, Sizes
  <2> QED BY <2>1, <2>2
<1>6. Rotated(el, h, l) \cap Range(g) = {}
  <2> SUFFICES ASSUME NEW i \in 1 .. Limit, g[i] \in Rotated(el, h, l)
               PROVE  FALSE
    BY <1>1 DEF Range
  <2>1. i \in 2 .. Limit
    BY <1>4, Sizes DEF Rotated
  <2>2. g[i] = h[i - 1] /\ i - 1 \in 1 .. (Limit - 1) /\ i - 1 \in 1 .. Limit
    BY <2>1, <1>3, Sizes
  <2>3. h[i - 1] \notin el
    BY <2>2, <1>1 DEF Range
  <2>4. h[i - 1] # h[Limit]
    BY <2>2, <1>1, Sizes DEF IsInjective
  <2> QED BY <2>2, <2>3, <2>4 DEF Rotated
<1> QED BY <1>5, <1>6 DEF g

\* Rotation loses nobody.
LEMMA RotationCovers ==
    ASSUME NEW h \in [1 .. Limit -> Ids], NEW el \in SUBSET Ids, NEW l \in Ids,
           el \cup Range(h) = Ids
    PROVE  Rotated(el, h, l) \cup Range(Pushed(h, l)) = Ids
<1>1. Range(h) \subseteq Range(Pushed(h, l)) \cup {h[Limit]}
  BY PushedHistory
<1> DEFINE g == Pushed(h, l)
<1>2. g \in [1 .. Limit -> Ids] /\ g[1] = l /\ 1 \in 1 .. Limit /\ Limit \in 1 .. Limit
  BY PushedHistory, Sizes
<1> HIDE DEF g
<1>3. Range(g) \subseteq Ids /\ h[Limit] \in Ids /\ l \in Range(g)
  BY <1>2 DEF Range
<1> QED BY <1>1, <1>3 DEF Rotated, g

\* A function takes at most as many values as it has arguments.
LEMMA RangeBound ==
    ASSUME NEW n \in Nat, NEW S, NEW f \in [1 .. n -> S]
    PROVE  IsFiniteSet(Range(f)) /\ Cardinality(Range(f)) <= n
<1>1. f \in Surjection(1 .. n, Range(f))
  BY DEF Surjection, Range
<1>2. IsFiniteSet(1 .. n) /\ Cardinality(1 .. n) = n
  BY FS_Interval
<1> QED BY <1>1, <1>2, FS_Surjection

\* A rotation by a server that is elligible, or was the oldest leader, does not
\* make the draw set larger; one by any other server makes it one larger at most.
LEMMA RotationBound ==
    ASSUME NEW h \in [1 .. Limit -> Ids], NEW el \in SUBSET Ids, NEW l \in Ids
    PROVE  /\ Cardinality(Rotated(el, h, l)) <= Cardinality(el) + 1
           /\ l \in el \/ l = h[Limit] =>
                 Cardinality(Rotated(el, h, l)) <= Cardinality(el)
<1> DEFINE all == el \cup {h[Limit]}
<1>1. IsFiniteSet(el) /\ Cardinality(el) \in Nat
  BY LeaderAssumption, FS_Subset, FS_CardinalityType
<1>2. /\ IsFiniteSet(all) /\ Cardinality(all) \in Nat
      /\ Cardinality(all) <= Cardinality(el) + 1
  <2>1. /\ IsFiniteSet(all)
        /\ Cardinality(all) =
              IF h[Limit] \in el THEN Cardinality(el) ELSE Cardinality(el) + 1
    BY <1>1, FS_AddElement
  <2> QED BY <1>1, <2>1, FS_CardinalityType
<1>3. Cardinality(all \ {l}) = IF l \in all THEN Cardinality(all) - 1 ELSE Cardinality(all)
  BY <1>2, FS_RemoveElement
<1>4. Rotated(el, h, l) = all \ {l}
  BY DEF Rotated
<1>5. l \in el \/ l = h[Limit] => l \in all
  OBVIOUS
<1> HIDE DEF all
<1> QED BY <1>1, <1>2, <1>3, <1>4, <1>5

----------------------------------------------------------------------------
\* The state new() returns satisfies the invariant, for every order of the ids.
LEMMA InitRotation == Init => RotationInv
<1> SUFFICES ASSUME Init PROVE RotationInv
  OBVIOUS
<1> USE Sizes
<1> DEFINE h == InitialHistory(order)
           el == InitialElligible(order)
<1>1. /\ order \in [1 .. NumNodes -> Ids]
      /\ IsInjective(order)
      /\ Range(order) = Ids
      /\ DOMAIN order = 1 .. NumNodes
  BY DEF Init, Orders
<1>2. h \in [1 .. Limit -> Ids] /\ el \in SUBSET Ids
  BY <1>1 DEF InitialHistory, InitialElligible
<1>3. START_ID \in Ids
  BY LeaderAssumption
<1>4. /\ history = Pushed(h, START_ID)
      /\ elligible = Rotated(el, h, START_ID)
      /\ current_leader = START_ID
      /\ next_leader \in elligible
      /\ age = [i \in Ids |-> IF i = START_ID THEN 0 ELSE Limit]
  BY DEF Init
<1>5. el \cup Range(h) = Ids
  <2>1. \A i \in 1 .. NumNodes : order[i] \in el \cup Range(h)
    <3> SUFFICES ASSUME NEW i \in 1 .. NumNodes PROVE order[i] \in el \cup Range(h)
      OBVIOUS
    <3>1. CASE i <= NumNodes - Limit
      BY <3>1 DEF InitialElligible
    <3>2. CASE i > NumNodes - Limit
      <4>1. i - (NumNodes - Limit) \in 1 .. Limit
        BY <3>2
      <4>2. h[i - (NumNodes - Limit)] = order[i]
        BY <4>1 DEF InitialHistory
      <4>3. DOMAIN h = 1 .. Limit
        BY DEF InitialHistory
      <4> QED BY <4>1, <4>2, <4>3 DEF Range
    <3> QED BY <3>1, <3>2
  <2>2. Range(h) \subseteq Ids
    BY <1>2 DEF Range
  <2> QED BY <1>1, <1>2, <2>1, <2>2 DEF Range
<1>6. EveryoneRotates
  BY <1>2, <1>3, <1>4, <1>5, RotationCovers DEF EveryoneRotates
<1>7. HistoryClear
  <2> SUFFICES ASSUME StartClear(order)
               PROVE  IsInjective(history) /\ elligible \cap Range(history) = {}
    BY DEF HistoryClear
  <2>1. \A i \in 1 .. Limit : h[i] = order[NumNodes - Limit + i]
    BY DEF InitialHistory
  <2>2. DOMAIN h = 1 .. Limit
    BY DEF InitialHistory
  <2>3. IsInjective(h)
    BY <1>1, <2>1, <2>2 DEF IsInjective
  <2>4. el \cap Range(h) = {}
    <3> SUFFICES ASSUME NEW i \in 1 .. (NumNodes - Limit), NEW j \in 1 .. Limit,
                        order[i] = h[j]
                 PROVE  FALSE
      BY <2>2 DEF InitialElligible, Range
    <3>1. /\ i \in 1 .. NumNodes /\ NumNodes - Limit + j \in 1 .. NumNodes
          /\ i # NumNodes - Limit + j
      OBVIOUS
    <3> QED BY <3>1, <2>1, <1>1 DEF IsInjective
  <2>5. START_ID \in el \/ START_ID = h[Limit]
    <3>1. \A i \in 1 .. (Limit - 1) : h[i] # START_ID
      <4> SUFFICES ASSUME NEW i \in 1 .. (Limit - 1) PROVE h[i] # START_ID
        OBVIOUS
      <4>1. NumNodes - Limit + i \in (NumNodes - Limit + 1) .. (NumNodes - 1)
        OBVIOUS
      <4> QED BY <4>1, <2>1 DEF StartClear
    <3>2. START_ID \in el \cup Range(h)
      BY <1>3, <1>5
    <3> QED BY <3>1, <3>2, <2>2 DEF Range
  <2> QED BY <1>2, <1>3, <1>4, <2>3, <2>4, <2>5, RotationClear
<1>8. AgesInHistory
  BY <1>2, <1>3, <1>4, PushedHistory DEF AgesInHistory
<1>9. TypeOK
  BY <1>2, <1>3, <1>4, PushedHistory DEF TypeOK, Init, Rotated, Orders
<1>10. current_leader \notin elligible
  BY <1>4 DEF Rotated
<1>11. ElligibleBound
  <2>1. Cardinality(el) <= NumNodes - Limit /\ Cardinality(el) \in Nat
    <3> DEFINE f == [i \in 1 .. (NumNodes - Limit) |-> order[i]]
    <3>1. f \in [1 .. (NumNodes - Limit) -> Ids] /\ NumNodes - Limit \in Nat
      BY <1>1
    <3>2. Range(f) = el
      BY DEF Range, InitialElligible
    <3> QED BY <3>1, <3>2, RangeBound, FS_CardinalityType
  <2>2. StartClear(order) => START_ID \in el \/ START_ID = h[Limit]
    <3> SUFFICES ASSUME StartClear(order), START_ID \notin el PROVE START_ID = h[Limit]
      OBVIOUS
    <3>1. \A i \in 1 .. Limit : h[i] = order[NumNodes - Limit + i]
      BY DEF InitialHistory
    <3>2. PICK i \in 1 .. Limit : h[i] = START_ID
      BY <1>2, <1>3, <1>5 DEF Range
    <3>3. i # Limit => NumNodes - Limit + i \in (NumNodes - Limit + 1) .. (NumNodes - 1)
      OBVIOUS
    <3> QED BY <3>1, <3>2, <3>3 DEF StartClear
  <2>3. /\ Cardinality(elligible) <= Cardinality(el) + 1
        /\ StartClear(order) => Cardinality(elligible) <= Cardinality(el)
    BY <1>2, <1>3, <1>4, <2>2, RotationBound
  <2>4. Cardinality(elligible) \in Nat
    BY <1>9, LeaderAssumption, FS_Subset, FS_CardinalityType DEF TypeOK
  <2> QED BY <2>1, <2>3, <2>4 DEF ElligibleBound
<1> QED BY <1>4, <1>6, <1>7, <1>8, <1>9, <1>10, <1>11 DEF RotationInv

\* advance_round keeps the invariant.
LEMMA NextRotation == RotationInv /\ [Next]_vars => RotationInv'
<1> SUFFICES ASSUME RotationInv, [Next]_vars PROVE RotationInv'
  OBVIOUS
<1> USE Sizes
<1>1. CASE UNCHANGED vars
  BY <1>1 DEF RotationInv, TypeOK, EveryoneRotates, HistoryClear, AgesInHistory,
         ElligibleBound, vars
<1>2. CASE AdvanceRound
  <2>1. /\ history \in [1 .. Limit -> Ids] /\ elligible \in SUBSET Ids
        /\ next_leader \in Ids /\ next_leader \in elligible
        /\ age \in [Ids -> 0 .. Limit]
    BY DEF RotationInv, TypeOK
  <2>2. /\ history' = Pushed(history, next_leader)
        /\ elligible' = Rotated(elligible, history, next_leader)
        /\ current_leader' = next_leader
        /\ next_leader' \in elligible'
        /\ order' = order
    BY <1>2 DEF AdvanceRound
  <2>3. /\ age'[next_leader] = 0
        /\ \A i \in Ids \ {next_leader} :
              age'[i] = IF age[i] < Limit THEN age[i] + 1 ELSE Limit
        /\ age' \in [Ids -> 0 .. Limit]
    BY <1>2, <2>1 DEF AdvanceRound
  <2>4. EveryoneRotates'
    BY <2>1, <2>2, RotationCovers DEF RotationInv, EveryoneRotates
  <2>5. HistoryClear'
    BY <2>1, <2>2, RotationClear DEF RotationInv, HistoryClear
  <2>6. AgesInHistory'
    <3> SUFFICES ASSUME NEW i \in Ids, age'[i] < Limit
                 PROVE  history'[age'[i] + 1] = i
      BY DEF AgesInHistory
    <3>1. CASE i = next_leader
      BY <3>1, <2>1, <2>2, <2>3, PushedHistory
    <3>2. CASE i # next_leader
      <4>1. age[i] \in 0 .. Limit
        BY <2>1
      <4>2. age[i] < Limit /\ age'[i] = age[i] + 1 /\ age[i] + 1 \in 1 .. (Limit - 1)
        BY <3>2, <2>3, <4>1
      <4>3. history[age[i] + 1] = i
        BY <4>2 DEF RotationInv, AgesInHistory
      <4>4. history'[(age[i] + 1) + 1] = history[age[i] + 1]
        <5>1. \A j \in 1 .. (Limit - 1) : history'[j + 1] = history[j]
          BY <2>1, <2>2 DEF Pushed
        <5> QED BY <5>1, <4>2
      <4> QED BY <4>2, <4>3, <4>4
    <3> QED BY <3>1, <3>2
  <2>7. TypeOK'
    <3>1. history' \in [1 .. Limit -> Ids]
      BY <2>1, <2>2, PushedHistory
    <3>2. elligible' \subseteq Ids
      BY <2>1, <2>2 DEF Rotated
    <3>3. order' \in Orders
      BY <2>2 DEF RotationInv, TypeOK
    <3> QED BY <2>1, <2>2, <2>3, <3>1, <3>2, <3>3 DEF TypeOK
  <2>8. (current_leader \notin elligible)'
    BY <2>2 DEF Rotated
  <2>9. ElligibleBound'
    <3>1. Cardinality(elligible') <= Cardinality(elligible)
      BY <2>1, <2>2, RotationBound
    <3>2. Cardinality(elligible) \in Nat /\ Cardinality(elligible') \in Nat
      BY <2>1, <2>7, LeaderAssumption, FS_Subset, FS_CardinalityType DEF TypeOK
    <3>3. ElligibleBound
      BY DEF RotationInv
    <3> QED BY <2>2, <3>1, <3>2, <3>3 DEF ElligibleBound
  <2> QED BY <2>2, <2>4, <2>5, <2>6, <2>7, <2>8, <2>9 DEF RotationInv
<1> QED BY <1>1, <1>2 DEF Next

\* The invariant holds in every round.
THEOREM RotationInvariant == Spec => []RotationInv
BY InitRotation, NextRotation, PTL DEF Spec

\* No leader follows itself, whatever the order of the ids and the draws.
THEOREM NoImmediateReelection == Spec => []NeverTwiceInARow
<1>1. RotationInv => NeverTwiceInARow
  BY DEF RotationInv, NeverTwiceInARow
<1> QED BY <1>1, RotationInvariant, PTL

\* Every server stays in the rotation.
THEOREM NobodyDropped == Spec => []EveryoneRotates
<1>1. RotationInv => EveryoneRotates
  BY DEF RotationInv
<1> QED BY <1>1, RotationInvariant, PTL

\* The next leader is none of the last Limit leaders, when START_ID is clear.
THEOREM DistinctLeaders == Spec => []LeadersSpaced
<1>1. RotationInv => LeadersSpaced
  <2> SUFFICES ASSUME RotationInv, StartClear(order), age[next_leader] # Limit
               PROVE  FALSE
    BY DEF LeadersSpaced
  <2>1. /\ next_leader \in elligible /\ next_leader \in Ids
        /\ age[next_leader] \in 0 .. Limit
        /\ history \in [1 .. Limit -> Ids]
        /\ elligible \cap Range(history) = {}
    BY DEF RotationInv, TypeOK, HistoryClear
  <2>2. age[next_leader] < Limit /\ age[next_leader] + 1 \in 1 .. Limit
    BY <2>1, Sizes
  <2>3. history[age[next_leader] + 1] = next_leader
    BY <2>1, <2>2 DEF RotationInv, AgesInHistory
  <2>4. next_leader \in Range(history)
    BY <2>1, <2>2, <2>3 DEF Range
  <2> QED BY <2>1, <2>4
<1> QED BY <1>1, RotationInvariant, PTL

\* The draw never runs dry: n - Limit servers are elligible in every round, and
\* at most one more if START_ID was not clear.  The lower bound is what
\* EveryoneRotates leaves to elligible, Limit ids at most being in the history.
THEOREM DrawNeverRunsDry == Spec => []ElligibleCount
<1>1. RotationInv => ElligibleCount
  <2> SUFFICES ASSUME RotationInv PROVE ElligibleCount
    OBVIOUS
  <2>1. /\ elligible \in SUBSET Ids /\ history \in [1 .. Limit -> Ids]
        /\ elligible \cup Range(history) = Ids /\ ElligibleBound
    BY DEF RotationInv, TypeOK, EveryoneRotates
  <2>2. IsFiniteSet(elligible) /\ Cardinality(elligible) \in Nat
    BY <2>1, LeaderAssumption, FS_Subset, FS_CardinalityType
  <2>3. /\ IsFiniteSet(Range(history)) /\ Cardinality(Range(history)) <= Limit
        /\ Cardinality(Range(history)) \in Nat
    BY <2>1, Sizes, RangeBound, FS_CardinalityType
  <2>4. NumNodes = Cardinality(elligible) + Cardinality(Range(history))
                      - Cardinality(elligible \cap Range(history))
    BY <2>1, <2>2, <2>3, FS_Union DEF NumNodes
  <2>5. Cardinality(elligible \cap Range(history)) \in Nat
    BY <2>2, FS_Intersection, FS_CardinalityType
  <2>6. Cardinality(elligible) >= NumNodes - Limit
    BY <2>2, <2>3, <2>4, <2>5, Sizes
  <2> QED BY <2>1, <2>2, <2>6, Sizes DEF ElligibleBound, ElligibleCount
<1> QED BY <1>1, RotationInvariant, PTL
==============================================================================
