----------------------------- MODULE DataLemmas ------------------------------
(***************************************************************************)
(* Facts about numbers and sequences that several proofs need.  The first  *)
(* one stands in for induction: what fails for no least number fails for   *)
(* none.                                                                   *)
(***************************************************************************)
EXTENDS Integers, FiniteSets, SequencesExt, TLAPS, WellFoundedInduction,
        SequenceTheorems, FiniteSetTheorems

\* A nonempty set of naturals has a least element.
LEMMA LeastNat ==
    ASSUME NEW S, S \subseteq Nat, S # {}
    PROVE  \E x \in S : \A y \in S : x <= y
<1>1. PICK x \in S : \A y \in S : ~ (<<y, x>> \in OpToRel(<, Nat))
  BY NatLessThanWellFounded, WFMin
<1>2. \A y \in S : ~ (y < x)
  BY <1>1 DEF OpToRel
<1> QED BY <1>2

\* A nonempty set of naturals with an upper bound has a greatest element.
LEMMA GreatestNat ==
    ASSUME NEW S, S \subseteq Nat, S # {}, NEW n \in Nat, \A x \in S : x <= n
    PROVE  \E x \in S : \A y \in S : x >= y
<1> DEFINE T == {m \in Nat : \A y \in S : y <= m}
<1>1. n \in T
  OBVIOUS
<1>2. T \subseteq Nat /\ T # {}
  BY <1>1
<1> HIDE DEF T
<1>3. PICK m \in T : \A k \in T : m <= k
  BY <1>2, LeastNat
<1>4. m \in Nat /\ \A y \in S : y <= m
  BY <1>3 DEF T
<1>5. m \in S
  <2> SUFFICES ASSUME m \notin S PROVE FALSE OBVIOUS
  <2>1. \A y \in S : y < m
    BY <1>4
  <2>2. PICK y \in S : TRUE
    OBVIOUS
  <2>3. m - 1 \in Nat
    BY <1>4, <2>1, <2>2
  <2>4. m - 1 \in T
    BY <1>4, <2>1, <2>3 DEF T
  <2> QED BY <1>3, <1>4, <2>4
<1> QED BY <1>4, <1>5

----------------------------------------------------------------------------
\* The members of a sequence are its values at 1 .. Len.
LEMMA MembersOf ==
    ASSUME NEW S, NEW s \in Seq(S)
    PROVE  \A x : x \in ToSet(s) <=> \E i \in 1 .. Len(s) : s[i] = x
BY DEF ToSet

\* Append adds one member at the end.
LEMMA MembersOfAppend ==
    ASSUME NEW S, NEW s \in Seq(S), NEW e \in S
    PROVE  /\ Append(s, e) \in Seq(S)
           /\ ToSet(Append(s, e)) = ToSet(s) \cup {e}
<1>1. /\ Append(s, e) \in Seq(S) /\ Len(Append(s, e)) = Len(s) + 1
      /\ \A i \in 1 .. Len(s) : Append(s, e)[i] = s[i]
      /\ Append(s, e)[Len(s) + 1] = e
      /\ Len(s) \in Nat
  OBVIOUS
<1>a. \A x : x \in ToSet(s) <=> \E i \in 1 .. Len(s) : s[i] = x
  BY MembersOf
<1>b. \A x : x \in ToSet(Append(s, e)) <=> \E i \in 1 .. Len(s) + 1 : Append(s, e)[i] = x
  <2>1. DOMAIN Append(s, e) = 1 .. Len(s) + 1
    BY <1>1
  <2> QED BY <2>1 DEF ToSet
<1>2. \A x : x \in ToSet(Append(s, e)) <=> x \in ToSet(s) \/ x = e
  <2> TAKE x
  <2>1. x \in ToSet(s) => x \in ToSet(Append(s, e))
    BY <1>1, <1>a, <1>b
  <2>2. e \in ToSet(Append(s, e))
    BY <1>1, <1>a, <1>b
  <2>3. x \in ToSet(Append(s, e)) => x \in ToSet(s) \/ x = e
    BY <1>1, <1>a, <1>b
  <2> QED BY <2>1, <2>2, <2>3
<1> QED BY <1>1, <1>2

\* The head and the members of the tail are the members.
LEMMA MembersOfTail ==
    ASSUME NEW S, NEW s \in Seq(S), s # <<>>
    PROVE  /\ Head(s) \in S /\ Tail(s) \in Seq(S)
           /\ ToSet(s) = {Head(s)} \cup ToSet(Tail(s))
<1>1. /\ Head(s) \in S /\ Tail(s) \in Seq(S)
      /\ Len(Tail(s)) = Len(s) - 1 /\ Len(s) \in Nat \ {0}
      /\ Head(s) = s[1]
      /\ \A i \in 1 .. Len(s) - 1 : Tail(s)[i] = s[i + 1]
  OBVIOUS
<1>a. \A x : x \in ToSet(s) <=> \E i \in 1 .. Len(s) : s[i] = x
  BY MembersOf
<1>b. \A x : x \in ToSet(Tail(s)) <=> \E i \in 1 .. Len(s) - 1 : Tail(s)[i] = x
  <2>1. DOMAIN Tail(s) = 1 .. Len(s) - 1
    BY <1>1
  <2> QED BY <2>1 DEF ToSet
<1>2. \A x : x \in ToSet(s) <=> x = Head(s) \/ x \in ToSet(Tail(s))
  <2> TAKE x
  <2>1. x \in ToSet(Tail(s)) => x \in ToSet(s)
    <3> SUFFICES ASSUME NEW i \in 1 .. Len(s) - 1, s[i + 1] = x PROVE x \in ToSet(s)
      BY <1>1, <1>a, <1>b
    <3>1. i + 1 \in 1 .. Len(s)
      BY <1>1
    <3> QED BY <3>1, <1>a, <1>b
  <2>2. Head(s) \in ToSet(s)
    BY <1>1, <1>a, <1>b
  <2>3. x \in ToSet(s) => x = Head(s) \/ x \in ToSet(Tail(s))
    <3> SUFFICES ASSUME NEW i \in 1 .. Len(s), s[i] = x, i # 1 PROVE x \in ToSet(Tail(s))
      BY <1>1, <1>a, <1>b
    <3>1. i - 1 \in 1 .. Len(s) - 1 /\ Tail(s)[i - 1] = s[i]
      BY <1>1
    <3> QED BY <1>1, <3>1, <1>a, <1>b
  <2> QED BY <2>1, <2>2, <2>3
<1> QED BY <1>1, <1>2

\* Concatenation has the members of both.
LEMMA MembersOfConcat ==
    ASSUME NEW S, NEW s \in Seq(S), NEW t \in Seq(S)
    PROVE  s \o t \in Seq(S) /\ ToSet(s \o t) = ToSet(s) \cup ToSet(t)
<1>1. /\ s \o t \in Seq(S) /\ Len(s \o t) = Len(s) + Len(t)
      /\ Len(s) \in Nat /\ Len(t) \in Nat
      /\ \A i \in 1 .. Len(s) : (s \o t)[i] = s[i]
      /\ \A i \in 1 .. Len(t) : (s \o t)[Len(s) + i] = t[i]
  OBVIOUS
<1>a. \A x : x \in ToSet(s) <=> \E i \in 1 .. Len(s) : s[i] = x
  BY MembersOf
<1>b. \A x : x \in ToSet(t) <=> \E i \in 1 .. Len(t) : t[i] = x
  BY MembersOf
<1>c. \A x : x \in ToSet(s \o t) <=> \E i \in 1 .. Len(s) + Len(t) : (s \o t)[i] = x
  <2>1. DOMAIN (s \o t) = 1 .. Len(s) + Len(t)
    BY <1>1
  <2> QED BY <2>1 DEF ToSet
<1>2. \A x : x \in ToSet(s \o t) <=> x \in ToSet(s) \/ x \in ToSet(t)
  <2> TAKE x
  <2>1. x \in ToSet(s) => x \in ToSet(s \o t)
    BY <1>1, <1>a, <1>b, <1>c
  <2>2. x \in ToSet(t) => x \in ToSet(s \o t)
    <3> SUFFICES ASSUME NEW i \in 1 .. Len(t), t[i] = x PROVE x \in ToSet(s \o t)
      BY <1>a, <1>b, <1>c
    <3>1. Len(s) + i \in 1 .. Len(s \o t) /\ (s \o t)[Len(s) + i] = x
      BY <1>1
    <3> QED BY <1>1, <3>1, <1>a, <1>b, <1>c
  <2>3. ASSUME NEW i \in 1 .. Len(s \o t), (s \o t)[i] = x
        PROVE  x \in ToSet(s) \/ x \in ToSet(t)
    <3>1. CASE i <= Len(s)
      BY <2>3, <3>1, <1>1, <1>a, <1>b, <1>c
    <3>2. CASE i > Len(s)
      <4>1. i - Len(s) \in 1 .. Len(t) /\ Len(s) + (i - Len(s)) = i
        BY <3>2, <1>1
      <4>2. t[i - Len(s)] = x
        BY <4>1, <2>3, <1>1
      <4> QED BY <4>1, <4>2, <1>a, <1>b, <1>c
    <3> QED BY <3>1, <3>2, <1>1
  <2> QED BY <1>1, <2>1, <2>2, <2>3, <1>a, <1>b, <1>c
<1> QED BY <1>1, <1>2

\* A segment of a sequence.
LEMMA SegmentOf ==
    ASSUME NEW S, NEW s \in Seq(S), NEW a \in Nat, NEW b \in Nat,
           1 <= a, a <= b + 1, b <= Len(s)
    PROVE  /\ SubSeq(s, a, b) \in Seq(S) /\ Len(SubSeq(s, a, b)) = b - a + 1
           /\ \A i \in 1 .. b - a + 1 : SubSeq(s, a, b)[i] = s[a + i - 1]
<1>1. Len(s) \in Nat /\ \A i \in 1 .. Len(s) : s[i] \in S
  OBVIOUS
<1>2. \A i \in a .. b : s[i] \in S
  BY <1>1
<1> QED BY <1>1, <1>2

\* The same, with the conclusion as one predicate.
IsSegment(t, S, s, a, b) ==
    /\ t \in Seq(S) /\ Len(t) = b - a + 1
    /\ \A i \in 1 .. b - a + 1 : t[i] = s[a + i - 1]

\* A subsequence is a segment.
LEMMA SegmentIs ==
    ASSUME NEW S, NEW s \in Seq(S), NEW a \in Nat, NEW b \in Nat,
           1 <= a, a <= b + 1, b <= Len(s)
    PROVE  IsSegment(SubSeq(s, a, b), S, s, a, b)
BY SegmentOf DEF IsSegment

\* What Append does, place by place.
LEMMA PlacesOfAppend ==
    ASSUME NEW S, NEW s \in Seq(S), NEW e \in S
    PROVE  /\ Append(s, e) \in Seq(S) /\ Append(s, e) # <<>>
           /\ Len(s) \in Nat /\ Len(Append(s, e)) = Len(s) + 1
           /\ \A i \in 1 .. Len(s) : Append(s, e)[i] = s[i]
           /\ Append(s, e)[Len(s) + 1] = e
OBVIOUS

\* A run of consecutive numbers ending in h - 1 goes on with h.
LEMMA AppendRun ==
    ASSUME NEW r \in Seq(Nat), NEW h \in Nat, Len(r) <= h - 1,
           \A i \in 1 .. Len(r) : r[i] = h - 1 - Len(r) + i
    PROVE  /\ Append(r, h) \in Seq(Nat) /\ Append(r, h) # <<>>
           /\ Len(Append(r, h)) = Len(r) + 1
           /\ \A i \in 1 .. Len(r) + 1 : Append(r, h)[i] = h - (Len(r) + 1) + i
           /\ ToSet(Append(r, h)) = ToSet(r) \cup {h}
<1>1. /\ Append(r, h) \in Seq(Nat) /\ Append(r, h) # <<>>
      /\ Len(r) \in Nat /\ Len(Append(r, h)) = Len(r) + 1
      /\ \A i \in 1 .. Len(r) : Append(r, h)[i] = r[i]
      /\ Append(r, h)[Len(r) + 1] = h
  BY PlacesOfAppend
<1>2. ASSUME NEW i \in 1 .. Len(r) + 1 PROVE Append(r, h)[i] = h - (Len(r) + 1) + i
  <2>1. CASE i = Len(r) + 1
    BY <1>1, <2>1
  <2>2. CASE i # Len(r) + 1
    <3>1. i \in 1 .. Len(r)
      BY <1>1, <2>2
    <3>2. Append(r, h)[i] = h - 1 - Len(r) + i
      BY <1>1, <3>1
    <3> QED BY <1>1, <3>2
  <2> QED BY <2>1, <2>2
<1>3. ToSet(Append(r, h)) = ToSet(r) \cup {h}
  BY MembersOfAppend
<1> QED BY <1>1, <1>2, <1>3

\* A run of consecutive numbers ending in h, cut in two: both parts are runs,
\* and nothing is lost.
LEMMA CutRun ==
    ASSUME NEW r \in Seq(Nat), NEW h \in Nat, NEW k \in 0 .. Len(r),
           \A i \in 1 .. Len(r) : r[i] = h - Len(r) + i
    PROVE  /\ SubSeq(r, 1, k) \in Seq(Nat)
           /\ \A i, j \in 1 .. Len(SubSeq(r, 1, k)) :
                 i < j => SubSeq(r, 1, k)[i] < SubSeq(r, 1, k)[j]
           /\ SubSeq(r, k + 1, Len(r)) \in Seq(Nat)
           /\ Len(SubSeq(r, k + 1, Len(r))) = Len(r) - k
           /\ \A i \in 1 .. Len(r) - k : SubSeq(r, k + 1, Len(r))[i] = h - (Len(r) - k) + i
           /\ ToSet(r) \subseteq ToSet(SubSeq(r, 1, k)) \cup ToSet(SubSeq(r, k + 1, Len(r)))
<1>1. PICK n \in Nat : n = Len(r)
  OBVIOUS
<1>2. PICK a : a = SubSeq(r, 1, k)
  OBVIOUS
<1>3. PICK b : b = SubSeq(r, k + 1, Len(r))
  OBVIOUS
<1>4. k \in Nat /\ k <= n
  BY <1>1
<1>5. a \in Seq(Nat) /\ Len(a) = k /\ \A i \in 1 .. k : a[i] = r[i]
  <2>1. /\ a \in Seq(Nat) /\ Len(a) = k - 1 + 1
        /\ \A i \in 1 .. k - 1 + 1 : a[i] = r[1 + i - 1]
    BY <1>1, <1>2, <1>4, SegmentOf
  <2> QED BY <1>4, <2>1
<1>6. b \in Seq(Nat) /\ Len(b) = n - k /\ \A i \in 1 .. n - k : b[i] = r[k + i]
  <2>1. k + 1 \in Nat /\ 1 <= k + 1 /\ k + 1 <= n + 1
    BY <1>4
  <2>2. /\ b \in Seq(Nat) /\ Len(b) = n - (k + 1) + 1
        /\ \A i \in 1 .. n - (k + 1) + 1 : b[i] = r[(k + 1) + i - 1]
    BY <1>1, <1>3, <2>1, SegmentOf
  <2> QED BY <1>4, <2>2
<1>7. \A i \in 1 .. n : r[i] = h - n + i
  BY <1>1
<1>8. ASSUME NEW i \in 1 .. k, NEW j \in 1 .. k, i < j PROVE a[i] < a[j]
  <2>1. i \in 1 .. n /\ j \in 1 .. n
    BY <1>4
  <2>2. a[i] = h - n + i /\ a[j] = h - n + j
    BY <2>1, <1>5, <1>7
  <2> QED BY <1>8, <2>2
<1>9. \A i \in 1 .. n - k : b[i] = h - (n - k) + i
  BY <1>4, <1>6, <1>7
<1>10. ASSUME NEW i \in 1 .. n PROVE r[i] \in ToSet(a) \cup ToSet(b)
  <2>1. CASE i <= k
    <3>1. i \in 1 .. Len(a) /\ a[i] = r[i]
      BY <2>1, <1>4, <1>5
    <3> QED BY <3>1, <1>5, MembersOf
  <2>2. CASE i > k
    <3>1. i - k \in 1 .. n - k /\ k + (i - k) = i
      BY <2>2, <1>4
    <3>2. i - k \in 1 .. Len(b) /\ b[i - k] = r[i]
      BY <3>1, <1>6
    <3> QED BY <3>2, <1>6, MembersOf
  <2> QED BY <2>1, <2>2, <1>4
<1>11. ToSet(r) \subseteq ToSet(a) \cup ToSet(b)
  BY <1>1, <1>10, MembersOf
<1> QED BY <1>1, <1>2, <1>3, <1>5, <1>6, <1>8, <1>9, <1>11

----------------------------------------------------------------------------
\* Concatenation is associative.
Regroups(S) == \A a, b, c \in Seq(S) : (a \o b) \o c = a \o (b \o c)

LEMMA Regroup == ASSUME NEW S PROVE Regroups(S)
BY ConcatAssociative DEF Regroups

\* f lists the concatenations of the first sequences of s.
Flattens(f, s) ==
    \A i \in 1 .. Len(s) : f[i] = IF i = 1 THEN s[1] ELSE f[i - 1] \o s[i]

\* Such an f exists.
LEMMA FlattensExists ==
    ASSUME NEW S, NEW s \in Seq(Seq(S))
    PROVE  \E f \in [1 .. Len(s) -> Seq(S)] : Flattens(f, s)
<1> DEFINE Good(m, f) == \A i \in 1 .. m : f[i] = IF i = 1 THEN s[1] ELSE f[i - 1] \o s[i]
<1> DEFINE bad == {m \in 0 .. Len(s) : \A f \in [1 .. m -> Seq(S)] : ~ Good(m, f)}
<1>1. PICK n \in Nat : n = Len(s)
  OBVIOUS
<1>2. \A i \in 1 .. n : s[i] \in Seq(S)
  BY <1>1
<1>3. bad = {}
  <2> SUFFICES ASSUME bad # {} PROVE FALSE OBVIOUS
  <2>a. bad \subseteq Nat
    BY <1>1
  <2>b. \A m \in 0 .. n : m \notin bad => \E f \in [1 .. m -> Seq(S)] : Good(m, f)
    BY <1>1
  <2>c. \A m \in bad : m \in 0 .. n /\ \A f \in [1 .. m -> Seq(S)] : ~ Good(m, f)
    BY <1>1
  <2> HIDE DEF bad
  <2>1. PICK m \in bad : \A k \in bad : m <= k
    BY <2>a, LeastNat
  <2>2. m \in 0 .. n
    BY <2>1, <2>c
  <2>3. m # 0
    <3> SUFFICES ASSUME m = 0 PROVE FALSE OBVIOUS
    <3> DEFINE f == [i \in 1 .. 0 |-> <<>>]
    <3>1. f \in [1 .. 0 -> Seq(S)] /\ Good(0, f)
      OBVIOUS
    <3> QED BY <3>1, <2>1, <2>c
  <2>4. m - 1 \in 0 .. n /\ m - 1 \notin bad
    BY <2>1, <2>2, <2>3
  <2>5. PICK g \in [1 .. m - 1 -> Seq(S)] : Good(m - 1, g)
    BY <2>4, <2>b
  <2>6. PICK last : last = IF m = 1 THEN s[1] ELSE g[m - 1] \o s[m]
    OBVIOUS
  <2>7. last \in Seq(S)
    <3>1. CASE m = 1
      BY <3>1, <2>2, <2>6, <1>2
    <3>2. CASE m # 1
      <4>1. m - 1 \in 1 .. m - 1 /\ m \in 1 .. n
        BY <2>2, <2>3, <3>2
      <4>2. g[m - 1] \in Seq(S) /\ s[m] \in Seq(S)
        BY <4>1, <2>5, <1>2
      <4> QED BY <3>2, <4>2, <2>6, ConcatProperties
    <3> QED BY <3>1, <3>2
  <2>8. PICK f : f = [i \in 1 .. m |-> IF i = m THEN last ELSE g[i]]
    OBVIOUS
  <2>9. f \in [1 .. m -> Seq(S)]
    <3>1. \A i \in 1 .. m : i # m => i \in 1 .. m - 1
      BY <2>2
    <3>2. \A i \in 1 .. m : (IF i = m THEN last ELSE g[i]) \in Seq(S)
      BY <3>1, <2>5, <2>7
    <3> QED BY <3>2, <2>8
  <2>10. ASSUME NEW i \in 1 .. m PROVE f[i] = IF i = 1 THEN s[1] ELSE f[i - 1] \o s[i]
    <3>1. i # 1 => i - 1 \in 1 .. m /\ i - 1 # m
      BY <2>2
    <3>2. i # 1 => f[i - 1] = g[i - 1]
      BY <3>1, <2>8
    <3>3. CASE i = m
      BY <3>2, <3>3, <2>6, <2>8
    <3>4. CASE i # m
      <4>1. i \in 1 .. m - 1
        BY <3>4, <2>2
      <4>2. f[i] = g[i]
        BY <3>4, <2>8
      <4>3. g[i] = IF i = 1 THEN s[1] ELSE g[i - 1] \o s[i]
        BY <4>1, <2>5
      <4> QED BY <3>2, <4>2, <4>3
    <3> QED BY <3>3, <3>4
  <2>11. Good(m, f)
    BY <2>10
  <2> QED BY <2>1, <2>9, <2>11, <2>c
<1>4. n \notin bad /\ n \in 0 .. n
  <2> HIDE DEF bad
  <2> QED BY <1>3
<1>5. PICK f \in [1 .. n -> Seq(S)] : Good(n, f)
  BY <1>1, <1>4
<1> QED BY <1>1, <1>5 DEF Flattens

\* Two of them agree.
LEMMA FlattensUnique ==
    ASSUME NEW S, NEW s \in Seq(Seq(S)), NEW f, NEW g, Flattens(f, s), Flattens(g, s),
           NEW j \in 1 .. Len(s)
    PROVE  f[j] = g[j]
<1>1. PICK n \in Nat : n = Len(s)
  OBVIOUS
<1>2. /\ \A i \in 1 .. n : f[i] = IF i = 1 THEN s[1] ELSE f[i - 1] \o s[i]
      /\ \A i \in 1 .. n : g[i] = IF i = 1 THEN s[1] ELSE g[i - 1] \o s[i]
  BY <1>1 DEF Flattens
<1> DEFINE bad == {i \in 1 .. n : f[i] # g[i]}
<1>3. bad = {}
  <2> SUFFICES ASSUME bad # {} PROVE FALSE OBVIOUS
  <2>a. bad \subseteq Nat
    OBVIOUS
  <2>1. PICK i \in bad : \A k \in bad : i <= k
    <3> HIDE DEF bad
    <3> QED BY <2>a, LeastNat
  <2>2. i # 1
    BY <1>2, <2>1
  <2>3. i \in 1 .. n /\ i - 1 \in 1 .. n /\ i - 1 \notin bad
    BY <2>1, <2>2
  <2>4. f[i - 1] = g[i - 1]
    BY <2>3
  <2>5. f[i] = f[i - 1] \o s[i] /\ g[i] = g[i - 1] \o s[i]
    BY <1>2, <2>2, <2>3
  <2> QED BY <2>1, <2>4, <2>5
<1> QED BY <1>1, <1>3

\* FlattenSeq is the last of them.
LEMMA FlattenIs ==
    ASSUME NEW S, NEW s \in Seq(Seq(S)), s # <<>>, NEW f, Flattens(f, s)
    PROVE  FlattenSeq(s) = f[Len(s)] /\ FlattenSeq(s) \in Seq(S)
<1>1. PICK n \in Nat : n = Len(s) /\ n > 0
  OBVIOUS
<1>2. PICK g \in [1 .. n -> Seq(S)] : Flattens(g, s)
  BY <1>1, FlattensExists
<1> DEFINE Step(h) == [i \in 1 .. Len(s) |-> IF i = 1 THEN s[i] ELSE h[i - 1] \o s[i]]
           fl == CHOOSE h : h = Step(h)
<1>3. g = Step(g)
  BY <1>1, <1>2 DEF Flattens
<1>4. fl = Step(fl)
  BY <1>3
<1>5. FlattenSeq(s) = fl[Len(s)]
  BY <1>1 DEF FlattenSeq
<1> HIDE DEF fl
<1>6. Flattens(fl, s)
  BY <1>4 DEF Flattens
<1>7. fl[n] = f[n] /\ fl[n] = g[n] /\ g[n] \in Seq(S)
  BY <1>1, <1>2, <1>6, FlattensUnique
<1> QED BY <1>1, <1>5, <1>7

\* A sequence of sequences flattens to a sequence, the empty one to itself.
LEMMA FlattenType ==
    ASSUME NEW S, NEW s \in Seq(Seq(S))
    PROVE  /\ FlattenSeq(s) \in Seq(S)
           /\ s = <<>> => FlattenSeq(s) = <<>>
<1>1. CASE s = <<>>
  <2>1. FlattenSeq(s) = <<>>
    BY <1>1 DEF FlattenSeq
  <2>2. <<>> \in Seq(S)
    BY EmptySeq
  <2> QED BY <2>1, <2>2, Zenon
<1>2. CASE s # <<>>
  <2>1. PICK f : Flattens(f, s)
    BY FlattensExists
  <2> QED BY <1>2, <2>1, FlattenIs
<1> QED BY <1>1, <1>2

\* A sequence appended to s is appended to what s flattens to.
LEMMA FlattenAppend ==
    ASSUME NEW S, NEW s \in Seq(Seq(S)), NEW x \in Seq(S)
    PROVE  FlattenSeq(Append(s, x)) = FlattenSeq(s) \o x
<1>1. PICK n \in Nat : n = Len(s)
  OBVIOUS
<1>2. PICK t \in Seq(Seq(S)) : t = Append(s, x)
  BY PlacesOfAppend
<1>3. /\ t # <<>> /\ Len(t) = n + 1 /\ \A i \in 1 .. n : t[i] = s[i]
      /\ t[n + 1] = x
  BY <1>1, <1>2, PlacesOfAppend
<1>4. PICK f : Flattens(f, t)
  BY FlattensExists
<1>5. \A i \in 1 .. n + 1 : f[i] = IF i = 1 THEN t[1] ELSE f[i - 1] \o t[i]
  BY <1>3, <1>4 DEF Flattens
<1>6. FlattenSeq(t) = f[n + 1]
  BY <1>3, <1>4, FlattenIs
<1>7. n + 1 \in 1 .. n + 1
  OBVIOUS
<1>8. CASE n = 0
  <2>1. s = <<>> /\ f[1] = x
    <3>1. s = <<>>
      BY <1>1, <1>8, EmptySeq
    <3>2. 1 \in 1 .. n + 1 /\ t[1] = x
      BY <1>3, <1>8
    <3> QED BY <1>5, <3>1, <3>2
  <2>2. FlattenSeq(s) = <<>>
    BY <2>1, FlattenType
  <2>3. <<>> \o x = x
    BY ConcatEmptySeq
  <2> QED BY <1>2, <1>6, <1>8, <2>1, <2>2, <2>3
<1>9. CASE n # 0
  <2>1. \A i \in 1 .. n : f[i] = IF i = 1 THEN s[1] ELSE f[i - 1] \o s[i]
    <3> SUFFICES ASSUME NEW i \in 1 .. n
                 PROVE  f[i] = IF i = 1 THEN s[1] ELSE f[i - 1] \o s[i]
      OBVIOUS
    <3>1. i \in 1 .. n + 1 /\ t[i] = s[i] /\ (i = 1 => t[1] = s[1])
      BY <1>3
    <3> QED BY <3>1, <1>5
  <2>2. Flattens(f, s) /\ s # <<>>
    BY <1>1, <1>9, <2>1 DEF Flattens
  <2>3. FlattenSeq(s) = f[n]
    BY <1>1, <2>2, FlattenIs
  <2>4. f[n + 1] = f[n] \o x
    <3>1. PICK j \in 1 .. n + 1 : j = n + 1 /\ j # 1 /\ j - 1 = n
      BY <1>7, <1>9
    <3>2. f[j] = f[j - 1] \o t[j]
      BY <1>5, <3>1
    <3> QED BY <1>3, <3>1, <3>2
  <2> QED BY <1>2, <1>6, <2>3, <2>4
<1> QED BY <1>8, <1>9

\* What s flattens to starts with the first sequence of s.
LEMMA FlattenHead ==
    ASSUME NEW S, NEW s \in Seq(Seq(S)), s # <<>>
    PROVE  FlattenSeq(s) = Head(s) \o FlattenSeq(Tail(s))
<1>1. PICK n \in Nat : n = Len(s) /\ n > 0
  OBVIOUS
<1>2. PICK t \in Seq(Seq(S)) : t = Tail(s)
  BY HeadTailProperties
<1>3. Len(t) = n - 1 /\ \A i \in 1 .. n - 1 : t[i] = s[i + 1]
  BY <1>1, <1>2
<1>4. PICK x \in Seq(S) : x = Head(s) /\ x = s[1]
  BY <1>1
<1>a. \A a, b \in Seq(S) : (x \o a) \o b = x \o (a \o b)
  <2>1. Regroups(S)
    BY Regroup, Zenon
  <2> QED BY <2>1 DEF Regroups
<1>5. PICK f : Flattens(f, s)
  BY FlattensExists
<1>6. PICK g \in [1 .. Len(t) -> Seq(S)] : Flattens(g, t)
  BY FlattensExists
<1>7. /\ FlattenSeq(s) = f[n]
      /\ \A i \in 1 .. n : f[i] = IF i = 1 THEN s[1] ELSE f[i - 1] \o s[i]
      /\ \A i \in 1 .. n : s[i] \in Seq(S)
  <2>1. FlattenSeq(s) = f[n]
    BY <1>1, <1>5, FlattenIs
  <2>2. \A i \in 1 .. n : f[i] = IF i = 1 THEN s[1] ELSE f[i - 1] \o s[i]
    BY <1>1, <1>5 DEF Flattens
  <2>3. \A i \in 1 .. n : s[i] \in Seq(S)
    BY <1>1, ElementOfSeq
  <2> QED BY <2>1, <2>2, <2>3
<1>8. /\ \A i \in 1 .. n - 1 : g[i] = IF i = 1 THEN t[1] ELSE g[i - 1] \o t[i]
      /\ \A i \in 1 .. n - 1 : g[i] \in Seq(S)
  BY <1>3, <1>6 DEF Flattens
<1>9. CASE n = 1
  <2>1. t = <<>>
    BY <1>3, <1>9
  <2>2. FlattenSeq(t) = <<>>
    BY <2>1, FlattenType
  <2>3. x \o <<>> = x
    BY ConcatEmptySeq
  <2> QED BY <1>2, <1>4, <1>7, <1>9, <2>2, <2>3
<1>10. CASE n > 1
  <2> DEFINE bad == {i \in 1 .. n - 1 : f[i + 1] # x \o g[i]}
  <2>1. bad = {}
    <3> SUFFICES ASSUME bad # {} PROVE FALSE OBVIOUS
    <3>a. bad \subseteq Nat
      OBVIOUS
    <3>1. PICK i \in bad : \A k \in bad : i <= k
      <4> HIDE DEF bad
      <4> QED BY <3>a, LeastNat
    <3>2. i \in 1 .. n - 1 /\ i + 1 \in 1 .. n /\ i + 1 # 1 /\ i + 1 - 1 = i
      BY <3>1
    <3>3. f[i + 1] = f[i] \o s[i + 1] /\ s[i + 1] = t[i]
      <4>1. PICK j \in 1 .. n : j = i + 1 /\ j # 1 /\ j - 1 = i
        BY <3>2
      <4>2. f[j] = f[j - 1] \o s[j]
        BY <1>7, <4>1
      <4> QED BY <1>3, <3>2, <4>1, <4>2
    <3>4. CASE i = 1
      <4>1. f[i] = x /\ g[i] = t[i]
        BY <1>4, <1>7, <1>8, <3>2, <3>4
      <4> QED BY <3>1, <3>3, <4>1
    <3>5. CASE i # 1
      <4>1. i - 1 \in 1 .. n - 1 /\ i - 1 \notin bad /\ i - 1 + 1 = i
        <5>1. i - 1 \in 1 .. n - 1 /\ i - 1 + 1 = i /\ ~ (i <= i - 1)
          BY <3>2, <3>5
        <5> HIDE DEF bad
        <5> QED BY <3>1, <5>1, Zenon
      <4>2. f[i] = x \o g[i - 1]
        BY <4>1
      <4>3. g[i] = g[i - 1] \o t[i]
        BY <1>8, <3>2, <3>5
      <4>4. g[i - 1] \in Seq(S) /\ t[i] \in Seq(S)
        BY <1>7, <1>8, <3>2, <3>3, <4>1
      <4>5. (x \o g[i - 1]) \o t[i] = x \o (g[i - 1] \o t[i])
        <5>1. PICK a \in Seq(S), b \in Seq(S) : a = g[i - 1] /\ b = t[i]
          BY <4>4
        <5>2. (x \o a) \o b = x \o (a \o b)
          BY <1>a
        <5> QED BY <5>1, <5>2
      <4>6. f[i + 1] = x \o g[i]
        BY <3>3, <4>2, <4>3, <4>5
      <4> QED BY <3>1, <4>6
    <3> QED BY <3>4, <3>5
  <2>2. n - 1 \in 1 .. n - 1 /\ n - 1 + 1 = n
    BY <1>10
  <2>3. f[n] = x \o g[n - 1]
    BY <2>1, <2>2
  <2>4. FlattenSeq(t) = g[n - 1]
    <3>1. t # <<>>
      BY <1>3, <1>10
    <3> QED BY <1>3, <1>6, <3>1, FlattenIs
  <2> QED BY <1>2, <1>4, <1>7, <2>3, <2>4
<1> QED BY <1>1, <1>9, <1>10

\* The first k sequences of p, and one more.
LEMMA FirstAndNext ==
    ASSUME NEW S, NEW p \in Seq(S), NEW k \in 1 .. Len(p)
    PROVE  /\ p[k] \in S /\ SubSeq(p, 1, k - 1) \in Seq(S)
           /\ SubSeq(p, 1, k) = Append(SubSeq(p, 1, k - 1), p[k])
<1>1. PICK n \in Nat : n = Len(p)
  OBVIOUS
<1>2. k \in Nat /\ k - 1 \in Nat /\ 1 <= k /\ k <= n /\ p[k] \in S
  BY <1>1
<1>3. PICK a : a = SubSeq(p, 1, k)
  OBVIOUS
<1>4. PICK b : b = SubSeq(p, 1, k - 1)
  OBVIOUS
<1>5. a \in Seq(S) /\ Len(a) = k /\ \A i \in 1 .. k : a[i] = p[i]
  <2>1. /\ a \in Seq(S) /\ Len(a) = k - 1 + 1
        /\ \A i \in 1 .. k - 1 + 1 : a[i] = p[1 + i - 1]
    BY <1>1, <1>2, <1>3, SegmentOf
  <2> QED BY <1>2, <2>1
<1>6. b \in Seq(S) /\ Len(b) = k - 1 /\ \A i \in 1 .. k - 1 : b[i] = p[i]
  <2>1. /\ b \in Seq(S) /\ Len(b) = (k - 1) - 1 + 1
        /\ \A i \in 1 .. (k - 1) - 1 + 1 : b[i] = p[1 + i - 1]
    <3>1. 1 \in Nat /\ 1 <= 1 /\ 1 <= k - 1 + 1 /\ k - 1 <= Len(p)
      BY <1>1, <1>2
    <3> QED BY <1>2, <1>4, <3>1, SegmentOf
  <2> QED BY <1>2, <2>1
<1>7. PICK c \in Seq(S) : c = Append(b, p[k])
  BY <1>2, <1>6, PlacesOfAppend
<1>8. Len(c) = k /\ (\A i \in 1 .. k - 1 : c[i] = b[i]) /\ c[k] = p[k]
  <2>1. /\ Len(c) = k - 1 + 1 /\ (\A i \in 1 .. k - 1 : c[i] = b[i])
        /\ c[k - 1 + 1] = p[k]
    BY <1>2, <1>6, <1>7, PlacesOfAppend
  <2>2. k - 1 + 1 = k
    BY <1>2
  <2> QED BY <2>1, <2>2
<1>9. ASSUME NEW i \in 1 .. k PROVE a[i] = c[i]
  <2>1. CASE i = k
    BY <1>5, <1>8, <2>1
  <2>2. CASE i # k
    <3>1. i \in 1 .. k - 1
      BY <1>2, <2>2
    <3> QED BY <1>5, <1>6, <1>8, <3>1
  <2> QED BY <2>1, <2>2
<1>10. a = c
  BY <1>5, <1>8, <1>9, SeqEqual
<1> QED BY <1>2, <1>3, <1>4, <1>6, <1>7, <1>10

\* What the first m sequences flatten to is continued by what more of them do.
LEMMA FlattenGrows ==
    ASSUME NEW S, NEW p \in Seq(Seq(S)), NEW m \in 0 .. Len(p), NEW k \in m .. Len(p)
    PROVE  \E b \in Seq(S) : FlattenSeq(SubSeq(p, 1, k)) = FlattenSeq(SubSeq(p, 1, m)) \o b
<1>1. PICK n \in Nat : n = Len(p)
  OBVIOUS
<1>2. PICK a \in Seq(S) : a = FlattenSeq(SubSeq(p, 1, m))
  <2>1. SubSeq(p, 1, m) \in Seq(Seq(S))
    <3>1. m \in Nat /\ 1 \in Nat /\ 1 <= 1 /\ 1 <= m + 1 /\ m <= Len(p)
      BY <1>1
    <3> QED BY <3>1, SegmentOf
  <2> QED BY <2>1, FlattenType
<1> DEFINE bad == {i \in m .. n : \A b \in Seq(S) : FlattenSeq(SubSeq(p, 1, i)) # a \o b}
<1>3. bad = {}
  <2> SUFFICES ASSUME bad # {} PROVE FALSE OBVIOUS
  <2>a. bad \subseteq Nat
    BY <1>1
  <2>1. PICK i \in bad : \A j \in bad : i <= j
    <3> HIDE DEF bad
    <3> QED BY <2>a, LeastNat
  <2>2. i \in m .. n /\ \A b \in Seq(S) : FlattenSeq(SubSeq(p, 1, i)) # a \o b
    BY <2>1
  <2>3. i # m
    <3>1. a \o <<>> = a /\ <<>> \in Seq(S)
      BY ConcatEmptySeq, EmptySeq
    <3> QED BY <1>2, <2>2, <3>1
  <2>4. i - 1 \in m .. n /\ i \in 1 .. n
    BY <1>1, <2>2, <2>3
  <2>5. i - 1 \notin bad
    <3>1. ~ (i <= i - 1)
      BY <2>4
    <3> HIDE DEF bad
    <3> QED BY <2>1, <3>1, Zenon
  <2>6. PICK b \in Seq(S) : FlattenSeq(SubSeq(p, 1, i - 1)) = a \o b
    BY <2>4, <2>5
  <2>7. /\ p[i] \in Seq(S) /\ SubSeq(p, 1, i - 1) \in Seq(Seq(S))
        /\ SubSeq(p, 1, i) = Append(SubSeq(p, 1, i - 1), p[i])
    BY <1>1, <2>4, FirstAndNext
  <2>8. PICK x \in Seq(S) : x = p[i]
    BY <2>7
  <2>9. FlattenSeq(SubSeq(p, 1, i)) = (a \o b) \o x
    <3>1. PICK q \in Seq(Seq(S)) : q = SubSeq(p, 1, i - 1)
      BY <2>7
    <3>2. FlattenSeq(Append(q, x)) = FlattenSeq(q) \o x
      BY FlattenAppend
    <3> QED BY <2>6, <2>7, <2>8, <3>1, <3>2, Zenon
  <2>10. (a \o b) \o x = a \o (b \o x) /\ b \o x \in Seq(S)
    <3>1. (a \o b) \o x = a \o (b \o x)
      <4>1. Regroups(S)
        BY Regroup, Zenon
      <4> QED BY <4>1 DEF Regroups
    <3>2. b \o x \in Seq(S)
      BY ConcatProperties
    <3> QED BY <3>1, <3>2, Zenon
  <2> HIDE DEF bad
  <2> QED BY <2>2, <2>9, <2>10, Zenon
<1>4. k \in m .. n
  BY <1>1
<1> QED BY <1>2, <1>3, <1>4

\* A sequence is a prefix of what continues it.
LEMMA PrefixOfConcat ==
    ASSUME NEW S, NEW a \in Seq(S), NEW b \in Seq(S)
    PROVE  IsPrefix(a, a \o b)
<1>1. PICK n \in Nat, m \in Nat : n = Len(a) /\ m = Len(b)
  OBVIOUS
<1>2. PICK c \in Seq(S) : c = a \o b
  BY ConcatProperties
<1>3. Len(c) = n + m /\ \A i \in 1 .. n : c[i] = a[i]
  BY <1>1, <1>2
<1>4. /\ SubSeq(a, 1, n) \in Seq(S) /\ Len(SubSeq(a, 1, n)) = n - 1 + 1
      /\ \A i \in 1 .. n - 1 + 1 : SubSeq(a, 1, n)[i] = a[1 + i - 1]
  BY <1>1, SegmentOf
<1>5. /\ SubSeq(c, 1, n) \in Seq(S) /\ Len(SubSeq(c, 1, n)) = n - 1 + 1
      /\ \A i \in 1 .. n - 1 + 1 : SubSeq(c, 1, n)[i] = c[1 + i - 1]
  <2>1. 1 \in Nat /\ 1 <= 1 /\ 1 <= n + 1 /\ n <= Len(c)
    BY <1>1, <1>3
  <2> QED BY <1>1, <2>1, SegmentOf
<1>6. PICK u \in Seq(S), v \in Seq(S) : u = SubSeq(a, 1, n) /\ v = SubSeq(c, 1, n)
  BY <1>4, <1>5
<1>7. Len(u) = n /\ Len(v) = n /\ \A i \in 1 .. n : u[i] = v[i]
  <2>1. n - 1 + 1 = n /\ \A i \in 1 .. n : 1 + i - 1 = i
    OBVIOUS
  <2> QED BY <1>3, <1>4, <1>5, <1>6, <2>1
<1>8. u = v
  BY <1>7, SeqEqual
<1>9. n <= n + m
  OBVIOUS
<1> QED BY <1>1, <1>2, <1>3, <1>6, <1>8, <1>9, Zenon DEF IsPrefix

\* Append leaves the first elements alone.
LEMMA FirstOfAppend ==
    ASSUME NEW S, NEW p \in Seq(S), NEW e \in S, NEW t \in Nat, t <= Len(p)
    PROVE  SubSeq(Append(p, e), 1, t) = SubSeq(p, 1, t)
<1>1. PICK q \in Seq(S) : q = Append(p, e)
  BY PlacesOfAppend
<1>2. PICK l \in Nat : l = Len(p) /\ t <= l
  OBVIOUS
<1>3. Len(q) = l + 1 /\ \A i \in 1 .. l : q[i] = p[i]
  BY <1>1, <1>2, PlacesOfAppend
<1>4. /\ SubSeq(q, 1, t) \in Seq(S) /\ Len(SubSeq(q, 1, t)) = t - 1 + 1
      /\ \A i \in 1 .. t - 1 + 1 : SubSeq(q, 1, t)[i] = q[1 + i - 1]
  <2>1. 1 \in Nat /\ 1 <= 1 /\ 1 <= t + 1 /\ t <= Len(q)
    BY <1>2, <1>3
  <2> QED BY <2>1, SegmentOf
<1>5. /\ SubSeq(p, 1, t) \in Seq(S) /\ Len(SubSeq(p, 1, t)) = t - 1 + 1
      /\ \A i \in 1 .. t - 1 + 1 : SubSeq(p, 1, t)[i] = p[1 + i - 1]
  <2>1. 1 \in Nat /\ 1 <= 1 /\ 1 <= t + 1 /\ t <= Len(p)
    BY <1>2
  <2> QED BY <2>1, SegmentOf
<1>6. PICK u \in Seq(S), v \in Seq(S) :
          u = SubSeq(q, 1, t) /\ v = SubSeq(p, 1, t)
  BY <1>4, <1>5
<1>7. Len(u) = t /\ Len(v) = t /\ \A i \in 1 .. t : u[i] = q[i] /\ v[i] = p[i]
  <2>1. t - 1 + 1 = t /\ \A i \in 1 .. t : 1 + i - 1 = i
    OBVIOUS
  <2> QED BY <1>4, <1>5, <1>6, <2>1
<1>8. ASSUME NEW i \in 1 .. t PROVE u[i] = v[i]
  <2>1. i \in 1 .. l
    BY <1>2
  <2>2. q[i] = p[i]
    BY <1>3, <2>1
  <2>3. u[i] = q[i] /\ v[i] = p[i]
    BY <1>7
  <2> QED BY <2>2, <2>3
<1>9. u = v
  BY <1>7, <1>8, SeqEqual
<1> QED BY <1>1, <1>6, <1>9

----------------------------------------------------------------------------
(***************************************************************************)
(* Sums.  SumFunctionOnSet adds the values one by one, in an order that    *)
(* CHOOSE makes; the lemmas say that the order does not matter.            *)
(***************************************************************************)
Chosen(s) == CHOOSE x \in s : TRUE

\* g has the sums of f over the subsets of S; and over those up to n elements.
SumRule(g, f, S) ==
    [s \in SUBSET S |-> IF s = {} THEN 0 ELSE f[Chosen(s)] + g[s \ {Chosen(s)}]]

Sums(g, f, S) ==
    \A s \in SUBSET S : g[s] = IF s = {} THEN 0 ELSE f[Chosen(s)] + g[s \ {Chosen(s)}]

SumsUpTo(g, f, S, n) ==
    \A s \in SUBSET S : Cardinality(s) <= n =>
        g[s] = IF s = {} THEN 0 ELSE f[Chosen(s)] + g[s \ {Chosen(s)}]

\* A set without one of its elements.
LEMMA OneFewer ==
    ASSUME NEW S, IsFiniteSet(S), NEW s \in SUBSET S, s # {}
    PROVE  /\ IsFiniteSet(s) /\ Cardinality(s) \in Nat
           /\ Chosen(s) \in s
           /\ \A x \in s : /\ s \ {x} \in SUBSET S
                           /\ Cardinality(s \ {x}) = Cardinality(s) - 1
                           /\ Cardinality(s \ {x}) \in Nat
<1>1. IsFiniteSet(s) /\ Cardinality(s) \in Nat
  BY FS_Subset, FS_CardinalityType
<1>2. Chosen(s) \in s
  BY DEF Chosen
<1>3. ASSUME NEW x \in s
      PROVE  /\ Cardinality(s \ {x}) = Cardinality(s) - 1
             /\ Cardinality(s \ {x}) \in Nat
  BY <1>1, FS_RemoveElement, FS_CardinalityType
<1> QED BY <1>1, <1>2, <1>3

\* There are sums over all the subsets of a finite set.
LEMMA SumsExist ==
    ASSUME NEW S, IsFiniteSet(S), NEW f
    PROVE  \E g : g = SumRule(g, f, S)
<1> DEFINE Rule(g) == [s \in SUBSET S |->
                          IF s = {} THEN 0 ELSE f[Chosen(s)] + g[s \ {Chosen(s)}]]
           bad == {n \in Nat : \A h : ~ SumsUpTo(Rule(h), f, S, n)}
<1>1. bad = {}
  <2> SUFFICES ASSUME bad # {} PROVE FALSE
    OBVIOUS
  <2>1. bad \subseteq Nat
    OBVIOUS
  <2>2. /\ \A n \in bad : \A h : ~ SumsUpTo(Rule(h), f, S, n)
        /\ \A n \in Nat \ bad : \E h : SumsUpTo(Rule(h), f, S, n)
    OBVIOUS
  <2> HIDE DEF bad
  <2>3. PICK n \in bad : \A k \in bad : n <= k
    BY <2>1, LeastNat
  <2>4. CASE n = 0
    <3>1. PICK h : h = [s \in SUBSET S |-> 0]
      OBVIOUS
    <3>2. ASSUME NEW s \in SUBSET S, Cardinality(s) <= 0
          PROVE  s = {}
      BY <3>2, FS_Subset, FS_EmptySet, FS_CardinalityType
    <3>3. SumsUpTo(Rule(h), f, S, 0)
      BY <3>2 DEF SumsUpTo
    <3> QED BY <2>2, <2>3, <2>4, <3>3
  <2>5. CASE n # 0
    <3>1. n - 1 \in Nat \ bad
      BY <2>1, <2>3, <2>5
    <3>2. PICK h : SumsUpTo(Rule(h), f, S, n - 1)
      BY <2>2, <3>1
    <3>3. PICK g : g = Rule(h)
      OBVIOUS
    <3>4. SumsUpTo(g, f, S, n - 1)
      BY <3>2, <3>3
    <3>5. ASSUME NEW s \in SUBSET S, Cardinality(s) <= n
          PROVE  Rule(g)[s] = IF s = {} THEN 0
                              ELSE f[Chosen(s)] + Rule(g)[s \ {Chosen(s)}]
      <4>1. CASE s = {}
        BY <4>1
      <4>2. CASE s # {}
        <5>1. PICK u \in SUBSET S : u = s \ {Chosen(s)} /\ Cardinality(u) <= n - 1
          <6>1. /\ s \ {Chosen(s)} \in SUBSET S /\ Cardinality(s) \in Nat
                /\ Cardinality(s \ {Chosen(s)}) = Cardinality(s) - 1
            BY <4>2, OneFewer, Zenon
          <6>2. n \in Nat
            BY <2>1
          <6> QED BY <3>5, <6>1, <6>2
        <5>2. Rule(g)[s] = f[Chosen(s)] + g[u]
          BY <4>2, <5>1
        <5>3. g[u] = IF u = {} THEN 0 ELSE f[Chosen(u)] + g[u \ {Chosen(u)}]
          BY <3>4, <5>1 DEF SumsUpTo
        <5>4. Rule(g)[u] = g[u]
          BY <5>1, <5>3
        <5> QED BY <4>2, <5>1, <5>2, <5>4
      <4> QED BY <4>1, <4>2
    <3>6. SumsUpTo(Rule(g), f, S, n)
      BY <3>5 DEF SumsUpTo
    <3> QED BY <2>2, <2>3, <3>6
  <2> QED BY <2>4, <2>5
<1>2. PICK n \in Nat : n = Cardinality(S)
  BY FS_CardinalityType
<1>3. PICK h : SumsUpTo(Rule(h), f, S, n)
  BY <1>1, <1>2
<1>4. PICK g : g = Rule(h)
  OBVIOUS
<1>5. \A s \in SUBSET S : Cardinality(s) <= n
  BY <1>2, FS_Subset
<1>6. \A s \in SUBSET S : g[s] = IF s = {} THEN 0 ELSE f[Chosen(s)] + g[s \ {Chosen(s)}]
  BY <1>3, <1>4, <1>5 DEF SumsUpTo
<1>7. g = [s \in SUBSET S |-> g[s]]
  BY <1>4
<1>8. g = Rule(g)
  BY <1>6, <1>7
<1> QED BY <1>8 DEF SumRule

\* SumFunctionOnSet is given by such sums.
LEMMA SumIs ==
    ASSUME NEW S, IsFiniteSet(S), NEW f
    PROVE  \E g : SumFunctionOnSet(f, S) = g[S] /\ Sums(g, f, S)
<1> DEFINE iter == CHOOSE g : g = SumRule(g, f, S)
<1>1. PICK g : g = SumRule(g, f, S)
  BY SumsExist
<1>2. iter = SumRule(iter, f, S)
  BY <1>1
<1>3. SumFunctionOnSet(f, S) = iter[S]
  BY DEF SumFunctionOnSet, FoldFunctionOnSet, MapThenFoldSet, Chosen, SumRule
<1> HIDE DEF iter
<1>4. Sums(iter, f, S)
  BY <1>2 DEF SumRule, Sums
<1> QED BY <1>3, <1>4

\* Sums over the same set of functions that agree on it.
LEMMA SumSame ==
    ASSUME NEW A, IsFiniteSet(A), NEW B, IsFiniteSet(B), NEW f, NEW e, NEW g, NEW h,
           Sums(g, f, A), Sums(h, e, B),
           NEW T, T \subseteq A, T \subseteq B, \A x \in T : f[x] = e[x]
    PROVE  g[T] = h[T]
<1> DEFINE bad == {n \in Nat : \E s \in SUBSET T : Cardinality(s) = n /\ g[s] # h[s]}
<1>1. bad = {}
  <2> SUFFICES ASSUME bad # {} PROVE FALSE
    OBVIOUS
  <2>1. bad \subseteq Nat
    OBVIOUS
  <2>2. /\ \A n \in bad : \E s \in SUBSET T : Cardinality(s) = n /\ g[s] # h[s]
        /\ \A s \in SUBSET T : Cardinality(s) \in Nat \ bad => g[s] = h[s]
    OBVIOUS
  <2> HIDE DEF bad
  <2>3. PICK n \in bad : \A k \in bad : n <= k
    BY <2>1, LeastNat
  <2>4. PICK s \in SUBSET T : Cardinality(s) = n /\ g[s] # h[s]
    BY <2>2, <2>3
  <2>5. s \in SUBSET A /\ s \in SUBSET B
    BY <2>4
  <2>6. s # {}
    BY <2>4, <2>5 DEF Sums
  <2>7. /\ Chosen(s) \in s /\ Cardinality(s) \in Nat
        /\ Cardinality(s \ {Chosen(s)}) = Cardinality(s) - 1
        /\ Cardinality(s \ {Chosen(s)}) \in Nat
    BY <2>5, <2>6, OneFewer, Zenon
  <2>8. PICK u \in SUBSET T : u = s \ {Chosen(s)}
    OBVIOUS
  <2>9. Cardinality(u) \in Nat \ bad
    BY <2>1, <2>3, <2>4, <2>7, <2>8
  <2>10. g[u] = h[u]
    BY <2>2, <2>9
  <2>11. f[Chosen(s)] = e[Chosen(s)]
    BY <2>7
  <2>12. g[s] = f[Chosen(s)] + g[u] /\ h[s] = e[Chosen(s)] + h[u]
    BY <2>5, <2>6, <2>8 DEF Sums
  <2> QED BY <2>4, <2>10, <2>11, <2>12
<1>2. T \in SUBSET T /\ Cardinality(T) \in Nat
  BY FS_Subset, FS_CardinalityType
<1> QED BY <1>1, <1>2

\* The sum over T is a natural, whichever element is counted first.
Splits(g, f, T) == g[T] \in Nat /\ \A x \in T : g[T] = f[x] + g[T \ {x}]

\* Sums of naturals split.
LEMMA SumsSplit ==
    ASSUME NEW S, IsFiniteSet(S), NEW f, \A x \in S : f[x] \in Nat,
           NEW g, Sums(g, f, S), NEW T \in SUBSET S
    PROVE  Splits(g, f, T)
<1> DEFINE Good(s) == g[s] \in Nat /\ \A x \in s : g[s] = f[x] + g[s \ {x}]
           bad == {n \in Nat : \E s \in SUBSET S : Cardinality(s) = n /\ ~ Good(s)}
<1>1. bad = {}
  <2> SUFFICES ASSUME bad # {} PROVE FALSE
    OBVIOUS
  <2>1. bad \subseteq Nat
    OBVIOUS
  <2>2. /\ \A n \in bad : \E s \in SUBSET S : Cardinality(s) = n /\ ~ Good(s)
        /\ \A s \in SUBSET S : Cardinality(s) \in Nat \ bad => Good(s)
    OBVIOUS
  <2> HIDE DEF bad
  <2>3. PICK n \in bad : \A k \in bad : n <= k
    BY <2>1, LeastNat
  <2>4. PICK s \in SUBSET S : Cardinality(s) = n /\ ~ Good(s)
    BY <2>2, <2>3
  <2>5. s # {}
    <3>1. g[{}] = 0
      BY DEF Sums
    <3>2. ASSUME s = {} PROVE Good(s)
      <4>1. g[s] \in Nat
        BY <3>1, <3>2
      <4> QED BY <3>2, <4>1
    <3> QED BY <2>4, <3>2
  <2>6. PICK c \in s : c = Chosen(s)
    BY <2>5, OneFewer, Zenon
  <2>7. Cardinality(s) \in Nat /\ \A x \in s : Cardinality(s \ {x}) = Cardinality(s) - 1
    BY <2>5, OneFewer, Zenon
  <2>8. ASSUME NEW x \in s
        PROVE  Good(s \ {x})
    <3>1. Cardinality(s \ {x}) = n - 1 /\ n \in Nat /\ n - 1 \in Nat
      <4>1. Cardinality(s \ {x}) \in Nat
        BY <2>5, OneFewer, Zenon
      <4> QED BY <2>1, <2>4, <2>7, <4>1
    <3>2. n - 1 \notin bad
      BY <2>3, <3>1
    <3> QED BY <2>2, <3>1, <3>2
  <2>9. g[s] = f[c] + g[s \ {c}]
    BY <2>5, <2>6 DEF Sums
  <2>10. f[c] \in Nat /\ g[s \ {c}] \in Nat
    BY <2>6, <2>8
  <2>11. g[s] \in Nat
    BY <2>9, <2>10
  <2>12. ASSUME NEW x \in s
         PROVE  g[s] = f[x] + g[s \ {x}]
    <3>1. CASE x = c
      BY <2>9, <3>1
    <3>2. CASE x # c
      <4>1. x \in s \ {c} /\ c \in s \ {x}
        BY <3>2
      <4>2. PICK u \in SUBSET S : u = (s \ {c}) \ {x} /\ u = (s \ {x}) \ {c}
        OBVIOUS
      <4>3. g[s \ {c}] = f[x] + g[u]
        <5>1. Good(s \ {c})
          BY <2>8
        <5> QED BY <4>1, <4>2, <5>1
      <4>4. g[s \ {x}] = f[c] + g[u]
        BY <2>8, <4>1, <4>2
      <4>5. Good(s \ {c})
        BY <2>6, <2>8
      <4>6. Cardinality(u) \in Nat /\ n \in Nat /\ Cardinality(u) < n
        <5>1. s \ {c} \in SUBSET S /\ s \ {c} # {}
          BY <4>1
        <5>a. PICK v \in SUBSET S : v = s \ {c} /\ v # {} /\ x \in v /\ u = v \ {x}
          BY <4>1, <4>2, <5>1
        <5>2. Cardinality(u) = Cardinality(s \ {c}) - 1 /\ Cardinality(u) \in Nat
          <6>1. \A y \in v : Cardinality(v \ {y}) = Cardinality(v) - 1 /\ Cardinality(v \ {y}) \in Nat
            <7>1. v # {}
              BY <5>a
            <7> QED BY <7>1, OneFewer, Zenon
          <6> QED BY <5>a, <6>1
        <5> QED BY <2>1, <2>4, <2>6, <2>7, <5>2
      <4>7. g[u] \in Nat
        <5>1. Cardinality(u) \notin bad
          BY <2>3, <4>6
        <5> QED BY <2>2, <4>6, <5>1
      <4>8. f[x] \in Nat /\ f[c] \in Nat
        BY <2>4, <2>6
      <4> QED BY <2>9, <4>3, <4>4, <4>7, <4>8
    <3> QED BY <3>1, <3>2
  <2> QED BY <2>4, <2>11, <2>12
<1>2. Cardinality(T) \in Nat
  BY FS_Subset, FS_CardinalityType
<1>3. Good(T)
  BY <1>1, <1>2
<1> QED BY <1>3 DEF Splits

\* The sum over nothing, and what an element contributes.
LEMMA SumRemove ==
    ASSUME NEW S, IsFiniteSet(S), NEW f, \A x \in S : f[x] \in Nat
    PROVE  /\ SumFunctionOnSet(f, S) \in Nat
           /\ SumFunctionOnSet(f, {}) = 0
           /\ \A x \in S : /\ SumFunctionOnSet(f, S \ {x}) \in Nat
                           /\ SumFunctionOnSet(f, S) = f[x] + SumFunctionOnSet(f, S \ {x})
<1>1. PICK g : SumFunctionOnSet(f, S) = g[S] /\ Sums(g, f, S)
  BY SumIs
<1>2. ASSUME NEW T \in SUBSET S
      PROVE  SumFunctionOnSet(f, T) = g[T]
  <2>1. IsFiniteSet(T)
    BY FS_Subset
  <2>2. PICK h : SumFunctionOnSet(f, T) = h[T] /\ Sums(h, f, T)
    BY <2>1, SumIs
  <2>3. g[T] = h[T]
    BY <1>1, <2>1, <2>2, SumSame
  <2> QED BY <2>2, <2>3
<1>3. ASSUME NEW T \in SUBSET S
      PROVE  g[T] \in Nat /\ \A x \in T : g[T] = f[x] + g[T \ {x}]
  <2>1. Splits(g, f, T)
    BY <1>1, SumsSplit
  <2> QED BY <2>1 DEF Splits
<1>4. SumFunctionOnSet(f, {}) = 0
  BY <1>1, <1>2 DEF Sums
<1>5. ASSUME NEW x \in S
      PROVE  /\ SumFunctionOnSet(f, S \ {x}) \in Nat
             /\ SumFunctionOnSet(f, S) = f[x] + SumFunctionOnSet(f, S \ {x})
  <2>1. S \ {x} \in SUBSET S
    OBVIOUS
  <2> QED BY <1>1, <1>2, <1>3, <2>1
<1>6. SumFunctionOnSet(f, S) \in Nat
  BY <1>1, <1>3
<1> QED BY <1>4, <1>5, <1>6

\* Only the values on the set matter.
LEMMA SumAgree ==
    ASSUME NEW S, IsFiniteSet(S), NEW f, NEW e, \A x \in S : f[x] = e[x]
    PROVE  SumFunctionOnSet(f, S) = SumFunctionOnSet(e, S)
<1>1. PICK g : SumFunctionOnSet(f, S) = g[S] /\ Sums(g, f, S)
  BY SumIs
<1>2. PICK h : SumFunctionOnSet(e, S) = h[S] /\ Sums(h, e, S)
  BY SumIs
<1>3. g[S] = h[S]
  BY <1>1, <1>2, SumSame
<1> QED BY <1>1, <1>2, <1>3

\* The sum over a part and over the rest.
LEMMA SumParts ==
    ASSUME NEW S, IsFiniteSet(S), NEW f, \A x \in S : f[x] \in Nat, NEW T \in SUBSET S
    PROVE  /\ SumFunctionOnSet(f, T) \in Nat
           /\ SumFunctionOnSet(f, S \ T) \in Nat
           /\ SumFunctionOnSet(f, S) = SumFunctionOnSet(f, T) + SumFunctionOnSet(f, S \ T)
<1> DEFINE Sum(s) == SumFunctionOnSet(f, s)
           bad == {n \in Nat : \E s \in SUBSET S :
                                  Cardinality(s) = n /\ Sum(S) # Sum(s) + Sum(S \ s)}
<1>1. ASSUME NEW s \in SUBSET S
      PROVE  /\ Sum(s) \in Nat
             /\ \A x \in s : Sum(s \ {x}) \in Nat /\ Sum(s) = f[x] + Sum(s \ {x})
  <2>1. IsFiniteSet(s) /\ \A x \in s : f[x] \in Nat
    BY FS_Subset
  <2> QED BY <2>1, SumRemove
<1>2. Sum({}) = 0
  BY SumRemove
<1> HIDE DEF Sum
<1>3. bad = {}
  <2> SUFFICES ASSUME bad # {} PROVE FALSE
    OBVIOUS
  <2>1. bad \subseteq Nat
    OBVIOUS
  <2>2. /\ \A n \in bad : \E s \in SUBSET S : Cardinality(s) = n /\ Sum(S) # Sum(s) + Sum(S \ s)
        /\ \A s \in SUBSET S : Cardinality(s) \in Nat \ bad => Sum(S) = Sum(s) + Sum(S \ s)
    OBVIOUS
  <2> HIDE DEF bad
  <2>3. PICK n \in bad : \A k \in bad : n <= k
    BY <2>1, LeastNat
  <2>4. PICK s \in SUBSET S : Cardinality(s) = n /\ Sum(S) # Sum(s) + Sum(S \ s)
    BY <2>2, <2>3
  <2>5. s # {}
    <3>1. S \ {} = S /\ Sum(S) \in Nat
      BY <1>1
    <3> QED BY <1>2, <2>4, <3>1
  <2>6. PICK c : c \in s
    BY <2>5
  <2>7. PICK u \in SUBSET S : u = s \ {c}
    OBVIOUS
  <2>8. Cardinality(u) \in Nat \ bad
    <3>1. Cardinality(u) = Cardinality(s) - 1 /\ Cardinality(u) \in Nat
      <4>1. \A y \in s : Cardinality(s \ {y}) = Cardinality(s) - 1 /\ Cardinality(s \ {y}) \in Nat
        BY <2>5, OneFewer, Zenon
      <4> QED BY <2>6, <2>7, <4>1
    <3> QED BY <2>1, <2>3, <2>4, <3>1
  <2>9. Sum(S) = Sum(u) + Sum(S \ u)
    BY <2>2, <2>8
  <2>10. Sum(s) = f[c] + Sum(u)
    BY <1>1, <2>6, <2>7
  <2>11. Sum(S \ u) = f[c] + Sum(S \ s)
    <3>1. S \ u \in SUBSET S /\ c \in S \ u /\ (S \ u) \ {c} = S \ s
      BY <2>6, <2>7
    <3> QED BY <1>1, <3>1
  <2>12. Sum(u) \in Nat /\ Sum(S \ s) \in Nat /\ f[c] \in Nat
    BY <1>1, <2>6
  <2> QED BY <2>4, <2>9, <2>10, <2>11, <2>12
<1>4. Cardinality(T) \in Nat
  BY FS_Subset, FS_CardinalityType
<1>5. Sum(S) = Sum(T) + Sum(S \ T)
  BY <1>3, <1>4
<1>6. Sum(T) \in Nat /\ Sum(S \ T) \in Nat
  BY <1>1
<1> QED BY <1>5, <1>6 DEF Sum

----------------------------------------------------------------------------
(***************************************************************************)
(* Iteration.  A recursive function f[k \in 0 .. n] that makes f[k] from   *)
(* f[k - 1] by a step that stays in a set V exists, and stays in V.  What  *)
(* the step is, is given as a function g.                                  *)
(***************************************************************************)
IteratesOf(f, n, v, g) ==
    f[0] = v /\ \A k \in 1 .. n : f[k] = g[<<k, f[k - 1]>>]

\* There is such a function.
LEMMA IterateExists ==
    ASSUME NEW V, NEW n \in Nat, NEW v \in V, NEW g \in [(1 .. n) \X V -> V]
    PROVE  \E f \in [0 .. n -> V] : IteratesOf(f, n, v, g)
<1> DEFINE bad == {m \in Nat : m <= n /\ \A f \in [0 .. m -> V] : ~ IteratesOf(f, m, v, g)}
<1>1. bad = {}
  <2> SUFFICES ASSUME bad # {} PROVE FALSE
    OBVIOUS
  <2>1. bad \subseteq Nat
    OBVIOUS
  <2>2. PICK m \in bad : \A k \in bad : m <= k
    BY <2>1, LeastNat
  <2>3. /\ m \in Nat /\ m <= n
        /\ \A f \in [0 .. m -> V] : ~ IteratesOf(f, m, v, g)
    OBVIOUS
  <2>4. CASE m = 0
    <3>1. PICK f : f = [k \in 0 .. 0 |-> v]
      OBVIOUS
    <3>2. f \in [0 .. 0 -> V] /\ f[0] = v
      BY <3>1
    <3>3. IteratesOf(f, 0, v, g)
      BY <3>2 DEF IteratesOf
    <3> QED BY <2>3, <2>4, <3>2, <3>3
  <2>5. CASE m # 0
    <3>1. PICK p \in Nat : p = m - 1 /\ p <= n /\ ~ (m <= p) /\ m = p + 1
      BY <2>3, <2>5
    <3>2. p \notin bad
      BY <2>2, <3>1
    <3>3. PICK f \in [0 .. p -> V] : IteratesOf(f, p, v, g)
      BY <3>1, <3>2
    <3> HIDE DEF bad
    <3>4. f[p] \in V /\ <<m, f[p]>> \in (1 .. n) \X V
      BY <2>3, <3>1
    <3>5. PICK w \in V : w = g[<<m, f[p]>>]
      BY <3>4
    <3>6. PICK h : h = [k \in 0 .. m |-> IF k = m THEN w ELSE f[k]]
      OBVIOUS
    <3>7. /\ h \in [0 .. m -> V]
          /\ h[m] = w
          /\ \A k \in 0 .. p : h[k] = f[k]
      BY <3>1, <3>6
    <3>8. ASSUME NEW k \in 1 .. m PROVE h[k] = g[<<k, h[k - 1]>>]
      <4>1. CASE k = m
        <5>1. k - 1 = p /\ h[p] = f[p]
          BY <3>1, <3>7, <4>1
        <5> QED BY <3>5, <3>7, <4>1, <5>1
      <4>2. CASE k # m
        <5>1. PICK j : j = k - 1 /\ j \in 0 .. p /\ k \in 1 .. p /\ k \in 0 .. p
          BY <3>1, <4>2
        <5>2. f[k] = g[<<k, f[j]>>]
          BY <3>3, <5>1 DEF IteratesOf
        <5> QED BY <3>7, <5>1, <5>2
      <4> QED BY <4>1, <4>2
    <3>9. h[0] = v
      BY <3>3, <3>7 DEF IteratesOf
    <3>10. IteratesOf(h, m, v, g)
      BY <3>8, <3>9 DEF IteratesOf
    <3> QED BY <2>3, <3>7, <3>10
  <2> QED BY <2>4, <2>5
<1>2. n \notin bad
  BY <1>1
<1> QED BY <1>2

\* What starts in V and never leaves it by one step is always in V.
LEMMA IterateStays ==
    ASSUME NEW V, NEW n \in Nat, NEW f, f[0] \in V,
           \A k \in 1 .. n : f[k - 1] \in V => f[k] \in V
    PROVE  \A k \in 0 .. n : f[k] \in V
<1> DEFINE bad == {k \in Nat : k <= n /\ f[k] \notin V}
<1>1. bad = {}
  <2> SUFFICES ASSUME bad # {} PROVE FALSE
    OBVIOUS
  <2>1. bad \subseteq Nat
    OBVIOUS
  <2>2. PICK m \in bad : \A k \in bad : m <= k
    BY <2>1, LeastNat
  <2>3. m \in Nat /\ m <= n /\ f[m] \notin V /\ m # 0
    OBVIOUS
  <2>4. PICK p \in Nat : p = m - 1 /\ p <= n /\ ~ (m <= p) /\ m \in 1 .. n
    BY <2>3
  <2>5. f[p] \in V
    BY <2>2, <2>4
  <2> QED BY <2>3, <2>4, <2>5
<1> QED BY <1>1

\* A set of numbers with 0 and, up to n, with the successors of its members has
\* all numbers up to n.
LEMMA CountsUp ==
    ASSUME NEW K, NEW n \in Nat, 0 \in K, \A k \in 1 .. n : k - 1 \in K => k \in K
    PROVE  \A k \in 0 .. n : k \in K
<1>1. PICK f : f = [k \in 0 .. n |-> k]
  OBVIOUS
<1>2. f[0] \in K
  BY <1>1
<1>3. \A k \in 1 .. n : f[k - 1] \in K => f[k] \in K
  BY <1>1
<1>4. \A k \in 0 .. n : f[k] \in K
  BY <1>2, <1>3, IterateStays
<1> QED BY <1>1, <1>4
=============================================================================
