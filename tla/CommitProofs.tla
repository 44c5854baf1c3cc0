---------------------------- MODULE CommitProofs ----------------------------
(***************************************************************************)
(* Proofs about the commit task of a Leto server (CommitContext), for any  *)
(* committee, any commit length above one, any number of rounds and any    *)
(* schedule of leaders.                                                    *)
(*                                                                         *)
(* First the task while elements are adopted in order.  Its counters are a *)
(* function of its queue (CountsOf), and so is the state the commit loop   *)
(* leaves: it pops the shortest prefix of the queue after which fewer than *)
(* CommitLen proposers are left (CommitLoopIs).  The walk ends after two   *)
(* iterations, at the queue's back or at the last committed element        *)
(* (WalkEnds).  What is left is CommitInv: log and queue together are one  *)
(* chain.  Then the task in general, where a walk may be long and may meet *)
(* queued elements again: the counters cover the queue, and those that     *)
(* count too much are too few to commit (TaskInv).                         *)
(***************************************************************************)
EXTENDS CommitContext, DataLemmas, FunctionTheorems

----------------------------------------------------------------------------
Entry == [key : Elements, elem : Elements]

\* The places in queue q of the elements that id proposed.
Places(q, id) == {i \in 1 .. Len(q) : Author(q[i].elem) = id}

Proposing(q) == {Author(q[i].elem) : i \in 1 .. Len(q)}

\* What unique_proposers must be when the commit queue is q.
CountsOf(q) == [id \in Proposing(q) |-> Cardinality(Places(q, id))]

\* The state of a task that has not panicked and whose counters are right.
TaskState(q, h, c) ==
    [commit_queue              |-> q,
     unique_proposers          |-> CountsOf(q),
     highest_committed_hash    |-> h,
     highest_committed_element |-> h,
     committed                 |-> c,
     panicked                  |-> FALSE]

\* Places are finite, and there is one exactly for the proposers.
LEMMA PlacesFinite ==
    ASSUME NEW q \in Seq(Entry), NEW id
    PROVE  /\ IsFiniteSet(Places(q, id)) /\ Cardinality(Places(q, id)) \in Nat
           /\ id \in Proposing(q) <=> Places(q, id) # {}
           /\ id \in Proposing(q) <=> Cardinality(Places(q, id)) > 0
<1>1. IsFiniteSet(1 .. Len(q))
  BY FS_Interval
<1>2. Places(q, id) \in SUBSET (1 .. Len(q))
  BY DEF Places
<1>3. IsFiniteSet(Places(q, id)) /\ Cardinality(Places(q, id)) \in Nat
  BY <1>1, <1>2, FS_Subset, FS_CardinalityType
<1>4. id \in Proposing(q) <=> Places(q, id) # {}
  BY DEF Places, Proposing
<1>5. Cardinality(Places(q, id)) = 0 <=> Places(q, id) = {}
  BY <1>3, FS_EmptySet
<1> QED BY <1>3, <1>4, <1>5

\* The proposers of a queue are finitely many, and none when it is empty.
LEMMA ProposingFinite ==
    ASSUME NEW q \in Seq(Entry)
    PROVE  /\ IsFiniteSet(Proposing(q)) /\ Cardinality(Proposing(q)) \in Nat
           /\ q = <<>> => Cardinality(Proposing(q)) = 0
<1> DEFINE f == [i \in 1 .. Len(q) |-> Author(q[i].elem)]
<1>1. IsFiniteSet(1 .. Len(q))
  BY FS_Interval
<1>2. f \in Surjection(1 .. Len(q), Proposing(q))
  BY DEF Proposing, Surjection
<1>3. IsFiniteSet(Proposing(q))
  BY <1>1, <1>2, FS_Surjection
<1>4. q = <<>> => Proposing(q) = {}
  BY DEF Proposing
<1> QED BY <1>3, <1>4, FS_CardinalityType, FS_EmptySet

\* One place is added by Append.
LEMMA PlacesOfAppended ==
    ASSUME NEW q \in Seq(Entry), NEW x \in Entry, NEW id
    PROVE  /\ Proposing(Append(q, x)) = Proposing(q) \cup {Author(x.elem)}
           /\ Cardinality(Places(Append(q, x), id)) =
                 Cardinality(Places(q, id)) + (IF Author(x.elem) = id THEN 1 ELSE 0)
<1>1. PICK n \in Nat : n = Len(q)
  OBVIOUS
<1>2. PICK p \in Seq(Entry) : p = Append(q, x)
  BY PlacesOfAppend
<1>3. /\ Len(p) = n + 1 /\ p[n + 1] = x
      /\ \A i \in 1 .. n : p[i] = q[i]
  BY <1>1, <1>2, PlacesOfAppend
<1>4. 1 .. (n + 1) = (1 .. n) \cup {n + 1} /\ n + 1 \notin 1 .. n
  OBVIOUS
<1>5. Proposing(p) = Proposing(q) \cup {Author(x.elem)}
  BY <1>1, <1>3, <1>4 DEF Proposing
<1>6. Places(p, id) = IF Author(x.elem) = id THEN Places(q, id) \cup {n + 1} ELSE Places(q, id)
  BY <1>1, <1>3, <1>4 DEF Places
<1>7. n + 1 \notin Places(q, id)
  BY <1>1, <1>4 DEF Places
<1>8. IsFiniteSet(Places(q, id)) /\ Cardinality(Places(q, id)) \in Nat
  BY PlacesFinite
<1>9. CASE Author(x.elem) = id
  BY <1>2, <1>5, <1>6, <1>7, <1>8, <1>9, FS_AddElement
<1>10. CASE Author(x.elem) # id
  BY <1>2, <1>5, <1>6, <1>8, <1>10
<1> QED BY <1>9, <1>10

\* The first place is removed by Tail.
LEMMA PlacesOfTail ==
    ASSUME NEW q \in Seq(Entry), q # <<>>, NEW id
    PROVE  Cardinality(Places(Tail(q), id)) =
               Cardinality(Places(q, id)) - (IF Author(Head(q).elem) = id THEN 1 ELSE 0)
<1>1. PICK n \in Nat : n = Len(q) /\ n > 0
  OBVIOUS
<1>2. PICK p \in Seq(Entry) : p = Tail(q)
  BY HeadTailProperties
<1>3. /\ Len(p) = n - 1 /\ Head(q) = q[1]
      /\ \A i \in 1 .. (n - 1) : p[i] = q[i + 1]
  BY <1>1, <1>2
<1> DEFINE A == Places(q, id) \ {1}
           B == Places(p, id)
           f == [i \in A |-> i - 1]
<1>4. A \subseteq 2 .. n /\ B \subseteq 1 .. (n - 1)
  BY <1>1, <1>3 DEF Places
<1>5. \A i \in A : i - 1 \in B
  <2> TAKE i \in A
  <2>1. i \in 2 .. n /\ Author(q[i].elem) = id
    BY <1>1, <1>4 DEF Places
  <2>2. i - 1 \in 1 .. (n - 1) /\ (i - 1) + 1 = i
    BY <2>1
  <2>3. p[i - 1] = q[i]
    BY <1>3, <2>2
  <2> QED BY <1>3, <2>1, <2>2, <2>3 DEF Places
<1>6. \A j \in B : j + 1 \in A /\ f[j + 1] = j
  <2> TAKE j \in B
  <2>1. j \in 1 .. (n - 1) /\ Author(p[j].elem) = id
    BY <1>3, <1>4 DEF Places
  <2>2. j + 1 \in 1 .. n /\ j + 1 # 1 /\ p[j] = q[j + 1] /\ (j + 1) - 1 = j
    BY <1>3, <2>1
  <2>3. j + 1 \in A
    BY <1>1, <2>1, <2>2 DEF Places
  <2> QED BY <2>2, <2>3
<1>7. f \in Bijection(A, B)
  <2>1. f \in [A -> B]
    BY <1>5
  <2>2. \A i, j \in A : f[i] = f[j] => i = j
    <3> TAKE i, j \in A
    <3>1. i \in Int /\ j \in Int
      BY <1>4
    <3>2. f[i] = i - 1 /\ f[j] = j - 1
      OBVIOUS
    <3> HIDE DEF f
    <3> QED BY <3>1, <3>2
  <2>3. \A j \in B : \E i \in A : f[i] = j
    BY <1>6
  <2> HIDE DEF f, A, B
  <2>4. f \in Injection(A, B)
    BY <2>1, <2>2 DEF Injection, IsInjective
  <2>5. f \in Surjection(A, B)
    BY <2>1, <2>3 DEF Surjection
  <2> QED BY <2>4, <2>5 DEF Bijection
<1>8. IsFiniteSet(Places(q, id)) /\ Cardinality(Places(q, id)) \in Nat
  BY PlacesFinite
<1>9. IsFiniteSet(A) /\ Cardinality(A) =
         IF 1 \in Places(q, id) THEN Cardinality(Places(q, id)) - 1
         ELSE Cardinality(Places(q, id))
  BY <1>8, FS_RemoveElement
<1>10. Cardinality(B) = Cardinality(A)
  BY <1>7, <1>9, FS_Bijection DEF ExistsBijection
<1>11. 1 \in Places(q, id) <=> Author(Head(q).elem) = id
  BY <1>1, <1>3 DEF Places
<1> QED BY <1>2, <1>8, <1>9, <1>10, <1>11

\* The counters of the empty function, of one element, and of a queue that got
\* one more element.
LEMMA CountsOne ==
    ASSUME NEW x \in Entry
    PROVE  /\ Counted([i \in {} |-> 0], Author(x.elem), 1) = CountsOf(<<x>>)
           /\ CountsOf(<<x>>) = [id \in {Author(x.elem)} |-> 1]
<1>5. CountsOf(<<x>>) = [id \in {Author(x.elem)} |-> 1]
  <2>1. Proposing(<<x>>) = {Author(x.elem)}
    BY DEF Proposing
  <2>2. Places(<<x>>, Author(x.elem)) = {1}
    BY DEF Places
  <2>3. Cardinality({1}) = 1
    BY FS_Singleton
  <2> QED BY <2>1, <2>2, <2>3 DEF CountsOf
<1> QED BY <1>5 DEF Counted

\* An element that is appended is counted by merging its counter.
LEMMA CountsMerge ==
    ASSUME NEW q \in Seq(Entry), NEW x \in Entry
    PROVE  Merged(CountsOf(q), CountsOf(<<x>>)) = CountsOf(Append(q, x))
<1>5. CountsOf(<<x>>) = [id \in {Author(x.elem)} |-> 1]
  BY CountsOne
<1>6. PICK c : c = CountsOf(q)
  OBVIOUS
<1>7. /\ DOMAIN c = Proposing(q)
      /\ \A id \in Proposing(q) : c[id] = Cardinality(Places(q, id))
  BY <1>6 DEF CountsOf
<1>8. PICK d : d = CountsOf(Append(q, x))
  OBVIOUS
<1>9. Proposing(Append(q, x)) = Proposing(q) \cup {Author(x.elem)}
  BY PlacesOfAppended
<1>10. d = [id \in Proposing(q) \cup {Author(x.elem)} |->
               Cardinality(Places(Append(q, x), id))]
  BY <1>8, <1>9 DEF CountsOf
<1>11. \A id \in Proposing(q) \cup {Author(x.elem)} :
          (IF id \in DOMAIN c THEN c[id] ELSE 0) + (IF id \in {Author(x.elem)} THEN 1 ELSE 0)
            = Cardinality(Places(Append(q, x), id))
  <2> TAKE id \in Proposing(q) \cup {Author(x.elem)}
  <2>1. Cardinality(Places(Append(q, x), id)) =
           Cardinality(Places(q, id)) + (IF Author(x.elem) = id THEN 1 ELSE 0)
    BY PlacesOfAppended
  <2>2. Cardinality(Places(q, id)) \in Nat
    BY PlacesFinite
  <2>3. id \notin Proposing(q) => Cardinality(Places(q, id)) = 0
    BY PlacesFinite
  <2> QED BY <1>7, <2>1, <2>2, <2>3
<1>12. Merged(c, CountsOf(<<x>>)) =
          [id \in Proposing(q) \cup {Author(x.elem)} |->
             (IF id \in DOMAIN c THEN c[id] ELSE 0) + (IF id \in {Author(x.elem)} THEN 1 ELSE 0)]
  BY <1>5, <1>7 DEF Merged
<1> QED BY <1>6, <1>8, <1>10, <1>11, <1>12

\* Merging with no counters changes nothing.
LEMMA CountsMergeNone ==
    ASSUME NEW q \in Seq(Entry)
    PROVE  Merged(CountsOf(q), [i \in {} |-> 0]) = CountsOf(q)
<1>1. PICK c : c = CountsOf(q)
  OBVIOUS
<1>2. c = [id \in Proposing(q) |-> Cardinality(Places(q, id))]
  BY <1>1 DEF CountsOf
<1>3. \A id \in Proposing(q) : c[id] + 0 = c[id]
  BY <1>2, PlacesFinite
<1>4. Merged(c, [i \in {} |-> 0]) = [id \in Proposing(q) |-> c[id] + 0]
  BY <1>2 DEF Merged
<1> QED BY <1>1, <1>2, <1>3, <1>4

\* A pop takes the popped proposer's counter down, and out at zero.
LEMMA CountsPop ==
    ASSUME NEW q \in Seq(Entry), q # <<>>
    PROVE  /\ Discounted(CountsOf(q), Author(Head(q).elem)) = CountsOf(Tail(q))
           /\ Author(Head(q).elem) \in DOMAIN CountsOf(q)
<1>1. PICK a : a = Author(Head(q).elem)
  OBVIOUS
<1>2. PICK p \in Seq(Entry) : p = Tail(q)
  BY HeadTailProperties
<1>3. PICK c : c = CountsOf(q)
  OBVIOUS
<1>4. c = [id \in Proposing(q) |-> Cardinality(Places(q, id))]
  BY <1>3 DEF CountsOf
<1>5. \A id : /\ Cardinality(Places(p, id)) =
                     Cardinality(Places(q, id)) - (IF a = id THEN 1 ELSE 0)
              /\ Cardinality(Places(q, id)) \in Nat
              /\ id \in Proposing(q) <=> Cardinality(Places(q, id)) > 0
              /\ id \in Proposing(p) <=> Cardinality(Places(p, id)) > 0
  BY <1>1, <1>2, PlacesOfTail, PlacesFinite
<1>6. a \in Proposing(q)
  BY <1>1 DEF Proposing
<1>7. Proposing(p) = {j \in Proposing(q) : j # a \/ c[j] > 1}
  <2>1. \A j : j \in Proposing(p) <=> (j \in Proposing(q) /\ (j # a \/ c[j] > 1))
    BY <1>4, <1>5
  <2> QED BY <2>1
<1>8. \A j \in Proposing(p) : c[j] - (IF j = a THEN 1 ELSE 0) = Cardinality(Places(p, j))
  BY <1>4, <1>5, <1>7
<1>9. DOMAIN c = Proposing(q)
  BY <1>4
<1>10. Discounted(c, a) = [i \in Proposing(p) |-> c[i] - (IF i = a THEN 1 ELSE 0)]
  BY <1>7, <1>9, Zenon DEF Discounted
<1>11. CountsOf(p) = [i \in Proposing(p) |-> Cardinality(Places(p, i))]
  BY DEF CountsOf
<1> QED BY <1>1, <1>2, <1>3, <1>6, <1>8, <1>9, <1>10, <1>11

----------------------------------------------------------------------------
\* Queues as the task builds them: the key of an entry is its element.
Keyed(q) == q \in Seq(Entry) /\ \A i \in 1 .. Len(q) : q[i].key = q[i].elem

\* The first m elements of s are final.
Rest(s, m) == SubSeq(s, m + 1, Len(s))

Settles(s, m) ==
    /\ m \in 0 .. Len(s)
    /\ Cardinality(Proposing(Rest(s, m))) < CommitLen
    /\ \A j \in 0 .. (m - 1) : Cardinality(Proposing(Rest(s, j))) >= CommitLen

\* The task after it has committed the first m elements of its queue s.
Cut(s, h, m) ==
    TaskState(Rest(s, m), IF m = 0 THEN h ELSE s[m].elem, [i \in 1 .. m |-> s[i].elem])

\* The counters have one entry per proposer.
LEMMA EnoughIs ==
    ASSUME NEW q, NEW h, NEW c
    PROVE  Enough(TaskState(q, h, c)) <=> Cardinality(Proposing(q)) >= CommitLen
<1>1. DOMAIN TaskState(q, h, c).unique_proposers = Proposing(q)
  BY DEF TaskState, CountsOf
<1> QED BY <1>1 DEF Enough

\* What is left of a queue, place by place.
LEMMA RestIs ==
    ASSUME NEW s \in Seq(Entry), NEW m \in 0 .. Len(s)
    PROVE  /\ Rest(s, m) \in Seq(Entry) /\ Len(Rest(s, m)) = Len(s) - m
           /\ \A i \in 1 .. (Len(s) - m) : Rest(s, m)[i] = s[m + i]
           /\ m = Len(s) => Rest(s, m) = <<>>
           /\ m = 0 => Rest(s, m) = s
<1>1. PICK n \in Nat : n = Len(s) /\ m \in Nat /\ m <= n
  OBVIOUS
<1>2. IsSegment(SubSeq(s, m + 1, n), Entry, s, m + 1, n)
  BY <1>1, SegmentIs
<1>3. PICK r : r = Rest(s, m)
  OBVIOUS
<1>4. r = SubSeq(s, m + 1, n)
  BY <1>1, <1>3 DEF Rest
<1>5. /\ r \in Seq(Entry) /\ Len(r) = n - m
      /\ \A i \in 1 .. (n - m) : r[i] = s[m + 1 + i - 1]
  BY <1>1, <1>2, <1>4 DEF IsSegment
<1>6. \A i \in 1 .. (n - m) : r[i] = s[m + i]
  <2> TAKE i \in 1 .. (n - m)
  <2>1. m + 1 + i - 1 = m + i
    BY <1>1
  <2> QED BY <1>5, <2>1
<1>7. m = n => r = <<>>
  BY <1>1, <1>5
<1>8. ASSUME m = 0 PROVE r = s
  <2>1. Len(r) = Len(s) /\ \A i \in 1 .. Len(s) : r[i] = s[i]
    BY <1>1, <1>5, <1>6, <1>8
  <2> QED BY <1>5, <2>1, SeqEqual
<1> QED BY <1>1, <1>3, <1>5, <1>6, <1>7, <1>8

\* One pop commits one more element; the front and its counter are there.
LEMMA CutPops ==
    ASSUME NEW s, Keyed(s), NEW h, NEW m \in 0 .. (Len(s) - 1)
    PROVE  /\ Popped(Cut(s, h, m)) = Cut(s, h, m + 1)
           /\ Unwrappable(Cut(s, h, m))
<1>1. PICK n \in Nat : n = Len(s) /\ m \in Nat /\ m < n /\ s \in Seq(Entry)
  BY DEF Keyed
<1>2. PICK r, c, g, t : /\ r = Rest(s, m) /\ t = Cut(s, h, m)
                        /\ c = [i \in 1 .. m |-> s[i].elem]
                        /\ g = IF m = 0 THEN h ELSE s[m].elem
  OBVIOUS
<1>3. /\ r \in Seq(Entry) /\ Len(r) = n - m
      /\ \A i \in 1 .. (n - m) : r[i] = s[m + i]
  <2>1. m \in 0 .. Len(s)
    BY <1>1
  <2> QED BY <1>1, <1>2, <2>1, RestIs
<1>4. r # <<>> /\ Head(r) = s[m + 1] /\ s[m + 1] \in Entry /\ s[m + 1].key = s[m + 1].elem
  BY <1>1, <1>3 DEF Keyed
<1>5. Tail(r) = Rest(s, m + 1)
  <2>1. PICK p \in Seq(Entry) : p = Tail(r)
    BY <1>3, <1>4, HeadTailProperties
  <2>2. Len(p) = n - m - 1 /\ \A i \in 1 .. (n - m - 1) : p[i] = r[i + 1]
    <3>1. PICK l \in Nat : l = Len(r) /\ l = n - m
      BY <1>1, <1>3
    <3>2. Len(p) = l - 1 /\ \A i \in 1 .. (l - 1) : p[i] = r[i + 1]
      BY <1>3, <1>4, <2>1, <3>1
    <3> QED BY <3>1, <3>2
  <2>3. m + 1 \in 0 .. Len(s)
    BY <1>1
  <2>4. PICK w \in Seq(Entry) : w = Rest(s, m + 1)
    BY <1>1, <2>3, RestIs
  <2>5. /\ Len(w) = n - (m + 1)
        /\ \A i \in 1 .. (n - (m + 1)) : w[i] = s[m + 1 + i]
    BY <1>1, <2>3, <2>4, RestIs
  <2>6. Len(p) = Len(w)
    BY <1>1, <2>2, <2>5
  <2>7. \A i \in 1 .. Len(p) : p[i] = w[i]
    <3> TAKE i \in 1 .. Len(p)
    <3>1. i \in 1 .. (n - m - 1) /\ i + 1 \in 1 .. (n - m) /\ m + (i + 1) = m + 1 + i
      BY <1>1, <2>2
    <3>2. p[i] = s[m + (i + 1)]
      BY <1>3, <2>2, <3>1
    <3>3. w[i] = s[m + 1 + i]
      BY <1>1, <2>5, <3>1
    <3> QED BY <3>1, <3>2, <3>3
  <2> QED BY <2>1, <2>4, <2>6, <2>7, SeqEqual
<1>6. Append(c, s[m + 1].elem) = [i \in 1 .. (m + 1) |-> s[i].elem]
  <2>1. \A i \in 1 .. n : s[i] \in Entry /\ s[i].elem \in Elements
    <3>1. \A x \in Entry : x.elem \in Elements
      BY DEF Entry
    <3>2. \A i \in 1 .. n : s[i] \in Entry
      BY <1>1
    <3> QED BY <3>1, <3>2
  <2>2. c \in Seq(Elements) /\ Len(c) = m /\ s[m + 1].elem \in Elements
    BY <1>1, <1>2, <2>1
  <2>3. PICK d \in Seq(Elements) : d = Append(c, s[m + 1].elem)
    BY <2>2, PlacesOfAppend
  <2>4. /\ Len(d) = m + 1 /\ d[m + 1] = s[m + 1].elem
        /\ \A i \in 1 .. m : d[i] = c[i]
    BY <2>2, <2>3, PlacesOfAppend
  <2>5. DOMAIN d = 1 .. (m + 1) /\ d = [i \in DOMAIN d |-> d[i]]
    BY <2>3, <2>4
  <2>6. \A i \in 1 .. (m + 1) : d[i] = s[i].elem
    BY <1>1, <1>2, <2>4
  <2> QED BY <2>3, <2>5, <2>6
<1>7. t = TaskState(r, g, c)
  BY <1>2 DEF Cut
<1>8. /\ Discounted(CountsOf(r), Author(s[m + 1].elem)) = CountsOf(Tail(r))
      /\ Author(s[m + 1].elem) \in DOMAIN CountsOf(r)
  BY <1>3, <1>4, CountsPop
<1>9. Popped(t) = TaskState(Tail(r), s[m + 1].elem, Append(c, s[m + 1].elem))
  <2>1. t = [commit_queue              |-> r,
             unique_proposers          |-> CountsOf(r),
             highest_committed_hash    |-> g,
             highest_committed_element |-> g,
             committed                 |-> c,
             panicked                  |-> FALSE]
    BY <1>7 DEF TaskState
  <2>2. Popped(t) = [commit_queue              |-> Tail(r),
                     unique_proposers          |-> Discounted(CountsOf(r), Author(s[m + 1].elem)),
                     highest_committed_hash    |-> s[m + 1].elem,
                     highest_committed_element |-> s[m + 1].elem,
                     committed                 |-> Append(c, s[m + 1].elem),
                     panicked                  |-> FALSE]
    <3>1. PICK x, e, v, d, a : /\ x = s[m + 1] /\ e = x.elem /\ v = Tail(r)
                               /\ d = Discounted(CountsOf(r), Author(e))
                               /\ a = Append(c, e)
      OBVIOUS
    <3>2. /\ t.commit_queue = r /\ t.unique_proposers = CountsOf(r) /\ t.committed = c
          /\ Head(r) = x /\ x.key = e /\ x.elem = e
      BY <1>4, <2>1, <3>1
    <3>3. Popped(t) = [t EXCEPT !.commit_queue = v,
                                !.unique_proposers = d,
                                !.highest_committed_hash = e,
                                !.highest_committed_element = e,
                                !.committed = a]
      BY <3>1, <3>2, Zenon DEF Popped
    <3> QED BY <2>1, <3>1, <3>3
  <2> QED BY <1>8, <2>2 DEF TaskState
<1>10. m + 1 # 0
  BY <1>1
<1>11. Cut(s, h, m + 1) = TaskState(Rest(s, m + 1), s[m + 1].elem, [i \in 1 .. (m + 1) |-> s[i].elem])
  BY <1>10 DEF Cut
<1>12. Unwrappable(t)
  BY <1>4, <1>7, <1>8 DEF Unwrappable, TaskState
<1> QED BY <1>2, <1>5, <1>6, <1>9, <1>11, <1>12

----------------------------------------------------------------------------
\* The prefix of a queue that is committed: nothing is left to commit after it,
\* and there always is one, as commit_len is not zero.
LEMMA SettlesExists ==
    ASSUME NEW s \in Seq(Entry)
    PROVE  \E m : Settles(s, m)
<1> DEFINE Few(j) == Cardinality(Proposing(Rest(s, j))) < CommitLen
           S == {j \in Nat : j <= Len(s) /\ Few(j)}
<1>1. PICK n \in Nat : n = Len(s)
  OBVIOUS
<1>2. \A j \in 0 .. n : Cardinality(Proposing(Rest(s, j))) \in Nat
  BY <1>1, RestIs, ProposingFinite
<1>3. Few(n)
  <2>1. Rest(s, n) = <<>> /\ Rest(s, n) \in Seq(Entry)
    BY <1>1, RestIs
  <2>2. Cardinality(Proposing(Rest(s, n))) = 0
    BY <2>1, ProposingFinite
  <2> QED BY <2>2, CommitAssumption
<1>4. n \in S
  BY <1>1, <1>3
<1>5. S \subseteq Nat /\ S # {}
  BY <1>4
<1> HIDE DEF S
<1>6. PICK m \in S : \A j \in S : m <= j
  BY <1>5, LeastNat
<1>7. m \in Nat /\ m <= n /\ Few(m)
  BY <1>1, <1>6 DEF S
<1>8. ASSUME NEW j \in 0 .. (m - 1)
      PROVE  Cardinality(Proposing(Rest(s, j))) >= CommitLen
  <2>1. j \in Nat /\ j <= n /\ ~ (m <= j) /\ j \in 0 .. n
    BY <1>7
  <2>2. ~ Few(j)
    BY <1>1, <1>6, <2>1 DEF S
  <2> QED BY <1>2, <2>1, <2>2, CommitAssumption
<1>9. Settles(s, m)
  BY <1>1, <1>7, <1>8 DEF Settles
<1> QED BY <1>9

\* The rule of the commit loop, for k iterations.
LoopRule(f, t, n) ==
    f = [k \in 0 .. n |-> IF k = 0 THEN t ELSE CommitStep(f[k - 1])]

\* One iteration pops while the queue has enough proposers.
LEMMA CommitStepIs ==
    ASSUME NEW s, Keyed(s), NEW h, NEW m, Settles(s, m), NEW k \in 0 .. m
    PROVE  CommitStep(Cut(s, h, k)) = IF k = m THEN Cut(s, h, k) ELSE Cut(s, h, k + 1)
<1>1. PICK n \in Nat : n = Len(s) /\ m \in Nat /\ m <= n /\ k \in Nat /\ k <= m /\ k <= n
  BY DEF Settles, Keyed
<1>2. PICK t : t = Cut(s, h, k)
  OBVIOUS
<1>3. t.panicked = FALSE
  BY <1>2 DEF Cut, TaskState
<1>4. Enough(t) <=> Cardinality(Proposing(Rest(s, k))) >= CommitLen
  BY <1>2, EnoughIs DEF Cut
<1>5. Cardinality(Proposing(Rest(s, k))) \in Nat
  BY <1>1, RestIs, ProposingFinite DEF Keyed
<1>6. CASE k = m
  <2>1. ~ Enough(t)
    BY <1>4, <1>5, <1>6, CommitAssumption DEF Settles
  <2> QED BY <1>2, <1>3, <1>6, <2>1 DEF CommitStep
<1>7. CASE k # m
  <2>1. k \in 0 .. (m - 1) /\ k \in 0 .. (Len(s) - 1)
    BY <1>1, <1>7
  <2>2. Enough(t)
    BY <1>4, <2>1 DEF Settles
  <2>3. Popped(t) = Cut(s, h, k + 1) /\ Unwrappable(t)
    BY <1>2, <2>1, CutPops
  <2> QED BY <1>2, <1>3, <1>7, <2>2, <2>3 DEF CommitStep
<1> QED BY <1>6, <1>7

\* The commit loop commits that prefix and nothing else, and does not panic.
LEMMA CommitLoopIs ==
    ASSUME NEW s, Keyed(s), NEW h, NEW m, Settles(s, m)
    PROVE  CommitLoop(TaskState(s, h, <<>>)) = Cut(s, h, m)
<1>1. PICK n \in Nat : n = Len(s) /\ m \in Nat /\ m <= n /\ s \in Seq(Entry)
  BY DEF Settles, Keyed
<1>2. PICK t : t = TaskState(s, h, <<>>)
  OBVIOUS
<1>3. t = Cut(s, h, 0)
  <2>1. Rest(s, 0) = s
    BY <1>1, RestIs
  <2>2. [i \in 1 .. 0 |-> s[i].elem] = <<>>
    OBVIOUS
  <2> QED BY <1>2, <2>1, <2>2 DEF Cut
<1>4. t.commit_queue = s
  BY <1>2 DEF TaskState
<1> DEFINE At(k) == IF k <= m THEN Cut(s, h, k) ELSE Cut(s, h, m)
           g == [k \in 0 .. (n + 1) |-> At(k)]
<1>5. ASSUME NEW k \in 1 .. (n + 1) PROVE At(k) = CommitStep(At(k - 1))
  <2>1. CASE k <= m
    <3>1. k - 1 \in 0 .. m /\ k - 1 # m /\ (k - 1) + 1 = k /\ k - 1 <= m
      BY <1>1, <2>1
    <3>2. CommitStep(Cut(s, h, k - 1)) = Cut(s, h, (k - 1) + 1)
      <4>1. PICK j : j = k - 1
        OBVIOUS
      <4>2. j \in 0 .. m /\ j # m
        BY <3>1, <4>1
      <4>3. CommitStep(Cut(s, h, j)) = IF j = m THEN Cut(s, h, j) ELSE Cut(s, h, j + 1)
        BY <4>2, CommitStepIs
      <4>4. CommitStep(Cut(s, h, j)) = Cut(s, h, j + 1)
        BY <4>2, <4>3
      <4> QED BY <4>1, <4>4
    <3>3. At(k - 1) = Cut(s, h, k - 1) /\ At(k) = Cut(s, h, k)
      BY <2>1, <3>1
    <3>4. Cut(s, h, (k - 1) + 1) = Cut(s, h, k)
      BY <3>1
    <3> HIDE DEF At
    <3> QED BY <3>2, <3>3, <3>4
  <2>2. CASE ~ (k <= m)
    <3>1. m \in 0 .. m
      BY <1>1
    <3>2. CommitStep(Cut(s, h, m)) = Cut(s, h, m)
      BY <3>1, CommitStepIs
    <3>3. k - 1 = m \/ ~ (k - 1 <= m)
      BY <1>1, <2>2
    <3>4. m <= m
      BY <1>1
    <3>5. At(k - 1) = Cut(s, h, m)
      BY <3>3, <3>4
    <3> QED BY <2>2, <3>2, <3>5
  <2> QED BY <2>1, <2>2
<1>6. At(0) = t
  BY <1>1, <1>3
<1> HIDE DEF At
<1>7. LoopRule(g, t, n + 1)
  <2>1. \A k \in 0 .. (n + 1) : g[k] = IF k = 0 THEN t ELSE CommitStep(g[k - 1])
    <3> TAKE k \in 0 .. (n + 1)
    <3>1. CASE k = 0
      BY <1>6, <3>1
    <3>2. CASE k # 0
      <4>1. k \in 1 .. (n + 1) /\ k - 1 \in 0 .. (n + 1)
        BY <1>1, <3>2
      <4>2. g[k] = At(k) /\ g[k - 1] = At(k - 1)
        BY <4>1
      <4> QED BY <1>5, <3>2, <4>1, <4>2
    <3> QED BY <3>1, <3>2
  <2>2. g = [k \in 0 .. (n + 1) |-> g[k]]
    OBVIOUS
  <2> HIDE DEF g
  <2>3. g = [k \in 0 .. (n + 1) |-> IF k = 0 THEN t ELSE CommitStep(g[k - 1])]
    BY <2>1, <2>2, Zenon
  <2> QED BY <2>3 DEF LoopRule
<1>8. PICK f : LoopRule(f, t, n + 1) /\ CommitLoop(t) = f[n + 1]
  <2>1. PICK f : f = CHOOSE u : LoopRule(u, t, n + 1)
    OBVIOUS
  <2>2. CommitLoop(t) = f[n + 1]
    BY <1>1, <1>4, <2>1, Zenon DEF CommitLoop, LoopRule
  <2>3. LoopRule(f, t, n + 1)
    BY <1>7, <2>1
  <2> QED BY <2>2, <2>3
<1>9. /\ f[0] = t
      /\ \A k \in 0 .. (n + 1) : k # 0 => f[k] = CommitStep(f[k - 1])
  <2>1. \A k \in 0 .. (n + 1) : f[k] = IF k = 0 THEN t ELSE CommitStep(f[k - 1])
    BY <1>8, Zenon DEF LoopRule
  <2>2. 0 \in 0 .. (n + 1)
    BY <1>1
  <2> QED BY <2>1, <2>2
<1> DEFINE bad == {k \in Nat : k <= n + 1 /\ f[k] # At(k)}
<1>10. bad = {}
  <2> SUFFICES ASSUME bad # {} PROVE FALSE
    OBVIOUS
  <2>1. bad \subseteq Nat
    OBVIOUS
  <2>2. PICK j \in bad : \A k \in bad : j <= k
    BY <2>1, LeastNat
  <2>3. j \in Nat /\ j <= n + 1 /\ f[j] # At(j)
    OBVIOUS
  <2>4. j # 0
    BY <1>6, <1>9, <2>3
  <2>5. j - 1 \in Nat /\ j - 1 <= n + 1 /\ ~ (j <= j - 1)
    BY <1>1, <2>3, <2>4
  <2>6. f[j - 1] = At(j - 1)
    BY <2>2, <2>5
  <2>7. j \in 1 .. (n + 1) /\ j \in 0 .. (n + 1)
    BY <2>3, <2>4
  <2>8. f[j] = CommitStep(f[j - 1]) /\ At(j) = CommitStep(At(j - 1))
    BY <1>5, <1>9, <2>4, <2>7
  <2> QED BY <2>3, <2>6, <2>8
<1>11. f[n + 1] = At(n + 1)
  <2>1. n + 1 \in Nat /\ n + 1 <= n + 1
    OBVIOUS
  <2> QED BY <1>10, <2>1
<1>12. At(n + 1) = Cut(s, h, m)
  <2>1. ~ (n + 1 <= m)
    BY <1>1
  <2> QED BY <2>1 DEF At
<1> QED BY <1>2, <1>8, <1>11, <1>12

----------------------------------------------------------------------------
\* The entry of element e.
Of(e) == [key |-> e, elem |-> e]

\* A key that is not in the queue goes to its end.
LEMMA LinkedInsertNew ==
    ASSUME NEW q, NEW e, \A i \in 1 .. Len(q) : q[i].key # e
    PROVE  LinkedInsert(q, e, e) = Append(q, Of(e))
<1>1. RemoveFirstMatch(q, LAMBDA x : x.key = e) = q
  BY DEF RemoveFirstMatch
<1> QED BY <1>1 DEF LinkedInsert, Of

\* Extending a queue by no entry or by a new one.
LEMMA LinkedExtendNone ==
    ASSUME NEW q
    PROVE  LinkedExtend(q, <<>>) = q
<1> DEFINE Extends(a) == a = [k \in 0 .. Len(<<>>) |->
                             IF k = 0 THEN q
                             ELSE LinkedInsert(a[k - 1], <<>>[k].key, <<>>[k].elem)]
<1>1. Len(<<>>) = 0
  OBVIOUS
<1>2. PICK g : g = [k \in 0 .. 0 |-> q]
  OBVIOUS
<1>3. Extends(g)
  <2>1. \A k \in 0 .. 0 : k = 0
    OBVIOUS
  <2>2. \A k \in 0 .. 0 :
           (IF k = 0 THEN q ELSE LinkedInsert(g[k - 1], <<>>[k].key, <<>>[k].elem)) = q
    BY <2>1
  <2> QED BY <1>1, <1>2, <2>2, Zenon
<1> DEFINE f == CHOOSE a : Extends(a)
<1>4. Extends(f)
  BY <1>3, Zenon
<1>5. LinkedExtend(q, <<>>) = f[Len(<<>>)]
  BY Zenon DEF LinkedExtend
<1> HIDE DEF f
<1>6. f[0] = q
  BY <1>1, <1>4
<1> QED BY <1>1, <1>5, <1>6

\* Extending a queue by one entry with a new key appends it.
LEMMA LinkedExtendOne ==
    ASSUME NEW q, NEW e, \A i \in 1 .. Len(q) : q[i].key # e
    PROVE  LinkedExtend(q, <<Of(e)>>) = Append(q, Of(e))
<1>1. PICK r : r = <<Of(e)>>
  OBVIOUS
<1>2. Len(r) = 1 /\ r[1].key = e /\ r[1].elem = e
  BY <1>1 DEF Of
<1> DEFINE Extends(a) == a = [k \in 0 .. Len(r) |->
                             IF k = 0 THEN q ELSE LinkedInsert(a[k - 1], r[k].key, r[k].elem)]
<1>3. PICK p : p = LinkedInsert(q, e, e)
  OBVIOUS
<1>4. PICK g : g = [k \in 0 .. 1 |-> IF k = 0 THEN q ELSE p]
  OBVIOUS
<1>5. Extends(g)
  <2>1. g[0] = q
    BY <1>4
  <2>2. \A k \in 0 .. 1 :
           (IF k = 0 THEN q ELSE LinkedInsert(g[k - 1], r[k].key, r[k].elem))
             = (IF k = 0 THEN q ELSE p)
    <3> TAKE k \in 0 .. 1
    <3>1. CASE k = 0
      BY <3>1
    <3>2. CASE k # 0
      <4>1. k = 1 /\ k - 1 = 0
        BY <3>2
      <4>2. LinkedInsert(g[k - 1], r[k].key, r[k].elem) = p
        BY <1>2, <1>3, <2>1, <4>1
      <4> QED BY <3>2, <4>2
    <3> QED BY <3>1, <3>2
  <2> QED BY <1>2, <1>4, <2>2, Zenon
<1> DEFINE f == CHOOSE a : Extends(a)
<1>6. Extends(f)
  BY <1>5, Zenon
<1>7. LinkedExtend(q, r) = f[Len(r)]
  BY Zenon DEF LinkedExtend
<1> HIDE DEF f
<1>8. f[0] = q /\ f[1] = LinkedInsert(f[0], r[1].key, r[1].elem)
  <2>1. 0 \in 0 .. 1 /\ 1 \in 0 .. 1 /\ 1 # 0 /\ 1 - 1 = 0
    OBVIOUS
  <2> QED BY <1>2, <1>6, <2>1
<1> QED BY <1>1, <1>2, <1>7, <1>8, LinkedInsertNew

----------------------------------------------------------------------------
WalkStart(e) ==
    [head |-> e, head_hash |-> e, queue |-> <<>>, proposers |-> [i \in {} |-> 0],
     stop |-> "no"]

WalkRule(f, t, store, e, n) ==
    f = [k \in 0 .. n |-> IF k = 0 THEN WalkStart(e) ELSE WalkStep(t, store, f[k - 1])]

\* A walk that has stopped after two iterations is over.
LEMMA WalkEnds ==
    ASSUME NEW t, NEW store, NEW e, NEW w1, NEW w2,
           w1 = WalkStep(t, store, WalkStart(e)), w2 = WalkStep(t, store, w1),
           w2.stop # "no"
    PROVE  Walk(t, store, e) = w2
<1>1. PICK n \in Nat : n = MaxRound + 2 /\ n >= 2
  BY CommitAssumption
<1> DEFINE At(k) == IF k = 0 THEN WalkStart(e) ELSE IF k = 1 THEN w1 ELSE w2
           g == [k \in 0 .. n |-> At(k)]
<1>2. WalkStep(t, store, w2) = w2
  BY DEF WalkStep
<1>3. ASSUME NEW k \in 1 .. n PROVE At(k) = WalkStep(t, store, At(k - 1))
  <2>1. CASE k = 1
    BY <2>1
  <2>2. CASE k = 2
    BY <2>2
  <2>3. CASE k # 1 /\ k # 2
    <3>1. k # 0 /\ k - 1 # 0 /\ k - 1 # 1
      BY <1>1, <2>3
    <3> QED BY <1>2, <2>3, <3>1
  <2> QED BY <2>1, <2>2, <2>3
<1>4. At(0) = WalkStart(e)
  OBVIOUS
<1>5. At(n) = w2
  BY <1>1
<1> HIDE DEF At
<1>6. WalkRule(g, t, store, e, n)
  <2>1. \A k \in 0 .. n : g[k] = IF k = 0 THEN WalkStart(e) ELSE WalkStep(t, store, g[k - 1])
    <3> TAKE k \in 0 .. n
    <3>1. CASE k = 0
      BY <1>4, <3>1
    <3>2. CASE k # 0
      <4>1. k \in 1 .. n /\ k - 1 \in 0 .. n
        BY <1>1, <3>2
      <4>2. g[k] = At(k) /\ g[k - 1] = At(k - 1)
        BY <4>1
      <4> QED BY <1>3, <3>2, <4>1, <4>2
    <3> QED BY <3>1, <3>2
  <2>2. g = [k \in 0 .. n |-> g[k]]
    OBVIOUS
  <2> HIDE DEF g
  <2>3. g = [k \in 0 .. n |-> IF k = 0 THEN WalkStart(e) ELSE WalkStep(t, store, g[k - 1])]
    BY <2>1, <2>2, Zenon
  <2> QED BY <2>3 DEF WalkRule
<1>7. PICK f : WalkRule(f, t, store, e, n) /\ Walk(t, store, e) = f[n]
  <2>1. PICK f : f = CHOOSE u : WalkRule(u, t, store, e, n)
    OBVIOUS
  <2>2. Walk(t, store, e) = f[n]
    BY <1>1, <2>1, Zenon DEF Walk, WalkRule, WalkStart
  <2>3. WalkRule(f, t, store, e, n)
    BY <1>6, <2>1
  <2> QED BY <2>2, <2>3
<1>8. /\ f[0] = WalkStart(e)
      /\ \A k \in 0 .. n : k # 0 => f[k] = WalkStep(t, store, f[k - 1])
  <2>1. \A k \in 0 .. n : f[k] = IF k = 0 THEN WalkStart(e) ELSE WalkStep(t, store, f[k - 1])
    BY <1>7, Zenon DEF WalkRule
  <2>2. 0 \in 0 .. n
    BY <1>1
  <2> QED BY <2>1, <2>2
<1> DEFINE bad == {k \in Nat : k <= n /\ f[k] # At(k)}
<1>9. bad = {}
  <2> SUFFICES ASSUME bad # {} PROVE FALSE
    OBVIOUS
  <2>1. bad \subseteq Nat
    OBVIOUS
  <2>2. PICK j \in bad : \A k \in bad : j <= k
    BY <2>1, LeastNat
  <2>3. j \in Nat /\ j <= n /\ f[j] # At(j)
    OBVIOUS
  <2>4. j # 0
    BY <1>4, <1>8, <2>3
  <2>5. j - 1 \in Nat /\ j - 1 <= n /\ ~ (j <= j - 1)
    BY <1>1, <2>3, <2>4
  <2>6. f[j - 1] = At(j - 1)
    BY <2>2, <2>5
  <2>7. j \in 1 .. n /\ j \in 0 .. n
    BY <2>3, <2>4
  <2>8. f[j] = WalkStep(t, store, f[j - 1]) /\ At(j) = WalkStep(t, store, At(j - 1))
    BY <1>3, <1>8, <2>4, <2>7
  <2> QED BY <2>3, <2>6, <2>8
<1>10. f[n] = At(n)
  <2>1. n \in Nat /\ n <= n
    OBVIOUS
  <2> QED BY <1>9, <2>1
<1> QED BY <1>5, <1>7, <1>10

\* What the walk has seen when it stops after one element.
Seen(e, p, stop) ==
    [head |-> e, head_hash |-> p, queue |-> <<Of(e)>>, proposers |-> CountsOf(<<Of(e)>>),
     stop |-> stop]

\* How a walk that has come to hash p stops.
StopsAt(q, h, p, stop) ==
    \/ stop = "connected" /\ q # <<>> /\ Last(q).key = p
    \/ stop = "bottom" /\ p = h /\ (q = <<>> \/ Last(q).key # p)

\* Element e with parent p is new to the task.
NewOn(q, h, e, store, p, stop) ==
    /\ e \in DOMAIN store /\ store[e] = p
    /\ q # <<>> => Last(q).key # e
    /\ StopsAt(q, h, p, stop)

\* The walk from a new element e with parent p: it connects to the back of the
\* queue, or meets the last committed element.
LEMMA WalkNew ==
    ASSUME NEW q, NEW h \in Elements, NEW c, NEW e \in Elements, h < e,
           NEW store, NEW p, NEW stop, NewOn(q, h, e, store, p, stop)
    PROVE  Walk(TaskState(q, h, c), store, e) = Seen(e, p, stop)
<1>0. /\ e \in DOMAIN store /\ store[e] = p /\ StopsAt(q, h, p, stop)
      /\ q # <<>> => Last(q).key # e
  BY DEF NewOn
<1>1. PICK t, w, u : t = TaskState(q, h, c) /\ w = WalkStart(e) /\ u = Seen(e, p, "no")
  OBVIOUS
<1>2. /\ t.highest_committed_element = h /\ t.highest_committed_hash = h
      /\ t.commit_queue = q
  BY <1>1 DEF TaskState
<1>3. /\ w.stop = "no" /\ w.head = e /\ w.head_hash = e /\ w.queue = <<>>
      /\ w.proposers = [i \in {} |-> 0]
  BY <1>1 DEF WalkStart
<1>4. ~ (e <= h) /\ e # h
  BY DEF Elements
<1>5. Of(e) \in Entry /\ Of(e).elem = e
  BY DEF Of, Entry
<1>6. LinkedInsert(<<>>, e, e) = <<Of(e)>>
  <2>1. \A i \in 1 .. Len(<<>>) : <<>>[i].key # e
    OBVIOUS
  <2>2. LinkedInsert(<<>>, e, e) = Append(<<>>, Of(e))
    BY <2>1, LinkedInsertNew
  <2> QED BY <2>2
<1>7. Counted([i \in {} |-> 0], Author(e), 1) = CountsOf(<<Of(e)>>)
  BY <1>5, CountsOne
<1>8. WalkStep(t, store, w) = u
  <2>1. PICK a, b : a = <<Of(e)>> /\ b = CountsOf(<<Of(e)>>)
    OBVIOUS
  <2>2. /\ LinkedInsert(w.queue, w.head_hash, w.head) = a
        /\ Counted(w.proposers, Author(w.head), 1) = b
    BY <1>3, <1>6, <1>7, <2>1
  <2>3. PICK seen : seen = [w EXCEPT !.queue = a, !.proposers = b]
    OBVIOUS
  <2>4. seen = [head |-> e, head_hash |-> e, queue |-> a, proposers |-> b, stop |-> "no"]
    BY <1>1, <2>3 DEF WalkStart
  <2>5. seen = [w EXCEPT !.queue = LinkedInsert(@, w.head_hash, w.head),
                         !.proposers = Counted(@, Author(w.head), 1)]
    BY <2>2, <2>3, Zenon
  <2>6. ~ (w.head <= t.highest_committed_element) /\ w.head_hash # t.highest_committed_hash
    BY <1>2, <1>3, <1>4
  <2>7. ~ (t.commit_queue # <<>> /\ Last(t.commit_queue).key = w.head_hash)
    BY <1>0, <1>2, <1>3
  <2>8. WalkStep(t, store, w) = [seen EXCEPT !.head = e, !.head_hash = p]
    BY <1>0, <1>3, <2>5, <2>6, <2>7, Zenon DEF WalkStep
  <2> QED BY <1>1, <2>1, <2>4, <2>8 DEF Seen
<1>9. u.stop = "no" /\ u.head = e /\ u.head_hash = p
  BY <1>1 DEF Seen
<1>10. WalkStep(t, store, u) = Seen(e, p, stop)
  <2>1. ~ (u.head <= t.highest_committed_element)
    BY <1>2, <1>4, <1>9
  <2>2. WalkStep(t, store, u) = [u EXCEPT !.stop = stop]
    BY <1>0, <1>2, <1>9, <2>1, Zenon DEF WalkStep, StopsAt
  <2> QED BY <1>1, <2>2 DEF Seen
<1>11. Seen(e, p, stop).stop # "no"
  BY <1>0 DEF Seen, StopsAt
<1> QED BY <1>0, <1>1, <1>8, <1>10, <1>11, WalkEnds

\* The walk that stops where it starts.
Stopped(e, stop) ==
    [head |-> e, head_hash |-> e, queue |-> <<>>, proposers |-> [i \in {} |-> 0],
     stop |-> stop]

StopsNow(q, h, e, stop) ==
    \/ stop = "connected" /\ q # <<>> /\ Last(q).key = e /\ h < e
    \/ stop = "bottom" /\ e = h

\* The walk from the highest element that the task knows already.
LEMMA WalkKnown ==
    ASSUME NEW q, NEW h \in Elements, NEW c, NEW e \in Elements, NEW store,
           NEW stop, StopsNow(q, h, e, stop)
    PROVE  Walk(TaskState(q, h, c), store, e) = Stopped(e, stop)
<1>1. PICK t, w, u : t = TaskState(q, h, c) /\ w = WalkStart(e) /\ u = Stopped(e, stop)
  OBVIOUS
<1>2. /\ t.highest_committed_element = h /\ t.highest_committed_hash = h
      /\ t.commit_queue = q
  BY <1>1 DEF TaskState
<1>3. w.stop = "no" /\ w.head = e /\ w.head_hash = e
  BY <1>1 DEF WalkStart
<1>4. WalkStep(t, store, w) = u
  <2>0. [w EXCEPT !.stop = stop] = u
    BY <1>1 DEF WalkStart, Stopped
  <2>1. CASE stop = "connected" /\ q # <<>> /\ Last(q).key = e /\ h < e
    <3>1. ~ (w.head <= t.highest_committed_element)
      BY <1>2, <1>3, <2>1 DEF Elements
    <3> QED BY <1>2, <1>3, <2>0, <2>1, <3>1, Zenon DEF WalkStep
  <2>2. CASE stop = "bottom" /\ e = h
    <3>1. w.head <= t.highest_committed_element
      BY <1>2, <1>3, <2>2 DEF Elements
    <3> QED BY <1>2, <1>3, <2>0, <2>2, <3>1, Zenon DEF WalkStep
  <2> QED BY <2>1, <2>2 DEF StopsNow
<1>5. u.stop = stop /\ stop # "no"
  BY <1>1 DEF Stopped, StopsNow
<1>6. WalkStep(t, store, u) = u
  BY <1>5 DEF WalkStep
<1> QED BY <1>1, <1>4, <1>5, <1>6, WalkEnds

----------------------------------------------------------------------------
\* The updates of a task whose counters are right.
Committing(t, d) == [t EXCEPT !.committed = d]

Queueing(t, s, b) == [t EXCEPT !.commit_queue = s, !.unique_proposers = b]

\* Both updates of a task state give a task state.
LEMMA TaskUpdates ==
    ASSUME NEW q, NEW h, NEW c, NEW s, NEW d
    PROVE  /\ Committing(TaskState(q, h, c), d) = TaskState(q, h, d)
           /\ Queueing(TaskState(q, h, c), s, CountsOf(s)) = TaskState(s, h, c)
<1>1. PICK t, p, a, b : /\ p = FALSE /\ a = CountsOf(q) /\ b = CountsOf(s)
                        /\ t = TaskState(q, h, c)
  OBVIOUS
<1>2. t = [commit_queue |-> q, unique_proposers |-> a, highest_committed_hash |-> h,
           highest_committed_element |-> h, committed |-> c, panicked |-> p]
  BY <1>1, Zenon DEF TaskState
<1>3. Committing(t, d) =
          [commit_queue |-> q, unique_proposers |-> a, highest_committed_hash |-> h,
           highest_committed_element |-> h, committed |-> d, panicked |-> p]
  <2>1. [t EXCEPT !.committed = d] =
          [commit_queue |-> q, unique_proposers |-> a, highest_committed_hash |-> h,
           highest_committed_element |-> h, committed |-> d, panicked |-> p]
    BY <1>2
  <2> QED BY <2>1, Zenon DEF Committing
<1>4. Queueing(t, s, b) =
          [commit_queue |-> s, unique_proposers |-> b, highest_committed_hash |-> h,
           highest_committed_element |-> h, committed |-> c, panicked |-> p]
  <2>1. [t EXCEPT !.commit_queue = s, !.unique_proposers = b] =
          [commit_queue |-> s, unique_proposers |-> b, highest_committed_hash |-> h,
           highest_committed_element |-> h, committed |-> c, panicked |-> p]
    <3>1. PICK t1 : t1 = [t EXCEPT !.commit_queue = s]
      OBVIOUS
    <3>2. t1 = [commit_queue |-> s, unique_proposers |-> a, highest_committed_hash |-> h,
                highest_committed_element |-> h, committed |-> c, panicked |-> p]
      BY <1>2, <3>1
    <3>3. [t1 EXCEPT !.unique_proposers = b] =
             [commit_queue |-> s, unique_proposers |-> b, highest_committed_hash |-> h,
              highest_committed_element |-> h, committed |-> c, panicked |-> p]
      BY <3>2
    <3> QED BY <3>1, <3>3, Zenon
  <2> QED BY <2>1, Zenon DEF Queueing
<1>5. Committing(t, d) = TaskState(q, h, d)
  BY <1>1, <1>3, Zenon DEF TaskState
<1>6. Queueing(t, s, b) = TaskState(s, h, c)
  BY <1>1, <1>4, Zenon DEF TaskState
<1> QED BY <1>1, <1>5, <1>6

\* Element e is new to queue q and its parent is the last of q.
Follows(q, h, e, store) ==
    /\ Keyed(q) /\ q # <<>> /\ h < e
    /\ e \in DOMAIN store /\ store[e] = Last(q).key
    /\ \A i \in 1 .. Len(q) : q[i].key # e

\* The handler when a new element extends the queue.
LEMMA EndRoundExtends ==
    ASSUME NEW q, NEW h \in Elements, NEW c, NEW e \in Elements, NEW store,
           Follows(q, h, e, store), NEW m, Settles(Append(q, Of(e)), m)
    PROVE  /\ end_round(TaskState(q, h, c), store, e) = Cut(Append(q, Of(e)), h, m)
           /\ end_round_orphans(TaskState(q, h, c), store, e) = {}
           /\ Keyed(Append(q, Of(e)))
<1>1. PICK t, w, s : /\ t = TaskState(q, h, c) /\ s = Append(q, Of(e))
                     /\ w = Seen(e, store[e], "connected")
  OBVIOUS
<1>0. /\ Keyed(q) /\ q # <<>> /\ h < e
      /\ e \in DOMAIN store /\ store[e] = Last(q).key
      /\ \A i \in 1 .. Len(q) : q[i].key # e
  BY DEF Follows
<1>2. q \in Seq(Entry) /\ Len(q) \in Nat /\ Len(q) >= 1
  BY <1>0 DEF Keyed
<1>3. Last(q).key # e
  BY <1>0, <1>2 DEF Last
<1>4. Walk(t, store, e) = w
  <2>1. NewOn(q, h, e, store, store[e], "connected")
    BY <1>0, <1>3 DEF NewOn, StopsAt
  <2> QED BY <1>0, <1>1, <2>1, WalkNew
<1>5. w.stop = "connected" /\ w.queue = <<Of(e)>> /\ w.proposers = CountsOf(<<Of(e)>>)
  BY <1>1 DEF Seen
<1>6. Of(e) \in Entry /\ Of(e).key = e /\ Of(e).elem = e
  BY DEF Of, Entry
<1>7. Keyed(s)
  <2>1. s \in Seq(Entry) /\ Len(s) = Len(q) + 1 /\ s[Len(q) + 1] = Of(e)
        /\ \A i \in 1 .. Len(q) : s[i] = q[i]
    BY <1>1, <1>2, <1>6, PlacesOfAppend
  <2> QED BY <1>0, <1>2, <1>6, <2>1 DEF Keyed
<1>8. LinkedExtend(q, w.queue) = s
  BY <1>0, <1>1, <1>5, LinkedExtendOne
<1>9. Merged(CountsOf(q), w.proposers) = CountsOf(s)
  BY <1>1, <1>2, <1>5, <1>6, CountsMerge
<1>10. t.commit_queue = q /\ t.unique_proposers = CountsOf(q) /\ t.panicked = FALSE
  BY <1>1 DEF TaskState
<1>11. Committing(Attached(t, w), <<>>) = TaskState(s, h, <<>>)
  <2>1. Attached(t, w) = Queueing(t, s, CountsOf(s))
    BY <1>5, <1>8, <1>9, <1>10, Zenon DEF Attached, Queueing
  <2>2. Attached(t, w) = TaskState(s, h, c)
    BY <1>1, <2>1, TaskUpdates
  <2> QED BY <2>2, TaskUpdates
<1>12. e # Genesis
  BY <1>0, CommitAssumption DEF Elements, Genesis
<1>13. end_round(t, store, e) = CommitLoop(TaskState(s, h, <<>>))
  BY <1>4, <1>10, <1>11, <1>12, Zenon DEF end_round, Committing
<1>14. end_round_orphans(t, store, e) = {}
  BY <1>4, <1>5, <1>10, <1>12, Zenon DEF end_round_orphans, Orphans
<1> QED BY <1>1, <1>7, <1>13, <1>14, CommitLoopIs

\* The handler when a new element starts on the last committed element: all
\* that was queued is dropped and reported.
LEMMA EndRoundRestarts ==
    ASSUME NEW q, Keyed(q), NEW h \in Elements, NEW c, NEW e \in Elements,
           h < e, NEW store, e \in DOMAIN store, store[e] = h,
           q # <<>> => Last(q).key # e /\ Last(q).key # h,
           NEW m, Settles(<<Of(e)>>, m)
    PROVE  /\ end_round(TaskState(q, h, c), store, e) = Cut(<<Of(e)>>, h, m)
           /\ end_round_orphans(TaskState(q, h, c), store, e) =
                 {q[i].elem : i \in 1 .. Len(q)} \ {Genesis}
           /\ Keyed(<<Of(e)>>)
<1>1. PICK t, w, s : /\ t = TaskState(q, h, c) /\ s = <<Of(e)>>
                     /\ w = Seen(e, store[e], "bottom")
  OBVIOUS
<1>2. Walk(t, store, e) = w
  <2>1. NewOn(q, h, e, store, h, "bottom")
    BY DEF NewOn, StopsAt
  <2>2. Walk(TaskState(q, h, c), store, e) = Seen(e, h, "bottom")
    BY <2>1, WalkNew
  <2> QED BY <1>1, <2>2
<1>3. w.stop = "bottom" /\ w.queue = s /\ w.proposers = CountsOf(s)
  BY <1>1 DEF Seen
<1>4. Of(e) \in Entry /\ Of(e).key = e /\ Of(e).elem = e
  BY DEF Of, Entry
<1>5. Keyed(s)
  BY <1>1, <1>4 DEF Keyed
<1>6. t.commit_queue = q /\ t.panicked = FALSE
  BY <1>1 DEF TaskState
<1>7. Committing(Attached(t, w), <<>>) = TaskState(s, h, <<>>)
  <2>1. Attached(t, w) = Queueing(t, s, CountsOf(s))
    <3>1. w.stop # "connected"
      BY <1>3
    <3> QED BY <1>3, <3>1, Zenon DEF Attached, Queueing
  <2>2. Attached(t, w) = TaskState(s, h, c)
    BY <1>1, <2>1, TaskUpdates
  <2> QED BY <2>2, TaskUpdates
<1>8. e # Genesis
  BY DEF Elements, Genesis
<1>9. end_round(t, store, e) = CommitLoop(TaskState(s, h, <<>>))
  BY <1>2, <1>6, <1>7, <1>8, Zenon DEF end_round, Committing
<1>10. end_round_orphans(t, store, e) = {q[i].elem : i \in 1 .. Len(q)} \ {Genesis}
  BY <1>2, <1>3, <1>6, <1>8 DEF end_round_orphans, Orphans
<1> QED BY <1>1, <1>5, <1>9, <1>10, CommitLoopIs

\* The handler when the round brought nothing new.
LEMMA EndRoundKeeps ==
    ASSUME NEW q, Keyed(q), Settles(q, 0), NEW h \in Elements, NEW c,
           NEW e \in Elements, NEW store,
           e # Genesis => \/ q # <<>> /\ Last(q).key = e /\ h < e
                          \/ q = <<>> /\ e = h
    PROVE  /\ end_round(TaskState(q, h, c), store, e) = TaskState(q, h, <<>>)
           /\ end_round_orphans(TaskState(q, h, c), store, e) = {}
<1>1. PICK t : t = TaskState(q, h, c)
  OBVIOUS
<1>2. t.commit_queue = q /\ t.unique_proposers = CountsOf(q) /\ t.panicked = FALSE
  BY <1>1 DEF TaskState
<1>3. CASE e = Genesis
  <2>1. Committing(t, <<>>) = TaskState(q, h, <<>>)
    BY <1>1, TaskUpdates
  <2> QED BY <1>1, <1>3, <2>1, Zenon DEF end_round, end_round_orphans, Committing
<1>4. ASSUME e # Genesis, NEW w, Walk(t, store, e) = w,
             Attached(t, w) = t, Orphans(t, w) = {}
      PROVE  /\ end_round(t, store, e) = TaskState(q, h, <<>>)
             /\ end_round_orphans(t, store, e) = {}
  <2>1. Committing(t, <<>>) = TaskState(q, h, <<>>)
    BY <1>1, TaskUpdates
  <2>2. CommitLoop(TaskState(q, h, <<>>)) = Cut(q, h, 0)
    BY CommitLoopIs
  <2>3. Cut(q, h, 0) = TaskState(q, h, <<>>)
    <3>1. Rest(q, 0) = q
      BY RestIs DEF Keyed
    <3>2. [i \in 1 .. 0 |-> q[i].elem] = <<>>
      OBVIOUS
    <3> QED BY <3>1, <3>2 DEF Cut
  <2>4. end_round(t, store, e) = CommitLoop(Committing(t, <<>>))
    BY <1>2, <1>4, Zenon DEF end_round, Committing
  <2>5. end_round_orphans(t, store, e) = {}
    BY <1>2, <1>4, Zenon DEF end_round_orphans
  <2> QED BY <2>1, <2>2, <2>3, <2>4, <2>5
<1>5. CASE e # Genesis /\ q # <<>> /\ Last(q).key = e /\ h < e
  <2>1. PICK w : w = Stopped(e, "connected")
    OBVIOUS
  <2>2. Walk(t, store, e) = w
    <3>1. StopsNow(q, h, e, "connected")
      BY <1>5 DEF StopsNow
    <3> QED BY <1>1, <2>1, <3>1, WalkKnown
  <2>3. w.stop = "connected" /\ w.queue = <<>> /\ w.proposers = [i \in {} |-> 0]
    BY <2>1 DEF Stopped
  <2>4. LinkedExtend(q, w.queue) = q /\ Merged(CountsOf(q), w.proposers) = CountsOf(q)
    BY <2>3, LinkedExtendNone, CountsMergeNone DEF Keyed
  <2>5. Attached(t, w) = [t EXCEPT !.commit_queue = q, !.unique_proposers = CountsOf(q)]
    BY <1>2, <2>3, <2>4, Zenon DEF Attached
  <2>6. Attached(t, w) = t
    BY <1>1, <2>5 DEF TaskState
  <2>7. Orphans(t, w) = {}
    BY <2>3 DEF Orphans
  <2> QED BY <1>1, <1>4, <1>5, <2>2, <2>6, <2>7
<1>6. CASE e # Genesis /\ q = <<>> /\ e = h
  <2>1. PICK w : w = Stopped(e, "bottom")
    OBVIOUS
  <2>2. Walk(t, store, e) = w
    <3>1. StopsNow(q, h, e, "bottom")
      BY <1>6 DEF StopsNow
    <3> QED BY <1>1, <2>1, <3>1, WalkKnown
  <2>3. w.stop = "bottom" /\ w.queue = <<>> /\ w.proposers = [i \in {} |-> 0]
    BY <2>1 DEF Stopped
  <2>4. Proposing(q) = {}
    BY <1>6 DEF Proposing
  <2>5. CountsOf(q) = [i \in {} |-> 0]
    BY <2>4 DEF CountsOf
  <2>6. Attached(t, w) = [t EXCEPT !.commit_queue = q, !.unique_proposers = CountsOf(q)]
    BY <1>6, <2>3, <2>5, Zenon DEF Attached
  <2>7. Attached(t, w) = t
    BY <1>1, <2>6 DEF TaskState
  <2>8. Orphans(t, w) = {}
    BY <1>2, <1>6, <2>3 DEF Orphans
  <2> QED BY <1>1, <1>4, <1>6, <2>2, <2>7, <2>8
<1> QED BY <1>3, <1>5, <1>6

----------------------------------------------------------------------------
\* The element x may come first in a queue behind log lg, whose last is h.
Begins(x, h, lg, d) ==
    IF x = Genesis THEN lg = <<>> /\ h = Genesis ELSE d[x] = h /\ h < x

\* Queue q continues log lg as one chain of the store d, oldest element first.
Linked(q, h, lg, d) ==
    /\ Keyed(q)
    /\ \A i \in 1 .. Len(q) : q[i].elem \in DOMAIN d
    /\ \A i, j \in 1 .. Len(q) : i < j => q[i].elem < q[j].elem
    /\ \A i \in 2 .. Len(q) : d[q[i].elem] = q[i - 1].elem
    /\ q # <<>> => Begins(q[1].elem, h, lg, d)

\* Log lg is a chain of the store, and h the last element of it.
Logged(lg, h, d) ==
    /\ lg \in Seq(Elements)
    /\ \A i \in 1 .. Len(lg) : lg[i] \in DOMAIN d
    /\ \A i, j \in 1 .. Len(lg) : i < j => lg[i] < lg[j]
    /\ \A i \in 2 .. Len(lg) : d[lg[i]] = lg[i - 1]
    /\ lg # <<>> => d[lg[1]] = IF lg[1] = Genesis THEN NoParent ELSE Genesis
    /\ h = IF lg = <<>> THEN Genesis ELSE lg[Len(lg)]

\* Every stored element is queued, logged or in o, and those in o are neither.
Accounted(q, lg, o, d) ==
    /\ o \subseteq DOMAIN d \ {Genesis}
    /\ \A i \in 1 .. Len(q) : q[i].elem \notin o
    /\ \A i \in 1 .. Len(lg) : lg[i] \notin o
    /\ \A e \in DOMAIN d \ {Genesis} :
          \/ e \in o
          \/ \E i \in 1 .. Len(q) : q[i].elem = e
          \/ \E i \in 1 .. Len(lg) : lg[i] = e

Stored(d, r) ==
    /\ DOMAIN d \subseteq 0 .. (r - 1)
    /\ Genesis \in DOMAIN d /\ d[Genesis] = NoParent

\* The last element of the chain.
Tip(q, h) == IF q = <<>> THEN h ELSE q[Len(q)].elem

Elems(q) == [i \in 1 .. Len(q) |-> q[i].elem]

\* The elements of a queue and of its parts.
LEMMA ElemsOf ==
    ASSUME NEW q \in Seq(Entry)
    PROVE  /\ Elems(q) \in Seq(Elements) /\ Len(Elems(q)) = Len(q)
           /\ \A i \in 1 .. Len(q) : Elems(q)[i] = q[i].elem /\ q[i].elem \in Elements
<1>1. PICK n \in Nat : n = Len(q)
  OBVIOUS
<1>2. \A x \in Entry : x.elem \in Elements
  BY DEF Entry
<1>3. \A i \in 1 .. n : q[i] \in Entry
  BY <1>1
<1>4. \A i \in 1 .. n : q[i].elem \in Elements
  BY <1>2, <1>3
<1>5. Elems(q) = [i \in 1 .. n |-> q[i].elem]
  BY <1>1 DEF Elems
<1> QED BY <1>1, <1>4, <1>5

\* What is committed: the first m elements.
First(s, m) == [i \in 1 .. m |-> s[i].elem]

NextHash(s, h, m) == IF m = 0 THEN h ELSE s[m].elem

\* A log that gets the first m elements of the queue, place by place.
LEMMA LogPlaces ==
    ASSUME NEW s \in Seq(Entry), NEW m \in 0 .. Len(s), NEW lg \in Seq(Elements)
    PROVE  /\ lg \o First(s, m) \in Seq(Elements) /\ Len(lg \o First(s, m)) = Len(lg) + m
           /\ \A i \in 1 .. Len(lg) : (lg \o First(s, m))[i] = lg[i]
           /\ \A i \in 1 .. m : (lg \o First(s, m))[Len(lg) + i] = s[i].elem
<1>1. PICK n \in Nat : n = Len(s) /\ m \in Nat /\ m <= n
  OBVIOUS
<1>2. \A i \in 1 .. n : s[i].elem \in Elements
  BY <1>1, ElemsOf
<1>3. PICK c : c = First(s, m)
  OBVIOUS
<1>4. c \in Seq(Elements) /\ Len(c) = m /\ \A i \in 1 .. m : c[i] = s[i].elem
  BY <1>1, <1>2, <1>3 DEF First
<1>5. PICK l \in Nat : l = Len(lg)
  OBVIOUS
<1>6. /\ lg \o c \in Seq(Elements) /\ Len(lg \o c) = l + m
      /\ \A i \in 1 .. l : (lg \o c)[i] = lg[i]
      /\ \A i \in 1 .. m : (lg \o c)[l + i] = c[i]
  BY <1>4, <1>5
<1> QED BY <1>3, <1>4, <1>5, <1>6

\* Committing moves elements from the queue to the log; together they stay one
\* chain.
LEMMA CutLinked ==
    ASSUME NEW s, NEW h, NEW lg, NEW d, Linked(s, h, lg, d), NEW m \in 1 .. Len(s)
    PROVE  Linked(Rest(s, m), s[m].elem, lg \o First(s, m), d)
<1>1. PICK n \in Nat : n = Len(s) /\ m \in Nat /\ m <= n /\ m >= 1 /\ s \in Seq(Entry)
  BY DEF Linked, Keyed
<1>2. PICK r : r = Rest(s, m)
  OBVIOUS
<1>3. m \in 0 .. Len(s)
  BY <1>1
<1>4. r \in Seq(Entry) /\ Len(r) = n - m /\ \A i \in 1 .. (n - m) : r[i] = s[m + i]
  BY <1>1, <1>2, <1>3, RestIs
<1>5. /\ \A i \in 1 .. n : s[i].elem \in DOMAIN d /\ s[i].key = s[i].elem
      /\ \A i, j \in 1 .. n : i < j => s[i].elem < s[j].elem
      /\ \A i \in 2 .. n : d[s[i].elem] = s[i - 1].elem
  BY <1>1 DEF Linked, Keyed
<1>6. \A i \in 1 .. (n - m) : m + i \in 1 .. n
  BY <1>1
<1>7. Keyed(r)
  <2>1. ASSUME NEW i \in 1 .. (n - m) PROVE r[i].key = r[i].elem
    <3>1. r[i] = s[m + i] /\ m + i \in 1 .. n
      BY <1>4, <1>6
    <3> QED BY <1>5, <3>1
  <2> QED BY <1>4, <2>1 DEF Keyed
<1>8. \A i \in 1 .. Len(r) : r[i].elem \in DOMAIN d
  BY <1>4, <1>5, <1>6
<1>9. \A i, j \in 1 .. Len(r) : i < j => r[i].elem < r[j].elem
  <2> TAKE i, j \in 1 .. Len(r)
  <2> HAVE i < j
  <2>1. m + i \in 1 .. n /\ m + j \in 1 .. n /\ m + i < m + j
    BY <1>1, <1>4
  <2>2. r[i] = s[m + i] /\ r[j] = s[m + j]
    BY <1>4
  <2> QED BY <1>5, <2>1, <2>2
<1>10. \A i \in 2 .. Len(r) : d[r[i].elem] = r[i - 1].elem
  <2> TAKE i \in 2 .. Len(r)
  <2>1. PICK j, k, a : j = i - 1 /\ k = m + i /\ a = m + j
    OBVIOUS
  <2>2. k \in 2 .. n /\ j \in 1 .. (n - m) /\ i \in 1 .. (n - m) /\ k - 1 = a
    BY <1>1, <1>4, <2>1
  <2>3. r[i] = s[k] /\ r[j] = s[a]
    BY <1>4, <2>1, <2>2
  <2>4. d[s[k].elem] = s[a].elem
    BY <1>5, <2>2
  <2> QED BY <2>1, <2>3, <2>4
<1>11. r # <<>> => Begins(r[1].elem, s[m].elem, lg \o First(s, m), d)
  <2> HAVE r # <<>>
  <2>1. n - m >= 1
    BY <1>1, <1>4
  <2>2. r[1] = s[m + 1] /\ m + 1 \in 2 .. n /\ (m + 1) - 1 = m /\ m \in 1 .. n /\ m + 1 \in 1 .. n
    BY <1>1, <1>4, <2>1
  <2>3. d[r[1].elem] = s[m].elem /\ s[m].elem < r[1].elem
    <3>1. d[s[m + 1].elem] = s[m].elem
      BY <1>5, <2>2
    <3>2. m < m + 1
      BY <1>1
    <3>3. s[m].elem < s[m + 1].elem
      BY <1>5, <2>2, <3>2
    <3> QED BY <2>2, <3>1, <3>3
  <2>4. s[m].elem \in Nat /\ r[1].elem \in Nat
    <3>1. s[m].elem \in Elements /\ s[m + 1].elem \in Elements
      BY <1>1, <2>2, ElemsOf
    <3> QED BY <2>2, <3>1, CommitAssumption DEF Elements
  <2>5. r[1].elem # Genesis
    BY <2>3, <2>4 DEF Genesis
  <2> QED BY <2>3, <2>5 DEF Begins
<1> QED BY <1>2, <1>7, <1>8, <1>9, <1>10, <1>11 DEF Linked

\* The log with the committed elements is a chain of the store.
LEMMA CutLogged ==
    ASSUME NEW s, NEW h, NEW lg, NEW d, Linked(s, h, lg, d), Logged(lg, h, d),
           d[Genesis] = NoParent, NEW m \in 1 .. Len(s)
    PROVE  Logged(lg \o First(s, m), s[m].elem, d)
<1>1. PICK n \in Nat : n = Len(s) /\ m \in Nat /\ m <= n /\ m >= 1 /\ s \in Seq(Entry)
  BY DEF Linked, Keyed
<1>2. PICK l \in Nat : l = Len(lg) /\ lg \in Seq(Elements)
  BY DEF Logged
<1>3. PICK g : g = lg \o First(s, m)
  OBVIOUS
<1>4. /\ g \in Seq(Elements) /\ Len(g) = l + m
      /\ \A i \in 1 .. l : g[i] = lg[i]
      /\ \A i \in 1 .. m : g[l + i] = s[i].elem
  <2>1. m \in 0 .. Len(s)
    BY <1>1
  <2> QED BY <1>1, <1>2, <1>3, <2>1, LogPlaces
<1>5. /\ \A i \in 1 .. n : s[i].elem \in DOMAIN d
      /\ \A i, j \in 1 .. n : i < j => s[i].elem < s[j].elem
      /\ \A i \in 2 .. n : d[s[i].elem] = s[i - 1].elem
      /\ Begins(s[1].elem, h, lg, d)
  <2>1. s # <<>>
    BY <1>1
  <2> QED BY <1>1, <2>1 DEF Linked
<1>6. /\ \A i \in 1 .. l : lg[i] \in DOMAIN d
      /\ \A i, j \in 1 .. l : i < j => lg[i] < lg[j]
      /\ \A i \in 2 .. l : d[lg[i]] = lg[i - 1]
      /\ l > 0 => d[lg[1]] = IF lg[1] = Genesis THEN NoParent ELSE Genesis
      /\ h = IF l = 0 THEN Genesis ELSE lg[l]
  BY <1>2 DEF Logged
<1>7. /\ \A i \in 1 .. l : lg[i] \in Nat
      /\ \A i \in 1 .. n : s[i].elem \in Nat
  <2>1. \A x \in Elements : x \in Nat
    BY CommitAssumption DEF Elements
  <2>2. \A i \in 1 .. l : lg[i] \in Elements
    BY <1>2
  <2>3. \A i \in 1 .. n : s[i].elem \in Elements
    BY <1>1, ElemsOf
  <2> QED BY <2>1, <2>2, <2>3
\* The first element behind a log that is not empty.
<1>8. l > 0 => d[s[1].elem] = lg[l] /\ lg[l] < s[1].elem
  <2> HAVE l > 0
  <2>1. lg # <<>>
    BY <1>2
  <2> QED BY <1>5, <1>6, <2>1 DEF Begins
<1>9. \A j \in 1 .. (l + m) : j \in 1 .. l \/ (j - l \in 1 .. m /\ l + (j - l) = j)
  BY <1>1
<1>10. \A i \in 1 .. (l + m) : g[i] \in DOMAIN d
  <2> TAKE i \in 1 .. (l + m)
  <2>1. CASE i \in 1 .. l
    BY <1>4, <1>6, <2>1
  <2>2. CASE i \notin 1 .. l
    <3>1. PICK k : k = i - l
      OBVIOUS
    <3>2. k \in 1 .. m /\ l + k = i /\ k \in 1 .. n
      BY <1>1, <1>9, <2>2, <3>1
    <3> QED BY <1>4, <1>5, <3>2
  <2> QED BY <2>1, <2>2
<1>11. \A i, j \in 1 .. (l + m) : i < j => g[i] < g[j]
  <2> TAKE i, j \in 1 .. (l + m)
  <2> HAVE i < j
  <2>1. CASE j \in 1 .. l
    <3>1. i \in 1 .. l
      BY <1>2, <2>1
    <3> QED BY <1>4, <1>6, <2>1, <3>1
  <2>2. CASE i \notin 1 .. l
    <3>1. PICK a, b : a = i - l /\ b = j - l
      OBVIOUS
    <3>2. a \in 1 .. m /\ l + a = i /\ a \in 1 .. n /\ b \in 1 .. m /\ l + b = j /\ b \in 1 .. n /\ a < b
      BY <1>1, <2>2, <3>1
    <3>3. g[l + a] = s[a].elem /\ g[l + b] = s[b].elem
      BY <1>4, <3>2
    <3> QED BY <1>5, <3>2, <3>3
  <2>3. CASE i \in 1 .. l /\ j \notin 1 .. l
    <3>1. PICK b : b = j - l
      OBVIOUS
    <3>2. b \in 1 .. m /\ l + b = j /\ b \in 1 .. n /\ l > 0 /\ l \in 1 .. l /\ 1 \in 1 .. n
      BY <1>1, <2>3, <3>1
    <3>3. g[i] = lg[i] /\ g[j] = s[b].elem
      BY <1>4, <2>3, <3>2
    <3>4. lg[i] <= lg[l]
      <4>1. CASE i = l
        BY <1>7, <3>2, <4>1
      <4>2. CASE i # l
        <5>1. i < l
          BY <2>3, <4>2
        <5>2. lg[i] < lg[l]
          BY <1>6, <2>3, <3>2, <5>1
        <5> QED BY <1>7, <2>3, <3>2, <5>2
      <4> QED BY <4>1, <4>2
    <3>5. s[1].elem <= s[b].elem
      <4>1. CASE b = 1
        BY <1>7, <3>2, <4>1
      <4>2. CASE b # 1
        <5>1. 1 < b
          BY <3>2, <4>2
        <5>2. s[1].elem < s[b].elem
          BY <1>5, <3>2, <5>1
        <5> QED BY <1>7, <3>2, <5>2
      <4> QED BY <4>1, <4>2
    <3>6. lg[i] \in Nat /\ lg[l] \in Nat /\ s[1].elem \in Nat /\ s[b].elem \in Nat
      BY <1>7, <2>3, <3>2
    <3> QED BY <1>8, <3>2, <3>3, <3>4, <3>5, <3>6
  <2> QED BY <2>1, <2>2, <2>3
<1>12. \A i \in 2 .. (l + m) : d[g[i]] = g[i - 1]
  <2> TAKE i \in 2 .. (l + m)
  <2>1. PICK z : z = i - 1
    OBVIOUS
  <2>2. CASE i \in 1 .. l
    <3>1. i \in 2 .. l /\ z \in 1 .. l
      BY <2>1, <2>2
    <3>2. g[i] = lg[i] /\ g[z] = lg[z]
      BY <1>4, <2>2, <3>1
    <3> QED BY <1>6, <2>1, <3>1, <3>2
  <2>3. CASE i = l + 1
    <3>1. z = l /\ l > 0 /\ l \in 1 .. l /\ 1 \in 1 .. m
      BY <1>1, <2>1, <2>3
    <3>2. g[z] = lg[l] /\ g[i] = s[1].elem
      BY <1>4, <2>3, <3>1
    <3> QED BY <1>8, <2>1, <3>1, <3>2
  <2>4. CASE i \notin 1 .. l /\ i # l + 1
    <3>1. PICK a, b : a = i - l /\ b = a - 1
      OBVIOUS
    <3>2. a \in 2 .. n /\ a \in 1 .. m /\ b \in 1 .. m /\ l + a = i /\ l + b = z
      BY <1>1, <2>1, <2>4, <3>1
    <3>3. g[i] = s[a].elem /\ g[z] = s[b].elem
      BY <1>4, <3>2
    <3>4. d[s[a].elem] = s[b].elem
      BY <1>5, <3>1, <3>2
    <3> QED BY <2>1, <3>3, <3>4
  <2> QED BY <2>2, <2>3, <2>4
<1>13. d[g[1]] = IF g[1] = Genesis THEN NoParent ELSE Genesis
  <2>1. CASE l > 0
    <3>1. 1 \in 1 .. l
      BY <2>1
    <3> QED BY <1>4, <1>6, <2>1, <3>1
  <2>2. CASE l = 0
    <3>1. 1 \in 1 .. m /\ l + 1 = 1
      BY <1>1, <2>2
    <3>2. g[1] = s[1].elem
      BY <1>4, <3>1
    <3> QED BY <1>5, <1>6, <2>2, <3>2 DEF Begins
  <2> QED BY <2>1, <2>2
<1>14. g # <<>> /\ g[l + m] = s[m].elem
  <2>1. m \in 1 .. m /\ l + m > 0
    BY <1>1
  <2> QED BY <1>4, <2>1
<1> QED BY <1>3, <1>4, <1>10, <1>11, <1>12, <1>13, <1>14 DEF Logged

\* What leaves the queue is in the log: every element stays accounted for.
LEMMA CutAccounted ==
    ASSUME NEW s \in Seq(Entry), NEW lg \in Seq(Elements), NEW o, NEW d,
           Accounted(s, lg, o, d), NEW m \in 0 .. Len(s)
    PROVE  Accounted(Rest(s, m), lg \o First(s, m), o, d)
<1>1. PICK n \in Nat : n = Len(s) /\ m \in Nat /\ m <= n
  OBVIOUS
<1>2. PICK l \in Nat : l = Len(lg)
  OBVIOUS
<1>3. PICK g, r : g = lg \o First(s, m) /\ r = Rest(s, m)
  OBVIOUS
<1>4. /\ Len(g) = l + m
      /\ \A i \in 1 .. l : g[i] = lg[i]
      /\ \A i \in 1 .. m : g[l + i] = s[i].elem
  BY <1>1, <1>2, <1>3, LogPlaces
<1>5. Len(r) = n - m /\ \A i \in 1 .. (n - m) : r[i] = s[m + i]
  BY <1>1, <1>3, RestIs
<1>6. /\ o \subseteq DOMAIN d \ {Genesis}
      /\ \A i \in 1 .. n : s[i].elem \notin o
      /\ \A i \in 1 .. l : lg[i] \notin o
  BY <1>1, <1>2 DEF Accounted
<1>7. \A i \in 1 .. (n - m) : r[i].elem \notin o
  <2> TAKE i \in 1 .. (n - m)
  <2>1. m + i \in 1 .. n
    BY <1>1
  <2> QED BY <1>5, <1>6, <2>1
<1>8. \A i \in 1 .. (l + m) : g[i] \notin o
  <2> TAKE i \in 1 .. (l + m)
  <2>1. CASE i \in 1 .. l
    BY <1>4, <1>6, <2>1
  <2>2. CASE i \notin 1 .. l
    <3>1. PICK k : k = i - l
      OBVIOUS
    <3>2. k \in 1 .. m /\ l + k = i /\ k \in 1 .. n
      BY <1>1, <2>2, <3>1
    <3> QED BY <1>4, <1>6, <3>2
  <2> QED BY <2>1, <2>2
<1>9. ASSUME NEW e \in DOMAIN d \ {Genesis}
      PROVE  \/ e \in o
             \/ \E i \in 1 .. (n - m) : r[i].elem = e
             \/ \E i \in 1 .. (l + m) : g[i] = e
  <2>1. CASE e \in o
    BY <2>1
  <2>2. ASSUME NEW i \in 1 .. n, s[i].elem = e
        PROVE  \/ \E k \in 1 .. (n - m) : r[k].elem = e
               \/ \E k \in 1 .. (l + m) : g[k] = e
    <3>1. CASE i <= m
      <4>1. i \in 1 .. m /\ l + i \in 1 .. (l + m)
        BY <1>1, <3>1
      <4>2. g[l + i] = e
        BY <1>4, <2>2, <4>1
      <4> QED BY <4>1, <4>2
    <3>2. CASE ~ (i <= m)
      <4>1. PICK k : k = i - m
        OBVIOUS
      <4>2. k \in 1 .. (n - m) /\ m + k = i
        BY <1>1, <3>2, <4>1
      <4>3. r[k].elem = e
        BY <1>5, <2>2, <4>2
      <4> QED BY <4>2, <4>3
    <3> QED BY <3>1, <3>2
  <2>3. ASSUME NEW i \in 1 .. l, lg[i] = e
        PROVE  \E k \in 1 .. (l + m) : g[k] = e
    <3>1. i \in 1 .. (l + m) /\ g[i] = e
      BY <1>1, <1>4, <2>3
    <3> QED BY <3>1
  <2>4. \/ e \in o
        \/ \E i \in 1 .. n : s[i].elem = e
        \/ \E i \in 1 .. l : lg[i] = e
    BY <1>1, <1>2 DEF Accounted
  <2> QED BY <2>1, <2>2, <2>3, <2>4
<1> QED BY <1>3, <1>4, <1>5, <1>6, <1>7, <1>8, <1>9 DEF Accounted

----------------------------------------------------------------------------
\* Log, queue and reported elements fit together.
Chain(q, h, lg, o, d) ==
    Linked(q, h, lg, d) /\ Logged(lg, h, d) /\ Accounted(q, lg, o, d)

\* The commit loop keeps that, and leaves nothing that could be committed.
LEMMA CutKeeps ==
    ASSUME NEW s, NEW h, NEW lg, NEW o, NEW d, Chain(s, h, lg, o, d),
           d[Genesis] = NoParent, NEW m, Settles(s, m)
    PROVE  /\ Chain(Rest(s, m), NextHash(s, h, m), lg \o First(s, m), o, d)
           /\ Settles(Rest(s, m), 0)
           /\ Tip(Rest(s, m), NextHash(s, h, m)) = Tip(s, h)
           /\ Keyed(Rest(s, m))
<1>1. PICK n \in Nat : n = Len(s) /\ m \in Nat /\ m <= n /\ m \in 0 .. Len(s)
  BY DEF Settles, Chain, Linked, Keyed
<1>2. s \in Seq(Entry) /\ lg \in Seq(Elements)
  BY DEF Chain, Linked, Keyed, Logged
<1>3. PICK r : r = Rest(s, m)
  OBVIOUS
<1>4. r \in Seq(Entry) /\ Len(r) = n - m /\ \A i \in 1 .. (n - m) : r[i] = s[m + i]
  BY <1>1, <1>2, <1>3, RestIs
<1>5. Settles(r, 0)
  <2>1. Rest(r, 0) = r
    BY <1>4, RestIs
  <2>2. Cardinality(Proposing(Rest(r, 0))) < CommitLen
    BY <1>3, <2>1 DEF Settles
  <2>3. 0 \in 0 .. Len(r) /\ \A j \in 0 .. (0 - 1) : FALSE
    BY <1>1, <1>4
  <2> QED BY <2>2, <2>3 DEF Settles
<1>6. Chain(r, NextHash(s, h, m), lg \o First(s, m), o, d)
  <2>1. CASE m = 0
    <3>1. r = s
      BY <1>1, <1>2, <1>3, <2>1, RestIs
    <3>2. First(s, m) = <<>>
      BY <2>1 DEF First
    <3>3. lg \o First(s, m) = lg
      BY <1>2, <3>2
    <3> QED BY <2>1, <3>1, <3>3 DEF NextHash
  <2>2. CASE m # 0
    <3>1. m \in 1 .. Len(s)
      BY <1>1, <2>2
    <3>2. NextHash(s, h, m) = s[m].elem
      BY <2>2 DEF NextHash
    <3>3. Linked(r, s[m].elem, lg \o First(s, m), d)
      BY <1>3, <3>1, CutLinked DEF Chain
    <3>4. Logged(lg \o First(s, m), s[m].elem, d)
      BY <3>1, CutLogged DEF Chain
    <3>5. Accounted(r, lg \o First(s, m), o, d)
      BY <1>1, <1>2, <1>3, CutAccounted DEF Chain
    <3> QED BY <3>2, <3>3, <3>4, <3>5 DEF Chain
  <2> QED BY <2>1, <2>2
<1>7. Tip(r, NextHash(s, h, m)) = Tip(s, h)
  <2>1. CASE m = n
    <3>1. r = <<>>
      BY <1>1, <1>4, <2>1
    <3>2. CASE n = 0
      <4>1. s = <<>>
        BY <1>1, <1>2, <3>2, EmptySeq
      <4> QED BY <2>1, <3>1, <3>2, <4>1 DEF Tip, NextHash
    <3>3. CASE n # 0
      <4>1. s # <<>>
        BY <1>1, <1>2, <3>3
      <4> QED BY <1>1, <2>1, <3>1, <3>3, <4>1 DEF Tip, NextHash
    <3> QED BY <3>2, <3>3
  <2>2. CASE m # n
    <3>1. r # <<>> /\ s # <<>> /\ n - m \in 1 .. (n - m) /\ m + (n - m) = n
      BY <1>1, <1>2, <1>4, <2>2
    <3>2. r[n - m] = s[n]
      BY <1>4, <3>1
    <3> QED BY <1>1, <1>4, <3>1, <3>2 DEF Tip
  <2> QED BY <2>1, <2>2
<1>8. Keyed(r)
  BY <1>6 DEF Chain, Linked
<1> QED BY <1>3, <1>5, <1>6, <1>7, <1>8

\* Store d gets element r with parent p.
Grown(d, d2, r, p) ==
    /\ DOMAIN d2 = DOMAIN d \cup {r} /\ d2[r] = p
    /\ \A x \in DOMAIN d : d2[x] = d[x]

\* The last committed element is stored, and older than the element to come.
LEMMA LastIsStored ==
    ASSUME NEW q, NEW h, NEW lg, NEW o, NEW d, NEW r \in Nat,
           Chain(q, h, lg, o, d), Stored(d, r)
    PROVE  h \in DOMAIN d /\ h \in Nat /\ h < r
<1>1. h \in DOMAIN d
  <2>1. CASE lg = <<>>
    BY <2>1 DEF Chain, Logged, Stored
  <2>2. CASE lg # <<>>
    <3>1. Len(lg) \in 1 .. Len(lg)
      BY <2>2 DEF Chain, Logged
    <3> QED BY <2>2, <3>1 DEF Chain, Logged
  <2> QED BY <2>1, <2>2
<1> QED BY <1>1 DEF Stored

\* The log does not notice a new element.
LEMMA LoggedGrows ==
    ASSUME NEW h, NEW lg, NEW d, NEW d2, NEW r, NEW p, Logged(lg, h, d), Grown(d, d2, r, p)
    PROVE  Logged(lg, h, d2)
<1>1. PICK l \in Nat : l = Len(lg) /\ lg \in Seq(Elements)
  BY DEF Logged
<1>2. \A i \in 1 .. l : lg[i] \in DOMAIN d /\ lg[i] \in DOMAIN d2 /\ d2[lg[i]] = d[lg[i]]
  BY <1>1 DEF Logged, Grown
<1>3. \A i \in 2 .. l : d2[lg[i]] = lg[i - 1]
  BY <1>1, <1>2 DEF Logged
<1>4. lg # <<>> => d2[lg[1]] = IF lg[1] = Genesis THEN NoParent ELSE Genesis
  <2> HAVE lg # <<>>
  <2>1. 1 \in 1 .. l
    BY <1>1
  <2> QED BY <1>2, <2>1 DEF Logged
<1> QED BY <1>1, <1>2, <1>3, <1>4 DEF Logged

\* A queued element, genesis apart, is not in the log.
LEMMA QueuedNotLogged ==
    ASSUME NEW q, NEW h, NEW lg, NEW d, Linked(q, h, lg, d), Logged(lg, h, d),
           NEW i \in 1 .. Len(q), NEW j \in 1 .. Len(lg)
    PROVE  lg[j] # q[i].elem
<1>1. PICK n \in Nat, l \in Nat : /\ n = Len(q) /\ l = Len(lg) /\ q \in Seq(Entry)
                                 /\ lg \in Seq(Elements)
  BY DEF Linked, Keyed, Logged
<1>2. i \in 1 .. n /\ j \in 1 .. l /\ 1 \in 1 .. n /\ l \in 1 .. l /\ q # <<>> /\ lg # <<>>
  BY <1>1
<1>3. \A x \in Elements : x \in Nat
  BY CommitAssumption DEF Elements
<1>4. q[i].elem \in Nat /\ q[1].elem \in Nat /\ lg[j] \in Nat /\ lg[l] \in Nat
  <2>1. q[i].elem \in Elements /\ q[1].elem \in Elements
    BY <1>1, <1>2, ElemsOf
  <2>2. lg[j] \in Elements /\ lg[l] \in Elements
    BY <1>1, <1>2
  <2> QED BY <1>3, <2>1, <2>2
<1>5. lg[l] < q[1].elem
  <2>1. Begins(q[1].elem, h, lg, d)
    BY <1>2 DEF Linked
  <2>2. h = lg[l]
    BY <1>1, <1>2 DEF Logged
  <2> QED BY <1>2, <2>1, <2>2 DEF Begins
<1>6. lg[j] <= lg[l]
  <2>1. CASE j = l
    BY <1>4, <2>1
  <2>2. CASE j # l
    <3>1. j < l
      BY <1>2, <2>2
    <3>2. lg[j] < lg[l]
      BY <1>1, <1>2, <3>1 DEF Logged
    <3> QED BY <1>4, <3>2
  <2> QED BY <2>1, <2>2
<1>7. q[1].elem <= q[i].elem
  <2>1. CASE i = 1
    BY <1>4, <2>1
  <2>2. CASE i # 1
    <3>1. 1 < i
      BY <1>2, <2>2
    <3>2. q[1].elem < q[i].elem
      BY <1>1, <1>2, <3>1 DEF Linked
    <3> QED BY <1>4, <3>2
  <2> QED BY <2>1, <2>2
<1> QED BY <1>4, <1>5, <1>6, <1>7

\* A new element whose parent is the last of the queue continues the chain.
LEMMA ChainExtends ==
    ASSUME NEW q, NEW h, NEW lg, NEW o, NEW d, NEW r \in Elements, NEW d2,
           Chain(q, h, lg, o, d), Stored(d, r), q # <<>>, Grown(d, d2, r, Tip(q, h))
    PROVE  Chain(Append(q, Of(r)), h, lg, o, d2)
<1>1. PICK n \in Nat : n = Len(q) /\ q \in Seq(Entry) /\ n > 0
  BY DEF Chain, Linked, Keyed
<1>2. PICK s : s = Append(q, Of(r))
  OBVIOUS
<1>3. Of(r) \in Entry /\ Of(r).key = r /\ Of(r).elem = r
  BY DEF Of, Entry
<1>4. /\ s \in Seq(Entry) /\ Len(s) = n + 1 /\ s[n + 1] = Of(r) /\ s # <<>>
      /\ \A i \in 1 .. n : s[i] = q[i]
  BY <1>1, <1>2, <1>3, PlacesOfAppend
<1>5. /\ \A i \in 1 .. n : q[i].key = q[i].elem /\ q[i].elem \in DOMAIN d
      /\ \A i, j \in 1 .. n : i < j => q[i].elem < q[j].elem
      /\ \A i \in 2 .. n : d[q[i].elem] = q[i - 1].elem
      /\ Begins(q[1].elem, h, lg, d)
  BY <1>1 DEF Chain, Linked, Keyed
<1>6. /\ DOMAIN d2 = DOMAIN d \cup {r} /\ d2[r] = q[n].elem
      /\ \A x \in DOMAIN d : d2[x] = d[x]
  BY <1>1 DEF Grown, Tip
<1>7. \A x \in DOMAIN d : x < r
  BY CommitAssumption DEF Stored, Elements
<1>8. \A i \in 1 .. (n + 1) : i \in 1 .. n \/ i = n + 1
  OBVIOUS
<1>9. Keyed(s)
  BY <1>3, <1>4, <1>5, <1>8 DEF Keyed
<1>10. \A i \in 1 .. (n + 1) : s[i].elem \in DOMAIN d2
  BY <1>3, <1>4, <1>5, <1>6, <1>8
<1>11. \A i, j \in 1 .. (n + 1) : i < j => s[i].elem < s[j].elem
  <2> TAKE i, j \in 1 .. (n + 1)
  <2> HAVE i < j
  <2>1. i \in 1 .. n
    BY <1>1
  <2>2. CASE j \in 1 .. n
    BY <1>4, <1>5, <2>1, <2>2
  <2>3. CASE j = n + 1
    BY <1>3, <1>4, <1>5, <1>7, <2>1, <2>3
  <2> QED BY <1>8, <2>2, <2>3
<1>12. \A i \in 2 .. (n + 1) : d2[s[i].elem] = s[i - 1].elem
  <2> TAKE i \in 2 .. (n + 1)
  <2>1. CASE i = n + 1
    <3>1. i - 1 = n /\ n \in 1 .. n
      BY <1>1, <2>1
    <3> QED BY <1>3, <1>4, <1>6, <2>1, <3>1
  <2>2. CASE i # n + 1
    <3>1. PICK k : k = i - 1
      OBVIOUS
    <3>2. i \in 2 .. n /\ i \in 1 .. n /\ k \in 1 .. n
      BY <1>1, <2>2, <3>1
    <3>3. s[i] = q[i] /\ s[k] = q[k] /\ d2[q[i].elem] = d[q[i].elem]
      BY <1>4, <1>5, <1>6, <3>2
    <3>4. d[q[i].elem] = q[k].elem
      BY <1>5, <3>1, <3>2
    <3> QED BY <3>1, <3>3, <3>4
  <2> QED BY <2>1, <2>2
<1>13. Begins(s[1].elem, h, lg, d2)
  <2>1. 1 \in 1 .. n /\ s[1] = q[1] /\ q[1].elem \in DOMAIN d
    BY <1>1, <1>4, <1>5
  <2> QED BY <1>5, <1>6, <2>1 DEF Begins
<1>14. Linked(s, h, lg, d2)
  BY <1>4, <1>9, <1>10, <1>11, <1>12, <1>13 DEF Linked
<1>15. Logged(lg, h, d2)
  BY LoggedGrows DEF Chain
<1>16. Accounted(s, lg, o, d2)
  <2>1. /\ o \subseteq DOMAIN d \ {Genesis}
        /\ \A i \in 1 .. n : q[i].elem \notin o
        /\ \A i \in 1 .. Len(lg) : lg[i] \notin o
        /\ \A e \in DOMAIN d \ {Genesis} :
              \/ e \in o
              \/ \E i \in 1 .. n : q[i].elem = e
              \/ \E i \in 1 .. Len(lg) : lg[i] = e
    BY <1>1 DEF Chain, Accounted
  <2>2. r \notin DOMAIN d
    BY CommitAssumption DEF Stored, Elements
  <2>3. \A i \in 1 .. (n + 1) : s[i].elem \notin o
    BY <1>3, <1>4, <1>8, <2>1, <2>2
  <2>4. ASSUME NEW e \in DOMAIN d2 \ {Genesis}
        PROVE  \/ e \in o
               \/ \E i \in 1 .. (n + 1) : s[i].elem = e
               \/ \E i \in 1 .. Len(lg) : lg[i] = e
    <3>1. CASE e = r
      <4>1. n + 1 \in 1 .. (n + 1)
        OBVIOUS
      <4> QED BY <1>3, <1>4, <3>1, <4>1
    <3>2. CASE e # r
      <4>1. e \in DOMAIN d \ {Genesis}
        BY <1>6, <3>2
      <4>2. ASSUME NEW i \in 1 .. n, q[i].elem = e PROVE \E k \in 1 .. (n + 1) : s[k].elem = e
        <5>1. i \in 1 .. (n + 1) /\ s[i].elem = e
          BY <1>4, <4>2
        <5> QED BY <5>1
      <4> QED BY <2>1, <4>1, <4>2
    <3> QED BY <3>1, <3>2
  <2>5. o \subseteq DOMAIN d2 \ {Genesis}
    BY <1>6, <2>1
  <2> QED BY <1>4, <2>1, <2>3, <2>4, <2>5 DEF Accounted
<1> QED BY <1>2, <1>14, <1>15, <1>16 DEF Chain

\* A new element whose parent is the last committed one starts a new queue; what
\* was queued is reported, genesis apart.
LEMMA ChainRestarts ==
    ASSUME NEW q, NEW h, NEW lg, NEW o, NEW d, NEW r \in Elements, NEW d2,
           Chain(q, h, lg, o, d), Stored(d, r), Grown(d, d2, r, h)
    PROVE  Chain(<<Of(r)>>, h, lg, o \cup ({q[i].elem : i \in 1 .. Len(q)} \ {Genesis}), d2)
<1>1. PICK n \in Nat : n = Len(q) /\ q \in Seq(Entry)
  BY DEF Chain, Linked, Keyed
<1>2. PICK s, p : s = <<Of(r)>> /\ p = o \cup ({q[i].elem : i \in 1 .. n} \ {Genesis})
  OBVIOUS
<1>3. Of(r) \in Entry /\ Of(r).key = r /\ Of(r).elem = r
  BY DEF Of, Entry
<1>4. s \in Seq(Entry) /\ Len(s) = 1 /\ s[1] = Of(r) /\ s # <<>>
  BY <1>2, <1>3
<1>5. /\ DOMAIN d2 = DOMAIN d \cup {r} /\ d2[r] = h
      /\ \A x \in DOMAIN d : d2[x] = d[x]
  BY DEF Grown
<1>6. h < r /\ r # Genesis /\ r \in Nat /\ r \notin DOMAIN d
  <2>1. r \in Nat
    BY CommitAssumption DEF Elements
  <2>2. h \in Nat /\ h < r
    BY <2>1, LastIsStored
  <2>3. r \notin DOMAIN d
    BY <2>1 DEF Stored
  <2> QED BY <2>1, <2>2, <2>3 DEF Genesis
<1>7. Linked(s, h, lg, d2)
  <2>1. Keyed(s)
    BY <1>3, <1>4 DEF Keyed
  <2>2. Begins(s[1].elem, h, lg, d2)
    BY <1>3, <1>4, <1>5, <1>6 DEF Begins
  <2>3. \A i \in 1 .. Len(s) : s[i].elem \in DOMAIN d2
    BY <1>3, <1>4, <1>5
  <2> QED BY <1>4, <2>1, <2>2, <2>3 DEF Linked
<1>8. Logged(lg, h, d2)
  BY LoggedGrows DEF Chain
<1>9. /\ o \subseteq DOMAIN d \ {Genesis}
      /\ \A i \in 1 .. Len(lg) : lg[i] \notin o
      /\ \A e \in DOMAIN d \ {Genesis} :
            \/ e \in o
            \/ \E i \in 1 .. n : q[i].elem = e
            \/ \E i \in 1 .. Len(lg) : lg[i] = e
      /\ \A i \in 1 .. n : q[i].elem \in DOMAIN d
  BY <1>1 DEF Chain, Accounted, Linked
<1>10. Accounted(s, lg, p, d2)
  <2>1. p \subseteq DOMAIN d2 \ {Genesis}
    BY <1>2, <1>5, <1>9
  <2>2. \A i \in 1 .. Len(s) : s[i].elem \notin p
    <3>1. r \notin p
      BY <1>2, <1>6, <1>9
    <3> QED BY <1>3, <1>4, <3>1
  <2>3. \A j \in 1 .. Len(lg) : lg[j] \notin p
    <3> TAKE j \in 1 .. Len(lg)
    <3>1. \A i \in 1 .. n : lg[j] # q[i].elem
      BY <1>1, QueuedNotLogged DEF Chain
    <3> QED BY <1>2, <1>9, <3>1
  <2>4. ASSUME NEW e \in DOMAIN d2 \ {Genesis}
        PROVE  \/ e \in p
               \/ \E i \in 1 .. Len(s) : s[i].elem = e
               \/ \E i \in 1 .. Len(lg) : lg[i] = e
    <3>1. CASE e = r
      BY <1>3, <1>4, <3>1
    <3>2. CASE e # r
      <4>1. e \in DOMAIN d \ {Genesis}
        BY <1>5, <3>2
      <4> QED BY <1>2, <1>9, <4>1
    <3> QED BY <3>1, <3>2
  <2> QED BY <2>1, <2>2, <2>3, <2>4 DEF Accounted
<1> QED BY <1>1, <1>2, <1>7, <1>8, <1>10 DEF Chain

----------------------------------------------------------------------------
(***************************************************************************)
(* The invariant while elements are adopted in order: the counters are     *)
(* those of the queue, nothing is left to commit, log, queue and reported  *)
(* elements fit together, and the engine's highest element is the last of  *)
(* the chain.  Fetched elements play no part in it.                        *)
(***************************************************************************)

\* Every parent is an element of an earlier round.
Parents(d, r) ==
    \A x \in DOMAIN d : x \in 0 .. (r - 1) /\ (x # Genesis => d[x] \in 0 .. (x - 1))

EngineInv ==
    /\ round \in 1 .. (MaxRound + 1)
    /\ Parents(db, round) /\ Parents(missed, round)
    /\ Genesis \in DOMAIN db /\ db[Genesis] = NoParent /\ Genesis \notin DOMAIN missed

\* The stored elements that this server adopted, and genesis.
Adopted == [x \in DOMAIN db \ DOMAIN missed |-> db[x]]

CommitInv ==
    /\ round \in 1 .. (MaxRound + 1)
    /\ Stored(Adopted, round)
    /\ task = TaskState(task.commit_queue, task.highest_committed_element, task.committed)
    /\ Chain(task.commit_queue, task.highest_committed_element, log, orphaned, Adopted)
    /\ Settles(task.commit_queue, 0)
    /\ highest = Tip(task.commit_queue, task.highest_committed_element)

\* What adopting an element does: the chain beyond the last committed element
\* becomes s, and its first m elements are committed.
Moves(s, m) ==
    /\ s = Append(task.commit_queue, Of(round)) \/ s = <<Of(round)>>
    /\ round \in Elements /\ Keyed(s) /\ Settles(s, m)
    /\ task' = Cut(s, task.highest_committed_element, m)
    /\ log' = log \o First(s, m)
    /\ round' = round + 1 /\ round + 1 \in 1 .. (MaxRound + 1)
    /\ Stored(Adopted', round + 1)
    /\ Chain(s, task.highest_committed_element, log, orphaned', Adopted')
    /\ highest' = Tip(s, task.highest_committed_element)

\* The invariant holds when the task starts: genesis alone is queued.
LEMMA InitInv == Init => CommitInv
<1> SUFFICES ASSUME Init PROVE CommitInv
  OBVIOUS
<1>1. PICK x, q, d : x = Of(Genesis) /\ q = <<x>> /\ d = [e \in {Genesis} |-> NoParent]
  OBVIOUS
<1>2. /\ x \in Entry /\ x.key = Genesis /\ x.elem = Genesis
      /\ x = [key |-> Genesis, elem |-> Genesis]
  BY <1>1, CommitAssumption DEF Of, Entry, Elements, Genesis
<1>3. q \in Seq(Entry) /\ Len(q) = 1 /\ q[1] = x /\ q # <<>>
  BY <1>1, <1>2
<1>4. DOMAIN d = {Genesis} /\ d[Genesis] = NoParent
  BY <1>1
<1>5. CountsOf(q) = [i \in {START_ID} |-> 1]
  <2>1. Author(x.elem) = START_ID
    BY <1>2 DEF Author
  <2> QED BY <1>1, <1>2, <2>1, CountsOne
<1>6. task = TaskState(q, Genesis, <<>>)
  BY <1>1, <1>2, <1>5, Zenon DEF Init, InitTask, TaskState
<1>7. /\ task.commit_queue = q /\ task.highest_committed_element = Genesis
      /\ task.committed = <<>>
  BY <1>6 DEF TaskState
<1>8. Linked(q, Genesis, <<>>, d)
  <2>1. Keyed(q)
    BY <1>2, <1>3 DEF Keyed
  <2>2. Begins(q[1].elem, Genesis, <<>>, d)
    BY <1>2, <1>3 DEF Begins
  <2> QED BY <1>2, <1>3, <1>4, <2>1, <2>2 DEF Linked
<1>9. Logged(<<>>, Genesis, d)
  BY DEF Logged
<1>10. Accounted(q, <<>>, {}, d)
  BY <1>4 DEF Accounted
<1>11. Settles(q, 0)
  <2>1. Proposing(q) = {Author(x.elem)}
    BY <1>3 DEF Proposing
  <2>2. Cardinality(Proposing(q)) = 1
    BY <2>1, FS_Singleton
  <2>3. Rest(q, 0) = q
    BY <1>3, RestIs
  <2>4. 0 \in 0 .. Len(q) /\ \A j \in 0 .. (0 - 1) : FALSE
    BY <1>3
  <2> QED BY <2>2, <2>3, <2>4, CommitAssumption DEF Settles
<1>12. Tip(q, Genesis) = Genesis
  BY <1>2, <1>3 DEF Tip
<1>13. /\ round = 1 /\ Adopted = d /\ highest = Genesis /\ log = <<>> /\ orphaned = {}
  <2>1. DOMAIN missed = {} /\ db = d
    BY <1>1 DEF Init
  <2>2. Adopted = [y \in DOMAIN d |-> d[y]]
    BY <2>1 DEF Adopted
  <2> QED BY <1>1, <1>4, <2>2 DEF Init
<1>14. Stored(Adopted, round)
  BY <1>4, <1>13 DEF Stored, Genesis
<1>15. round \in 1 .. (MaxRound + 1)
  BY <1>13, CommitAssumption
<1> QED BY <1>6, <1>7, <1>8, <1>9, <1>10, <1>11, <1>12, <1>13, <1>14, <1>15 DEF CommitInv, Chain

\* Adopting a proposal in order moves the chain: it is extended when the parent
\* is its last element, and starts anew otherwise.
LEMMA AdoptMoves ==
    ASSUME CommitInv, EngineInv, NEW p, Adopt(p), in_order'
    PROVE  \E s, m : Moves(s, m)
<1>1. PICK q, h, c, r : /\ q = task.commit_queue /\ h = task.highest_committed_element
                        /\ c = task.committed /\ r = round
  OBVIOUS
<1>0. PICK d, d2, s2 : d = Adopted /\ d2 = Adopted' /\ s2 = db'
  OBVIOUS
<1>2. /\ r \in 1 .. (MaxRound + 1) /\ Stored(d, r)
      /\ task = TaskState(q, h, c) /\ Chain(q, h, log, orphaned, d)
      /\ Settles(q, 0) /\ highest = Tip(q, h)
  BY <1>0, <1>1 DEF CommitInv
<1>3. p = highest \/ (p = h /\ highest # h)
  BY <1>1 DEF Adopt
<1>4. /\ r <= MaxRound /\ db' = WithElement(db, r, p) /\ highest' = r
      /\ missed' = missed
      /\ task' = end_round(task, s2, r)
      /\ log' = log \o task'.committed
      /\ orphaned' = orphaned \cup end_round_orphans(task, s2, r)
      /\ round' = r + 1
  BY <1>0, <1>1 DEF Adopt, EndRound
<1>5. r \in Elements /\ r \in Nat /\ r + 1 \in 1 .. (MaxRound + 1) /\ MaxRound \in Nat
  BY <1>2, <1>4, CommitAssumption DEF Elements
<1>6. r \notin DOMAIN db /\ r \notin DOMAIN missed /\ r \notin DOMAIN d
  BY <1>0, <1>1, <1>5 DEF EngineInv, Parents, Adopted
<1>7. r \in DOMAIN s2 /\ s2[r] = p
  BY <1>0, <1>4 DEF WithElement
<1>8. Grown(d, d2, r, p)
  <2>1. d = [x \in DOMAIN db \ DOMAIN missed |-> db[x]]
    BY <1>0 DEF Adopted
  <2>2. d2 = [x \in DOMAIN s2 \ DOMAIN missed |-> s2[x]]
    BY <1>0, <1>4 DEF Adopted
  <2>3. /\ DOMAIN s2 = DOMAIN db \cup {r} /\ s2[r] = p
        /\ \A x \in DOMAIN db : s2[x] = db[x]
    BY <1>0, <1>4, <1>6 DEF WithElement
  <2> QED BY <1>6, <2>1, <2>2, <2>3 DEF Grown
<1>9. Stored(d2, r + 1)
  BY <1>2, <1>5, <1>8 DEF Stored, Grown, Genesis
<1>10. h \in DOMAIN d /\ h \in Nat /\ h < r /\ h \in Elements
  <2>1. h \in DOMAIN d /\ h \in Nat /\ h < r
    BY <1>2, <1>5, LastIsStored
  <2> QED BY <1>4, <1>5, <2>1 DEF Elements
<1>11. /\ Keyed(q) /\ q \in Seq(Entry) /\ Len(q) \in Nat
       /\ \A i \in 1 .. Len(q) : q[i].elem \in DOMAIN d /\ q[i].key = q[i].elem /\ q[i].key # r
  BY <1>2, <1>6 DEF Chain, Linked, Keyed
<1>12. q # <<>> => /\ Len(q) \in 1 .. Len(q) /\ Last(q).key = q[Len(q)].elem
                   /\ Last(q).key = highest /\ Last(q).key # r
  BY <1>2, <1>11 DEF Last, Tip
<1>13. CASE q # <<>> /\ p = highest
  <2>1. PICK s : s = Append(q, Of(r))
    OBVIOUS
  <2>2. s \in Seq(Entry)
    <3>1. Of(r) \in Entry
      BY <1>5 DEF Of, Entry
    <3> QED BY <1>11, <2>1, <3>1, PlacesOfAppend
  <2>3. PICK m : Settles(s, m)
    BY <2>2, SettlesExists
  <2>4. r \in DOMAIN s2 /\ s2[r] = Last(q).key
    BY <1>7, <1>12, <1>13
  <2>5. /\ end_round(TaskState(q, h, c), s2, r) = Cut(s, h, m)
        /\ end_round_orphans(TaskState(q, h, c), s2, r) = {}
        /\ Keyed(s)
    <3>1. Follows(q, h, r, s2)
      BY <1>10, <1>11, <1>13, <2>4 DEF Follows
    <3>2. Settles(Append(q, Of(r)), m)
      BY <2>1, <2>3
    <3>3. h \in Elements /\ r \in Elements
      BY <1>5, <1>10
    <3>4. /\ end_round(TaskState(q, h, c), s2, r) = Cut(Append(q, Of(r)), h, m)
          /\ end_round_orphans(TaskState(q, h, c), s2, r) = {}
          /\ Keyed(Append(q, Of(r)))
      BY <3>1, <3>2, <3>3, EndRoundExtends, Zenon
    <3> QED BY <2>1, <3>4
  <2>6. task' = Cut(s, h, m) /\ orphaned' = orphaned
    BY <1>2, <1>4, <2>5
  <2>7. task'.committed = First(s, m)
    BY <2>6 DEF Cut, TaskState, First
  <2>8. Chain(s, h, log, orphaned, d2)
    BY <1>2, <1>5, <1>8, <1>13, <2>1, ChainExtends
  <2>9. Tip(s, h) = r
    <3>1. Of(r) \in Entry /\ Of(r).elem = r
      BY <1>5 DEF Of, Entry
    <3>2. s # <<>> /\ Len(s) = Len(q) + 1 /\ s[Len(q) + 1] = Of(r)
      BY <1>11, <2>1, <3>1, PlacesOfAppend
    <3> QED BY <3>1, <3>2 DEF Tip
  <2>10. Moves(s, m)
    BY <1>0, <1>1, <1>4, <1>5, <1>9, <2>1, <2>3, <2>5, <2>6, <2>7, <2>8, <2>9 DEF Moves
  <2> QED BY <2>10
<1>14. CASE ~ (q # <<>> /\ p = highest)
  <2>1. PICK s : s = <<Of(r)>>
    OBVIOUS
  <2>2. s \in Seq(Entry) /\ Of(r).elem = r
    BY <1>5, <2>1 DEF Of, Entry
  <2>3. PICK m : Settles(s, m)
    BY <2>2, SettlesExists
  <2>4. p = h
    BY <1>2, <1>3, <1>14 DEF Tip
  <2>5. r \in DOMAIN s2 /\ s2[r] = h
    BY <1>7, <2>4
  <2>6. q # <<>> => Last(q).key # r /\ Last(q).key # h
    BY <1>3, <1>12, <1>14, <2>4
  <2>7. /\ end_round(TaskState(q, h, c), s2, r) = Cut(s, h, m)
        /\ end_round_orphans(TaskState(q, h, c), s2, r) =
              {q[i].elem : i \in 1 .. Len(q)} \ {Genesis}
        /\ Keyed(s)
    BY <1>5, <1>10, <1>11, <2>1, <2>3, <2>5, <2>6, EndRoundRestarts
  <2>8. PICK o : o = orphaned'
    OBVIOUS
  <2>9. task' = Cut(s, h, m) /\ o = orphaned \cup ({q[i].elem : i \in 1 .. Len(q)} \ {Genesis})
    BY <1>2, <1>4, <2>7, <2>8
  <2>10. task'.committed = First(s, m)
    BY <2>9 DEF Cut, TaskState, First
  <2>11. Chain(s, h, log, o, d2)
    BY <1>2, <1>5, <1>8, <2>1, <2>4, <2>9, ChainRestarts
  <2>12. Tip(s, h) = r
    BY <2>1, <2>2 DEF Tip
  <2>13. Moves(s, m)
    BY <1>0, <1>1, <1>4, <1>5, <1>9, <2>1, <2>3, <2>7, <2>8, <2>9, <2>10, <2>11, <2>12 DEF Moves
  <2> QED BY <2>13
<1> QED BY <1>13, <1>14

\* A round without a proposal changes nothing but the round.
LEMMA SkipStays ==
    ASSUME CommitInv, EndRound(highest), db' = db
    PROVE  /\ task' = TaskState(task.commit_queue, task.highest_committed_element, <<>>)
           /\ round' = round + 1 /\ round <= MaxRound
           /\ UNCHANGED <<log, orphaned>>
<1>1. PICK q, h, c : /\ q = task.commit_queue /\ h = task.highest_committed_element
                     /\ c = task.committed
  OBVIOUS
<1>2. /\ round \in 1 .. (MaxRound + 1) /\ Stored(Adopted, round)
      /\ task = TaskState(q, h, c) /\ Chain(q, h, log, orphaned, Adopted)
      /\ Settles(q, 0) /\ highest = Tip(q, h)
  BY <1>1 DEF CommitInv
<1>3. PICK e : e = highest
  OBVIOUS
<1>4. /\ round <= MaxRound
      /\ task' = end_round(task, db', e)
      /\ log' = log \o task'.committed
      /\ orphaned' = orphaned \cup end_round_orphans(task, db', e)
      /\ round' = round + 1
  BY <1>3 DEF EndRound
<1>5. /\ Keyed(q) /\ q \in Seq(Entry) /\ Len(q) \in Nat
      /\ \A i \in 1 .. Len(q) : q[i].key = q[i].elem
      /\ \A i, j \in 1 .. Len(q) : i < j => q[i].elem < q[j].elem
      /\ q # <<>> => Begins(q[1].elem, h, log, Adopted)
  BY <1>2 DEF Chain, Linked, Keyed
<1>6. \A i \in 1 .. Len(q) : q[i].elem \in Elements /\ q[i].elem \in Nat
  BY <1>5, ElemsOf, CommitAssumption DEF Elements
<1>7. h \in Elements /\ h \in Nat
  <2>1. round \in Nat
    BY <1>2
  <2>2. h \in Nat /\ h < round
    BY <1>2, <2>1, LastIsStored
  <2> QED BY <1>4, <2>1, <2>2, CommitAssumption DEF Elements
<1>8. CASE q = <<>>
  <2>1. e = h
    BY <1>2, <1>3, <1>8 DEF Tip
  <2>2. /\ end_round(TaskState(q, h, c), db', e) = TaskState(q, h, <<>>)
        /\ end_round_orphans(TaskState(q, h, c), db', e) = {}
    BY <1>2, <1>5, <1>7, <1>8, <2>1, EndRoundKeeps
  <2>3. task' = TaskState(q, h, <<>>) /\ orphaned' = orphaned
    BY <1>2, <1>4, <2>2
  <2>4. task'.committed = <<>> /\ log \in Seq(Elements)
    BY <1>2, <2>3 DEF TaskState, Chain, Logged
  <2>5. log' = log
    BY <1>4, <2>4
  <2> QED BY <1>1, <1>4, <2>3, <2>5
<1>9. CASE q # <<>>
  <2>1. PICK n \in Nat : n = Len(q) /\ n \in 1 .. n /\ 1 \in 1 .. n
    BY <1>5, <1>9
  <2>2. e = q[n].elem /\ Last(q).key = e /\ e \in Elements
    BY <1>2, <1>3, <1>5, <1>6, <1>9, <2>1 DEF Tip, Last
  <2>3. e # Genesis => h < e
    <3> HAVE e # Genesis
    <3>1. q[1].elem \in Nat /\ q[n].elem \in Nat
      BY <1>6, <2>1
    <3>2. CASE n = 1
      BY <1>5, <1>9, <2>2, <3>2 DEF Begins
    <3>3. CASE n # 1
      <4>1. q[1].elem < q[n].elem
        BY <1>5, <2>1, <3>3
      <4>2. h <= q[1].elem
        BY <1>5, <1>7, <1>9, <3>1 DEF Begins, Genesis
      <4> QED BY <1>7, <2>2, <3>1, <4>1, <4>2
    <3> QED BY <3>2, <3>3
  <2>4. /\ end_round(TaskState(q, h, c), db', e) = TaskState(q, h, <<>>)
        /\ end_round_orphans(TaskState(q, h, c), db', e) = {}
    BY <1>2, <1>5, <1>7, <1>9, <2>2, <2>3, EndRoundKeeps
  <2>5. task' = TaskState(q, h, <<>>) /\ orphaned' = orphaned
    BY <1>2, <1>4, <2>4
  <2>6. task'.committed = <<>> /\ log \in Seq(Elements)
    BY <1>2, <2>5 DEF TaskState, Chain, Logged
  <2>7. log' = log
    BY <1>4, <2>6
  <2> QED BY <1>1, <1>4, <2>5, <2>7
<1> QED BY <1>8, <1>9

----------------------------------------------------------------------------
\* What a move leaves in the task.
LEMMA CutIs ==
    ASSUME NEW s, NEW h, NEW m, NEW t, t = Cut(s, h, m)
    PROVE  /\ t = TaskState(Rest(s, m), NextHash(s, h, m), First(s, m))
           /\ t.commit_queue = Rest(s, m)
           /\ t.highest_committed_element = NextHash(s, h, m)
           /\ t.committed = First(s, m)
<1>1. t = TaskState(Rest(s, m), NextHash(s, h, m), First(s, m))
  BY DEF Cut, NextHash, First
<1> QED BY <1>1 DEF TaskState

\* The elements of the store keep an order in which parents come first.
LEMMA EngineStep == EngineInv /\ [Next]_vars => EngineInv'
<1> SUFFICES ASSUME EngineInv, [Next]_vars PROVE EngineInv'
  OBVIOUS
<1>1. PICK r, d, m : r = round /\ d = db /\ m = missed
  OBVIOUS
<1>2. /\ r \in 1 .. (MaxRound + 1) /\ MaxRound \in Nat /\ Parents(d, r) /\ Parents(m, r)
      /\ Genesis \in DOMAIN d /\ d[Genesis] = NoParent /\ Genesis \notin DOMAIN m
  BY <1>1, CommitAssumption DEF EngineInv
<1>3. Parents(d, r + 1) /\ Parents(m, r + 1) /\ r # Genesis
  BY <1>2 DEF Parents, Genesis
<1>4. ASSUME NEW a, Parents(a, r), NEW p \in 0 .. (r - 1), NEW b, b = WithElement(a, r, p)
      PROVE  Parents(b, r + 1) /\ DOMAIN b = DOMAIN a \cup {r} /\ \A x \in DOMAIN a : x # r => b[x] = a[x]
  <2>1. DOMAIN b = DOMAIN a \cup {r} /\ b[r] = p /\ \A x \in DOMAIN a : x # r => b[x] = a[x]
    BY <1>4 DEF WithElement
  <2>2. ASSUME NEW x \in DOMAIN b
        PROVE  x \in 0 .. ((r + 1) - 1) /\ (x # Genesis => b[x] \in 0 .. (x - 1))
    <3>1. CASE x = r
      BY <1>2, <2>1, <3>1
    <3>2. CASE x # r
      <4>1. x \in DOMAIN a /\ b[x] = a[x]
        BY <2>1, <3>2
      <4>2. x \in 0 .. (r - 1) /\ (x # Genesis => a[x] \in 0 .. (x - 1))
        BY <1>4, <4>1 DEF Parents
      <4> QED BY <1>2, <4>1, <4>2
    <3> QED BY <3>1, <3>2
  <2> QED BY <2>1, <2>2 DEF Parents
<1>5. CASE \E p \in DOMAIN db : Adopt(p)
  <2>1. PICK p \in DOMAIN d : Adopt(p)
    BY <1>1, <1>5
  <2>2. r <= MaxRound /\ round' = r + 1 /\ db' = WithElement(d, r, p) /\ missed' = m
    BY <1>1, <2>1 DEF Adopt, EndRound
  <2>3. p \in 0 .. (r - 1)
    BY <1>2 DEF Parents
  <2>4. PICK b : b = db'
    OBVIOUS
  <2>5. Parents(b, r + 1) /\ Genesis \in DOMAIN b /\ b[Genesis] = NoParent
    <3>1. b = WithElement(d, r, p)
      BY <2>2, <2>4
    <3>2. /\ Parents(b, r + 1) /\ DOMAIN b = DOMAIN d \cup {r}
          /\ \A x \in DOMAIN d : x # r => b[x] = d[x]
      BY <1>2, <1>4, <2>3, <3>1
    <3> QED BY <1>2, <1>3, <3>2
  <2> QED BY <1>2, <1>3, <2>2, <2>4, <2>5 DEF EngineInv
<1>6. CASE SkipRound
  <2>1. r <= MaxRound /\ round' = r + 1 /\ db' = d /\ missed' = m
    BY <1>1, <1>6 DEF SkipRound, EndRound
  <2> QED BY <1>2, <1>3, <2>1 DEF EngineInv
<1>7. CASE \E p \in DOMAIN db \cup DOMAIN missed : MissProposal(p)
  <2>1. PICK p \in DOMAIN d \cup DOMAIN m : MissProposal(p)
    BY <1>1, <1>7
  <2>2. r <= MaxRound /\ round' = r + 1 /\ missed' = WithElement(m, r, p) /\ db' = d
    BY <1>1, <2>1 DEF MissProposal, EndRound
  <2>3. p \in 0 .. (r - 1)
    BY <1>2 DEF Parents
  <2>4. PICK b : b = missed'
    OBVIOUS
  <2>5. Parents(b, r + 1) /\ DOMAIN b = DOMAIN m \cup {r}
    BY <1>2, <1>4, <2>2, <2>3, <2>4
  <2>6. Genesis \notin DOMAIN b
    BY <1>2, <1>3, <2>5
  <2> QED BY <1>2, <1>3, <2>2, <2>4, <2>5, <2>6 DEF EngineInv
<1>8. CASE \E e \in DOMAIN missed : Fetch(e)
  <2>1. PICK e \in DOMAIN m : Fetch(e)
    BY <1>1, <1>8
  <2>2. round' = r /\ db' = WithElement(d, e, m[e]) /\ missed' = m /\ e \notin DOMAIN d
    BY <1>1, <2>1 DEF Fetch
  <2>3. PICK b : b = db'
    OBVIOUS
  <2>4. DOMAIN b = DOMAIN d \cup {e} /\ b[e] = m[e] /\ \A x \in DOMAIN d : b[x] = d[x]
    BY <2>2, <2>3 DEF WithElement
  <2>5. Parents(b, r)
    BY <1>2, <2>4 DEF Parents
  <2> QED BY <1>2, <2>2, <2>3, <2>4, <2>5 DEF EngineInv
<1>9. CASE UNCHANGED vars
  BY <1>9 DEF vars, EngineInv
<1> QED BY <1>5, <1>6, <1>7, <1>8, <1>9 DEF Next

\* What a server adopted is not changed by missing or fetching other elements.
LEMMA AdoptedStays ==
    ASSUME EngineInv
    PROVE  /\ SkipRound => Adopted' = Adopted
           /\ \A p : MissProposal(p) => Adopted' = Adopted
           /\ \A e \in DOMAIN missed : Fetch(e) => Adopted' = Adopted
<1>1. SkipRound => Adopted' = Adopted
  BY DEF SkipRound, Adopted
<1>2. ASSUME NEW p, MissProposal(p) PROVE Adopted' = Adopted
  <2>1. db' = db /\ DOMAIN missed' = DOMAIN missed \cup {round}
    BY <1>2 DEF MissProposal, WithElement
  <2>2. round \notin DOMAIN db
    BY DEF EngineInv, Parents
  <2>3. DOMAIN db \ (DOMAIN missed \cup {round}) = DOMAIN db \ DOMAIN missed
    BY <2>2
  <2> QED BY <2>1, <2>3 DEF Adopted
<1>3. ASSUME NEW e \in DOMAIN missed, Fetch(e) PROVE Adopted' = Adopted
  <2>1. PICK d, b : d = db /\ b = db'
    OBVIOUS
  <2>2. /\ missed' = missed /\ DOMAIN b = DOMAIN d \cup {e}
        /\ \A x \in DOMAIN d \ DOMAIN missed : b[x] = d[x]
    BY <1>3, <2>1 DEF Fetch, WithElement
  <2>3. DOMAIN b \ DOMAIN missed = DOMAIN d \ DOMAIN missed
    BY <2>2
  <2>4. [x \in DOMAIN b \ DOMAIN missed |-> b[x]] = [x \in DOMAIN d \ DOMAIN missed |-> d[x]]
    BY <2>2, <2>3
  <2> QED BY <2>1, <2>2, <2>4 DEF Adopted
<1> QED BY <1>1, <1>2, <1>3

\* Rounds without a proposal of one's own keep the invariant.
LEMMA EmptyRoundInv ==
    ASSUME CommitInv, EndRound(highest), db' = db, highest' = highest, Adopted' = Adopted
    PROVE  CommitInv'
<1>1. PICK q, h, t : /\ q = task.commit_queue /\ h = task.highest_committed_element
                     /\ t = task'
  OBVIOUS
<1>2. /\ t = TaskState(q, h, <<>>) /\ round' = round + 1 /\ round <= MaxRound
      /\ highest' = highest /\ log' = log /\ orphaned' = orphaned
  BY <1>1, SkipStays
<1>3. t.commit_queue = q /\ t.highest_committed_element = h /\ t.committed = <<>>
  BY <1>2 DEF TaskState
<1>4. /\ round \in 1 .. (MaxRound + 1) /\ Stored(Adopted, round)
      /\ Chain(q, h, log, orphaned, Adopted) /\ Settles(q, 0) /\ highest = Tip(q, h)
  BY <1>1 DEF CommitInv
<1>5. round' \in 1 .. (MaxRound + 1)
  BY <1>2, <1>4, CommitAssumption
<1>6. Stored(Adopted, round')
  BY <1>2, <1>4 DEF Stored
<1>7. /\ t = TaskState(t.commit_queue, t.highest_committed_element, t.committed)
      /\ Chain(t.commit_queue, t.highest_committed_element, log, orphaned, Adopted)
      /\ Settles(t.commit_queue, 0)
      /\ highest = Tip(t.commit_queue, t.highest_committed_element)
  BY <1>2, <1>3, <1>4
<1> QED BY <1>1, <1>2, <1>5, <1>6, <1>7 DEF CommitInv

\* Adopting in order keeps the invariant.
LEMMA AdoptInv ==
    ASSUME CommitInv, EngineInv, NEW p, Adopt(p), in_order'
    PROVE  CommitInv'
<1>1. PICK s, m : Moves(s, m)
  BY AdoptMoves
<1>2. PICK h, g, d2, o, t : /\ h = task.highest_committed_element /\ g = log'
                            /\ d2 = Adopted' /\ o = orphaned' /\ t = task'
  OBVIOUS
<1>3. /\ t = Cut(s, h, m) /\ g = log \o First(s, m) /\ Settles(s, m)
      /\ round' \in 1 .. (MaxRound + 1) /\ Stored(d2, round')
      /\ Chain(s, h, log, o, d2) /\ highest' = Tip(s, h)
  BY <1>1, <1>2 DEF Moves
<1>4. d2[Genesis] = NoParent
  BY <1>3 DEF Stored
<1>5. /\ Chain(Rest(s, m), NextHash(s, h, m), log \o First(s, m), o, d2)
      /\ Settles(Rest(s, m), 0)
      /\ Tip(Rest(s, m), NextHash(s, h, m)) = Tip(s, h)
  BY <1>3, <1>4, CutKeeps
<1>6. /\ t = TaskState(Rest(s, m), NextHash(s, h, m), First(s, m))
      /\ t.commit_queue = Rest(s, m)
      /\ t.highest_committed_element = NextHash(s, h, m)
      /\ t.committed = First(s, m)
  BY <1>3, CutIs
<1>7. /\ t = TaskState(t.commit_queue, t.highest_committed_element, t.committed)
      /\ Chain(t.commit_queue, t.highest_committed_element, g, o, d2)
      /\ Settles(t.commit_queue, 0)
      /\ highest' = Tip(t.commit_queue, t.highest_committed_element)
  BY <1>3, <1>5, <1>6
<1> QED BY <1>2, <1>3, <1>7 DEF CommitInv

\* Every step keeps the invariant for as long as elements are adopted in order.
LEMMA StepInv == EngineInv /\ (in_order => CommitInv) /\ [Next]_vars => (in_order' => CommitInv')
<1> SUFFICES ASSUME EngineInv, in_order => CommitInv, [Next]_vars, in_order'
             PROVE  CommitInv'
  OBVIOUS
<1>1. CASE \E p \in DOMAIN db : Adopt(p)
  <2>1. PICK p : Adopt(p)
    BY <1>1
  <2>2. in_order
    BY <2>1 DEF Adopt
  <2> QED BY <2>1, <2>2, AdoptInv
<1>2. CASE SkipRound
  <2>1. in_order /\ EndRound(highest) /\ db' = db /\ highest' = highest
    BY <1>2 DEF SkipRound
  <2> QED BY <1>2, <2>1, AdoptedStays, EmptyRoundInv
<1>3. CASE \E p \in DOMAIN db \cup DOMAIN missed : MissProposal(p)
  <2>1. PICK p : MissProposal(p)
    BY <1>3
  <2>2. in_order /\ EndRound(highest) /\ db' = db /\ highest' = highest
    BY <2>1 DEF MissProposal
  <2> QED BY <2>1, <2>2, AdoptedStays, EmptyRoundInv
<1>4. CASE \E e \in DOMAIN missed : Fetch(e)
  <2>1. PICK e \in DOMAIN missed : Fetch(e)
    BY <1>4
  <2>2. in_order /\ UNCHANGED <<round, highest, task, log, orphaned>>
    BY <2>1 DEF Fetch
  <2>3. Adopted' = Adopted
    BY <2>1, AdoptedStays
  <2> QED BY <2>2, <2>3 DEF CommitInv
<1>5. CASE UNCHANGED vars
  BY <1>5 DEF vars, CommitInv, Adopted
<1> QED BY <1>1, <1>2, <1>3, <1>4, <1>5 DEF Next

\* Parents come first, and while elements are adopted in order the queue is a
\* chain behind the last committed element with exact counters, whatever rounds
\* are skipped, missed or fetched.
THEOREM InOrderInvariant == Spec => [](EngineInv /\ (in_order => CommitInv))
<1>1. Init => EngineInv
  BY CommitAssumption DEF Init, EngineInv, Parents, Genesis
<1> QED BY <1>1, InitInv, EngineStep, StepInv, PTL DEF Spec

\* While elements are adopted in order, what the task sends to tx_commit is one
\* chain from genesis on, each element's parent being the one sent before it,
\* and every adopted element is sent, still queued or reported to the batcher
\* in a Rollback, and only one of these.
THEOREM InOrderCommits == Spec => []InOrderOneChain
<1>1. CommitInv => CommittedChain
  <2> SUFFICES ASSUME CommitInv, NEW i \in 1 .. Len(log)
               PROVE  db[log[i]] = CASE i > 1 -> log[i - 1]
                                     [] i = 1 /\ log[i] = Genesis -> NoParent
                                     [] OTHER -> Genesis
    BY DEF CommittedChain
  <2>1. PICK l \in Nat : l = Len(log) /\ log \in Seq(Elements)
    BY DEF CommitInv, Chain, Logged
  <2>0. PICK d : d = Adopted
    OBVIOUS
  <2>5. /\ \A j \in 2 .. l : d[log[j]] = log[j - 1]
        /\ l > 0 => d[log[1]] = IF log[1] = Genesis THEN NoParent ELSE Genesis
        /\ \A j \in 1 .. l : log[j] \in DOMAIN d
    BY <2>0, <2>1 DEF CommitInv, Chain, Logged
  <2>6. \A x \in DOMAIN d : d[x] = db[x]
    BY <2>0 DEF Adopted
  <2>2. /\ \A j \in 2 .. l : db[log[j]] = log[j - 1]
        /\ l > 0 => db[log[1]] = IF log[1] = Genesis THEN NoParent ELSE Genesis
    BY <2>1, <2>5, <2>6
  <2>3. CASE i > 1
    <3>1. i \in 2 .. l
      BY <2>1, <2>3
    <3> QED BY <2>2, <2>3, <3>1
  <2>4. CASE ~ (i > 1)
    <3>1. i = 1 /\ l > 0
      BY <2>1, <2>4
    <3> QED BY <2>2, <2>4, <3>1
  <2> QED BY <2>3, <2>4
<1>2. CommitInv => AdoptedAccountedFor
  <2> DEFINE InLog(e) == \E i \in 1 .. Len(log) : log[i] = e
             InQueue(e) == \E i \in DOMAIN QueueElems : QueueElems[i] = e
             In(e) == {k \in 1 .. 3 : CASE k = 1 -> InLog(e)
                                        [] k = 2 -> InQueue(e)
                                        [] k = 3 -> e \in orphaned}
  <2> SUFFICES ASSUME CommitInv, NEW e \in DOMAIN db \ (DOMAIN missed \cup {Genesis})
               PROVE  Cardinality(In(e)) = 1
    BY Zenon DEF AdoptedAccountedFor
  <2>1. PICK q, h, d : /\ q = task.commit_queue /\ h = task.highest_committed_element
                       /\ d = Adopted
    OBVIOUS
  <2>2. /\ Linked(q, h, log, d) /\ Logged(log, h, d) /\ Accounted(q, log, orphaned, d)
        /\ e \in DOMAIN d \ {Genesis}
    BY <2>1 DEF CommitInv, Chain, Adopted
  <2>3. InQueue(e) <=> \E i \in 1 .. Len(q) : q[i].elem = e
    BY <2>1 DEF QueueElems
  <2>4. e \in orphaned \/ InQueue(e) \/ InLog(e)
    BY <2>2, <2>3 DEF Accounted
  <2>5. ~ (InQueue(e) /\ InLog(e))
    BY <2>2, <2>3, QueuedNotLogged
  <2>6. ~ (InQueue(e) /\ e \in orphaned) /\ ~ (InLog(e) /\ e \in orphaned)
    BY <2>2, <2>3 DEF Accounted
  <2>7. \/ In(e) = {1} \/ In(e) = {2} \/ In(e) = {3}
    <3>1. 1 .. 3 = {1, 2, 3}
      OBVIOUS
    <3>2. \A k : k \in In(e) <=> \/ k = 1 /\ InLog(e)
                                 \/ k = 2 /\ InQueue(e)
                                 \/ k = 3 /\ e \in orphaned
      <4> HIDE DEF InLog, InQueue
      <4>1. 1 \in In(e) <=> InLog(e)
        BY <3>1
      <4>2. 2 \in In(e) <=> InQueue(e)
        BY <3>1
      <4>3. 3 \in In(e) <=> e \in orphaned
        BY <3>1
      <4>4. \A k : k \in In(e) => k = 1 \/ k = 2 \/ k = 3
        BY <3>1
      <4> HIDE DEF In
      <4> QED BY <4>1, <4>2, <4>3, <4>4
    <3> HIDE DEF In, InLog, InQueue
    <3> QED BY <2>4, <2>5, <2>6, <3>2
  <2> HIDE DEF In
  <2> QED BY <2>7, FS_Singleton
<1>3. (in_order => CommitInv) => InOrderOneChain
  BY <1>1, <1>2 DEF InOrderOneChain
<1> QED BY <1>3, InOrderInvariant, PTL

----------------------------------------------------------------------------
(***************************************************************************)
(* The refinement: the elements of the commit queue are the chain of the   *)
(* commit rule (ChainCommit), and what the loop commits is what the rule   *)
(* calls final.                                                            *)
(***************************************************************************)

\* Only one number of elements can be final.
LEMMA SettlesOnce ==
    ASSUME NEW s \in Seq(Entry), NEW m, Settles(s, m), NEW k, Settles(s, k)
    PROVE  k = m
<1>1. m \in Nat /\ k \in Nat
  BY DEF Settles
<1>2. \A j \in 0 .. Len(s) : Cardinality(Proposing(Rest(s, j))) \in Nat
  BY RestIs, ProposingFinite
<1>3. ASSUME k < m PROVE FALSE
  <2>1. k \in 0 .. (m - 1)
    BY <1>1, <1>3
  <2> QED BY <1>2, <2>1, CommitAssumption DEF Settles
<1>4. ASSUME m < k PROVE FALSE
  <2>1. m \in 0 .. (k - 1)
    BY <1>1, <1>4
  <2> QED BY <1>2, <2>1, CommitAssumption DEF Settles
<1> QED BY <1>1, <1>3, <1>4

\* Elements of a part of the queue.
LEMMA ElemsOfParts ==
    ASSUME NEW s \in Seq(Entry), NEW m \in 0 .. Len(s)
    PROVE  /\ SubSeq(Elems(s), m + 1, Len(Elems(s))) = Elems(Rest(s, m))
           /\ SubSeq(Elems(s), 1, m) = First(s, m)
<1>1. PICK n \in Nat : n = Len(s) /\ m \in Nat /\ m <= n
  OBVIOUS
<1>2. PICK e \in Seq(Elements) : e = Elems(s)
  BY ElemsOf
<1>3. Len(e) = n /\ \A i \in 1 .. n : e[i] = s[i].elem
  BY <1>1, <1>2, ElemsOf
<1>4. PICK r \in Seq(Entry) : r = Rest(s, m)
  BY RestIs
<1>5. Len(r) = n - m /\ \A i \in 1 .. (n - m) : r[i] = s[m + i]
  BY <1>1, <1>4, RestIs
<1>6. PICK a \in Seq(Elements) : a = Elems(r)
  BY ElemsOf
<1>7. Len(a) = n - m /\ \A i \in 1 .. (n - m) : a[i] = r[i].elem
  BY <1>5, <1>6, ElemsOf
<1>8. PICK b : b = SubSeq(e, m + 1, n)
  OBVIOUS
<1>9. IsSegment(b, Elements, e, m + 1, n)
  BY <1>1, <1>3, <1>8, SegmentIs
<1>10. /\ b \in Seq(Elements) /\ Len(b) = n - m
       /\ \A i \in 1 .. (n - m) : b[i] = e[m + 1 + i - 1]
  BY <1>1, <1>9 DEF IsSegment
<1>11. \A i \in 1 .. (n - m) : b[i] = a[i]
  <2> TAKE i \in 1 .. (n - m)
  <2>1. PICK k : k = m + i
    OBVIOUS
  <2>2. m + 1 + i - 1 = k /\ k \in 1 .. n
    BY <1>1, <2>1
  <2>3. b[i] = e[k]
    BY <1>10, <2>2
  <2>4. e[k] = s[k].elem
    BY <1>3, <2>2
  <2>5. r[i] = s[k]
    BY <1>5, <2>1
  <2> QED BY <1>7, <2>3, <2>4, <2>5
<1>12. b = a
  BY <1>7, <1>10, <1>11, SeqEqual
<1>13. PICK f : f = SubSeq(e, 1, m)
  OBVIOUS
<1>14. IsSegment(f, Elements, e, 1, m)
  BY <1>1, <1>3, <1>13, SegmentIs
<1>15. f \in Seq(Elements) /\ Len(f) = m /\ \A i \in 1 .. m : f[i] = e[1 + i - 1]
  BY <1>1, <1>14 DEF IsSegment
<1>16. \A i \in 1 .. m : f[i] = s[i].elem
  <2> TAKE i \in 1 .. m
  <2>1. 1 + i - 1 = i /\ i \in 1 .. n
    BY <1>1
  <2> QED BY <1>3, <1>15, <2>1
<1>17. PICK c : c = First(s, m)
  OBVIOUS
<1>18. c \in Seq(Elements) /\ Len(c) = m /\ \A i \in 1 .. m : c[i] = s[i].elem
  <2>1. \A i \in 1 .. n : s[i].elem \in Elements
    BY <1>1, ElemsOf
  <2> QED BY <1>1, <1>17, <2>1 DEF First
<1>19. f = c
  BY <1>15, <1>16, <1>18, SeqEqual
<1> QED BY <1>2, <1>3, <1>4, <1>6, <1>8, <1>12, <1>13, <1>17, <1>19

\* The rule counts proposers as the task does.
LEMMA RuleCardinality == \A S : Rule!Cardinality(S) = Cardinality(S)
BY Zenon DEF Rule!Cardinality, Cardinality, Rule!IsFiniteSet, IsFiniteSet

\* The rule's final elements are those the loop commits.
LEMMA FinalCountIs ==
    ASSUME NEW s \in Seq(Entry), NEW m, Settles(s, m)
    PROVE  Rule!FinalCount(Elems(s)) = m
<1>1. PICK n \in Nat : n = Len(s) /\ Len(Elems(s)) = n
  BY ElemsOf
<1>2. PICK e : e = Elems(s)
  OBVIOUS
<1> DEFINE Left(k) == Cardinality(Rule!Proposers(SubSeq(e, k + 1, Len(e))))
           Final(k) == /\ Left(k) < CommitLen
                       /\ \A j \in 0 .. (k - 1) : Left(j) >= CommitLen
<1>3. ASSUME NEW k \in 0 .. n PROVE Left(k) = Cardinality(Proposing(Rest(s, k)))
  <2>1. PICK r \in Seq(Entry) : r = Rest(s, k)
    BY <1>1, RestIs
  <2>2. SubSeq(e, k + 1, Len(e)) = Elems(r)
    BY <1>1, <1>2, <2>1, ElemsOfParts
  <2>3. Len(Elems(r)) = Len(r) /\ \A i \in 1 .. Len(r) : Elems(r)[i] = r[i].elem
    BY ElemsOf
  <2>4. Rule!Proposers(Elems(r)) = Proposing(r)
    BY <2>3 DEF Rule!Proposers, Proposing
  <2> QED BY <2>1, <2>2, <2>4
<1> HIDE DEF Left
<1>4. \A k \in 0 .. n : Final(k) <=> Settles(s, k)
  <2> TAKE k \in 0 .. n
  <2>1. \A j \in 0 .. (k - 1) : j \in 0 .. n
    OBVIOUS
  <2> QED BY <1>1, <1>3, <2>1 DEF Settles
<1>5. m \in 0 .. n
  BY <1>1 DEF Settles
<1>6. \A k \in 0 .. n : Final(k) <=> k = m
  BY <1>4, <1>5, SettlesOnce
<1>7. Rule!FinalCount(e) = CHOOSE k \in 0 .. n : Final(k)
  BY <1>1, <1>2, RuleCardinality, Zenon DEF Rule!FinalCount, Left
<1> HIDE DEF Final
<1>8. (CHOOSE k \in 0 .. n : Final(k)) = m
  BY <1>5, <1>6
<1> QED BY <1>2, <1>7, <1>8

\* A move is a step of the rule.
LEMMA MoveIsRuleStep ==
    ASSUME CommitInv, NEW s, NEW m, Moves(s, m)
    PROVE  Rule!Next
<1>1. PICK q, h, r : /\ q = task.commit_queue /\ h = task.highest_committed_element
                     /\ r = round
  OBVIOUS
<1>2. /\ s = Append(q, Of(r)) \/ s = <<Of(r)>>
      /\ r \in Elements /\ s \in Seq(Entry) /\ Settles(s, m)
      /\ task' = Cut(s, h, m) /\ log' = log \o First(s, m)
  BY <1>1 DEF Moves, Keyed
<1>3. q \in Seq(Entry) /\ Of(r) \in Entry /\ Of(r).elem = r
  BY <1>1, <1>2 DEF CommitInv, Chain, Linked, Keyed, Of, Entry
<1>4. m \in 0 .. Len(s)
  BY <1>2 DEF Settles
<1>5. PICK e : e = Elems(s)
  OBVIOUS
<1>6. Rule!FinalCount(e) = m
  BY <1>2, <1>5, FinalCountIs
<1>7. QueueElems = Elems(q)
  BY <1>1 DEF QueueElems, Elems
<1>8. QueueElems' = SubSeq(e, m + 1, Len(e))
  <2>1. task'.commit_queue = Rest(s, m)
    BY <1>2, CutIs
  <2>2. QueueElems' = Elems(Rest(s, m))
    BY <2>1 DEF QueueElems, Elems
  <2> QED BY <1>2, <1>4, <1>5, <2>2, ElemsOfParts
<1>9. log' = log \o SubSeq(e, 1, m)
  BY <1>2, <1>4, <1>5, ElemsOfParts
<1>10. Rule!Becomes(e)
  BY <1>6, <1>8, <1>9 DEF Rule!Becomes
<1>11. CASE s = Append(q, Of(r))
  <2>1. PICK n \in Nat : n = Len(q)
    BY <1>3
  <2>2. Len(s) = n + 1 /\ s[n + 1] = Of(r) /\ \A i \in 1 .. n : s[i] = q[i]
    BY <1>3, <1>11, <2>1, PlacesOfAppend
  <2>3. PICK a \in Seq(Elements) : a = Elems(q)
    BY <1>3, ElemsOf
  <2>4. Len(a) = n /\ \A i \in 1 .. n : a[i] = q[i].elem
    BY <1>3, <2>1, <2>3, ElemsOf
  <2>5. e \in Seq(Elements) /\ Len(e) = n + 1 /\ \A i \in 1 .. (n + 1) : e[i] = s[i].elem
    BY <1>2, <1>5, <2>2, ElemsOf
  <2>6. PICK b \in Seq(Elements) : b = Append(a, r)
    BY <1>2, PlacesOfAppend
  <2>7. Len(b) = n + 1 /\ b[n + 1] = r /\ \A i \in 1 .. n : b[i] = a[i]
    BY <1>2, <2>4, <2>6, PlacesOfAppend
  <2>8. \A i \in 1 .. (n + 1) : e[i] = b[i]
    <3> TAKE i \in 1 .. (n + 1)
    <3>1. CASE i = n + 1
      BY <1>3, <2>2, <2>5, <2>7, <3>1
    <3>2. CASE i # n + 1
      <4>1. i \in 1 .. n
        BY <3>2
      <4> QED BY <2>2, <2>4, <2>5, <2>7, <4>1
    <3> QED BY <3>1, <3>2
  <2>9. e = b
    BY <2>5, <2>7, <2>8, SeqEqual
  <2>10. Rule!Becomes(Append(QueueElems, r))
    BY <1>7, <1>10, <2>3, <2>6, <2>9
  <2> QED BY <1>2, <2>10 DEF Rule!Next, Rule!Extend
<1>12. CASE s = <<Of(r)>>
  <2>1. e = <<r>>
    BY <1>3, <1>5, <1>12 DEF Elems
  <2> QED BY <1>2, <1>10, <2>1 DEF Rule!Next, Rule!Switch
<1> QED BY <1>2, <1>11, <1>12

\* As long as elements are adopted in order, the counters, the queue and the walk
\* implement the commit rule: an element is committed exactly when CommitLen
\* distinct proposers built on it, itself included, and no switch of chains
\* takes back a committed element.
THEOREM InOrderImplementsRule == Spec => InOrderCommitRule
<1>1. Init => Rule!Init
  BY DEF Init, InitTask, Rule!Init, QueueElems
<1>2. /\ EngineInv /\ (in_order => CommitInv) /\ [Next]_vars
      => [in_order' => Rule!Next]_<<log, QueueElems>>
  <2> SUFFICES ASSUME EngineInv, in_order => CommitInv, [Next]_vars, in_order'
               PROVE  Rule!Next \/ UNCHANGED <<log, QueueElems>>
    OBVIOUS
  <2>0. ASSUME CommitInv, EndRound(highest), db' = db
        PROVE  UNCHANGED <<log, QueueElems>>
    <3>1. task'.commit_queue = task.commit_queue
      BY <2>0, SkipStays DEF TaskState
    <3>2. log' = log
      BY <2>0, SkipStays
    <3> QED BY <3>1, <3>2 DEF QueueElems
  <2>1. CASE \E p \in DOMAIN db : Adopt(p)
    <3>1. PICK p : Adopt(p)
      BY <2>1
    <3>2. CommitInv
      BY <3>1 DEF Adopt
    <3> QED BY <3>1, <3>2, AdoptMoves, MoveIsRuleStep
  <2>2. CASE SkipRound
    BY <2>0, <2>2 DEF SkipRound
  <2>3. CASE \E p \in DOMAIN db \cup DOMAIN missed : MissProposal(p)
    BY <2>0, <2>3 DEF MissProposal
  <2>4. CASE \E e \in DOMAIN missed : Fetch(e)
    BY <2>4 DEF Fetch, QueueElems
  <2>5. CASE UNCHANGED vars
    BY <2>5 DEF vars, QueueElems
  <2> QED BY <2>1, <2>2, <2>3, <2>4, <2>5 DEF Next
<1> QED BY <1>1, <1>2, InOrderInvariant, PTL DEF Spec, InOrderCommitRule


----------------------------------------------------------------------------
(***************************************************************************)
(* The commit task in general: elements adopted on any stored parent, some *)
(* missed or fetched.  A walk then re-inserts keys of queued elements, and *)
(* the counters drift from the queue.  They drift one way only: what is    *)
(* counted too often (Surplus) are proposers that were counted before, and *)
(* those are fewer than CommitLen.  So the queue is not empty when the     *)
(* commit loop pops, and the popped proposer is counted.                   *)
(***************************************************************************)
Authors == {Author(x) : x \in Elements}

Counters == UNION {[D -> Nat \ {0}] : D \in SUBSET Authors}

Count(c, id) == IF id \in DOMAIN c THEN c[id] ELSE 0

Occurs(q, id) == Cardinality(Places(q, id))

Covers(q, c) == \A id : Occurs(q, id) <= Count(c, id)

Surplus(q, c) == {id \in DOMAIN c : c[id] > Occurs(q, id)}

\* Proposers are finitely many.
LEMMA AuthorsFinite == IsFiniteSet(Authors)
<1>1. IsFiniteSet(Elements)
  BY FS_Interval, CommitAssumption DEF Elements
<1> DEFINE f == [x \in Elements |-> Author(x)]
<1>2. f \in Surjection(Elements, Authors)
  BY DEF Surjection, Authors
<1> QED BY <1>1, <1>2, FS_Surjection

\* What is known of a map of proposers.
LEMMA CountersAre ==
    ASSUME NEW c
    PROVE  /\ c \in Counters => /\ DOMAIN c \subseteq Authors /\ IsFiniteSet(DOMAIN c)
                                /\ Cardinality(DOMAIN c) \in Nat
                                /\ \A i \in DOMAIN c : c[i] \in Nat /\ c[i] > 0
           /\ (\E D \in SUBSET Authors : c \in [D -> Nat \ {0}]) => c \in Counters
<1>1. ASSUME c \in Counters
      PROVE  DOMAIN c \subseteq Authors /\ \A i \in DOMAIN c : c[i] \in Nat /\ c[i] > 0
  BY <1>1 DEF Counters
<1>2. ASSUME c \in Counters PROVE IsFiniteSet(DOMAIN c) /\ Cardinality(DOMAIN c) \in Nat
  BY <1>1, <1>2, AuthorsFinite, FS_Subset, FS_CardinalityType
<1>3. (\E D \in SUBSET Authors : c \in [D -> Nat \ {0}]) => c \in Counters
  BY DEF Counters
<1> QED BY <1>1, <1>2, <1>3

\* How often the proposers of a queue occur.
LEMMA OccursIs ==
    ASSUME NEW q \in Seq(Entry)
    PROVE  \A id : /\ Occurs(q, id) \in Nat
                   /\ id \in Proposing(q) <=> Occurs(q, id) > 0
BY PlacesFinite DEF Occurs

\* The counters of a queue count what occurs.
LEMMA CountsOfIs ==
    ASSUME NEW q \in Seq(Entry)
    PROVE  /\ CountsOf(q) \in Counters
           /\ \A id : Count(CountsOf(q), id) = Occurs(q, id)
<1>1. PICK c : c = CountsOf(q)
  OBVIOUS
<1>2. c = [id \in Proposing(q) |-> Occurs(q, id)]
  BY <1>1 DEF CountsOf, Occurs
<1>3. Proposing(q) \in SUBSET Authors
  BY ElemsOf DEF Proposing, Authors
<1>4. c \in [Proposing(q) -> Nat \ {0}]
  BY <1>2, OccursIs
<1>5. \A id : Count(c, id) = Occurs(q, id)
  BY <1>2, OccursIs DEF Count
<1> QED BY <1>1, <1>3, <1>4, <1>5, CountersAre

\* Merging adds the counters up.
LEMMA MergedIs ==
    ASSUME NEW c \in Counters, NEW d \in Counters
    PROVE  /\ Merged(c, d) \in Counters
           /\ \A id : Count(Merged(c, d), id) = Count(c, id) + Count(d, id)
<1>1. /\ DOMAIN c \subseteq Authors /\ \A i \in DOMAIN c : c[i] \in Nat /\ c[i] > 0
      /\ DOMAIN d \subseteq Authors /\ \A i \in DOMAIN d : d[i] \in Nat /\ d[i] > 0
  BY CountersAre
<1>2. PICK m : m = Merged(c, d)
  OBVIOUS
<1>3. m = [i \in DOMAIN c \cup DOMAIN d |-> Count(c, i) + Count(d, i)]
  BY <1>2 DEF Merged, Count
<1>4. \A i : Count(c, i) \in Nat /\ Count(d, i) \in Nat
  BY <1>1 DEF Count
<1>5. \A i \in DOMAIN c \cup DOMAIN d : Count(c, i) + Count(d, i) > 0
  BY <1>1, <1>4 DEF Count
<1>6. m \in [DOMAIN c \cup DOMAIN d -> Nat \ {0}]
  BY <1>3, <1>4, <1>5
<1>7. \A id : Count(m, id) = Count(c, id) + Count(d, id)
  <2> TAKE id
  <2>1. CASE id \in DOMAIN c \cup DOMAIN d
    BY <1>3, <2>1 DEF Count
  <2>2. CASE id \notin DOMAIN c \cup DOMAIN d
    BY <1>3, <2>2 DEF Count
  <2> QED BY <2>1, <2>2
<1>8. DOMAIN c \cup DOMAIN d \in SUBSET Authors
  BY <1>1
<1> QED BY <1>2, <1>6, <1>7, <1>8, CountersAre

\* Discounting takes one off.
LEMMA DiscountedIs ==
    ASSUME NEW c \in Counters, NEW a \in DOMAIN c
    PROVE  /\ Discounted(c, a) \in Counters
           /\ DOMAIN Discounted(c, a) \subseteq DOMAIN c
           /\ \A id : Count(Discounted(c, a), id) = Count(c, id) - (IF id = a THEN 1 ELSE 0)
<1>1. DOMAIN c \subseteq Authors /\ \A i \in DOMAIN c : c[i] \in Nat /\ c[i] > 0
  BY CountersAre
<1>2. PICK D : D = {j \in DOMAIN c : j # a \/ c[j] > 1}
  OBVIOUS
<1>3. PICK m : m = Discounted(c, a)
  OBVIOUS
<1>4. m = [i \in D |-> c[i] - (IF i = a THEN 1 ELSE 0)]
  BY <1>2, <1>3, Zenon DEF Discounted
<1>5. D \subseteq DOMAIN c /\ D \in SUBSET Authors
  BY <1>1, <1>2
<1>6. \A i \in D : c[i] - (IF i = a THEN 1 ELSE 0) \in Nat \ {0}
  BY <1>1, <1>2
<1>7. m \in [D -> Nat \ {0}] /\ DOMAIN m = D
  BY <1>4, <1>6
<1>8. \A id : Count(m, id) = Count(c, id) - (IF id = a THEN 1 ELSE 0)
  <2> TAKE id
  <2>1. CASE id \in D
    BY <1>4, <1>5, <2>1 DEF Count
  <2>2. CASE id \notin D
    <3>1. Count(m, id) = 0
      BY <1>7, <2>2 DEF Count
    <3>2. id \in DOMAIN c => id = a /\ c[id] = 1
      BY <1>1, <1>2, <2>2
    <3>3. id \notin DOMAIN c => id # a
      OBVIOUS
    <3> QED BY <3>1, <3>2, <3>3 DEF Count
  <2> QED BY <2>1, <2>2
<1> QED BY <1>3, <1>5, <1>7, <1>8, CountersAre

\* q without its entry i.
Without(p, q, i) ==
    /\ p \in Seq(Entry) /\ Len(p) = Len(q) - 1
    /\ \A k \in 1 .. (Len(q) - 1) : p[k] = IF k < i THEN q[k] ELSE q[k + 1]

\* Removing an entry removes one place of its proposer.
LEMMA OccursWithout ==
    ASSUME NEW q \in Seq(Entry), NEW i \in 1 .. Len(q), NEW p, Without(p, q, i), NEW id
    PROVE  Occurs(p, id) = Occurs(q, id) - (IF Author(q[i].elem) = id THEN 1 ELSE 0)
<1>1. PICK n \in Nat : n = Len(q) /\ i \in 1 .. n /\ n > 0
  OBVIOUS
<1>2. /\ p \in Seq(Entry) /\ Len(p) = n - 1
      /\ \A k \in 1 .. (n - 1) : p[k] = IF k < i THEN q[k] ELSE q[k + 1]
  BY <1>1 DEF Without
<1> DEFINE A == Places(q, id) \ {i}
           B == Places(p, id)
           f == [k \in A |-> IF k < i THEN k ELSE k - 1]
<1>4. A \subseteq (1 .. n) \ {i} /\ B \subseteq 1 .. (n - 1)
  BY <1>1, <1>2 DEF Places
<1>5. \A k \in A : f[k] \in B
  <2> TAKE k \in A
  <2>1. k \in 1 .. n /\ k # i /\ Author(q[k].elem) = id
    BY <1>1, <1>4 DEF Places
  <2>2. PICK j : j = IF k < i THEN k ELSE k - 1
    OBVIOUS
  <2>3. j \in 1 .. (n - 1) /\ k = IF j < i THEN j ELSE j + 1
    BY <1>1, <2>1, <2>2
  <2>4. p[j] = q[k]
    BY <1>2, <2>3
  <2>5. j \in B
    BY <1>2, <2>1, <2>3, <2>4 DEF Places
  <2> QED BY <2>2, <2>5
<1>6. \A j \in B : \E k \in A : f[k] = j
  <2> TAKE j \in B
  <2>1. j \in 1 .. (n - 1) /\ Author(p[j].elem) = id
    BY <1>2, <1>4 DEF Places
  <2>2. PICK k : k = IF j < i THEN j ELSE j + 1
    OBVIOUS
  <2>3. k \in 1 .. n /\ k # i /\ p[j] = q[k] /\ j = IF k < i THEN k ELSE k - 1
    BY <1>1, <1>2, <2>1, <2>2
  <2>4. k \in A
    BY <1>1, <2>1, <2>3 DEF Places
  <2> QED BY <2>3, <2>4
<1>7. f \in Bijection(A, B)
  <2>1. f \in [A -> B]
    BY <1>5
  <2>2. \A k, j \in A : f[k] = f[j] => k = j
    <3> TAKE k, j \in A
    <3>1. k \in Int /\ j \in Int /\ k # i /\ j # i /\ i \in Int
      BY <1>1, <1>4
    <3>2. /\ f[k] = IF k < i THEN k ELSE k - 1
          /\ f[j] = IF j < i THEN j ELSE j - 1
      OBVIOUS
    <3> HIDE DEF f
    <3> QED BY <3>1, <3>2
  <2> HIDE DEF f, A, B
  <2>4. f \in Injection(A, B)
    BY <2>1, <2>2 DEF Injection, IsInjective
  <2>5. f \in Surjection(A, B)
    BY <1>6, <2>1 DEF Surjection
  <2> QED BY <2>4, <2>5 DEF Bijection
<1>8. IsFiniteSet(Places(q, id)) /\ Cardinality(Places(q, id)) \in Nat
  BY PlacesFinite
<1>9. IsFiniteSet(A) /\ Cardinality(A) =
         IF i \in Places(q, id) THEN Cardinality(Places(q, id)) - 1
         ELSE Cardinality(Places(q, id))
  BY <1>8, FS_RemoveElement
<1>10. Cardinality(B) = Cardinality(A)
  BY <1>7, <1>9, FS_Bijection DEF ExistsBijection
<1>11. i \in Places(q, id) <=> Author(q[i].elem) = id
  BY <1>1 DEF Places
<1> QED BY <1>8, <1>9, <1>10, <1>11 DEF Occurs

\* Removing by place, as Without says it.
LEMMA RemovedIs ==
    ASSUME NEW q \in Seq(Entry), NEW i \in 1 .. Len(q)
    PROVE  Without(RemoveAt(q, i), q, i)
<1>1. PICK n \in Nat : n = Len(q) /\ i \in 1 .. n
  OBVIOUS
<1>2. PICK a : a = SubSeq(q, 1, i - 1)
  OBVIOUS
<1>3. PICK b : b = SubSeq(q, i + 1, n)
  OBVIOUS
<1>4. PICK h, t : h = i - 1 /\ t = i + 1
  OBVIOUS
<1>5. h \in Nat /\ t \in Nat /\ 1 <= t /\ t <= n + 1 /\ h <= n
  BY <1>1, <1>4
<1>6. IsSegment(a, Entry, q, 1, h)
  BY <1>1, <1>2, <1>4, <1>5, SegmentIs
<1>7. IsSegment(b, Entry, q, t, n)
  BY <1>1, <1>3, <1>4, <1>5, SegmentIs
<1>8. a \in Seq(Entry) /\ Len(a) = i - 1 /\ \A k \in 1 .. (i - 1) : a[k] = q[k]
  <2>1. a \in Seq(Entry) /\ Len(a) = h - 1 + 1 /\ \A k \in 1 .. (h - 1 + 1) : a[k] = q[1 + k - 1]
    BY <1>6 DEF IsSegment
  <2>2. h - 1 + 1 = i - 1
    BY <1>1, <1>4
  <2>3. \A k \in 1 .. (i - 1) : 1 + k - 1 = k
    OBVIOUS
  <2> QED BY <2>1, <2>2, <2>3
<1>9. b \in Seq(Entry) /\ Len(b) = n - i /\ \A k \in 1 .. (n - i) : b[k] = q[i + k]
  <2>1. b \in Seq(Entry) /\ Len(b) = n - t + 1 /\ \A k \in 1 .. (n - t + 1) : b[k] = q[t + k - 1]
    BY <1>7 DEF IsSegment
  <2>2. n - t + 1 = n - i
    BY <1>1, <1>4
  <2>3. \A k \in 1 .. (n - i) : t + k - 1 = i + k
    BY <1>1, <1>4
  <2> QED BY <2>1, <2>2, <2>3
<1>10. PICK p \in Seq(Entry) : p = a \o b
  BY <1>8, <1>9, ConcatProperties
<1>11. /\ Len(p) = Len(a) + Len(b)
       /\ \A k \in 1 .. Len(a) : p[k] = a[k]
       /\ \A k \in 1 .. Len(b) : p[Len(a) + k] = b[k]
  <2>1. PICK la \in Nat, lb \in Nat : la = Len(a) /\ lb = Len(b)
    BY <1>8, <1>9
  <2>2. /\ Len(p) = la + lb
        /\ \A k \in 1 .. (la + lb) : p[k] = IF k <= la THEN a[k] ELSE b[k - la]
    <3>1. a \in Seq(Entry) /\ b \in Seq(Entry)
      BY <1>8, <1>9
    <3>2. /\ Len(a \o b) = Len(a) + Len(b)
          /\ \A k \in 1 .. Len(a) + Len(b) :
                (a \o b)[k] = IF k <= Len(a) THEN a[k] ELSE b[k - Len(a)]
      BY <3>1, ConcatProperties
    <3> QED BY <1>10, <2>1, <3>2
  <2>3. \A k \in 1 .. la : k \in 1 .. (la + lb) /\ k <= la
    BY <2>1
  <2>4. \A k \in 1 .. lb : la + k \in 1 .. (la + lb) /\ ~ (la + k <= la) /\ la + k - la = k
    BY <2>1
  <2>5. \A k \in 1 .. la : p[k] = a[k]
    BY <2>2, <2>3
  <2>6. ASSUME NEW k \in 1 .. lb PROVE p[la + k] = b[k]
    <3>1. PICK j : j = la + k
      OBVIOUS
    <3>2. j \in 1 .. (la + lb) /\ ~ (j <= la) /\ j - la = k
      BY <2>4, <3>1
    <3> QED BY <2>2, <3>1, <3>2
  <2> QED BY <2>1, <2>2, <2>5, <2>6
<1>12. Len(p) = n - 1
  BY <1>1, <1>8, <1>9, <1>11
<1>13. ASSUME NEW k \in 1 .. (n - 1) PROVE p[k] = IF k < i THEN q[k] ELSE q[k + 1]
  <2>1. CASE k < i
    <3>1. k \in 1 .. (i - 1)
      BY <1>1, <2>1
    <3> QED BY <1>8, <1>11, <2>1, <3>1
  <2>2. CASE ~ (k < i)
    <3>1. PICK j : j = k - (i - 1)
      OBVIOUS
    <3>2. j \in 1 .. (n - i) /\ (i - 1) + j = k /\ i + j = k + 1
      BY <1>1, <2>2, <3>1
    <3>3. p[k] = b[j]
      BY <1>8, <1>9, <1>11, <3>2
    <3>4. b[j] = q[k + 1]
      BY <1>9, <3>2
    <3> QED BY <2>2, <3>3, <3>4
  <2> QED BY <2>1, <2>2
<1>14. RemoveAt(q, i) = p
  BY <1>1, <1>2, <1>3, <1>10 DEF RemoveAt
<1> QED BY <1>1, <1>10, <1>12, <1>13, <1>14 DEF Without

\* What is left of q when an entry with this key is to be inserted.
Makes(p, q, key) ==
    \/ p = q /\ \A i \in 1 .. Len(q) : q[i].key # key
    \/ \E i \in 1 .. Len(q) : q[i].key = key /\ Without(p, q, i)

\* Insertion appends, after it has removed an entry with the same key.
LEMMA LinkedInsertIs ==
    ASSUME NEW q \in Seq(Entry), NEW x \in Entry
    PROVE  \E p \in Seq(Entry) : Makes(p, q, x.key) /\ LinkedInsert(q, x.key, x.elem) = Append(p, x)
<1>0. PICK key, elem : key = x.key /\ elem = x.elem /\ x = [key |-> key, elem |-> elem]
  BY DEF Entry
<1> DEFINE I == {i \in 1 .. Len(q) : q[i].key = key}
           rest == RemoveFirstMatch(q, LAMBDA y : y.key = key)
<1>1. CASE I = {}
  <2>1. rest = q
    BY <1>1 DEF RemoveFirstMatch
  <2>2. Makes(q, q, key)
    BY <1>1 DEF Makes
  <2> HIDE DEF rest
  <2>3. Append(rest, x) = Append(q, x)
    BY <2>1
  <2>4. LinkedInsert(q, key, elem) = Append(q, x)
    BY <1>0, <2>3 DEF LinkedInsert, rest
  <2> QED BY <1>0, <2>2, <2>4
<1>2. CASE I # {}
  <2>2. PICK m \in I : \A j \in I : m <= j
    <3>1. I \subseteq Nat
      OBVIOUS
    <3> HIDE DEF I
    <3> QED BY <1>2, <3>1, LeastNat
  <2>3. Min(I) \in I
    <3>1. \E y \in I : \A z \in I : y <= z
      BY <2>2
    <3> HIDE DEF I
    <3> QED BY <3>1 DEF Min
  <2>4. SelectInSeq(q, LAMBDA y : y.key = key) = Min(I)
    BY <1>2 DEF SelectInSeq
  <2>5. rest = RemoveAt(q, Min(I))
    BY <1>2, <2>4 DEF RemoveFirstMatch
  <2>6. PICK i \in 1 .. Len(q) : i = Min(I) /\ q[i].key = key
    BY <2>3
  <2> HIDE DEF I, rest
  <2>7. Without(rest, q, i)
    BY <2>5, <2>6, RemovedIs
  <2>8. rest \in Seq(Entry) /\ Makes(rest, q, key)
    BY <2>6, <2>7 DEF Makes, Without
  <2>9. LinkedInsert(q, key, elem) = Append(rest, x)
    BY <1>0 DEF LinkedInsert, rest
  <2> QED BY <1>0, <2>8, <2>9
<1> QED BY <1>1, <1>2

\* The entries of s are those of q and x, but for entries of q with the key of x.
Members(s, q, x) ==
    /\ \A j \in 1 .. Len(s) : s[j] = x \/ \E k \in 1 .. Len(q) : s[j] = q[k]
    /\ \A k \in 1 .. Len(q) : q[k].key # x.key => \E j \in 1 .. Len(s) : s[j] = q[k]
    /\ \E j \in 1 .. Len(s) : s[j] = x

\* One proposer more, and perhaps one less, whose entry had the key of x.
Recounts(s, q, x) ==
    \/ \A id : Occurs(s, id) = Occurs(q, id) + (IF Author(x.elem) = id THEN 1 ELSE 0)
    \/ \E i \in 1 .. Len(q) :
          /\ q[i].key = x.key
          /\ \A id : Occurs(s, id) = Occurs(q, id) - (IF Author(q[i].elem) = id THEN 1 ELSE 0)
                                                   + (IF Author(x.elem) = id THEN 1 ELSE 0)

\* What an insertion does to the entries and to the counts.
LEMMA InsertedIs ==
    ASSUME NEW q \in Seq(Entry), NEW x \in Entry, NEW s, s = LinkedInsert(q, x.key, x.elem)
    PROVE  s \in Seq(Entry) /\ Members(s, q, x) /\ Recounts(s, q, x)
<1>1. PICK p \in Seq(Entry) : Makes(p, q, x.key) /\ s = Append(p, x)
  BY LinkedInsertIs
<1>2. PICK n \in Nat, m \in Nat : n = Len(q) /\ m = Len(p)
  OBVIOUS
<1>3. s \in Seq(Entry) /\ Len(s) = m + 1 /\ s[m + 1] = x /\ \A k \in 1 .. m : s[k] = p[k]
  BY <1>1, <1>2, PlacesOfAppend
<1>4. \A id : Occurs(s, id) = Occurs(p, id) + (IF Author(x.elem) = id THEN 1 ELSE 0)
  BY <1>1, PlacesOfAppended DEF Occurs
<1>5. CASE p = q
  <2>1. Members(s, q, x)
    <3>1. \A j \in 1 .. (n + 1) : j = n + 1 \/ j \in 1 .. n
      OBVIOUS
    <3> QED BY <1>2, <1>3, <1>5, <3>1 DEF Members
  <2> QED BY <1>3, <1>4, <1>5, <2>1 DEF Recounts
<1>6. ASSUME NEW i \in 1 .. n, q[i].key = x.key, Without(p, q, i)
      PROVE  Members(s, q, x) /\ Recounts(s, q, x)
  <2>1. m = n - 1 /\ \A k \in 1 .. (n - 1) : p[k] = IF k < i THEN q[k] ELSE q[k + 1]
    BY <1>2, <1>6 DEF Without
  <2>2. ASSUME NEW j \in 1 .. Len(s) PROVE s[j] = x \/ \E k \in 1 .. n : s[j] = q[k]
    <3>1. CASE j = m + 1
      BY <1>3, <3>1
    <3>2. CASE j # m + 1
      <4>1. j \in 1 .. m /\ j \in 1 .. (n - 1) /\ j \in 1 .. n /\ j + 1 \in 1 .. n
        BY <1>2, <1>3, <2>1, <3>2
      <4>2. s[j] = IF j < i THEN q[j] ELSE q[j + 1]
        BY <1>3, <2>1, <4>1
      <4> QED BY <4>1, <4>2
    <3> QED BY <3>1, <3>2
  <2>3. ASSUME NEW k \in 1 .. n, q[k].key # x.key PROVE \E j \in 1 .. Len(s) : s[j] = q[k]
    <3>1. k # i
      BY <1>6, <2>3
    <3>2. CASE k < i
      <4>1. k \in 1 .. (n - 1) /\ k \in 1 .. m /\ k \in 1 .. Len(s)
        BY <1>3, <2>1, <3>2
      <4> QED BY <1>3, <2>1, <3>2, <4>1
    <3>3. CASE i < k
      <4>1. PICK j : j = k - 1
        OBVIOUS
      <4>2. j \in 1 .. (n - 1) /\ j \in 1 .. m /\ j \in 1 .. Len(s) /\ ~ (j < i) /\ j + 1 = k
        BY <1>3, <2>1, <3>3, <4>1
      <4> QED BY <1>3, <2>1, <4>2
    <3> QED BY <3>1, <3>2, <3>3
  <2>4. m + 1 \in 1 .. Len(s) /\ s[m + 1] = x
    BY <1>3
  <2>5. Members(s, q, x)
    BY <1>2, <2>2, <2>3, <2>4 DEF Members
  <2>6. \A id : Occurs(p, id) = Occurs(q, id) - (IF Author(q[i].elem) = id THEN 1 ELSE 0)
    BY <1>2, <1>6, OccursWithout
  <2>7. Recounts(s, q, x)
    BY <1>2, <1>4, <1>6, <2>6 DEF Recounts
  <2> QED BY <2>5, <2>7
<1> QED BY <1>1, <1>2, <1>3, <1>5, <1>6 DEF Makes


\* The rule of an extension, for k entries.
ExtendRule(f, q, r, n) ==
    f = [k \in 0 .. n |-> IF k = 0 THEN q ELSE LinkedInsert(f[k - 1], r[k].key, r[k].elem)]

\* An extension inserts one entry after the other.
LEMMA ExtendSteps ==
    ASSUME NEW q \in Seq(Entry), NEW r \in Seq(Entry)
    PROVE  \E f : /\ LinkedExtend(q, r) = f[Len(r)] /\ f[0] = q
                  /\ \A k \in 1 .. Len(r) : f[k] = LinkedInsert(f[k - 1], r[k].key, r[k].elem)
<1>1. PICK n \in Nat : n = Len(r)
  OBVIOUS
<1> DEFINE V == Seq(Entry)
           Step(k, p) == LinkedInsert(p, r[k].key, r[k].elem)
           g == [x \in (1 .. n) \X V |-> Step(x[1], x[2])]
<1>2. ASSUME NEW k \in 1 .. n, NEW p \in V PROVE Step(k, p) \in V
  <2>1. r[k] \in Entry
    BY <1>1, ElementOfSeq
  <2> QED BY <2>1, InsertedIs
<1>3. g \in [(1 .. n) \X V -> V]
  BY <1>2
<1>4. \A k \in 1 .. n, p \in V : g[<<k, p>>] = Step(k, p)
  OBVIOUS
<1> HIDE DEF g, V
<1>5. q \in V
  BY DEF V
<1>6. PICK h \in [0 .. n -> V] : IteratesOf(h, n, q, g)
  BY <1>3, <1>5, IterateExists
<1>7. ExtendRule(h, q, r, n)
  <2>1. \A k \in 0 .. n : h[k] = IF k = 0 THEN q ELSE Step(k, h[k - 1])
    <3> TAKE k \in 0 .. n
    <3>1. CASE k = 0
      BY <1>6, <3>1 DEF IteratesOf
    <3>2. CASE k # 0
      <4>1. PICK j : j = k - 1 /\ j \in 0 .. n /\ k \in 1 .. n
        BY <3>2
      <4>2. h[j] \in V /\ h[k] = g[<<k, h[j]>>]
        BY <1>6, <4>1 DEF IteratesOf
      <4>3. h[k] = Step(k, h[j])
        BY <1>4, <4>1, <4>2
      <4> QED BY <3>2, <4>1, <4>3
    <3> QED BY <3>1, <3>2
  <2>2. h = [k \in 0 .. n |-> h[k]]
    OBVIOUS
  <2> QED BY <2>1, <2>2, Zenon DEF ExtendRule
<1>8. PICK f : f = CHOOSE a : ExtendRule(a, q, r, n)
  OBVIOUS
<1>9. ExtendRule(f, q, r, n)
  BY <1>7, <1>8, Zenon
<1>10. LinkedExtend(q, r) = f[n]
  BY <1>1, <1>8, Zenon DEF LinkedExtend, ExtendRule
<1>11. \A k \in 0 .. n : f[k] = IF k = 0 THEN q ELSE Step(k, f[k - 1])
  BY <1>9, Zenon DEF ExtendRule
<1>12. f[0] = q
  BY <1>11
<1>13. \A k \in 1 .. n : f[k] = LinkedInsert(f[k - 1], r[k].key, r[k].elem)
  <2> TAKE k \in 1 .. n
  <2>1. k \in 0 .. n /\ k # 0
    BY <1>1
  <2> QED BY <1>11, <2>1
<1> QED BY <1>1, <1>10, <1>12, <1>13

Distinct(r) == \A i, j \in 1 .. Len(r) : r[i].key = r[j].key => i = j

\* s is q extended by the first k entries of r.
Extended(s, q, r, k) ==
    /\ s \in Seq(Entry)
    /\ \A j \in 1 .. Len(s) : \/ \E i \in 1 .. Len(q) : s[j] = q[i]
                              \/ \E i \in 1 .. k : s[j] = r[i]
    /\ \A i \in 1 .. k : \E j \in 1 .. Len(s) : s[j] = r[i]
    /\ \A id : Occurs(s, id) <= Occurs(q, id) + Occurs(SubSeq(r, 1, k), id)
    /\ \A id : Occurs(q, id) = 0 => Occurs(s, id) = Occurs(SubSeq(r, 1, k), id)

\* One entry more.
LEMMA ExtendedStep ==
    ASSUME NEW q \in Seq(Entry), NEW r \in Seq(Entry), Distinct(r), NEW k \in 1 .. Len(r),
           NEW p, Extended(p, q, r, k - 1), NEW s, s = LinkedInsert(p, r[k].key, r[k].elem)
    PROVE  Extended(s, q, r, k)
<1>1. PICK n \in Nat, m \in Nat : n = Len(r) /\ m = k - 1 /\ k \in 1 .. n /\ m + 1 = k
  OBVIOUS
<1>2. PICK a, b : a = SubSeq(r, 1, m) /\ b = SubSeq(r, 1, k)
  OBVIOUS
<1>3. PICK x \in Entry : x = r[k] /\ a \in Seq(Entry) /\ b = Append(a, x)
  BY <1>1, <1>2, FirstAndNext
<1>4. /\ p \in Seq(Entry)
      /\ \A j \in 1 .. Len(p) : \/ \E i \in 1 .. Len(q) : p[j] = q[i]
                                \/ \E i \in 1 .. m : p[j] = r[i]
      /\ \A i \in 1 .. m : \E j \in 1 .. Len(p) : p[j] = r[i]
      /\ \A id : Occurs(p, id) <= Occurs(q, id) + Occurs(a, id)
      /\ \A id : Occurs(q, id) = 0 => Occurs(p, id) = Occurs(a, id)
  BY <1>1, <1>2 DEF Extended
<1>5. s \in Seq(Entry) /\ Members(s, p, x) /\ Recounts(s, p, x)
  BY <1>3, <1>4, InsertedIs
<1>6. ASSUME NEW i \in 1 .. m PROVE r[i].key # x.key
  <2>1. i \in 1 .. n /\ k \in 1 .. n /\ i # k
    BY <1>1
  <2> QED BY <1>1, <1>3, <2>1 DEF Distinct
<1>7. ASSUME NEW j \in 1 .. Len(s)
      PROVE  \/ \E i \in 1 .. Len(q) : s[j] = q[i]
             \/ \E i \in 1 .. k : s[j] = r[i]
  <2>1. s[j] = x \/ \E l \in 1 .. Len(p) : s[j] = p[l]
    BY <1>5 DEF Members
  <2>2. 1 .. m \subseteq 1 .. k /\ k \in 1 .. k
    BY <1>1
  <2> QED BY <1>3, <1>4, <2>1, <2>2
<1>8. ASSUME NEW i \in 1 .. k PROVE \E j \in 1 .. Len(s) : s[j] = r[i]
  <2>1. CASE i = k
    BY <1>3, <1>5, <2>1 DEF Members
  <2>2. CASE i # k
    <3>1. i \in 1 .. m
      BY <1>1, <2>2
    <3>2. PICK l \in 1 .. Len(p) : p[l] = r[i]
      BY <1>4, <3>1
    <3>3. p[l].key # x.key
      BY <1>6, <3>1, <3>2
    <3> QED BY <1>5, <3>2, <3>3 DEF Members
  <2> QED BY <2>1, <2>2
<1>9. \A id : /\ Occurs(q, id) \in Nat /\ Occurs(a, id) \in Nat /\ Occurs(p, id) \in Nat
              /\ Occurs(b, id) = Occurs(a, id) + (IF Author(x.elem) = id THEN 1 ELSE 0)
  <2>1. \A id : Occurs(b, id) = Occurs(a, id) + (IF Author(x.elem) = id THEN 1 ELSE 0)
    BY <1>3, PlacesOfAppended DEF Occurs
  <2>2. \A id : Occurs(q, id) \in Nat
    BY OccursIs
  <2>3. \A id : Occurs(p, id) \in Nat
    BY <1>4, OccursIs
  <2>4. \A id : Occurs(a, id) \in Nat
    BY <1>3, OccursIs
  <2> QED BY <2>1, <2>2, <2>3, <2>4
<1>10. ASSUME NEW id PROVE Occurs(s, id) <= Occurs(q, id) + Occurs(b, id)
  <2>1. Occurs(s, id) <= Occurs(p, id) + (IF Author(x.elem) = id THEN 1 ELSE 0)
    <3>1. CASE \A j : Occurs(s, j) = Occurs(p, j) + (IF Author(x.elem) = j THEN 1 ELSE 0)
      BY <1>9, <3>1
    <3>2. ASSUME NEW i \in 1 .. Len(p),
                 \A j : Occurs(s, j) = Occurs(p, j) - (IF Author(p[i].elem) = j THEN 1 ELSE 0)
                                                    + (IF Author(x.elem) = j THEN 1 ELSE 0)
          PROVE  Occurs(s, id) <= Occurs(p, id) + (IF Author(x.elem) = id THEN 1 ELSE 0)
      BY <1>9, <3>2
    <3> QED BY <1>5, <3>1, <3>2 DEF Recounts
  <2>2. Occurs(s, id) \in Nat
    BY <1>5, OccursIs
  <2>3. Occurs(p, id) <= Occurs(q, id) + Occurs(a, id)
    BY <1>4
  <2> QED BY <1>9, <2>1, <2>2, <2>3
<1>11. ASSUME NEW id, Occurs(q, id) = 0 PROVE Occurs(s, id) = Occurs(b, id)
  <2>1. Occurs(p, id) = Occurs(a, id)
    BY <1>4, <1>11
  <2>2. CASE \A j : Occurs(s, j) = Occurs(p, j) + (IF Author(x.elem) = j THEN 1 ELSE 0)
    BY <1>9, <2>1, <2>2
  <2>3. ASSUME NEW i \in 1 .. Len(p), p[i].key = x.key,
               \A j : Occurs(s, j) = Occurs(p, j) - (IF Author(p[i].elem) = j THEN 1 ELSE 0)
                                                  + (IF Author(x.elem) = j THEN 1 ELSE 0)
        PROVE  Occurs(s, id) = Occurs(b, id)
    <3>1. PICK l \in 1 .. Len(q) : p[i] = q[l]
      BY <1>4, <1>6, <2>3
    <3>2. Author(p[i].elem) # id
      <4>1. id \notin Proposing(q)
        BY <1>11, OccursIs
      <4> QED BY <3>1, <4>1 DEF Proposing
    <3> QED BY <1>9, <2>1, <2>3, <3>2
  <2> QED BY <1>5, <2>2, <2>3 DEF Recounts
<1> QED BY <1>2, <1>5, <1>7, <1>8, <1>10, <1>11 DEF Extended

\* What an extension by entries with distinct keys does.
LEMMA ExtendedIs ==
    ASSUME NEW q \in Seq(Entry), NEW r \in Seq(Entry), Distinct(r)
    PROVE  Extended(LinkedExtend(q, r), q, r, Len(r))
<1>1. PICK n \in Nat : n = Len(r)
  OBVIOUS
<1>2. PICK f : /\ LinkedExtend(q, r) = f[n] /\ f[0] = q
               /\ \A k \in 1 .. n : f[k] = LinkedInsert(f[k - 1], r[k].key, r[k].elem)
  BY <1>1, ExtendSteps
<1> DEFINE K == {k \in 0 .. n : Extended(f[k], q, r, k)}
<1>3. 0 \in K
  <2>1. SubSeq(r, 1, 0) = <<>>
    OBVIOUS
  <2>2. \A id : Occurs(<<>>, id) = 0
    <3>1. \A id : Places(<<>>, id) = {}
      BY DEF Places
    <3> QED BY <3>1, FS_EmptySet DEF Occurs
  <2>3. \A id : Occurs(q, id) \in Nat
    BY OccursIs
  <2>4. PICK a : a = SubSeq(r, 1, 0) /\ \A id : Occurs(a, id) = 0
    BY <2>1, <2>2
  <2>5. Extended(q, q, r, 0)
    <3>1. \A j \in 1 .. Len(q) : \E i \in 1 .. Len(q) : q[j] = q[i]
      OBVIOUS
    <3>2. 1 .. 0 = {}
      OBVIOUS
    <3>3. \A id : /\ Occurs(q, id) <= Occurs(q, id) + Occurs(a, id)
                  /\ Occurs(q, id) = 0 => Occurs(q, id) = Occurs(a, id)
      BY <2>3, <2>4
    <3> QED BY <2>4, <3>1, <3>2, <3>3, Zenon DEF Extended
  <2> QED BY <1>2, <2>5
<1>4. ASSUME NEW k \in 1 .. n, k - 1 \in K PROVE k \in K
  <2>1. Extended(f[k - 1], q, r, k - 1) /\ k \in 0 .. n
    BY <1>4
  <2>2. PICK p : p = f[k - 1]
    OBVIOUS
  <2>3. f[k] = LinkedInsert(p, r[k].key, r[k].elem)
    BY <1>2, <2>2
  <2>4. Extended(f[k], q, r, k)
    BY <1>1, <2>1, <2>2, <2>3, ExtendedStep
  <2> QED BY <2>1, <2>4
<1>5. \A k \in 0 .. n : k \in K
  <2> HIDE DEF K
  <2>1. \A k \in 1 .. n : k - 1 \in K => k \in K
    BY <1>4
  <2> QED BY <1>3, <2>1, CountsUp
<1>6. Extended(f[n], q, r, n)
  <2>1. n \in 0 .. n
    OBVIOUS
  <2> QED BY <1>5, <2>1
<1> QED BY <1>1, <1>2, <1>6


----------------------------------------------------------------------------
\* Counting one proposer more.
LEMMA CountedIs ==
    ASSUME NEW c \in Counters, NEW x \in Elements
    PROVE  /\ Counted(c, Author(x), 1) \in Counters
           /\ \A id : Count(Counted(c, Author(x), 1), id)
                        = Count(c, id) + (IF Author(x) = id THEN 1 ELSE 0)
<1>1. PICK a : a = Author(x) /\ a \in Authors
  BY DEF Authors
<1>2. PICK d : d = [i \in {a} |-> 1]
  OBVIOUS
<1>3. d \in Counters /\ \A id : Count(d, id) = IF a = id THEN 1 ELSE 0
  <2>1. d \in [{a} -> Nat \ {0}] /\ {a} \in SUBSET Authors
    BY <1>1, <1>2
  <2>2. \A id : Count(d, id) = IF a = id THEN 1 ELSE 0
    BY <1>2 DEF Count
  <2> QED BY <2>1, <2>2, CountersAre
<1>4. Counted(c, a, 1) = Merged(c, d)
  BY <1>2 DEF Counted, Merged
<1> QED BY <1>1, <1>3, <1>4, MergedIs

Bounded(q, e) == \A i \in 1 .. Len(q) : q[i].key <= q[i].elem /\ q[i].elem <= e

\* The queue and the counters a walk from e has collected.
WalkQueue(q, c, e) ==
    /\ q \in Seq(Entry) /\ c \in Counters
    /\ \A id : Count(c, id) = Occurs(q, id)
    /\ Distinct(q) /\ Bounded(q, e)
    /\ q # <<>> => q[1] = Of(e)

\* A walk meets ever earlier elements, so what it collects has distinct keys.
LEMMA WalkAdds ==
    ASSUME NEW e \in Elements, NEW q, NEW c, WalkQueue(q, c, e),
           NEW hd \in Elements, NEW hh \in Elements, hh <= hd, hd <= e,
           q = <<>> => hd = e /\ hh = e, \A i \in 1 .. Len(q) : q[i].key > hh
    PROVE  /\ WalkQueue(LinkedInsert(q, hh, hd), Counted(c, Author(hd), 1), e)
           /\ LinkedInsert(q, hh, hd) # <<>>
           /\ \A i \in 1 .. Len(LinkedInsert(q, hh, hd)) : LinkedInsert(q, hh, hd)[i].key >= hh
<1>1. PICK x \in Entry : x = [key |-> hh, elem |-> hd] /\ x.key = hh /\ x.elem = hd
  <2>1. PICK y : y = [key |-> hh, elem |-> hd]
    OBVIOUS
  <2>2. y \in Entry /\ y.key = hh /\ y.elem = hd
    BY <2>1 DEF Entry
  <2> QED BY <2>1, <2>2
<1>2. /\ q \in Seq(Entry) /\ c \in Counters /\ \A id : Count(c, id) = Occurs(q, id)
      /\ Distinct(q) /\ Bounded(q, e) /\ (q # <<>> => q[1] = Of(e))
  BY DEF WalkQueue
<1>3. PICK s : s = LinkedInsert(q, hh, hd)
  OBVIOUS
<1>4. PICK d : d = Counted(c, Author(hd), 1)
  OBVIOUS
<1>5. PICK n \in Nat : n = Len(q)
  BY <1>2
<1>6. \A i \in 1 .. n : q[i].key \in Int /\ q[i].key # hh /\ q[i].key > hh
  <2>1. \A i \in 1 .. n : q[i] \in Entry
    BY <1>2, <1>5, ElementOfSeq
  <2> QED BY <1>5, <2>1 DEF Entry, Elements
<1>7. s = Append(q, x)
  <2>1. RemoveFirstMatch(q, LAMBDA y : y.key = hh) = q
    BY <1>5, <1>6 DEF RemoveFirstMatch
  <2> QED BY <1>1, <1>3, <2>1 DEF LinkedInsert
<1>8. /\ s \in Seq(Entry) /\ Len(s) = n + 1 /\ s[n + 1] = x
      /\ \A i \in 1 .. n : s[i] = q[i]
  BY <1>2, <1>5, <1>7, PlacesOfAppend
<1>9. \A i \in 1 .. (n + 1) : i \in 1 .. n \/ i = n + 1
  OBVIOUS
<1>10. d \in Counters /\ \A id : Count(d, id) = Occurs(s, id)
  <2>1. \A id : Occurs(s, id) = Occurs(q, id) + (IF Author(hd) = id THEN 1 ELSE 0)
    BY <1>1, <1>2, <1>7, PlacesOfAppended DEF Occurs
  <2>2. d \in Counters /\ \A id : Count(d, id) = Count(c, id) + (IF Author(hd) = id THEN 1 ELSE 0)
    BY <1>2, <1>4, CountedIs
  <2> QED BY <1>2, <2>1, <2>2
<1>11. Distinct(s)
  <2> SUFFICES ASSUME NEW i \in 1 .. (n + 1), NEW j \in 1 .. (n + 1), s[i].key = s[j].key
               PROVE  i = j
    BY <1>8 DEF Distinct
  <2>1. CASE i \in 1 .. n /\ j \in 1 .. n
    BY <1>2, <1>5, <1>8, <2>1 DEF Distinct
  <2>2. CASE i \in 1 .. n /\ j = n + 1
    BY <1>1, <1>6, <1>8, <2>2
  <2>3. CASE i = n + 1 /\ j \in 1 .. n
    BY <1>1, <1>6, <1>8, <2>3
  <2> QED BY <1>9, <2>1, <2>2, <2>3
<1>12. Bounded(s, e)
  <2> SUFFICES ASSUME NEW i \in 1 .. (n + 1) PROVE s[i].key <= s[i].elem /\ s[i].elem <= e
    BY <1>8 DEF Bounded
  <2>1. CASE i \in 1 .. n
    BY <1>2, <1>5, <1>8, <2>1 DEF Bounded
  <2>2. CASE i = n + 1
    BY <1>1, <1>8, <2>2
  <2> QED BY <1>9, <2>1, <2>2
<1>13. s # <<>> /\ s[1] = Of(e)
  <2>1. Len(s) # 0
    BY <1>8
  <2>2. CASE q = <<>>
    <3>1. n + 1 = 1
      BY <1>5, <2>2
    <3> QED BY <1>1, <1>8, <2>1, <2>2, <3>1 DEF Of
  <2>3. CASE q # <<>>
    <3>1. 1 \in 1 .. n
      BY <1>2, <1>5, <2>3
    <3> QED BY <1>2, <1>8, <2>1, <2>3, <3>1
  <2> QED BY <2>2, <2>3
<1>14. \A i \in 1 .. (n + 1) : s[i].key >= hh
  <2> TAKE i \in 1 .. (n + 1)
  <2>1. CASE i \in 1 .. n
    BY <1>6, <1>8, <2>1 DEF Elements
  <2>2. CASE i = n + 1
    BY <1>1, <1>8, <2>2 DEF Elements
  <2> QED BY <1>9, <2>1, <2>2
<1>15. WalkQueue(s, d, e)
  BY <1>8, <1>10, <1>11, <1>12, <1>13 DEF WalkQueue
<1> QED BY <1>3, <1>4, <1>8, <1>13, <1>14, <1>15

\* The store: parents are of earlier rounds, and genesis has none.
Rooted(d) ==
    \A x \in DOMAIN d : /\ x \in Elements
                        /\ x = Genesis => d[x] = NoParent
                        /\ x # Genesis => d[x] \in 0 .. (x - 1)

WalkTypes ==
    [head : Elements, head_hash : Elements \cup {NoParent}, queue : Seq(Entry),
     proposers : Counters, stop : {"no", "bottom", "connected"}]

\* What is known of a walk from e on its way and when it has stopped.
Walked(w, t, e) ==
    /\ w \in WalkTypes
    /\ WalkQueue(w.queue, w.proposers, e)
    /\ w.head <= e /\ w.head_hash <= w.head
    /\ w.head_hash = NoParent => w.head = Genesis
    /\ w.queue = <<>> => w.head = e /\ w.head_hash = e
    /\ w.stop = "no" => \A i \in 1 .. Len(w.queue) : w.queue[i].key > w.head_hash
    /\ w.queue = <<>> /\ w.stop = "connected" =>
          t.commit_queue # <<>> /\ Last(t.commit_queue).key = e
    /\ w.queue = <<>> /\ w.stop = "bottom" =>
          e <= t.highest_committed_element \/ e = t.highest_committed_hash

\* The walk begins so.
LEMMA WalkBegins ==
    ASSUME NEW t, NEW e \in Elements
    PROVE  Walked(WalkStart(e), t, e)
<1>1. PICK c : c = [i \in {} |-> 0]
  OBVIOUS
<1>2. c \in Counters
  <2>1. c \in [{} -> Nat \ {0}] /\ {} \in SUBSET Authors
    BY <1>1
  <2> QED BY <2>1, CountersAre
<1>3. \A id : Count(c, id) = Occurs(<<>>, id)
  <2>1. \A id : Places(<<>>, id) = {}
    BY DEF Places
  <2>2. \A id : Occurs(<<>>, id) = 0
    BY <2>1, FS_EmptySet DEF Occurs
  <2> QED BY <1>1, <2>2 DEF Count
<1>4. <<>> \in Seq(Entry) /\ Len(<<>>) = 0
  OBVIOUS
<1>5. WalkQueue(<<>>, c, e)
  BY <1>2, <1>3, <1>4 DEF WalkQueue, Distinct, Bounded
<1>6. PICK w : w = WalkStart(e)
  OBVIOUS
<1>7. w = [head |-> e, head_hash |-> e, queue |-> <<>>, proposers |-> c, stop |-> "no"]
  BY <1>1, <1>6 DEF WalkStart
<1>8. w \in WalkTypes
  BY <1>2, <1>4, <1>7 DEF WalkTypes
<1>9. e # NoParent /\ e <= e
  BY CommitAssumption DEF Elements, NoParent
<1>10. Walked(w, t, e)
  BY <1>4, <1>5, <1>7, <1>8, <1>9 DEF Walked
<1> QED BY <1>6, <1>10

\* One iteration of the walk; the walk does not stay where it began.
LEMMA WalkStepIs ==
    ASSUME NEW t, t.highest_committed_element \in Elements, NEW store, Rooted(store),
           NEW e \in Elements, NEW w, Walked(w, t, e)
    PROVE  /\ Walked(WalkStep(t, store, w), t, e)
           /\ WalkStep(t, store, w).queue # <<>> \/ WalkStep(t, store, w).stop # "no"
<1>1. PICK hd, hh, q, c, st :
         w = [head |-> hd, head_hash |-> hh, queue |-> q, proposers |-> c, stop |-> st]
  <2>1. w \in WalkTypes
    BY DEF Walked
  <2> QED BY <2>1 DEF WalkTypes
<1>2. /\ hd \in Elements /\ hh \in Elements \cup {NoParent} /\ q \in Seq(Entry) /\ c \in Counters
      /\ st \in {"no", "bottom", "connected"}
      /\ w.head = hd /\ w.head_hash = hh /\ w.queue = q /\ w.proposers = c /\ w.stop = st
  BY <1>1 DEF Walked, WalkTypes
<1>3. /\ WalkQueue(q, c, e) /\ hd <= e /\ hh <= hd /\ (hh = NoParent => hd = Genesis)
      /\ (q = <<>> => hd = e /\ hh = e)
      /\ st = "no" => \A i \in 1 .. Len(q) : q[i].key > hh
  BY <1>2 DEF Walked
<1>4. PICK v : v = WalkStep(t, store, w)
  OBVIOUS
<1> SUFFICES Walked(v, t, e) /\ (v.queue # <<>> \/ v.stop # "no")
  BY <1>4
<1>5. CASE st # "no"
  <2>1. v = w
    BY <1>2, <1>4, <1>5 DEF WalkStep
  <2> QED BY <1>2, <1>5, <2>1
<1>6. ASSUME NEW s \in {"bottom", "connected"}, v = [w EXCEPT !.stop = s], st = "no",
             s = "connected" => t.commit_queue # <<>> /\ Last(t.commit_queue).key = hh,
             s = "bottom" => hd <= t.highest_committed_element \/ hh = t.highest_committed_hash
      PROVE  Walked(v, t, e) /\ (v.queue # <<>> \/ v.stop # "no")
  <2>1. v = [head |-> hd, head_hash |-> hh, queue |-> q, proposers |-> c, stop |-> s]
    BY <1>1, <1>6
  <2>2. /\ v.head = hd /\ v.head_hash = hh /\ v.queue = q /\ v.proposers = c /\ v.stop = s
        /\ v \in WalkTypes
    BY <1>2, <2>1 DEF WalkTypes
  <2>3. s # "no"
    BY <1>6
  <2>4. Walked(v, t, e)
    BY <1>3, <1>6, <2>2, <2>3 DEF Walked
  <2> QED BY <2>2, <2>3, <2>4
<1>7. CASE st = "no" /\ hd <= t.highest_committed_element
  <2>1. v = [w EXCEPT !.stop = "bottom"]
    BY <1>2, <1>4, <1>7, Zenon DEF WalkStep
  <2> QED BY <1>6, <1>7, <2>1
<1>8. CASE /\ st = "no" /\ ~ (hd <= t.highest_committed_element)
           /\ t.commit_queue # <<>> /\ Last(t.commit_queue).key = hh
  <2>1. v = [w EXCEPT !.stop = "connected"]
    BY <1>2, <1>4, <1>8, Zenon DEF WalkStep
  <2> QED BY <1>6, <1>8, <2>1
<1>9. CASE /\ st = "no" /\ ~ (hd <= t.highest_committed_element)
           /\ ~ (t.commit_queue # <<>> /\ Last(t.commit_queue).key = hh)
           /\ hh = t.highest_committed_hash
  <2>1. v = [w EXCEPT !.stop = "bottom"]
    BY <1>2, <1>4, <1>9, Zenon DEF WalkStep
  <2> QED BY <1>6, <1>9, <2>1
<1>10. CASE /\ st = "no" /\ ~ (hd <= t.highest_committed_element)
            /\ ~ (t.commit_queue # <<>> /\ Last(t.commit_queue).key = hh)
            /\ hh # t.highest_committed_hash
  <2>1. hh \in Elements
    BY <1>2, <1>3, <1>10, CommitAssumption DEF Elements, Genesis
  <2>2. PICK q2, c2 : q2 = LinkedInsert(q, hh, hd) /\ c2 = Counted(c, Author(hd), 1)
    OBVIOUS
  <2>3. /\ WalkQueue(q2, c2, e) /\ q2 # <<>>
        /\ \A i \in 1 .. Len(q2) : q2[i].key >= hh
    BY <1>2, <1>3, <1>10, <2>1, <2>2, WalkAdds
  <2>4. q2 \in Seq(Entry) /\ c2 \in Counters
    BY <2>3 DEF WalkQueue
  <2>5. PICK seen : seen = [w EXCEPT !.queue = q2, !.proposers = c2]
    OBVIOUS
  <2>6. seen = [head |-> hd, head_hash |-> hh, queue |-> q2, proposers |-> c2, stop |-> "no"]
    BY <1>1, <1>10, <2>5
  <2>7. v = IF hh \notin DOMAIN store THEN [seen EXCEPT !.stop = "bottom"]
            ELSE [seen EXCEPT !.head = hh, !.head_hash = store[hh]]
    BY <1>2, <1>4, <1>10, <2>2, <2>5, Zenon DEF WalkStep
  <2>8. CASE hh \notin DOMAIN store
    <3>1. v = [head |-> hd, head_hash |-> hh, queue |-> q2, proposers |-> c2, stop |-> "bottom"]
      BY <2>6, <2>7, <2>8
    <3>2. /\ v.head = hd /\ v.head_hash = hh /\ v.queue = q2 /\ v.proposers = c2
          /\ v.stop = "bottom" /\ v \in WalkTypes
      BY <1>2, <2>4, <3>1 DEF WalkTypes
    <3> QED BY <1>3, <2>3, <3>2 DEF Walked
  <2>9. CASE hh \in DOMAIN store
    <3>1. PICK p : p = store[hh]
      OBVIOUS
    <3>2. p \in Elements \cup {NoParent} /\ p < hh /\ (p = NoParent => hh = Genesis)
      BY <2>1, <2>9, <3>1, CommitAssumption DEF Rooted, Elements, NoParent, Genesis
    <3>3. v = [head |-> hh, head_hash |-> p, queue |-> q2, proposers |-> c2, stop |-> "no"]
      BY <2>6, <2>7, <2>9, <3>1
    <3>4. /\ v.head = hh /\ v.head_hash = p /\ v.queue = q2 /\ v.proposers = c2
          /\ v.stop = "no" /\ v \in WalkTypes
      BY <2>1, <2>4, <3>2, <3>3 DEF WalkTypes
    <3>5. hh \in Int /\ hd \in Int /\ e \in Int /\ p \in Int
      BY <1>2, <2>1, <3>2 DEF Elements, NoParent
    <3>6. hh <= e /\ p <= hh
      BY <1>3, <3>2, <3>5
    <3>7. \A i \in 1 .. Len(q2) : q2[i].key > p
      <4> TAKE i \in 1 .. Len(q2)
      <4>1. q2[i] \in Entry
        BY <2>4, ElementOfSeq
      <4>2. q2[i].key \in Int /\ q2[i].key >= hh
        BY <2>3, <4>1 DEF Entry, Elements
      <4> QED BY <3>2, <3>5, <4>2
    <3> QED BY <2>3, <3>2, <3>4, <3>6, <3>7 DEF Walked
  <2> QED BY <2>8, <2>9
<1> QED BY <1>2, <1>5, <1>7, <1>8, <1>9, <1>10


\* Where the walk ends.
LEMMA WalkIs ==
    ASSUME NEW t, t.highest_committed_element \in Elements, NEW store, Rooted(store),
           NEW e \in Elements
    PROVE  /\ Walked(Walk(t, store, e), t, e)
           /\ Walk(t, store, e).queue # <<>> \/ Walk(t, store, e).stop # "no"
<1>1. PICK n \in Nat : n = MaxRound + 2 /\ n >= 1
  BY CommitAssumption
<1> DEFINE V == {w \in WalkTypes : Walked(w, t, e)}
           Step(w) == WalkStep(t, store, w)
           g == [x \in (1 .. n) \X V |-> Step(x[2])]
<1>2. ASSUME NEW w \in V
      PROVE  Step(w) \in V /\ (Step(w).queue # <<>> \/ Step(w).stop # "no")
  <2>1. Walked(Step(w), t, e) /\ (Step(w).queue # <<>> \/ Step(w).stop # "no")
    BY WalkStepIs
  <2>2. Step(w) \in WalkTypes
    BY <2>1 DEF Walked
  <2> QED BY <2>1, <2>2
<1>3. g \in [(1 .. n) \X V -> V]
  BY <1>2
<1>4. \A k \in 1 .. n, w \in V : g[<<k, w>>] = Step(w)
  OBVIOUS
<1>5. WalkStart(e) \in V
  <2>1. Walked(WalkStart(e), t, e)
    BY WalkBegins
  <2> QED BY <2>1 DEF Walked
<1>a. \A w \in V : Walked(w, t, e)
  OBVIOUS
<1> HIDE DEF g, V
<1>6. PICK h \in [0 .. n -> V] : IteratesOf(h, n, WalkStart(e), g)
  BY <1>3, <1>5, IterateExists
<1>7. WalkRule(h, t, store, e, n)
  <2>1. \A k \in 0 .. n : h[k] = IF k = 0 THEN WalkStart(e) ELSE Step(h[k - 1])
    <3> TAKE k \in 0 .. n
    <3>1. CASE k = 0
      BY <1>6, <3>1 DEF IteratesOf
    <3>2. CASE k # 0
      <4>1. PICK j : j = k - 1 /\ j \in 0 .. n /\ k \in 1 .. n
        BY <3>2
      <4>2. h[j] \in V /\ h[k] = g[<<k, h[j]>>]
        BY <1>6, <4>1 DEF IteratesOf
      <4>3. h[k] = Step(h[j])
        BY <1>4, <4>1, <4>2
      <4> QED BY <3>2, <4>1, <4>3
    <3> QED BY <3>1, <3>2
  <2>2. h = [k \in 0 .. n |-> h[k]]
    OBVIOUS
  <2> QED BY <2>1, <2>2, Zenon DEF WalkRule
<1>8. PICK f : f = CHOOSE a : WalkRule(a, t, store, e, n)
  OBVIOUS
<1>9. WalkRule(f, t, store, e, n)
  BY <1>7, <1>8, Zenon
<1>10. Walk(t, store, e) = f[n]
  BY <1>1, <1>8, Zenon DEF Walk, WalkRule, WalkStart
<1>11. \A k \in 0 .. n : f[k] = IF k = 0 THEN WalkStart(e) ELSE Step(f[k - 1])
  BY <1>9, Zenon DEF WalkRule
<1> HIDE DEF Step
<1>12. f[0] \in V
  BY <1>5, <1>11
<1>13. \A k \in 1 .. n : f[k - 1] \in V => f[k] \in V
  BY <1>2, <1>11
<1>14. \A k \in 0 .. n : f[k] \in V
  BY <1>12, <1>13, IterateStays
<1>15. PICK j : j = n - 1 /\ j \in 0 .. n /\ n \in 0 .. n /\ n # 0
  BY <1>1
<1>16. f[n] = Step(f[j]) /\ f[j] \in V
  BY <1>11, <1>14, <1>15
<1>17. f[n].queue # <<>> \/ f[n].stop # "no"
  BY <1>2, <1>16
<1>18. Walked(f[n], t, e)
  BY <1>a, <1>14, <1>15
<1> QED BY <1>10, <1>17, <1>18

----------------------------------------------------------------------------
TaskTypes ==
    [commit_queue : Seq(Entry), unique_proposers : Counters,
     highest_committed_hash : Elements, highest_committed_element : Elements,
     committed : Seq(Elements), panicked : {FALSE}]

\* A task that has seen no element later than e.
Sound(t, e) ==
    /\ t \in TaskTypes
    /\ Covers(t.commit_queue, t.unique_proposers)
    /\ Bounded(t.commit_queue, e)
    /\ t.highest_committed_hash <= t.highest_committed_element
    /\ t.highest_committed_element <= e

Excess(t) == Surplus(t.commit_queue, t.unique_proposers)

Has(q, e) == \E i \in 1 .. Len(q) : q[i].elem = e

\* A sound task with another queue and other counters.
LEMMA Requeued ==
    ASSUME NEW e, NEW t, Sound(t, e), NEW q \in Seq(Entry), NEW c \in Counters,
           Covers(q, c), Bounded(q, e),
           NEW u, u = Queueing(t, q, c)
    PROVE  /\ Sound(u, e) /\ Excess(u) = Surplus(q, c) /\ u.commit_queue = q
           /\ u.highest_committed_element = t.highest_committed_element
<1>1. t \in TaskTypes
  BY DEF Sound
<1>2. /\ u \in TaskTypes /\ u.commit_queue = q /\ u.unique_proposers = c
      /\ u.highest_committed_element = t.highest_committed_element
      /\ u.highest_committed_hash = t.highest_committed_hash
  BY <1>1 DEF TaskTypes, Queueing
<1> QED BY <1>2 DEF Sound, Excess

\* The counters of a queue that is extended or replaced still cover it, and what
\* is counted too often was counted before.
LEMMA AttachedIs ==
    ASSUME NEW e \in Elements, NEW t, Sound(t, e),
           Cardinality(DOMAIN t.unique_proposers) < CommitLen,
           NEW w, Walked(w, t, e), w.queue # <<>> \/ w.stop # "no"
    PROVE  /\ Sound(Attached(t, w), e)
           /\ Cardinality(Excess(Attached(t, w))) < CommitLen
           /\ Attached(t, w).highest_committed_element = t.highest_committed_element
           /\ Has(Attached(t, w).commit_queue, e) \/ t.highest_committed_element = e
<1>1. PICK q, c, r, d : /\ q = t.commit_queue /\ c = t.unique_proposers
                        /\ r = w.queue /\ d = w.proposers
  OBVIOUS
<1>2. /\ q \in Seq(Entry) /\ c \in Counters /\ Covers(q, c) /\ Bounded(q, e)
      /\ t.highest_committed_hash \in Elements /\ t.highest_committed_element \in Elements
      /\ t.highest_committed_hash <= t.highest_committed_element
      /\ t.highest_committed_element <= e
  BY <1>1 DEF Sound, TaskTypes
<1>3. /\ r \in Seq(Entry) /\ d \in Counters /\ (\A id : Count(d, id) = Occurs(r, id))
      /\ Distinct(r) /\ Bounded(r, e) /\ (r # <<>> => r[1] = Of(e))
  BY <1>1 DEF Walked, WalkQueue
<1>4. ASSUME r # <<>> PROVE 1 \in 1 .. Len(r) /\ r[1].elem = e
  <2>1. 1 \in 1 .. Len(r)
    BY <1>3, <1>4
  <2> QED BY <1>3, <1>4, <2>1 DEF Of
<1>5. \A id : /\ Occurs(q, id) \in Nat /\ Occurs(r, id) \in Nat
              /\ Count(c, id) \in Nat /\ Occurs(q, id) <= Count(c, id)
  <2>1. \A id : Count(c, id) \in Nat
    BY <1>2, CountersAre DEF Count
  <2>2. \A id : Occurs(q, id) \in Nat
    BY <1>2, OccursIs
  <2>3. \A id : Occurs(r, id) \in Nat
    BY <1>3, OccursIs
  <2> QED BY <1>2, <2>1, <2>2, <2>3 DEF Covers
<1>6. IsFiniteSet(DOMAIN c) /\ Cardinality(DOMAIN c) \in Nat
  BY <1>2, CountersAre
<1>7. CASE w.stop = "connected"
  <2>1. PICK s : s = LinkedExtend(q, r)
    OBVIOUS
  <2>2. PICK m : m = Merged(c, d)
    OBVIOUS
  <2>3. PICK n \in Nat : n = Len(r) /\ Extended(s, q, r, n)
    BY <1>2, <1>3, <2>1, ExtendedIs
  <2>4. m \in Counters /\ \A id : Count(m, id) = Count(c, id) + Occurs(r, id)
    BY <1>2, <1>3, <2>2, MergedIs
  <2>5. SubSeq(r, 1, n) = r
    BY <1>3, <2>3
  <2>6. /\ s \in Seq(Entry)
        /\ \A j \in 1 .. Len(s) : \/ \E i \in 1 .. Len(q) : s[j] = q[i]
                                  \/ \E i \in 1 .. n : s[j] = r[i]
        /\ \A i \in 1 .. n : \E j \in 1 .. Len(s) : s[j] = r[i]
        /\ \A id : Occurs(s, id) <= Occurs(q, id) + Occurs(r, id)
        /\ \A id : Occurs(q, id) = 0 => Occurs(s, id) = Occurs(r, id)
    <3> HIDE DEF Occurs
    <3> QED BY <2>3, <2>5 DEF Extended
  <2>7. Covers(s, m)
    <3> SUFFICES ASSUME NEW id PROVE Occurs(s, id) <= Count(m, id)
      BY DEF Covers
    <3>1. Occurs(s, id) \in Nat
      BY <2>6, OccursIs
    <3>2. /\ Occurs(s, id) <= Occurs(q, id) + Occurs(r, id)
          /\ Count(m, id) = Count(c, id) + Occurs(r, id)
      BY <2>4, <2>6
    <3> QED BY <1>5, <3>1, <3>2
  <2>8. Surplus(s, m) \subseteq DOMAIN c
    <3> SUFFICES ASSUME NEW id \in Surplus(s, m), id \notin DOMAIN c PROVE FALSE
      OBVIOUS
    <3>1. id \in DOMAIN m /\ m[id] > Occurs(s, id) /\ Count(m, id) = m[id]
      BY DEF Surplus, Count
    <3>2. Count(c, id) = 0
      BY DEF Count
    <3>3. Occurs(q, id) = 0
      BY <1>5, <3>2
    <3>4. Occurs(s, id) = Occurs(r, id) /\ Count(m, id) = Count(c, id) + Occurs(r, id)
      BY <2>4, <2>6, <3>3
    <3> QED BY <1>5, <3>1, <3>2, <3>4
  <2>9. Cardinality(Surplus(s, m)) < CommitLen
    <3>1. IsFiniteSet(Surplus(s, m)) /\ Cardinality(Surplus(s, m)) <= Cardinality(DOMAIN c)
      BY <1>6, <2>8, FS_Subset
    <3>2. Cardinality(Surplus(s, m)) \in Nat
      BY <3>1, FS_CardinalityType
    <3> QED BY <1>1, <1>6, <3>1, <3>2, CommitAssumption
  <2>10. Bounded(s, e)
    <3> SUFFICES ASSUME NEW j \in 1 .. Len(s) PROVE s[j].key <= s[j].elem /\ s[j].elem <= e
      BY DEF Bounded
    <3> QED BY <1>2, <1>3, <2>3, <2>6 DEF Bounded
  <2>11. Has(s, e) \/ t.highest_committed_element = e
    <3>1. CASE r # <<>>
      BY <1>4, <2>3, <2>6, <3>1 DEF Has
    <3>2. CASE r = <<>>
      <4>1. q # <<>> /\ Last(q).key = e
        BY <1>1, <1>7, <3>2 DEF Walked
      <4>2. PICK k \in Nat : k = Len(q) /\ k \in 1 .. Len(q)
        BY <1>2, <4>1
      <4>3. q[k].key = e /\ q[k] \in Entry
        BY <1>2, <4>1, <4>2, ElementOfSeq DEF Last
      <4>4. q[k].key <= q[k].elem /\ q[k].elem <= e
        BY <1>2, <4>2 DEF Bounded
      <4>5. q[k].elem = e
        BY <4>3, <4>4 DEF Entry, Elements
      <4>6. s = q
        BY <2>1, <3>2, LinkedExtendNone
      <4> QED BY <4>2, <4>5, <4>6 DEF Has
    <3> QED BY <3>1, <3>2
  <2>12. Attached(t, w) = Queueing(t, s, m)
    BY <1>1, <1>7, <2>1, <2>2, Zenon DEF Attached, Queueing
  <2>13. PICK u : u = Attached(t, w)
    OBVIOUS
  <2>14. /\ Sound(u, e) /\ Excess(u) = Surplus(s, m) /\ u.commit_queue = s
         /\ u.highest_committed_element = t.highest_committed_element
    BY <2>4, <2>6, <2>7, <2>10, <2>12, <2>13, Requeued
  <2> QED BY <2>9, <2>11, <2>13, <2>14
<1>8. CASE w.stop # "connected"
  <2>1. Covers(r, d)
    BY <1>3, <1>5 DEF Covers
  <2>2. Surplus(r, d) = {}
    BY <1>3, <1>5 DEF Surplus, Count
  <2>3. Cardinality(Surplus(r, d)) < CommitLen
    BY <2>2, FS_EmptySet, CommitAssumption
  <2>4. Has(r, e) \/ t.highest_committed_element = e
    <3>1. CASE r # <<>>
      BY <1>4, <3>1 DEF Has
    <3>2. CASE r = <<>>
      <4>1. w.stop = "bottom"
        BY <1>1, <1>8, <3>2 DEF Walked, WalkTypes
      <4>2. e <= t.highest_committed_element \/ e = t.highest_committed_hash
        BY <1>1, <3>2, <4>1 DEF Walked
      <4> QED BY <1>2, <4>2 DEF Elements
    <3> QED BY <3>1, <3>2
  <2>5. Attached(t, w) = Queueing(t, r, d)
    BY <1>1, <1>8, Zenon DEF Attached, Queueing
  <2>6. PICK u : u = Attached(t, w)
    OBVIOUS
  <2>7. /\ Sound(u, e) /\ Excess(u) = Surplus(r, d) /\ u.commit_queue = r
        /\ u.highest_committed_element = t.highest_committed_element
    BY <1>3, <2>1, <2>5, <2>6, Requeued
  <2> QED BY <2>3, <2>4, <2>6, <2>7
<1> QED BY <1>7, <1>8


----------------------------------------------------------------------------
\* A task in the commit loop of round e, that began with h as last committed.
Looping(u, e, h) ==
    /\ Sound(u, e)
    /\ Cardinality(Excess(u)) < CommitLen
    /\ u.highest_committed_element = h
         \/ \E i \in 1 .. Len(u.committed) : u.committed[i] = u.highest_committed_element
    /\ \/ Has(u.commit_queue, e)
       \/ \E i \in 1 .. Len(u.committed) : u.committed[i] = e
       \/ h = e

\* With enough proposers left there is an element to commit, and its proposer is
\* counted.
LEMMA CanCommit ==
    ASSUME NEW e, NEW u, Sound(u, e), Cardinality(Excess(u)) < CommitLen, Enough(u)
    PROVE  Unwrappable(u)
<1>1. PICK q, c : q = u.commit_queue /\ c = u.unique_proposers
  OBVIOUS
<1>2. q \in Seq(Entry) /\ c \in Counters /\ Covers(q, c)
  BY <1>1 DEF Sound, TaskTypes
<1>3. /\ Cardinality(DOMAIN c) \in Nat
      /\ \A i \in DOMAIN c : c[i] \in Nat /\ c[i] > 0
  BY <1>2, CountersAre
<1>4. q # <<>>
  <2> SUFFICES ASSUME q = <<>> PROVE FALSE
    OBVIOUS
  <2>1. \A id : Occurs(q, id) = 0
    <3>1. \A id : Places(q, id) = {}
      BY DEF Places
    <3> QED BY <3>1, FS_EmptySet DEF Occurs
  <2>2. Surplus(q, c) = DOMAIN c
    BY <1>3, <2>1 DEF Surplus
  <2>3. Cardinality(DOMAIN c) < CommitLen /\ Cardinality(DOMAIN c) >= CommitLen
    BY <1>1, <2>2 DEF Excess, Enough
  <2> QED BY <1>3, <2>3, CommitAssumption
<1>5. PICK a : a = Author(Head(q).elem) /\ a \in Proposing(q)
  <2>1. 1 \in 1 .. Len(q) /\ Head(q) = q[1]
    BY <1>2, <1>4
  <2> QED BY <2>1 DEF Proposing
<1>6. Occurs(q, a) > 0 /\ Occurs(q, a) \in Nat /\ Occurs(q, a) <= Count(c, a)
  BY <1>2, <1>5, OccursIs DEF Covers
<1>7. a \in DOMAIN c
  BY <1>6 DEF Count
<1> QED BY <1>1, <1>4, <1>5, <1>7 DEF Unwrappable

\* One iteration of the commit loop.
LEMMA LoopStepIs ==
    ASSUME NEW e \in Elements, NEW h, NEW u, Looping(u, e, h)
    PROVE  /\ Looping(CommitStep(u), e, h)
           /\ \/ CommitStep(u) = u /\ ~ Enough(u)
              \/ Len(CommitStep(u).commit_queue) = Len(u.commit_queue) - 1
<1>1. u \in TaskTypes /\ Sound(u, e) /\ Cardinality(Excess(u)) < CommitLen
  BY DEF Looping, Sound
<1>2. CASE ~ Enough(u)
  <2>1. CommitStep(u) = u
    BY <1>2 DEF CommitStep
  <2> QED BY <1>2, <2>1
<1>3. CASE Enough(u)
  <2>1. Unwrappable(u)
    BY <1>1, <1>3, CanCommit
  <2>2. PICK v : v = CommitStep(u)
    OBVIOUS
  <2>3. v = Popped(u)
    <3>1. u.panicked = FALSE
      BY <1>1 DEF TaskTypes
    <3> QED BY <1>3, <2>1, <2>2, <3>1 DEF CommitStep
  <2>4. PICK q \in Seq(Entry), c \in Counters, cm \in Seq(Elements) :
           q = u.commit_queue /\ c = u.unique_proposers /\ cm = u.committed
    BY <1>1 DEF TaskTypes
  <2>5. q # <<>> /\ Author(Head(q).elem) \in DOMAIN c
    BY <2>1, <2>4 DEF Unwrappable
  <2>6. PICK n \in Nat : n = Len(q) /\ n > 0
    BY <2>5
  <2>7. PICK x \in Entry, p \in Seq(Entry) :
           /\ x = Head(q) /\ x = q[1] /\ p = Tail(q) /\ Len(p) = n - 1
           /\ \A i \in 1 .. (n - 1) : p[i] = q[i + 1]
    <3>1. PICK x, p : x = Head(q) /\ p = Tail(q)
      OBVIOUS
    <3>2. x \in Entry /\ p \in Seq(Entry) /\ Len(p) = Len(q) - 1
            /\ \A i \in 1 .. Len(p) : p[i] = q[i + 1]
      BY <2>5, <3>1, HeadTailProperties
    <3>3. x = q[1]
      BY <2>5, <3>1
    <3> QED BY <2>6, <3>1, <3>2, <3>3
  <2>8. x.key \in Elements /\ x.elem \in Elements /\ x.key <= x.elem /\ x.elem <= e
    <3>1. 1 \in 1 .. n
      BY <2>6
    <3> QED BY <1>1, <2>4, <2>6, <2>7, <3>1 DEF Entry, Sound, Bounded
  <2>9. PICK a : a = Author(x.elem) /\ a \in DOMAIN c
    BY <2>5, <2>7
  <2>10. PICK d : d = Discounted(c, a)
    OBVIOUS
  <2>11. /\ d \in Counters
         /\ DOMAIN d \subseteq DOMAIN c
         /\ \A id : Count(d, id) = Count(c, id) - (IF id = a THEN 1 ELSE 0)
    BY <2>4, <2>9, <2>10, DiscountedIs
  <2>12. PICK cm2 \in Seq(Elements) : cm2 = Append(cm, x.elem)
    BY <2>8, AppendProperties
  <2>13. PICK l \in Nat : l = Len(cm) /\ Len(cm2) = l + 1 /\ cm2[l + 1] = x.elem
                           /\ \A i \in 1 .. l : cm2[i] = cm[i]
    BY <2>8, <2>12, PlacesOfAppend
  <2>14. v = [u EXCEPT !.commit_queue = p, !.unique_proposers = d,
                       !.highest_committed_hash = x.key,
                       !.highest_committed_element = x.elem,
                       !.committed = cm2]
    BY <2>3, <2>4, <2>7, <2>9, <2>10, <2>12, Zenon DEF Popped
  <2>15. /\ v \in TaskTypes /\ v.commit_queue = p /\ v.unique_proposers = d
         /\ v.highest_committed_hash = x.key /\ v.highest_committed_element = x.elem
         /\ v.committed = cm2
    BY <1>1, <2>8, <2>11, <2>14 DEF TaskTypes
  <2>16. \A id : /\ Occurs(p, id) = Occurs(q, id) - (IF id = a THEN 1 ELSE 0)
                 /\ Occurs(q, id) \in Nat /\ Occurs(p, id) \in Nat
                 /\ Occurs(q, id) <= Count(c, id) /\ Count(c, id) \in Nat
    <3>1. \A id : Occurs(p, id) = Occurs(q, id) - (IF a = id THEN 1 ELSE 0)
      BY <2>5, <2>7, <2>9, PlacesOfTail DEF Occurs
    <3>2. \A id : Occurs(q, id) \in Nat /\ Occurs(p, id) \in Nat
      BY <2>4, <2>7, OccursIs
    <3>3. \A id : Occurs(q, id) <= Count(c, id)
      BY <1>1, <2>4 DEF Sound, Covers
    <3>4. \A id : Count(c, id) \in Nat
      BY <2>4, CountersAre DEF Count
    <3> QED BY <3>1, <3>2, <3>3, <3>4
  <2>17. Covers(p, d)
    <3> SUFFICES ASSUME NEW id PROVE Occurs(p, id) <= Count(d, id)
      BY DEF Covers
    <3>1. /\ Count(d, id) = Count(c, id) - (IF id = a THEN 1 ELSE 0)
          /\ Occurs(p, id) = Occurs(q, id) - (IF id = a THEN 1 ELSE 0)
          /\ Occurs(q, id) <= Count(c, id) /\ Occurs(q, id) \in Nat /\ Count(c, id) \in Nat
      BY <2>11, <2>16
    <3> QED BY <3>1
  <2>18. Surplus(p, d) \subseteq Surplus(q, c)
    <3> SUFFICES ASSUME NEW id \in Surplus(p, d) PROVE id \in Surplus(q, c)
      OBVIOUS
    <3>1. id \in DOMAIN d /\ id \in DOMAIN c /\ d[id] > Occurs(p, id)
      BY <2>11 DEF Surplus
    <3>2. Count(d, id) = d[id] /\ Count(c, id) = c[id]
      BY <3>1 DEF Count
    <3>3. c[id] > Occurs(q, id)
      <4>1. /\ Count(d, id) = Count(c, id) - (IF id = a THEN 1 ELSE 0)
            /\ Occurs(p, id) = Occurs(q, id) - (IF id = a THEN 1 ELSE 0)
            /\ Occurs(q, id) \in Nat /\ Count(c, id) \in Nat
        BY <2>11, <2>16
      <4> QED BY <3>1, <3>2, <4>1
    <3> QED BY <3>1, <3>3 DEF Surplus
  <2>19. Cardinality(Excess(v)) < CommitLen
    <3>1. Surplus(q, c) \subseteq DOMAIN c /\ IsFiniteSet(DOMAIN c)
      BY <2>4, CountersAre DEF Surplus
    <3>2. IsFiniteSet(Surplus(q, c))
      BY <3>1, FS_Subset
    <3>3. /\ IsFiniteSet(Surplus(p, d))
          /\ Cardinality(Surplus(p, d)) <= Cardinality(Surplus(q, c))
      BY <2>18, <3>2, FS_Subset
    <3>4. Cardinality(Surplus(q, c)) \in Nat /\ Cardinality(Surplus(p, d)) \in Nat
      BY <3>2, <3>3, FS_CardinalityType
    <3>5. Cardinality(Surplus(q, c)) < CommitLen
      BY <1>1, <2>4 DEF Excess
    <3> QED BY <2>15, <3>3, <3>4, <3>5, CommitAssumption DEF Excess
  <2>20. Bounded(p, e)
    <3> SUFFICES ASSUME NEW i \in 1 .. (n - 1) PROVE p[i].key <= p[i].elem /\ p[i].elem <= e
      BY <2>7 DEF Bounded
    <3>1. i + 1 \in 1 .. n /\ p[i] = q[i + 1]
      BY <2>6, <2>7
    <3> QED BY <1>1, <2>4, <2>6, <3>1 DEF Sound, Bounded
  <2>21. Sound(v, e)
    BY <2>8, <2>15, <2>17, <2>20 DEF Sound
  <2>22. l + 1 \in 1 .. Len(cm2) /\ cm2[l + 1] = x.elem
    BY <2>13
  <2>23. \/ Has(p, e)
         \/ \E i \in 1 .. Len(cm2) : cm2[i] = e
         \/ h = e
    <3>1. CASE Has(q, e)
      <4>1. PICK i \in 1 .. n : q[i].elem = e
        BY <2>6, <3>1 DEF Has
      <4>2. CASE i = 1
        BY <2>7, <2>22, <4>1, <4>2
      <4>3. CASE i # 1
        <5>1. PICK j : j = i - 1 /\ j \in 1 .. (n - 1) /\ j + 1 = i
          BY <4>3
        <5>2. p[j] = q[i]
          BY <2>7, <5>1
        <5> QED BY <2>7, <4>1, <5>1, <5>2 DEF Has
      <4> QED BY <4>2, <4>3
    <3>2. CASE \E i \in 1 .. Len(cm) : cm[i] = e
      <4>1. 1 .. l \subseteq 1 .. (l + 1)
        OBVIOUS
      <4> QED BY <2>13, <3>2, <4>1
    <3> QED BY <2>4, <3>1, <3>2 DEF Looping
  <2>24. Looping(v, e, h)
    BY <2>15, <2>19, <2>21, <2>22, <2>23 DEF Looping
  <2> QED BY <2>2, <2>4, <2>6, <2>7, <2>15, <2>24
<1> QED BY <1>2, <1>3


\* The commit loop ends with too few proposers left.
LEMMA LoopIs ==
    ASSUME NEW e \in Elements, NEW h, NEW t, Looping(t, e, h)
    PROVE  /\ Looping(CommitLoop(t), e, h)
           /\ Cardinality(DOMAIN CommitLoop(t).unique_proposers) < CommitLen
<1>1. PICK m \in Nat, n \in Nat : m = Len(t.commit_queue) /\ n = m + 1
  BY DEF Looping, Sound, TaskTypes
<1> DEFINE V == {u \in TaskTypes : Looping(u, e, h)}
           g == [x \in (1 .. n) \X V |-> CommitStep(x[2])]
<1>2. \A u : u \in V <=> Looping(u, e, h)
  BY DEF Looping, Sound
<1>3. g \in [(1 .. n) \X V -> V]
  BY <1>2, LoopStepIs
<1>4. \A k \in 1 .. n, u \in V : g[<<k, u>>] = CommitStep(u)
  OBVIOUS
<1>5. t \in V
  BY <1>2
<1> HIDE DEF g, V
<1>6. PICK a \in [0 .. n -> V] : IteratesOf(a, n, t, g)
  BY <1>3, <1>5, IterateExists
<1>7. LoopRule(a, t, n)
  <2>1. \A k \in 0 .. n : a[k] = IF k = 0 THEN t ELSE CommitStep(a[k - 1])
    <3> TAKE k \in 0 .. n
    <3>1. CASE k = 0
      BY <1>6, <3>1 DEF IteratesOf
    <3>2. CASE k # 0
      <4>1. PICK j : j = k - 1 /\ j \in 0 .. n /\ k \in 1 .. n
        BY <3>2
      <4>2. a[j] \in V /\ a[k] = g[<<k, a[j]>>]
        BY <1>6, <4>1 DEF IteratesOf
      <4>3. a[k] = CommitStep(a[j])
        BY <1>4, <4>1, <4>2
      <4> QED BY <3>2, <4>1, <4>3
    <3> QED BY <3>1, <3>2
  <2>2. a = [k \in 0 .. n |-> a[k]]
    OBVIOUS
  <2> QED BY <2>1, <2>2, Zenon DEF LoopRule
<1>8. PICK f : f = CHOOSE b : LoopRule(b, t, n)
  OBVIOUS
<1>9. LoopRule(f, t, n)
  BY <1>7, <1>8, Zenon
<1>10. CommitLoop(t) = f[n]
  BY <1>1, <1>8, Zenon DEF CommitLoop, LoopRule
<1>11. \A k \in 0 .. n : f[k] = IF k = 0 THEN t ELSE CommitStep(f[k - 1])
  BY <1>9, Zenon DEF LoopRule
<1> DEFINE At(k, u) == Looping(u, e, h) /\ (~ Enough(u) \/ Len(u.commit_queue) + k <= m)
           K == {k \in 0 .. n : At(k, f[k])}
<1>12. 0 \in K
  <2>1. f[0] = t /\ 0 \in 0 .. n
    BY <1>11
  <2> QED BY <1>1, <2>1
<1>13. ASSUME NEW k \in 1 .. n, k - 1 \in K PROVE k \in K
  <2>0. PICK j \in Nat : j = k - 1 /\ j \in K /\ k \in 0 .. n /\ k # 0 /\ k = j + 1
    BY <1>13
  <2>1. PICK u : j = k - 1 /\ u = f[j] /\ At(j, u) /\ k \in 0 .. n /\ k # 0 /\ k = j + 1
    BY <2>0
  <2>2. f[k] = CommitStep(u)
    BY <1>11, <2>1
  <2>3. /\ Looping(f[k], e, h)
        /\ (f[k] = u /\ ~ Enough(u)) \/ Len(f[k].commit_queue) = Len(u.commit_queue) - 1
    BY <2>1, <2>2, LoopStepIs
  <2>4. PICK v : v = f[k]
    OBVIOUS
  <2>5. Len(u.commit_queue) \in Nat /\ Len(v.commit_queue) \in Nat
    BY <2>1, <2>3, <2>4 DEF Looping, Sound, TaskTypes
  <2>6. CASE ~ Enough(u)
    <3>1. f[k] = u
      BY <2>1, <2>2, <2>6 DEF CommitStep
    <3> QED BY <2>1, <2>6, <3>1
  <2>7. CASE Enough(u)
    <3>1. Len(v.commit_queue) = Len(u.commit_queue) - 1 /\ Len(u.commit_queue) + j <= m
      BY <2>1, <2>3, <2>4, <2>7
    <3>2. Len(v.commit_queue) + k <= m
      BY <1>1, <2>1, <2>5, <3>1
    <3> QED BY <2>1, <2>3, <2>4, <3>2
  <2> QED BY <2>6, <2>7
<1>14. \A k \in 0 .. n : k \in K
  <2>1. \A k \in 1 .. n : k - 1 \in K => k \in K
    BY <1>13
  <2> HIDE DEF K
  <2> QED BY <1>12, <2>1, CountsUp
<1>15. PICK u : u = f[n] /\ At(n, u)
  <2>1. n \in 0 .. n
    OBVIOUS
  <2> QED BY <1>14, <2>1
<1>16. u \in TaskTypes
  BY <1>15 DEF Looping, Sound
<1>17. ~ Enough(u)
  <2>1. PICK k \in Nat : k = Len(u.commit_queue)
    BY <1>16 DEF TaskTypes
  <2>2. ~ (k + n <= m)
    BY <1>1
  <2> QED BY <1>15, <2>1, <2>2
<1>18. Cardinality(DOMAIN u.unique_proposers) \in Nat
  BY <1>16, CountersAre DEF TaskTypes
<1>19. Cardinality(DOMAIN u.unique_proposers) < CommitLen
  BY <1>17, <1>18, CommitAssumption DEF Enough
<1> QED BY <1>10, <1>15, <1>19

\* Between two rounds.
Resting(t, e) == Sound(t, e) /\ Cardinality(DOMAIN t.unique_proposers) < CommitLen

\* The handler of EndRound keeps the task so; element e is then committed or in
\* the queue.
LEMMA EndRoundIs ==
    ASSUME NEW store, Rooted(store), NEW e \in Elements, NEW t, Resting(t, e)
    PROVE  /\ Resting(end_round(t, store, e), e)
           /\ \/ end_round(t, store, e).highest_committed_element = t.highest_committed_element
              \/ \E i \in 1 .. Len(end_round(t, store, e).committed) :
                    end_round(t, store, e).committed[i]
                      = end_round(t, store, e).highest_committed_element
           /\ e # Genesis =>
                \/ Has(end_round(t, store, e).commit_queue, e)
                \/ \E i \in 1 .. Len(end_round(t, store, e).committed) :
                      end_round(t, store, e).committed[i] = e
                \/ t.highest_committed_element = e
<1>1. PICK u : u = end_round(t, store, e)
  OBVIOUS
<1>2. t \in TaskTypes /\ Sound(t, e) /\ t.panicked = FALSE /\ t.highest_committed_element \in Elements
  BY DEF Resting, Sound, TaskTypes
<1>3. ASSUME NEW v, NEW x \in TaskTypes, v = Committing(x, <<>>)
      PROVE  /\ v \in TaskTypes /\ v.commit_queue = x.commit_queue
             /\ v.unique_proposers = x.unique_proposers
             /\ v.highest_committed_hash = x.highest_committed_hash
             /\ v.highest_committed_element = x.highest_committed_element
  <2>1. <<>> \in Seq(Elements)
    OBVIOUS
  <2> QED BY <1>3, <2>1 DEF TaskTypes, Committing
<1>4. CASE e = Genesis
  <2>1. u = Committing(t, <<>>)
    BY <1>1, <1>4, Zenon DEF end_round, Committing
  <2>2. Resting(u, e) /\ u.highest_committed_element = t.highest_committed_element
    BY <1>2, <1>3, <2>1 DEF Resting, Sound
  <2> QED BY <1>1, <1>4, <2>2
<1>5. CASE e # Genesis
  <2>1. PICK w : w = Walk(t, store, e)
    OBVIOUS
  <2>2. Walked(w, t, e) /\ (w.queue # <<>> \/ w.stop # "no")
    BY <1>2, <2>1, WalkIs
  <2>3. PICK a : a = Attached(t, w)
    OBVIOUS
  <2>4. /\ Sound(a, e) /\ Cardinality(Excess(a)) < CommitLen
        /\ a.highest_committed_element = t.highest_committed_element
        /\ Has(a.commit_queue, e) \/ t.highest_committed_element = e
    BY <1>2, <2>2, <2>3, AttachedIs DEF Resting
  <2>5. a \in TaskTypes
    BY <2>4 DEF Sound
  <2>6. PICK b : b = Committing(a, <<>>)
    OBVIOUS
  <2>7. /\ b \in TaskTypes /\ b.commit_queue = a.commit_queue
        /\ b.unique_proposers = a.unique_proposers
        /\ b.highest_committed_hash = a.highest_committed_hash
        /\ b.highest_committed_element = a.highest_committed_element
    BY <1>3, <2>5, <2>6
  <2>8. PICK h : h = t.highest_committed_element
    OBVIOUS
  <2>9. Looping(b, e, h)
    BY <2>4, <2>7, <2>8 DEF Looping, Sound, Excess
  <2>10. u = CommitLoop(b)
    <3>1. ~ (t.panicked \/ e = Genesis)
      BY <1>2, <1>5
    <3> QED BY <1>1, <2>1, <2>3, <2>6, <3>1, Zenon DEF end_round, Committing
  <2>11. Looping(u, e, h) /\ Cardinality(DOMAIN u.unique_proposers) < CommitLen
    BY <2>9, <2>10, LoopIs
  <2> QED BY <1>1, <2>8, <2>11 DEF Looping, Resting
<1> QED BY <1>4, <1>5

\* Later elements do no harm.
LEMMA RestingLater ==
    ASSUME NEW t, NEW e \in Elements, NEW f \in Elements, e <= f, Resting(t, e)
    PROVE  Resting(t, f)
<1>1. PICK q \in Seq(Entry), h \in Elements :
         q = t.commit_queue /\ h = t.highest_committed_element /\ h <= e /\ Bounded(q, e)
  BY DEF Resting, Sound, TaskTypes
<1>2. Bounded(q, f)
  <2> SUFFICES ASSUME NEW i \in 1 .. Len(q) PROVE q[i].key <= q[i].elem /\ q[i].elem <= f
    BY DEF Bounded
  <2>1. q[i] \in Entry /\ q[i].key <= q[i].elem /\ q[i].elem <= e
    BY <1>1, ElementOfSeq DEF Bounded
  <2> QED BY <2>1 DEF Entry, Elements
<1>3. h <= f
  BY <1>1 DEF Elements
<1> QED BY <1>1, <1>2, <1>3 DEF Resting, Sound


----------------------------------------------------------------------------
\* The invariant of the task in general.
TaskInv ==
    /\ EngineInv
    /\ highest \in Elements /\ highest < round
    /\ Resting(task, highest)
    /\ log \in Seq(Elements)
    /\ task.highest_committed_element # Genesis =>
          \E i \in 1 .. Len(log) : log[i] = task.highest_committed_element
    /\ highest # Genesis =>
          Has(task.commit_queue, highest) \/ \E i \in 1 .. Len(log) : log[i] = highest

\* The task at the start counts genesis.
LEMMA TaskInit == Init => TaskInv
<1> SUFFICES ASSUME Init PROVE TaskInv
  OBVIOUS
<1>1. EngineInv
  BY CommitAssumption DEF Init, EngineInv, Parents, Genesis, NoParent
<1>2. PICK q, c : q = <<Of(Genesis)>> /\ c = [i \in {START_ID} |-> 1]
  OBVIOUS
<1>3. /\ task = [commit_queue |-> q, unique_proposers |-> c, highest_committed_hash |-> Genesis,
                 highest_committed_element |-> Genesis, committed |-> <<>>, panicked |-> FALSE]
      /\ highest = Genesis /\ round = 1 /\ log = <<>>
  BY <1>2 DEF Init, InitTask, Of
<1>4. Genesis \in Elements /\ Genesis = 0 /\ Author(Genesis) = START_ID
  BY CommitAssumption DEF Elements, Genesis, Author
<1>5. Of(Genesis) \in Entry /\ Of(Genesis).key = Genesis /\ Of(Genesis).elem = Genesis
  BY <1>4 DEF Of, Entry
<1>6. /\ q \in Seq(Entry) /\ Len(q) = 1 /\ q[1] = Of(Genesis)
      /\ \A i \in 1 .. Len(q) : i = 1
  BY <1>2, <1>5
<1>7. c \in Counters /\ DOMAIN c = {START_ID} /\ c[START_ID] = 1
  <2>1. START_ID \in Authors
    BY <1>4 DEF Authors
  <2>2. c \in [{START_ID} -> Nat \ {0}] /\ {START_ID} \in SUBSET Authors
    BY <1>2, <2>1
  <2> QED BY <1>2, <2>2, CountersAre
<1>8. Covers(q, c)
  <2> SUFFICES ASSUME NEW id PROVE Occurs(q, id) <= Count(c, id)
    BY DEF Covers
  <2>1. Places(q, id) = IF id = START_ID THEN {1} ELSE {}
    BY <1>4, <1>5, <1>6 DEF Places
  <2>2. Cardinality({1}) = 1 /\ Cardinality({}) = 0
    BY FS_EmptySet, FS_Singleton
  <2>3. Occurs(q, id) = IF id = START_ID THEN 1 ELSE 0
    BY <2>1, <2>2 DEF Occurs
  <2> QED BY <1>7, <2>3 DEF Count
<1>9. Bounded(q, Genesis)
  BY <1>4, <1>5, <1>6 DEF Bounded
<1>10. task \in TaskTypes /\ task.commit_queue = q /\ task.unique_proposers = c
       /\ task.highest_committed_hash = Genesis /\ task.highest_committed_element = Genesis
  <2>1. <<>> \in Seq(Elements)
    OBVIOUS
  <2> QED BY <1>3, <1>4, <1>6, <1>7, <2>1 DEF TaskTypes
<1>11. Cardinality(DOMAIN task.unique_proposers) < CommitLen
  <2>1. Cardinality({START_ID}) = 1
    BY FS_Singleton
  <2> QED BY <1>7, <1>10, <2>1, CommitAssumption
<1>12. Resting(task, highest)
  BY <1>3, <1>4, <1>8, <1>9, <1>10, <1>11 DEF Resting, Sound
<1>13. log \in Seq(Elements)
  BY <1>3
<1> QED BY <1>1, <1>3, <1>4, <1>10, <1>12, <1>13 DEF TaskInv

\* The end of a round keeps the invariant, whatever element e is highest then.
LEMMA RoundEnds ==
    ASSUME TaskInv, EngineInv', NEW e \in Elements, EndRound(e), highest' = e, highest <= e,
           e <= round
    PROVE  TaskInv'
<1>1. PICK t, u, d, lg, cm : /\ t = task /\ u = task' /\ d = db' /\ lg = log
                             /\ cm = u.committed /\ u = end_round(t, d, e)
  BY DEF EndRound
<1>2. Rooted(d)
  <2>1. round' = round + 1 /\ round <= MaxRound /\ MaxRound \in Nat /\ round \in Nat
    BY CommitAssumption DEF EndRound, TaskInv, EngineInv
  <2>2. Parents(d, round + 1) /\ d[Genesis] = NoParent
    BY <1>1, <2>1 DEF EngineInv
  <2> QED BY <2>1, <2>2 DEF Rooted, Parents, Elements
<1>3. Resting(t, e)
  BY <1>1, RestingLater DEF TaskInv
<1>4. /\ Resting(u, e)
      /\ \/ u.highest_committed_element = t.highest_committed_element
         \/ \E i \in 1 .. Len(cm) : cm[i] = u.highest_committed_element
      /\ e # Genesis => \/ Has(u.commit_queue, e)
                        \/ \E i \in 1 .. Len(cm) : cm[i] = e
                        \/ t.highest_committed_element = e
  BY <1>1, <1>2, <1>3, EndRoundIs
<1>5. lg \in Seq(Elements) /\ cm \in Seq(Elements)
  BY <1>1, <1>4 DEF TaskInv, Resting, Sound, TaskTypes
<1>6. PICK l : l = lg \o cm
  OBVIOUS
<1>7. /\ l \in Seq(Elements)
      /\ \A x : (\E i \in 1 .. Len(lg) : lg[i] = x) => \E i \in 1 .. Len(l) : l[i] = x
      /\ \A x : (\E i \in 1 .. Len(cm) : cm[i] = x) => \E i \in 1 .. Len(l) : l[i] = x
  <2>1. PICK a \in Nat, b \in Nat : a = Len(lg) /\ b = Len(cm)
    BY <1>5
  <2>2. /\ l \in Seq(Elements) /\ Len(l) = a + b
        /\ \A i \in 1 .. (a + b) : l[i] = IF i <= a THEN lg[i] ELSE cm[i - a]
    BY <1>5, <1>6, <2>1, ConcatProperties
  <2>3. \A i \in 1 .. a : i \in 1 .. (a + b) /\ i <= a
    OBVIOUS
  <2>4. \A i \in 1 .. b : a + i \in 1 .. (a + b) /\ ~ (a + i <= a) /\ a + i - a = i
    OBVIOUS
  <2>5. ASSUME NEW x, NEW i \in 1 .. a, lg[i] = x PROVE \E j \in 1 .. Len(l) : l[j] = x
    BY <2>2, <2>3, <2>5
  <2>6. ASSUME NEW x, NEW i \in 1 .. b, cm[i] = x PROVE \E j \in 1 .. Len(l) : l[j] = x
    <3>1. l[a + i] = cm[i] /\ a + i \in 1 .. Len(l)
      BY <2>2, <2>4
    <3> QED BY <2>6, <3>1
  <2> QED BY <2>1, <2>2, <2>5, <2>6
<1>8. log' = l
  BY <1>1, <1>6 DEF EndRound
<1>9. t.highest_committed_element # Genesis =>
         \E i \in 1 .. Len(lg) : lg[i] = t.highest_committed_element
  BY <1>1 DEF TaskInv
<1>10. u.highest_committed_element # Genesis =>
         \E i \in 1 .. Len(l) : l[i] = u.highest_committed_element
  BY <1>4, <1>7, <1>9
<1>11. e # Genesis => Has(u.commit_queue, e) \/ \E i \in 1 .. Len(l) : l[i] = e
  BY <1>4, <1>7, <1>9
<1>12. e < round'
  BY DEF EndRound, TaskInv, EngineInv, Elements
<1> QED BY <1>1, <1>4, <1>7, <1>8, <1>10, <1>11, <1>12 DEF TaskInv

\* Every step keeps the invariant.
LEMMA TaskStep == TaskInv /\ [Next]_vars => TaskInv'
<1> SUFFICES ASSUME TaskInv, [Next]_vars PROVE TaskInv'
  OBVIOUS
<1>1. EngineInv'
  BY EngineStep DEF TaskInv
<1>2. highest \in Elements /\ highest < round /\ round \in 1 .. (MaxRound + 1) /\ MaxRound \in Nat
  BY CommitAssumption DEF TaskInv, EngineInv
<1>3. ASSUME NEW p \in DOMAIN db, Adopt(p) PROVE TaskInv'
  <2>1. EndRound(round) /\ highest' = round /\ round <= MaxRound
    BY <1>3 DEF Adopt, EndRound
  <2>2. round \in Elements /\ highest <= round /\ round <= round
    BY <1>2, <2>1 DEF Elements
  <2> QED BY <1>1, <2>1, <2>2, RoundEnds
<1>4. CASE EndRound(highest) /\ highest' = highest
  <2>1. highest <= highest /\ highest <= round
    BY <1>2 DEF Elements
  <2> QED BY <1>1, <1>2, <1>4, <2>1, RoundEnds
<1>5. CASE SkipRound
  BY <1>4, <1>5 DEF SkipRound
<1>6. ASSUME NEW p, MissProposal(p) PROVE TaskInv'
  BY <1>4, <1>6 DEF MissProposal
<1>7. ASSUME NEW e, Fetch(e) PROVE TaskInv'
  BY <1>1, <1>7 DEF Fetch, TaskInv
<1>8. CASE UNCHANGED vars
  BY <1>1, <1>8 DEF vars, TaskInv
<1> QED BY <1>3, <1>5, <1>6, <1>7, <1>8 DEF Next

\* The general invariant holds of every run of the task.
THEOREM TaskInvariant == Spec => []TaskInv
<1>1. Init => TaskInv
  BY TaskInit
<1>2. TaskInv /\ [Next]_vars => TaskInv'
  BY TaskStep
<1> QED BY <1>1, <1>2, PTL DEF Spec

\* For any committee, leaders, parents and missed proposals: neither expect() of
\* the commit loop (commit.rs:216-224) fails.  The counters of proposers cover
\* the queue, although a switch to a queued element counts elements twice, and
\* after every round they are too few to commit.
THEOREM TaskNeverPanics == Spec => []CountsCoverQueue
<1>1. TaskInv => CountsCoverQueue
  <2> SUFFICES ASSUME TaskInv PROVE CountsCoverQueue
    OBVIOUS
  <2>1. PICK q \in Seq(Entry), c \in Counters :
           /\ q = task.commit_queue /\ c = task.unique_proposers /\ Covers(q, c)
           /\ task.panicked = FALSE /\ Cardinality(DOMAIN c) < CommitLen
    BY DEF TaskInv, Resting, Sound, TaskTypes
  <2>2. /\ DOMAIN QueueElems = 1 .. Len(q)
        /\ \A i \in 1 .. Len(q) : QueueElems[i] = q[i].elem
    BY <2>1 DEF QueueElems
  <2>3. ASSUME NEW i \in 1 .. Len(q), NEW id, id = Author(q[i].elem)
        PROVE  id \in DOMAIN c /\ c[id] >= Occurs(q, id)
    <3>1. id \in Proposing(q)
      BY <2>3 DEF Proposing
    <3>2. Occurs(q, id) \in Nat /\ Occurs(q, id) > 0 /\ Occurs(q, id) <= Count(c, id)
      BY <2>1, <3>1, OccursIs DEF Covers
    <3>3. id \in DOMAIN c
      BY <3>2 DEF Count
    <3>4. c[id] \in Nat
      BY <3>3, CountersAre
    <3> QED BY <3>2, <3>3, <3>4 DEF Count
  <2>4. \A id : {i \in DOMAIN QueueElems : Author(QueueElems[i]) = id} = Places(q, id)
    BY <2>2 DEF Places
  <2>5. ASSUME NEW id \in {Author(QueueElems[i]) : i \in DOMAIN QueueElems}
        PROVE  /\ id \in DOMAIN c
               /\ c[id] >= Cardinality({i \in DOMAIN QueueElems : Author(QueueElems[i]) = id})
    <3>1. PICK i \in 1 .. Len(q) : id = Author(q[i].elem)
      BY <2>2
    <3> QED BY <2>3, <2>4, <3>1 DEF Occurs
  <2> QED BY <2>1, <2>5 DEF CountsCoverQueue
<1> QED BY <1>1, TaskInvariant, PTL

\* For any committee, leaders, parents and missed proposals: the element adopted
\* last is committed or in the queue, whatever switches replaced the queue.
THEOREM HighestIsKept == Spec => []HighestKept
<1>1. TaskInv => HighestKept
  <2> SUFFICES ASSUME TaskInv, highest # Genesis
               PROVE  \/ \E i \in 1 .. Len(log) : log[i] = highest
                      \/ \E i \in DOMAIN QueueElems : QueueElems[i] = highest
    BY DEF HighestKept
  <2>1. PICK q : q = task.commit_queue
    OBVIOUS
  <2>2. /\ DOMAIN QueueElems = 1 .. Len(q)
        /\ \A i \in 1 .. Len(q) : QueueElems[i] = q[i].elem
    BY <2>1 DEF QueueElems
  <2> QED BY <2>1, <2>2 DEF TaskInv, Has
<1> QED BY <1>1, TaskInvariant, PTL
==============================================================================
