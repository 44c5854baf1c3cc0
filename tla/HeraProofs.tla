----------------------------- MODULE HeraProofs -----------------------------
(***************************************************************************)
(* Proofs about Hera, for any committee, any number of rounds, blocks and  *)
(* timeouts, any schedule of leaders and any loss of messages.             *)
(*                                                                         *)
(* The state of a server is one record that handlers transform.  What a    *)
(* handler leaves alone and what it does is stated once, in a lemma about  *)
(* the record; the steps of the system follow from these.                  *)
(*                                                                         *)
(* HeraInv is about the chains and the messages and does not look into the *)
(* commit task, which changes only fields it does not depend on.  EmitInv  *)
(* is about the commit task and the output, on top of HeraInv.             *)
(***************************************************************************)
EXTENDS Hera, DataLemmas, FiniteSetTheorems

----------------------------------------------------------------------------
\* The fields of a server's state.
Fields == {"round", "timer_enabled", "blame_map", "msg_buf", "highest", "elements",
           "adopted", "pending_attestations", "pending_sig_proposals",
           "pending_sig_element_requests", "data_requests", "block_store", "heights",
           "committed_heights", "pending_data_blocks", "prev_attested_heights",
           "end_rounds", "task", "log", "emitted", "out"}

\* State t is state s but for the fields F.
Same(s, t, F) ==
    /\ DOMAIN t = Fields
    /\ \A f \in Fields \ F : t[f] = s[f]

\* The fields that change when a round ends.
AdvanceFields == {"round", "timer_enabled", "blame_map", "msg_buf", "pending_attestations",
                  "pending_sig_proposals", "data_requests", "end_rounds", "out",
                  "prev_attested_heights"}

Blocks == Ids \X (1 .. MaxBlocks)

\* The data chains of a server: it stores of each author exactly the blocks up
\* to its head, and what is parked misses its parent.
DataOK(s) ==
    /\ s.heights \in [Ids -> 0 .. MaxBlocks]
    /\ s.block_store = {b \in Blocks : Height(b) <= s.heights[AuthorOf(b)]}
    /\ s.pending_data_blocks \subseteq Blocks
    /\ \A b \in s.pending_data_blocks : Height(b) > s.heights[AuthorOf(b)] + 1

\* The blocks a server got, b among them, account for where its heads are.
Grown(s, t, b) ==
    /\ t.pending_data_blocks \subseteq s.pending_data_blocks \cup {b}
    /\ \A a \in Ids :
          /\ t.heights[a] >= s.heights[a]
          /\ \/ t.heights[a] = s.heights[a]
             \/ Block(a, t.heights[a]) \in s.pending_data_blocks \cup {b}

\* The constants are numbers, or sets and functions of them.
LEMMA Constants ==
    /\ IsFiniteSet(Ids)
    /\ MaxBlocks \in Nat /\ MaxBlames \in Nat
    /\ MaxRound \in Nat /\ MaxRound >= 1
    /\ CommitLen \in Nat
    /\ LeaderOf \in [Rounds -> Ids]
BY CommitAssumption, HeraAssumption DEF Ids, Rounds

\* A block is its author and its height.
LEMMA BlockParts ==
    /\ \A a, h : AuthorOf(Block(a, h)) = a /\ Height(Block(a, h)) = h
    /\ \A b \in Blocks : /\ AuthorOf(b) \in Ids /\ Height(b) \in 1 .. MaxBlocks
                         /\ b = Block(AuthorOf(b), Height(b))
    /\ \A a \in Ids, h \in 1 .. MaxBlocks : Block(a, h) \in Blocks
BY DEF Blocks, AuthorOf, Height, Block

\* Reach follows the blocks of B from the head as far as they go.
LEMMA Reached ==
    ASSUME NEW s, s.heights \in [Ids -> 0 .. MaxBlocks], NEW a \in Ids, NEW B
    PROVE  /\ Reach(s, a, B) \in s.heights[a] .. MaxBlocks
           /\ \A k \in (s.heights[a] + 1) .. Reach(s, a, B) : Block(a, k) \in B
           /\ Reach(s, a, B) < MaxBlocks => Block(a, Reach(s, a, B) + 1) \notin B
<1> DEFINE from == s.heights[a]
           S == {h \in from .. MaxBlocks : \A k \in (from + 1) .. h : Block(a, k) \in B}
<1>1. from \in 0 .. MaxBlocks /\ MaxBlocks \in Nat
  BY Constants
<1>2. S \subseteq Nat /\ from \in S /\ \A x \in S : x <= MaxBlocks
  BY <1>1
<1>3. Reach(s, a, B) = Max(S)
  BY DEF Reach
<1>4. \E x \in S : \A y \in S : x >= y
  <2> HIDE DEF S, from
  <2> QED BY <1>1, <1>2, GreatestNat
<1>5. Max(S) \in S /\ \A y \in S : Max(S) >= y
  <2> HIDE DEF S
  <2> QED BY <1>4 DEF Max
<1>6. PICK top \in S : top = Max(S) /\ \A y \in S : top >= y
  BY <1>5
<1>7. top \in from .. MaxBlocks /\ \A k \in (from + 1) .. top : Block(a, k) \in B
  BY <1>6
<1>8. ASSUME top < MaxBlocks, Block(a, top + 1) \in B
      PROVE  FALSE
  <2>1. top + 1 \in from .. MaxBlocks
    BY <1>1, <1>7, <1>8
  <2>2. \A k \in (from + 1) .. (top + 1) : k \in (from + 1) .. top \/ k = top + 1
    BY <1>1, <1>7
  <2>3. top + 1 \in S
    BY <1>7, <1>8, <2>1, <2>2
  <2> HIDE DEF S
  <2> QED BY <1>1, <1>6, <1>7, <2>3
<1> QED BY <1>3, <1>6, <1>7, <1>8

\* Draining the parked blocks of an author after its next block is stored.
LEMMA Drained ==
    ASSUME NEW s, DOMAIN s = Fields, DataOK(s), NEW a \in Ids,
           NEW h, h = s.heights[a] + 1, h \in 1 .. MaxBlocks,
           NEW u, u = [s EXCEPT !.block_store = @ \cup {Block(a, h)}, !.heights[a] = h],
           NEW t, t = DrainPendingForAuthor(u, a)
    PROVE  /\ DataOK(t)
           /\ Same(s, t, {"block_store", "heights", "pending_data_blocks"})
           /\ Grown(s, t, Block(a, h))
           /\ t.heights[a] >= h
<1>1. /\ u.heights = [s.heights EXCEPT ![a] = h]
      /\ u.block_store = s.block_store \cup {Block(a, h)}
      /\ u.pending_data_blocks = s.pending_data_blocks
      /\ Same(s, u, {"block_store", "heights"})
  BY DEF Same, Fields
<1>2. s.heights \in [Ids -> 0 .. MaxBlocks]
  BY DEF DataOK
<1>3. u.heights \in [Ids -> 0 .. MaxBlocks] /\ u.heights[a] = h
  BY <1>1, <1>2
<1> DEFINE top == Reach(u, a, u.pending_data_blocks)
           drained == {Block(a, k) : k \in (h + 1) .. top}
<1>4. /\ top \in h .. MaxBlocks
      /\ \A k \in (h + 1) .. top : Block(a, k) \in s.pending_data_blocks
      /\ top < MaxBlocks => Block(a, top + 1) \notin s.pending_data_blocks
  <2>1. /\ top \in u.heights[a] .. MaxBlocks
        /\ \A k \in (u.heights[a] + 1) .. top : Block(a, k) \in u.pending_data_blocks
        /\ top < MaxBlocks => Block(a, top + 1) \notin u.pending_data_blocks
    BY <1>3, Reached
  <2> HIDE DEF top
  <2> QED BY <1>1, <1>3, <2>1
<1>5. /\ t.heights = [s.heights EXCEPT ![a] = top]
      /\ t.block_store = (s.block_store \cup {Block(a, h)}) \cup drained
      /\ t.pending_data_blocks = s.pending_data_blocks \ drained
      /\ Same(s, t, {"block_store", "heights", "pending_data_blocks"})
  <2>1. u.heights[a] = h
    BY <1>3
  <2>2. t = [u EXCEPT !.block_store = @ \cup drained,
                      !.pending_data_blocks = @ \ drained,
                      !.heights[a] = top]
    BY <2>1 DEF DrainPendingForAuthor
  <2> HIDE DEF top, drained
  <2>3. /\ t.heights = [u.heights EXCEPT ![a] = top]
        /\ t.block_store = u.block_store \cup drained
        /\ t.pending_data_blocks = u.pending_data_blocks \ drained
        /\ Same(u, t, {"block_store", "heights", "pending_data_blocks"})
    BY <1>1, <2>2 DEF Same, Fields
  <2>4. t.heights = [s.heights EXCEPT ![a] = top]
    BY <1>1, <1>2, <1>3, <2>3
  <2> QED BY <1>1, <2>3, <2>4 DEF Same, Fields
<1> HIDE DEF top
<1>6. PICK n \in Nat : n = top /\ n \in h .. MaxBlocks
  BY <1>4, Constants
<1>7. /\ t.heights \in [Ids -> 0 .. MaxBlocks] /\ t.heights[a] = n
      /\ \A c \in Ids \ {a} : t.heights[c] = s.heights[c]
  BY <1>2, <1>5, <1>6, Constants
<1>8. ASSUME NEW b \in Blocks
      PROVE  b \in t.block_store <=> Height(b) <= t.heights[AuthorOf(b)]
  <2>1. /\ AuthorOf(b) \in Ids /\ Height(b) \in 1 .. MaxBlocks
        /\ b = Block(AuthorOf(b), Height(b))
    BY BlockParts
  <2>2. b \in s.block_store <=> Height(b) <= s.heights[AuthorOf(b)]
    BY DEF DataOK
  <2>3. CASE AuthorOf(b) # a
    <3>1. b # Block(a, h) /\ b \notin drained
      BY <2>3, BlockParts
    <3> QED BY <1>5, <1>7, <2>1, <2>2, <2>3, <3>1
  <2>4. CASE AuthorOf(b) = a
    <3>1. b = Block(a, h) <=> Height(b) = h
      BY <2>1, <2>4, BlockParts
    <3>2. b \in drained <=> Height(b) \in (h + 1) .. n
      BY <1>6, <2>1, <2>4, BlockParts
    <3>3. s.heights[a] \in 0 .. MaxBlocks
      BY <1>2
    <3> HIDE DEF drained
    <3> QED BY <1>5, <1>6, <1>7, <2>1, <2>2, <2>4, <3>1, <3>2, <3>3, Constants
  <2> QED BY <2>3, <2>4
<1>9. t.block_store \subseteq Blocks
  <2>1. s.block_store \subseteq Blocks
    BY DEF DataOK
  <2>2. Block(a, h) \in Blocks
    BY BlockParts
  <2>3. drained \subseteq s.pending_data_blocks
    BY <1>4
  <2> HIDE DEF drained
  <2> QED BY <1>5, <2>1, <2>2, <2>3 DEF DataOK
<1>10. ASSUME NEW b \in t.pending_data_blocks
       PROVE  Height(b) > t.heights[AuthorOf(b)] + 1
  <2>1. b \in s.pending_data_blocks /\ b \notin drained
    BY <1>5
  <2>2. /\ AuthorOf(b) \in Ids /\ Height(b) \in 1 .. MaxBlocks
        /\ b = Block(AuthorOf(b), Height(b))
        /\ Height(b) > s.heights[AuthorOf(b)] + 1
    BY <2>1, BlockParts DEF DataOK
  <2>3. CASE AuthorOf(b) # a
    BY <1>7, <2>2, <2>3
  <2>4. CASE AuthorOf(b) = a
    <3>1. Height(b) \notin (h + 1) .. n
      BY <1>6, <2>1, <2>2, <2>4
    <3>2. s.heights[a] \in 0 .. MaxBlocks
      BY <1>2
    <3>3. Height(b) > n
      BY <1>6, <2>2, <2>4, <3>1, <3>2, Constants
    <3>4. Height(b) # n + 1
      <4> HIDE DEF drained
      <4> QED BY <1>4, <1>6, <2>1, <2>2, <2>4, <3>3, Constants
    <3> QED BY <1>6, <1>7, <2>2, <2>4, <3>3, <3>4
  <2> QED BY <2>3, <2>4
<1>11. DataOK(t)
  <2>1. t.pending_data_blocks \subseteq Blocks
    BY <1>5 DEF DataOK
  <2>2. t.block_store = {b \in Blocks : Height(b) <= t.heights[AuthorOf(b)]}
    BY <1>8, <1>9
  <2> QED BY <1>7, <1>10, <2>1, <2>2 DEF DataOK
<1>12. Grown(s, t, Block(a, h))
  <2>1. t.pending_data_blocks \subseteq s.pending_data_blocks \cup {Block(a, h)}
    BY <1>5
  <2>2. ASSUME NEW c \in Ids
        PROVE  /\ t.heights[c] >= s.heights[c]
               /\ \/ t.heights[c] = s.heights[c]
                  \/ Block(c, t.heights[c]) \in s.pending_data_blocks \cup {Block(a, h)}
    <3>1. s.heights[c] \in 0 .. MaxBlocks
      BY <1>2
    <3>2. CASE c # a
      BY <1>7, <3>1, <3>2
    <3>3. CASE c = a
      <4>1. n = h \/ n \in (h + 1) .. n
        BY <1>6
      <4>2. Block(a, n) \in s.pending_data_blocks \cup {Block(a, h)}
        BY <1>4, <1>6, <4>1
      <4> QED BY <1>6, <1>7, <3>1, <3>3, <4>2
    <3> QED BY <3>2, <3>3
  <2> QED BY <2>1, <2>2 DEF Grown
<1> QED BY <1>5, <1>6, <1>7, <1>11, <1>12

\* Admission keeps the data chains: the case of a block on a stored block below
\* the head cannot be met.
LEMMA AdmitOK ==
    ASSUME NEW s, DOMAIN s = Fields, DataOK(s), NEW b \in Blocks,
           NEW t, t = Admit(s, b)
    PROVE  /\ DataOK(t)
           /\ Same(s, t, {"block_store", "heights", "pending_data_blocks",
                           "pending_attestations"})
           /\ Grown(s, t, b)
           /\ Height(b) = s.heights[AuthorOf(b)] + 1 => b \notin t.pending_data_blocks
<1> DEFINE a == AuthorOf(b)
           h == Height(b)
           u == [s EXCEPT !.block_store = @ \cup {Block(a, h)}, !.heights[a] = h]
           d == DrainPendingForAuthor(u, a)
<1>1. a \in Ids /\ h \in 1 .. MaxBlocks /\ b = Block(a, h)
  BY BlockParts
<1>2. s.heights \in [Ids -> 0 .. MaxBlocks] /\ s.heights[a] \in 0 .. MaxBlocks
  BY <1>1 DEF DataOK
<1>3. b \in s.block_store <=> h <= s.heights[a]
  BY DEF DataOK
<1>4. CASE b \in s.block_store
  <2>1. t = s
    BY <1>4 DEF Admit
  <2>2. Grown(s, s, b)
    BY <1>2 DEF Grown
  <2>3. h # s.heights[a] + 1
    BY <1>1, <1>2, <1>3, <1>4
  <2> QED BY <2>1, <2>2, <2>3 DEF Same
<1>5. CASE b \notin s.block_store /\ h = s.heights[a] + 1
  <2>1. [[s EXCEPT !.block_store = @ \cup {b}] EXCEPT !.heights[a] = h] = u
    BY <1>1 DEF Fields
  <2>2. t = DrainPendingAttestations(d, Block(a, d.heights[a]))
    BY <1>1, <1>5, <2>1 DEF Admit
  <2>3. /\ DataOK(d)
        /\ Same(s, d, {"block_store", "heights", "pending_data_blocks"})
        /\ Grown(s, d, b)
        /\ d.heights[a] >= h
    <3> HIDE DEF a, h
    <3> QED BY <1>1, <1>5, Drained
  <2> HIDE DEF d
  <2>4. Same(d, t, {"pending_attestations"})
    BY <2>2, <2>3 DEF DrainPendingAttestations, Same, Fields
  <2>5. /\ t.heights = d.heights /\ t.block_store = d.block_store
        /\ t.pending_data_blocks = d.pending_data_blocks
    BY <2>4 DEF Same, Fields
  <2>6. DataOK(t) /\ Grown(s, t, b)
    BY <2>3, <2>5 DEF DataOK, Grown
  <2>7. Same(s, t, {"block_store", "heights", "pending_data_blocks",
                    "pending_attestations"})
    BY <2>3, <2>4 DEF Same, Fields
  <2>8. b \notin t.pending_data_blocks
    <3>1. d.heights[a] \in 0 .. MaxBlocks
      BY <1>1, <2>3 DEF DataOK
    <3> QED BY <1>1, <2>3, <2>5, <2>6, <3>1 DEF DataOK
  <2> QED BY <2>6, <2>7, <2>8
<1>6. CASE b \notin s.block_store /\ h # s.heights[a] + 1
  <2>1. h > s.heights[a] + 1
    BY <1>1, <1>2, <1>3, <1>6
  <2>2. Block(a, h - 1) \notin s.block_store /\ h # 1
    BY <1>1, <1>2, <2>1, BlockParts DEF DataOK
  <2>3. t = [s EXCEPT !.pending_data_blocks = @ \cup {b}]
    BY <1>6, <2>2 DEF Admit
  <2>4. /\ t.heights = s.heights /\ t.block_store = s.block_store
        /\ t.pending_data_blocks = s.pending_data_blocks \cup {b}
        /\ Same(s, t, {"block_store", "heights", "pending_data_blocks",
                        "pending_attestations"})
    BY <2>3 DEF Same, Fields
  <2>5. DataOK(t)
    BY <2>1, <2>4 DEF DataOK
  <2>6. Grown(s, t, b)
    BY <1>2, <2>4 DEF Grown
  <2> QED BY <1>6, <2>4, <2>5, <2>6
<1> QED BY <1>4, <1>5, <1>6

----------------------------------------------------------------------------
\* What else is true of a server's state, given the proposals made.
SigOK(s) ==
    /\ s.round \in 1 .. (MaxRound + 1)
    /\ s.out = {}
    /\ {Genesis, s.highest} \subseteq s.elements
    /\ s.elements \subseteq {Genesis} \cup DOMAIN proposals
    /\ s.adopted \subseteq DOMAIN proposals
    /\ \A r \in s.adopted : r < s.round
    /\ Genesis \notin s.pending_sig_element_requests
    /\ s.pending_sig_proposals \subseteq s.pending_sig_element_requests

Shape == DOMAIN node = Ids /\ \A i \in Ids : DOMAIN node[i] = Fields

\* A server knows of no block that its author has not made.
HeadsOwned ==
    \A i \in Ids :
        /\ \A a \in Ids : node[i].heights[a] <= MyHeight(a)
        /\ \A b \in node[i].pending_data_blocks : Height(b) <= MyHeight(AuthorOf(b))

\* A proposal was made in a round, and someone has the element it extends.
ProposalsOK ==
    /\ DOMAIN proposals \subseteq Rounds
    /\ \A r \in DOMAIN proposals :
          /\ proposals[r].heads \in [Ids -> 0 .. MaxBlocks]
          /\ \E j \in Ids : proposals[r].parent \in node[j].elements

\* A quorum blamed round r, if bl are the blames.
Quorum(bl, r) == Cardinality(bl[r]) >= CommitLen

\* A quorum blamed round r or an earlier one since which none of ad was adopted.
Earned(ad, bl, r) == \E q \in 1 .. r : Quorum(bl, q) /\ ((q + 1) .. r) \cap ad = {}

\* A message of a round before r is what it says it is.
MessageOK(m, r, bl) ==
    /\ m.round \in Rounds /\ m.round < r
    /\ m.type \in {"SigBlame", "SigBlameQC"}
    /\ m.type = "SigBlame" => m.no \in bl[m.round]
    /\ m.type = "SigBlameQC" => Quorum(bl, m.round)

\* A blame in the map was sent.
MapOK(map, r, bl) ==
    /\ DOMAIN map \subseteq Ids
    /\ \A j \in DOMAIN map : map[j] \in Rounds /\ map[j] <= r /\ j \in bl[map[j]]

\* Blames and QCs of earlier rounds are left only where a quorum has blamed since
\* the last proposal that was adopted.
LateOK(s, bl) ==
    /\ \A m \in s.msg_buf : MessageOK(m, s.round, bl)
    /\ MapOK(s.blame_map, s.round, bl)
    /\ \/ s.msg_buf # {}
       \/ \E j \in DOMAIN s.blame_map : s.blame_map[j] # s.round
       => Earned(s.adopted, bl, s.round - 1)

SkipsOK(s, bl) ==
    \A r \in (1 .. (s.round - 1)) \ s.adopted : Earned(s.adopted, bl, r)

\* A QC was formed from the blames of a quorum.
BlamesOK ==
    /\ blamed \in [Rounds -> SUBSET Ids]
    /\ qcs \in [Rounds -> Nat]
    /\ \A r \in Rounds : qcs[r] > 0 => Quorum(blamed, r)
    /\ \A i \in Ids : LateOK(node[i], blamed)

Fetchable ==
    \A i \in Ids : \A e \in node[i].pending_sig_element_requests :
        \E j \in Ids : e \in node[j].elements

\* The inductive invariant.
HeraInv ==
    /\ Shape
    /\ \A i \in Ids : SigOK(node[i]) /\ DataOK(node[i])
    /\ HeadsOwned
    /\ ProposalsOK
    /\ BlamesOK
    /\ Fetchable
    /\ SkipsEarned
    /\ AdoptedBacked

----------------------------------------------------------------------------
\* What every handler of server i achieves, if t is the state it ends in.
GoodData(i, t) ==
    /\ DOMAIN t = Fields
    /\ DataOK(t)
    /\ \A a \in Ids : /\ t.heights[a] >= node[i].heights[a]
                      /\ a # i => t.heights[a] <= MyHeight(a)
    /\ \A b \in t.pending_data_blocks :
          Height(b) <= MyHeight(AuthorOf(b)) \/ (AuthorOf(b) = i /\ Height(b) <= t.heights[i])

GoodElements(i, t) ==
    /\ node[i].elements \subseteq t.elements
    /\ t.elements \subseteq {Genesis} \cup DOMAIN proposals
    /\ t.highest \in t.elements
    /\ t.adopted \subseteq DOMAIN proposals
    /\ \A r \in t.adopted \ node[i].adopted :
          /\ proposals[r].parent \in t.elements
          /\ \A a \in Ids : proposals[r].heads[a] <= t.heights[a]
    /\ Genesis \notin t.pending_sig_element_requests
    /\ t.pending_sig_proposals \subseteq t.pending_sig_element_requests
    /\ \A e \in t.pending_sig_element_requests : \E j \in Ids : e \in node[j].elements

GoodRound(i, t) ==
    /\ t.round \in 1 .. (MaxRound + 1)
    /\ \A r \in t.adopted : r < t.round
    /\ t.out # {} =>
          /\ t.round \in Rounds
          /\ \E p : /\ t.out = {p} /\ p.parent \in t.elements
                    /\ p.heads \in [Ids -> 0 .. MaxBlocks]
    /\ node[i].adopted \subseteq t.adopted

\* The blames after the step account for the rounds it ends.
GoodBlames(i, t, blamed1, qcs1) ==
    /\ blamed1 \in [Rounds -> SUBSET Ids]
    /\ \A r \in Rounds : blamed[r] \subseteq blamed1[r]
    /\ qcs1 \in [Rounds -> Nat]
    /\ \A r \in Rounds : qcs1[r] > 0 => Quorum(blamed1, r)
    /\ LateOK(t, blamed1)
    /\ SkipsOK(t, blamed1)

\* More blames make no quorum smaller.
LEMMA QuorumStays ==
    ASSUME NEW A, NEW B \in SUBSET Ids, A \subseteq B, Cardinality(A) >= CommitLen
    PROVE  Cardinality(B) >= CommitLen
<1>1. IsFiniteSet(B)
  BY Constants, FS_Subset
<1>2. IsFiniteSet(A) /\ Cardinality(A) <= Cardinality(B)
  BY <1>1, FS_Subset
<1>3. Cardinality(A) \in Nat /\ Cardinality(B) \in Nat
  BY <1>1, <1>2, FS_CardinalityType
<1> QED BY <1>2, <1>3, Constants

\* nor what was earned unearned.
LEMMA EarnedStays ==
    ASSUME NEW bl \in [Rounds -> SUBSET Ids], NEW bl1 \in [Rounds -> SUBSET Ids],
           \A r \in Rounds : bl[r] \subseteq bl1[r],
           NEW s, s.round \in 1 .. (MaxRound + 1), LateOK(s, bl), SkipsOK(s, bl)
    PROVE  LateOK(s, bl1) /\ SkipsOK(s, bl1)
<1>1. \A r \in Rounds : Quorum(bl, r) => Quorum(bl1, r)
  BY QuorumStays DEF Quorum
<1>2. ASSUME NEW r \in Int, r < s.round, Earned(s.adopted, bl, r)
      PROVE  Earned(s.adopted, bl1, r)
  <2>1. PICK q \in 1 .. r : Quorum(bl, q) /\ ((q + 1) .. r) \cap s.adopted = {}
    BY <1>2 DEF Earned
  <2>2. q \in Rounds
    BY <1>2, <2>1, Constants DEF Rounds
  <2> QED BY <1>1, <2>1, <2>2 DEF Earned
<1>3. SkipsOK(s, bl1)
  <2>1. \A r \in 1 .. (s.round - 1) : r \in Int /\ r < s.round
    BY Constants
  <2> QED BY <1>2, <2>1 DEF SkipsOK
<1>4. \A m \in s.msg_buf : MessageOK(m, s.round, bl1)
  BY <1>1 DEF LateOK, MessageOK
<1>5. MapOK(s.blame_map, s.round, bl1)
  BY DEF LateOK, MapOK
<1>6. s.round - 1 \in Int /\ s.round - 1 < s.round
  BY Constants
<1>7. Earned(s.adopted, bl, s.round - 1) => Earned(s.adopted, bl1, s.round - 1)
  BY <1>2, <1>6
<1> QED BY <1>3, <1>4, <1>5, <1>7 DEF LateOK

\* The effect of a step: server i is in state t, and its proposal is made.
LEMMA DoneEffect ==
    ASSUME NEW i \in Ids, NEW t, DOMAIN t = Fields, Shape, Done(i, t)
    PROVE  /\ DOMAIN node' = Ids
           /\ \A j \in Ids \ {i} : node'[j] = node[j]
           /\ Same(t, node'[i], {"out"}) /\ node'[i].out = {}
           /\ DOMAIN proposals' = DOMAIN proposals \cup {t.round : p \in t.out}
           /\ \A r \in DOMAIN proposals : proposals'[r] = proposals[r]
           /\ \A r \in DOMAIN proposals' \ DOMAIN proposals :
                 r = t.round /\ t.out # {} /\ proposals'[r] = CHOOSE p \in t.out : TRUE
<1>1. DOMAIN node = Ids
  BY DEF Shape
<1>2. node' = [node EXCEPT ![i] = [t EXCEPT !.out = {}]]
  BY DEF Done
<1>3. Same(t, [t EXCEPT !.out = {}], {"out"}) /\ [t EXCEPT !.out = {}].out = {}
  BY DEF Same, Fields
<1>4. /\ DOMAIN node' = Ids
      /\ \A j \in Ids \ {i} : node'[j] = node[j]
      /\ node'[i] = [t EXCEPT !.out = {}]
  BY <1>1, <1>2
<1>5. proposals' = [r \in DOMAIN proposals \cup {t.round : p \in t.out} |->
                        IF r \in DOMAIN proposals THEN proposals[r]
                        ELSE CHOOSE p \in t.out : TRUE]
  BY DEF Done
<1> QED BY <1>3, <1>4, <1>5

\* A step whose handler does all this keeps the invariant.
LEMMA StepOK ==
    ASSUME NEW i \in Ids, NEW t, HeraInv, Done(i, t),
           GoodData(i, t), GoodElements(i, t), GoodRound(i, t),
           GoodBlames(i, t, blamed', qcs')
    PROVE  HeraInv'
<1>1. Shape /\ DOMAIN t = Fields
  BY DEF HeraInv, GoodData
<1>2. /\ DOMAIN node' = Ids
      /\ \A j \in Ids \ {i} : node'[j] = node[j]
      /\ Same(t, node'[i], {"out"}) /\ node'[i].out = {}
      /\ DOMAIN proposals' = DOMAIN proposals \cup {t.round : p \in t.out}
      /\ \A r \in DOMAIN proposals : proposals'[r] = proposals[r]
      /\ \A r \in DOMAIN proposals' \ DOMAIN proposals :
            r = t.round /\ t.out # {} /\ proposals'[r] = CHOOSE p \in t.out : TRUE
  BY <1>1, DoneEffect
<1>3. /\ node'[i].round = t.round /\ node'[i].blame_map = t.blame_map
      /\ node'[i].msg_buf = t.msg_buf
      /\ node'[i].highest = t.highest /\ node'[i].elements = t.elements
      /\ node'[i].adopted = t.adopted
      /\ node'[i].pending_sig_proposals = t.pending_sig_proposals
      /\ node'[i].pending_sig_element_requests = t.pending_sig_element_requests
      /\ node'[i].block_store = t.block_store /\ node'[i].heights = t.heights
      /\ node'[i].pending_data_blocks = t.pending_data_blocks
  BY <1>2 DEF Same, Fields
<1>4. DOMAIN proposals \subseteq DOMAIN proposals'
  BY <1>2
<1>5. Shape'
  BY <1>1, <1>2 DEF Shape, Same
<1>6. \A j \in Ids : SigOK(node[j]) /\ DataOK(node[j]) /\ node[j].elements \subseteq node'[j].elements
  BY <1>2, <1>3 DEF HeraInv, GoodElements
<1>7. \A j \in Ids : SigOK(node[j])' /\ DataOK(node[j])'
  <2>1. ASSUME NEW j \in Ids \ {i}
        PROVE  SigOK(node[j])' /\ DataOK(node[j])'
    <3>1. SigOK(node[j]) /\ DataOK(node[j]) /\ node'[j] = node[j]
      BY <1>2, <1>6
    <3> QED BY <1>4, <3>1 DEF SigOK, DataOK
  <2>2. SigOK(node[i])'
    <3>1. Genesis \in node[i].elements
      BY <1>6 DEF SigOK
    <3> QED BY <1>2, <1>3, <1>4, <3>1 DEF SigOK, GoodElements, GoodRound
  <2>3. DataOK(node[i])'
    BY <1>3 DEF DataOK, GoodData
  <2> QED BY <2>1, <2>2, <2>3
<1>8. \A j \in Ids : node[j].heights \in [Ids -> 0 .. MaxBlocks]
                     /\ node'[j].heights \in [Ids -> 0 .. MaxBlocks]
  BY <1>6, <1>7 DEF DataOK
<1>9. \A j, a \in Ids : node'[j].heights[a] >= node[j].heights[a]
  BY <1>2, <1>3, <1>8 DEF GoodData
<1>10. HeadsOwned'
  <2>1. ASSUME NEW a \in Ids
        PROVE  /\ MyHeight(a)' >= MyHeight(a)
               /\ MyHeight(a) \in 0 .. MaxBlocks /\ MyHeight(a)' \in 0 .. MaxBlocks
    BY <1>8, <1>9 DEF MyHeight
  <2>2. ASSUME NEW j \in Ids, NEW a \in Ids
        PROVE  node'[j].heights[a] <= MyHeight(a)'
    <3>1. CASE j # i
      <4>1. node'[j].heights[a] <= MyHeight(a)
        BY <1>2, <3>1 DEF HeraInv, HeadsOwned
      <4> QED BY <1>8, <2>1, <4>1
    <3>2. CASE j = i /\ a # i
      <4>1. node'[j].heights[a] <= MyHeight(a)
        BY <1>3, <3>2 DEF GoodData
      <4> QED BY <1>8, <2>1, <4>1
    <3>3. CASE j = i /\ a = i
      BY <1>8, <3>3 DEF MyHeight
    <3> QED BY <3>1, <3>2, <3>3
  <2>3. ASSUME NEW j \in Ids, NEW b \in node'[j].pending_data_blocks
        PROVE  Height(b) <= MyHeight(AuthorOf(b))'
    <3>1. AuthorOf(b) \in Ids /\ Height(b) \in 1 .. MaxBlocks
      BY <1>7, BlockParts DEF DataOK
    <3>2. CASE j # i
      <4>1. Height(b) <= MyHeight(AuthorOf(b))
        BY <1>2, <3>2 DEF HeraInv, HeadsOwned
      <4> QED BY <2>1, <3>1, <4>1
    <3>3. CASE j = i
      <4>1. \/ Height(b) <= MyHeight(AuthorOf(b))
            \/ AuthorOf(b) = i /\ Height(b) <= MyHeight(i)'
        BY <1>3, <3>3 DEF GoodData, MyHeight
      <4> QED BY <2>1, <3>1, <4>1
    <3> QED BY <3>2, <3>3
  <2> QED BY <2>2, <2>3 DEF HeadsOwned
<1>11. ProposalsOK'
  <2>1. ASSUME NEW r \in DOMAIN proposals
        PROVE  /\ r \in Rounds
               /\ proposals'[r].heads \in [Ids -> 0 .. MaxBlocks]
               /\ \E j \in Ids : proposals'[r].parent \in node'[j].elements
    <3>1. /\ r \in Rounds /\ proposals[r].heads \in [Ids -> 0 .. MaxBlocks]
          /\ \E j \in Ids : proposals[r].parent \in node[j].elements
      BY DEF HeraInv, ProposalsOK
    <3> QED BY <1>2, <1>6, <3>1
  <2>2. ASSUME NEW r \in DOMAIN proposals' \ DOMAIN proposals
        PROVE  /\ r \in Rounds
               /\ proposals'[r].heads \in [Ids -> 0 .. MaxBlocks]
               /\ \E j \in Ids : proposals'[r].parent \in node'[j].elements
    <3>1. r = t.round /\ t.out # {} /\ proposals'[r] = CHOOSE p \in t.out : TRUE
      BY <1>2
    <3>2. PICK p : /\ t.out = {p} /\ p.parent \in t.elements
                   /\ p.heads \in [Ids -> 0 .. MaxBlocks] /\ r \in Rounds
      BY <3>1 DEF GoodRound
    <3>3. proposals'[r] = p
      BY <3>1, <3>2
    <3> QED BY <1>3, <3>2, <3>3
  <2> QED BY <2>1, <2>2 DEF ProposalsOK, Rounds
<1>12. \A j \in Ids : LateOK(node'[j], blamed') /\ SkipsOK(node'[j], blamed')
  <2>1. CASE GoodBlames(i, t, blamed', qcs')
    <3>1. LateOK(node'[i], blamed') /\ SkipsOK(node'[i], blamed')
      BY <1>3, <2>1 DEF GoodBlames, LateOK, SkipsOK
    <3>2. ASSUME NEW j \in Ids \ {i}
          PROVE  LateOK(node'[j], blamed') /\ SkipsOK(node'[j], blamed')
      <4>1. node'[j] = node[j]
        BY <1>2
      <4>2. /\ LateOK(node[j], blamed) /\ SkipsOK(node[j], blamed)
            /\ blamed \in [Rounds -> SUBSET Ids]
        BY DEF HeraInv, BlamesOK, SkipsEarned, SkipsOK, Earned, Quorum
      <4>3. node[j].round \in 1 .. (MaxRound + 1)
        BY <1>6 DEF SigOK
      <4>4. /\ blamed' \in [Rounds -> SUBSET Ids]
            /\ \A r \in Rounds : blamed[r] \subseteq blamed'[r]
        BY <2>1 DEF GoodBlames
      <4> QED BY <4>1, <4>2, <4>3, <4>4, EarnedStays
    <3> QED BY <3>1, <3>2
  <2> QED BY <2>1
<1>16. BlamesOK'
  BY <1>12 DEF GoodBlames, BlamesOK, Rounds
<1>13. Fetchable'
  <2>1. ASSUME NEW j \in Ids, NEW e \in node'[j].pending_sig_element_requests
        PROVE  \E k \in Ids : e \in node[k].elements
    BY <1>2, <1>3 DEF GoodElements, HeraInv, Fetchable
  <2> QED BY <1>6, <2>1 DEF Fetchable
<1>14. SkipsEarned'
  BY <1>12 DEF SkipsEarned, SkipsOK, Earned, Quorum
<1>15. AdoptedBacked'
  <2>1. ASSUME NEW j \in Ids, NEW r \in node'[j].adopted
        PROVE  /\ proposals'[r].parent \in node'[j].elements
               /\ \A a \in Ids : \A h \in 1 .. proposals'[r].heads[a] :
                     Block(a, h) \in node'[j].block_store
    <3>1. /\ node'[j].adopted \subseteq DOMAIN proposals /\ proposals'[r] = proposals[r]
          /\ proposals[r].heads \in [Ids -> 0 .. MaxBlocks]
      BY <1>2, <1>3, <1>6 DEF GoodElements, SigOK, HeraInv, ProposalsOK
    <3>2. CASE r \in node[j].adopted
      <4>1. /\ proposals[r].parent \in node[j].elements
            /\ \A a \in Ids : \A h \in 1 .. proposals[r].heads[a] :
                  Block(a, h) \in node[j].block_store
        BY <3>2 DEF HeraInv, AdoptedBacked
      <4>2. node[j].block_store \subseteq node'[j].block_store
        <5>1. ASSUME NEW b \in node[j].block_store
              PROVE  b \in node'[j].block_store
          <6>1. b \in Blocks /\ Height(b) <= node[j].heights[AuthorOf(b)]
            BY <1>6 DEF DataOK
          <6>2. AuthorOf(b) \in Ids /\ Height(b) \in 1 .. MaxBlocks
            BY <6>1, BlockParts
          <6>3. Height(b) <= node'[j].heights[AuthorOf(b)]
            BY <1>8, <1>9, <6>1, <6>2
          <6> QED BY <1>7, <6>1, <6>3 DEF DataOK
        <5> QED BY <5>1
      <4> QED BY <1>6, <3>1, <4>1, <4>2
    <3>3. CASE r \notin node[j].adopted
      <4>1. j = i /\ r \in t.adopted
        BY <1>2, <1>3, <3>3
      <4>2. /\ proposals[r].parent \in t.elements
            /\ \A a \in Ids : proposals[r].heads[a] <= t.heights[a]
        BY <3>3, <4>1 DEF GoodElements
      <4>3. ASSUME NEW a \in Ids, NEW h \in 1 .. proposals[r].heads[a]
            PROVE  Block(a, h) \in t.block_store
        <5>1. proposals[r].heads[a] \in 0 .. MaxBlocks /\ t.heights[a] \in 0 .. MaxBlocks
          BY <3>1 DEF GoodData, DataOK
        <5>2. h \in 1 .. MaxBlocks /\ h <= t.heights[a]
          BY <4>2, <5>1, Constants
        <5>3. Block(a, h) \in Blocks /\ AuthorOf(Block(a, h)) = a /\ Height(Block(a, h)) = h
          BY <5>2, BlockParts
        <5> QED BY <5>2, <5>3 DEF GoodData, DataOK
      <4> QED BY <1>3, <3>1, <4>1, <4>2, <4>3
    <3> QED BY <3>2, <3>3
  <2> QED BY <2>1 DEF AdoptedBacked
<1> QED BY <1>5, <1>7, <1>10, <1>11, <1>13, <1>14, <1>15, <1>16 DEF HeraInv

----------------------------------------------------------------------------
\* What advance_sig_round does to a server's state.
LEMMA AdvanceOK ==
    ASSUME NEW i \in Ids, NEW s, DOMAIN s = Fields, s.out = {}, s.round \in Rounds,
           s.highest \in s.elements, s.heights \in [Ids -> 0 .. MaxBlocks],
           NEW rest, NEW t, t = AdvanceSigRound(i, s, rest)
    PROVE  /\ Same(s, t, AdvanceFields)
           /\ t.round = s.round + 1 /\ t.blame_map = NoBlames /\ t.msg_buf \subseteq rest
           /\ t.pending_sig_proposals = {}
           /\ t.out # {} =>
                 /\ t.round \in Rounds
                 /\ \E p : /\ t.out = {p} /\ p.parent \in s.elements
                           /\ p.heads \in [Ids -> 0 .. MaxBlocks]
<1> DEFINE buf == {m \in rest : i \in Lagging /\ s.round <= MaxLate}
           asked == (s.data_requests \cup s.pending_attestations) \ s.block_store
           u == [s EXCEPT !.round = @ + 1, !.timer_enabled = TRUE, !.blame_map = NoBlames,
                          !.msg_buf = buf,
                          !.pending_attestations = {}, !.pending_sig_proposals = {},
                          !.data_requests = (@ \cup s.pending_attestations) \ s.block_store,
                          !.end_rounds = Append(@, s.highest)]
<1>1. /\ Same(s, u, AdvanceFields \ {"out", "prev_attested_heights"})
      /\ u.round = s.round + 1 /\ u.blame_map = NoBlames /\ u.msg_buf \subseteq rest
      /\ u.pending_sig_proposals = {}
  <2> HIDE DEF buf
  <2>1. /\ Same(s, u, AdvanceFields \ {"out", "prev_attested_heights"})
        /\ u.round = s.round + 1 /\ u.blame_map = NoBlames /\ u.msg_buf = buf
        /\ u.pending_sig_proposals = {}
    BY DEF Same, Fields, AdvanceFields
  <2>2. buf \subseteq rest
    BY DEF buf
  <2> QED BY <2>1, <2>2
<1>2. t = IF u.round \in Rounds /\ LeaderOf[u.round] = i THEN HandleNewSigRound(u) ELSE u
  BY Zenon DEF AdvanceSigRound
<1> HIDE DEF u
<1>3. u.out = {} /\ u.highest = s.highest /\ u.elements = s.elements /\ u.heights = s.heights
  BY <1>1 DEF Same, Fields, AdvanceFields
<1>4. CASE u.round \in Rounds /\ LeaderOf[u.round] = i
  <2> DEFINE p == [parent |-> u.highest, heads |-> MakeMultiAttestation(u)]
  <2>1. t = [u EXCEPT !.out = {p}, !.prev_attested_heights = u.heights]
    BY <1>2, <1>4 DEF HandleNewSigRound
  <2>2. p.parent = s.highest /\ p.heads = MakeMultiAttestation(u)
    BY <1>3
  <2>3. MakeMultiAttestation(u) \in [Ids -> 0 .. MaxBlocks]
    BY <1>3, Constants DEF MakeMultiAttestation
  <2> HIDE DEF p
  <2>4. Same(u, t, {"out", "prev_attested_heights"}) /\ t.out = {p}
    BY <1>1, <2>1 DEF Same, Fields
  <2>5. /\ Same(s, t, AdvanceFields)
        /\ t.round = s.round + 1 /\ t.blame_map = NoBlames /\ t.msg_buf \subseteq rest
        /\ t.pending_sig_proposals = {}
    BY <1>1, <2>4 DEF Same, Fields, AdvanceFields
  <2>6. t.round \in Rounds
    BY <1>1, <1>4, <2>5
  <2> QED BY <2>2, <2>3, <2>4, <2>5, <2>6
<1>5. CASE ~ (u.round \in Rounds /\ LeaderOf[u.round] = i)
  <2>1. t = u
    BY <1>2, <1>5
  <2> QED BY <1>1, <1>3, <2>1 DEF Same, Fields, AdvanceFields
<1> QED BY <1>4, <1>5

\* Before and after a handler that does nothing, all is as every handler leaves it.
LEMMA StayOK ==
    ASSUME NEW i \in Ids, HeraInv
    PROVE  /\ GoodData(i, node[i]) /\ GoodElements(i, node[i]) /\ GoodRound(i, node[i])
           /\ GoodBlames(i, node[i], blamed, qcs)
<1>1. DOMAIN node[i] = Fields /\ SigOK(node[i]) /\ DataOK(node[i])
  BY DEF HeraInv, Shape
<1>2. \A a \in Ids : node[i].heights[a] \in 0 .. MaxBlocks
  BY <1>1 DEF DataOK
<1>3. GoodData(i, node[i])
  BY <1>1, <1>2 DEF GoodData, HeraInv, HeadsOwned
<1>4. GoodElements(i, node[i])
  BY <1>1 DEF GoodElements, SigOK, HeraInv, Fetchable
<1>5. GoodRound(i, node[i])
  BY <1>1 DEF GoodRound, SigOK
<1>6. GoodBlames(i, node[i], blamed, qcs)
  BY DEF GoodBlames, HeraInv, BlamesOK, SkipsEarned, SkipsOK, Earned, Quorum
<1> QED BY <1>3, <1>4, <1>5, <1>6

\* The signature chain does not notice a new state of the data chains,
LEMMA DataStep ==
    ASSUME NEW i \in Ids, HeraInv, NEW t, Done(i, t), GoodData(i, t),
           Same(node[i], t, {"block_store", "heights", "pending_data_blocks",
                             "pending_attestations"}),
           UNCHANGED <<blamed, qcs>>
    PROVE  HeraInv'
<1>1. /\ GoodElements(i, node[i]) /\ GoodRound(i, node[i])
      /\ GoodBlames(i, node[i], blamed, qcs)
  BY StayOK
<1>2. /\ t.round = node[i].round /\ t.blame_map = node[i].blame_map
      /\ t.highest = node[i].highest /\ t.elements = node[i].elements
      /\ t.adopted = node[i].adopted /\ t.out = node[i].out
      /\ t.pending_sig_proposals = node[i].pending_sig_proposals
      /\ t.pending_sig_element_requests = node[i].pending_sig_element_requests
      /\ t.msg_buf = node[i].msg_buf
  BY DEF Same, Fields
<1>3. GoodElements(i, t)
  BY <1>1, <1>2 DEF GoodElements
<1>4. GoodRound(i, t)
  BY <1>1, <1>2 DEF GoodRound
<1>5. GoodBlames(i, t, blamed', qcs')
  BY <1>1, <1>2 DEF GoodBlames, LateOK, SkipsOK
<1> QED BY <1>3, <1>4, <1>5, StepOK

\* nor the data chains a new state of the signature chain.
LEMMA SigStep ==
    ASSUME NEW i \in Ids, HeraInv, NEW t, Done(i, t), DOMAIN t = Fields,
           t.block_store = node[i].block_store, t.heights = node[i].heights,
           t.pending_data_blocks = node[i].pending_data_blocks,
           GoodElements(i, t), GoodRound(i, t), GoodBlames(i, t, blamed', qcs')
    PROVE  HeraInv'
<1>1. GoodData(i, node[i])
  BY StayOK
<1>2. GoodData(i, t)
  BY <1>1 DEF GoodData, DataOK
<1> QED BY <1>2, StepOK

\* Admission of a block its author has made, or that server i makes.
LEMMA AdmitStep ==
    ASSUME NEW i \in Ids, HeraInv, NEW b \in Blocks, Done(i, Admit(node[i], b)),
           \/ Height(b) <= MyHeight(AuthorOf(b))
           \/ AuthorOf(b) = i /\ Height(b) = MyHeight(i) + 1,
           UNCHANGED <<blamed, qcs>>
    PROVE  HeraInv'
<1> DEFINE s == node[i]
<1>1. DOMAIN s = Fields /\ DataOK(s)
  BY DEF HeraInv, Shape
<1>2. PICK t : t = Admit(s, b)
  OBVIOUS
<1>3. /\ DataOK(t)
      /\ Same(s, t, {"block_store", "heights", "pending_data_blocks",
                     "pending_attestations"})
      /\ Grown(s, t, b)
      /\ Height(b) = s.heights[AuthorOf(b)] + 1 => b \notin t.pending_data_blocks
  <2> HIDE DEF s
  <2> QED BY <1>1, <1>2, AdmitOK
<1>4. /\ \A a \in Ids : MyHeight(a) \in 0 .. MaxBlocks
      /\ \A a \in Ids : s.heights[a] <= MyHeight(a) /\ s.heights[a] \in 0 .. MaxBlocks
      /\ \A a \in Ids : t.heights[a] \in 0 .. MaxBlocks
      /\ \A c \in s.pending_data_blocks : Height(c) <= MyHeight(AuthorOf(c))
  BY <1>3 DEF HeraInv, DataOK, MyHeight, HeadsOwned
<1>5. ASSUME NEW a \in Ids
      PROVE  t.heights[a] >= s.heights[a] /\ (a # i => t.heights[a] <= MyHeight(a))
  <2>1. t.heights[a] >= s.heights[a]
    BY <1>3 DEF Grown
  <2>2. ASSUME a # i
        PROVE  t.heights[a] <= MyHeight(a)
    <3>1. \/ t.heights[a] = s.heights[a]
          \/ Block(a, t.heights[a]) \in s.pending_data_blocks
          \/ Block(a, t.heights[a]) = b
      BY <1>3 DEF Grown
    <3>2. AuthorOf(Block(a, t.heights[a])) = a /\ Height(Block(a, t.heights[a])) = t.heights[a]
      BY BlockParts
    <3> QED BY <1>4, <2>2, <3>1, <3>2
  <2> QED BY <2>1, <2>2
<1>6. ASSUME NEW c \in t.pending_data_blocks
      PROVE  Height(c) <= MyHeight(AuthorOf(c))
  <2>1. c \in s.pending_data_blocks \/ c = b
    BY <1>3 DEF Grown
  <2>2. CASE c \in s.pending_data_blocks
    BY <1>4, <2>2
  <2>3. CASE c = b
    BY <1>3, <2>3 DEF MyHeight
  <2> QED BY <2>1, <2>2, <2>3
<1>7. GoodData(i, t)
  BY <1>3, <1>5, <1>6 DEF GoodData, Same
<1> QED BY <1>2, <1>3, <1>7, DataStep

\* There is room for an author's next block while fewer than MaxBlocks are made.
LEMMA RoomForNext ==
    ASSUME NEW i \in Ids, HeraInv, Cardinality(Proposed) < MaxBlocks
    PROVE  MyHeight(i) < MaxBlocks
<1> DEFINE m == MyHeight(i)
           own == {i} \X (1 .. m)
<1>1. m \in 0 .. MaxBlocks /\ MaxBlocks \in Nat /\ IsFiniteSet(Ids)
  BY Constants DEF HeraInv, DataOK, MyHeight
<1>2. IsFiniteSet(own) /\ Cardinality(own) = m
  <2>1. IsFiniteSet({i}) /\ Cardinality({i}) = 1
    BY FS_Singleton
  <2>2. IsFiniteSet(1 .. m) /\ Cardinality(1 .. m) = m
    BY <1>1, FS_Interval
  <2>3. m \in Nat
    BY <1>1
  <2> HIDE DEF m
  <2>4. /\ IsFiniteSet({i} \X (1 .. m))
        /\ Cardinality({i} \X (1 .. m)) = Cardinality({i}) * Cardinality(1 .. m)
    BY <2>1, <2>2, FS_Product, Zenon
  <2> QED BY <2>1, <2>2, <2>3, <2>4
<1>3. Proposed \subseteq Blocks
  BY BlockParts DEF Proposed
<1>4. IsFiniteSet(Proposed)
  <2>1. IsFiniteSet(1 .. MaxBlocks)
    BY <1>1, FS_Interval
  <2>2. IsFiniteSet(Blocks)
    BY <1>1, <2>1, FS_Product DEF Blocks
  <2> QED BY <1>3, <2>2, FS_Subset
<1>5. own \subseteq Proposed
  <2>1. ASSUME NEW h \in 1 .. m
        PROVE  Block(i, h) \in Proposed
    <3>1. h \in 1 .. MaxBlocks
      BY <1>1
    <3>2. Block(i, h) \in node[i].block_store
      <4>1. Block(i, h) \in Blocks /\ Height(Block(i, h)) = h /\ AuthorOf(Block(i, h)) = i
        BY <3>1, BlockParts
      <4> QED BY <1>1, <4>1 DEF HeraInv, DataOK, MyHeight
    <3> QED BY <3>1, <3>2 DEF Proposed
  <2> QED BY <2>1 DEF Block
<1>6. Cardinality(own) <= Cardinality(Proposed) /\ Cardinality(Proposed) \in Nat
  <2> HIDE DEF own
  <2> QED BY <1>4, <1>5, FS_Subset, FS_CardinalityType
<1> QED BY <1>1, <1>2, <1>6

\* One lemma for each step of a server.
LEMMA OnSelfProposeOK ==
    ASSUME NEW i \in Ids, HeraInv, OnSelfPropose(i)
    PROVE  HeraInv'
<1>1. MyHeight(i) < MaxBlocks /\ MyHeight(i) \in 0 .. MaxBlocks
  BY RoomForNext DEF OnSelfPropose, HeraInv, DataOK, MyHeight
<1>2. MyHeight(i) + 1 \in 1 .. MaxBlocks
  BY <1>1, Constants
<1>3. PICK b \in Blocks : /\ b = Block(i, MyHeight(i) + 1)
                          /\ AuthorOf(b) = i /\ Height(b) = MyHeight(i) + 1
  BY <1>2, BlockParts
<1>4. Done(i, Admit(node[i], b)) /\ UNCHANGED <<blamed, qcs>>
  BY <1>3 DEF OnSelfPropose
<1> QED BY <1>3, <1>4, AdmitStep

\* A block another author sends is admitted like an own one.
LEMMA OnDataProposeOK ==
    ASSUME NEW i \in Ids, HeraInv, OnDataPropose(i)
    PROVE  HeraInv'
<1>1. PICK a \in Ids \ {i} : \E h \in 1 .. MyHeight(a) : Done(i, Admit(node[i], Block(a, h)))
  BY DEF OnDataPropose
<1>2. PICK h \in 1 .. MyHeight(a) : Done(i, Admit(node[i], Block(a, h)))
  BY <1>1
<1>3. MyHeight(a) \in 0 .. MaxBlocks
  BY DEF HeraInv, DataOK, MyHeight
<1>4. h \in 1 .. MaxBlocks /\ h <= MyHeight(a)
  BY <1>3, Constants
<1>5. PICK b \in Blocks : b = Block(a, h) /\ AuthorOf(b) = a /\ Height(b) = h
  BY <1>4, BlockParts
<1>6. UNCHANGED <<blamed, qcs>>
  BY DEF OnDataPropose
<1> QED BY <1>2, <1>4, <1>5, <1>6, AdmitStep

\* A block that was asked for is admitted when some server sends it.
LEMMA OnDataResponseOK ==
    ASSUME NEW i \in Ids, HeraInv, OnDataResponse(i)
    PROVE  HeraInv'
<1>1. PICK b \in Requested(node[i]), j \in Ids \ {i} :
          b \in node[j].block_store /\ Done(i, Admit(node[i], b))
  BY DEF OnDataResponse
<1>2. b \in Blocks /\ Height(b) <= node[j].heights[AuthorOf(b)]
  BY <1>1 DEF HeraInv, DataOK
<1>3. AuthorOf(b) \in Ids /\ Height(b) \in 1 .. MaxBlocks
  BY <1>2, BlockParts
<1>4. /\ node[j].heights[AuthorOf(b)] <= MyHeight(AuthorOf(b))
      /\ node[j].heights[AuthorOf(b)] \in 0 .. MaxBlocks
      /\ MyHeight(AuthorOf(b)) \in 0 .. MaxBlocks
  BY <1>3 DEF HeraInv, DataOK, MyHeight, HeadsOwned
<1>5. Height(b) <= MyHeight(AuthorOf(b))
  BY <1>2, <1>3, <1>4
<1>6. UNCHANGED <<blamed, qcs>>
  BY DEF OnDataResponse
<1> QED BY <1>1, <1>2, <1>5, <1>6, AdmitStep

\* Messages left of earlier rounds can be forgotten.
LEMMA BufferDropped ==
    ASSUME NEW i \in Ids, HeraInv, NEW s, s = [node[i] EXCEPT !.msg_buf = {}]
    PROVE  /\ Same(node[i], s, {"msg_buf"}) /\ SigOK(s) /\ DataOK(s)
           /\ GoodData(i, s) /\ GoodElements(i, s) /\ GoodRound(i, s)
           /\ GoodBlames(i, s, blamed, qcs)
<1>1. PICK n : n = node[i]
  OBVIOUS
<1>2. /\ DOMAIN n = Fields /\ SigOK(n) /\ DataOK(n)
      /\ GoodData(i, n) /\ GoodElements(i, n) /\ GoodRound(i, n)
      /\ GoodBlames(i, n, blamed, qcs)
  BY <1>1, StayOK DEF HeraInv, Shape
<1>3. Same(n, s, {"msg_buf"}) /\ s.msg_buf = {}
  BY <1>1, <1>2 DEF Same, Fields
<1>4. /\ DOMAIN s = Fields
      /\ s.round = n.round /\ s.blame_map = n.blame_map /\ s.out = n.out
      /\ s.highest = n.highest /\ s.elements = n.elements /\ s.adopted = n.adopted
      /\ s.pending_sig_proposals = n.pending_sig_proposals
      /\ s.pending_sig_element_requests = n.pending_sig_element_requests
      /\ s.block_store = n.block_store /\ s.heights = n.heights
      /\ s.pending_data_blocks = n.pending_data_blocks
  BY <1>3 DEF Same, Fields
<1>5. SigOK(s)
  BY <1>2, <1>4 DEF SigOK
<1>6. DataOK(s)
  BY <1>2, <1>4 DEF DataOK
<1>7. GoodData(i, s)
  BY <1>2, <1>4, <1>6 DEF GoodData
<1>8. GoodElements(i, s)
  BY <1>2, <1>4 DEF GoodElements
<1>9. GoodRound(i, s)
  BY <1>2, <1>4 DEF GoodRound
<1>10. GoodBlames(i, s, blamed, qcs)
  BY <1>2, <1>3, <1>4 DEF GoodBlames, LateOK, SkipsOK
<1> QED BY <1>1, <1>3, <1>5, <1>6, <1>7, <1>8, <1>9, <1>10

\* What is left of a round that ends: messages of that round or earlier ones.
LEMMA UnhandledOK ==
    ASSUME NEW s, s.round \in Rounds, BlamesOK
    PROVE  \A m \in Unhandled(s) :
               /\ MessageOK(m, s.round + 1, blamed)
               /\ m.type = "SigBlameQC" \/ s.highest # s.round
<1> SUFFICES ASSUME NEW m \in Unhandled(s)
             PROVE  /\ MessageOK(m, s.round + 1, blamed)
                    /\ m.type = "SigBlameQC" \/ s.highest # s.round
  OBVIOUS
<1>1. s.round < s.round + 1
  BY Constants DEF Rounds
<1>2. CASE \E j \in blamed[s.round] : s.highest # s.round /\ m = SigBlame(s.round, j)
  BY <1>1, <1>2 DEF SigBlame, MessageOK
<1>3. CASE \E n \in 1 .. qcs[s.round] : m = SigBlameQC(s.round, n)
  <2>1. PICK n \in 1 .. qcs[s.round] : m = SigBlameQC(s.round, n)
    BY <1>3
  <2>2. qcs[s.round] \in Nat /\ qcs[s.round] > 0
    BY <2>1 DEF BlamesOK
  <2>3. Quorum(blamed, s.round)
    BY <2>2 DEF BlamesOK
  <2>4. m.type = "SigBlameQC" /\ m.round = s.round
    BY <2>1 DEF SigBlameQC
  <2> QED BY <1>1, <2>3, <2>4 DEF MessageOK
<1> QED BY <1>2, <1>3 DEF Unhandled

\* A round ends with nothing in the map; what may be left is accounted for.
LEMMA LateAfterAdvance ==
    ASSUME NEW bl, NEW t, t.blame_map = NoBlames,
           \A m \in t.msg_buf : MessageOK(m, t.round, bl),
           t.msg_buf # {} => Earned(t.adopted, bl, t.round - 1)
    PROVE  LateOK(t, bl)
<1>1. DOMAIN NoBlames = {}
  BY DEF NoBlames
<1> QED BY <1>1 DEF LateOK, MapOK

\* A proposal is adopted only with its parent and its blocks stored; otherwise it is
\* parked, and what it misses is asked for.
LEMMA RecvSigProposeOK ==
    ASSUME NEW i \in Ids, HeraInv, RecvSigPropose(i)
    PROVE  HeraInv'
<1> DEFINE first(n, p) == Block(Min(MissingHeads(n, p)), p.heads[Min(MissingHeads(n, p))])
<1>0. PICK s : s = [node[i] EXCEPT !.msg_buf = {}]
  OBVIOUS
<1>1. /\ Same(node[i], s, {"msg_buf"}) /\ SigOK(s) /\ DataOK(s)
      /\ GoodData(i, s) /\ GoodElements(i, s) /\ GoodRound(i, s)
      /\ GoodBlames(i, s, blamed, qcs)
  BY <1>0, BufferDropped
<1>2. PICK r, t : /\ r = s.round /\ r \in DOMAIN proposals
                  /\ t = HandleSigProposal(i, s, r) /\ Done(i, t) /\ UNCHANGED <<blamed, qcs>>
  BY <1>0 DEF RecvSigPropose
<1>3. r \in DOMAIN proposals /\ r \in Rounds
  BY <1>2 DEF HeraInv, ProposalsOK
<1>4. PICK p : /\ p = proposals[r] /\ p.heads \in [Ids -> 0 .. MaxBlocks]
               /\ \E j \in Ids : p.parent \in node[j].elements
  BY <1>3 DEF HeraInv, ProposalsOK
<1>8. /\ DOMAIN s = Fields /\ s.block_store = node[i].block_store
      /\ s.heights = node[i].heights /\ s.pending_data_blocks = node[i].pending_data_blocks
  BY <1>1 DEF Same, Fields
<1>5. CASE MissingHeads(s, p) # {}
  <2>1. t = [s EXCEPT !.pending_attestations = {first(s, p)}]
    BY <1>2, <1>4, <1>5 DEF HandleSigProposal
  <2> HIDE DEF first
  <2>2. Same(s, t, {"pending_attestations"})
    BY <1>8, <2>1 DEF Same, Fields
  <2>3. /\ DOMAIN t = Fields
        /\ t.round = s.round /\ t.blame_map = s.blame_map /\ t.msg_buf = s.msg_buf
        /\ t.out = s.out /\ t.highest = s.highest /\ t.elements = s.elements
        /\ t.adopted = s.adopted
        /\ t.pending_sig_proposals = s.pending_sig_proposals
        /\ t.pending_sig_element_requests = s.pending_sig_element_requests
        /\ t.block_store = s.block_store /\ t.heights = s.heights
        /\ t.pending_data_blocks = s.pending_data_blocks
    BY <2>2 DEF Same, Fields
  <2>4. GoodElements(i, t) /\ GoodRound(i, t)
    BY <1>1, <2>3 DEF GoodElements, GoodRound
  <2>5. GoodBlames(i, t, blamed', qcs')
    BY <1>1, <1>2, <2>3 DEF GoodBlames, LateOK, SkipsOK
  <2> QED BY <1>2, <1>8, <2>3, <2>4, <2>5, SigStep
<1>6. CASE MissingHeads(s, p) = {} /\ p.parent \notin s.elements
  <2>1. t = [s EXCEPT !.pending_sig_proposals = {p.parent},
                      !.pending_sig_element_requests = @ \cup {p.parent}]
    BY <1>2, <1>4, <1>6 DEF HandleSigProposal
  <2>2. /\ Same(s, t, {"pending_sig_proposals", "pending_sig_element_requests"})
        /\ t.pending_sig_proposals = {p.parent}
        /\ t.pending_sig_element_requests = s.pending_sig_element_requests \cup {p.parent}
    BY <1>8, <2>1 DEF Same, Fields
  <2>3. /\ DOMAIN t = Fields
        /\ t.round = s.round /\ t.blame_map = s.blame_map /\ t.msg_buf = s.msg_buf
        /\ t.out = s.out
        /\ t.highest = s.highest /\ t.elements = s.elements /\ t.adopted = s.adopted
        /\ t.block_store = s.block_store /\ t.heights = s.heights
        /\ t.pending_data_blocks = s.pending_data_blocks
    BY <2>2 DEF Same, Fields
  <2>4. Genesis # p.parent
    BY <1>1, <1>6 DEF SigOK
  <2>5. GoodElements(i, t)
    BY <1>1, <1>4, <2>2, <2>3, <2>4 DEF GoodElements
  <2>6. GoodRound(i, t) /\ GoodBlames(i, t, blamed', qcs')
    BY <1>1, <1>2, <2>3 DEF GoodRound, GoodBlames, LateOK, SkipsOK
  <2> QED BY <1>2, <1>8, <2>3, <2>5, <2>6, SigStep
<1>7. CASE MissingHeads(s, p) = {} /\ p.parent \in s.elements
  <2> DEFINE u == [s EXCEPT !.highest = r, !.elements = @ \cup {r}, !.adopted = @ \cup {r}]
  <2>1. t = AdvanceSigRound(i, u, Unhandled(u))
    BY <1>2, <1>4, <1>7 DEF HandleSigProposal, OnCorrectSigProposal
  <2>2. /\ Same(s, u, {"highest", "elements", "adopted"})
        /\ u.highest = r /\ u.elements = s.elements \cup {r} /\ u.adopted = s.adopted \cup {r}
    BY <1>8 DEF Same, Fields
  <2> HIDE DEF u
  <2>3. /\ DOMAIN u = Fields /\ u.out = {} /\ u.round = r /\ u.heights = s.heights
        /\ u.heights \in [Ids -> 0 .. MaxBlocks]
    <3>1. DOMAIN u = Fields /\ u.out = s.out /\ u.round = s.round /\ u.heights = s.heights
      BY <2>2 DEF Same, Fields
    <3>2. s.out = {} /\ s.round = r /\ s.heights \in [Ids -> 0 .. MaxBlocks]
      BY <1>1, <1>2 DEF SigOK, DataOK
    <3> QED BY <3>1, <3>2
  <2>4. /\ Same(u, t, AdvanceFields)
        /\ t.round = r + 1 /\ t.blame_map = NoBlames /\ t.msg_buf \subseteq Unhandled(u)
        /\ t.pending_sig_proposals = {}
        /\ t.out # {} =>
              /\ t.round \in Rounds
              /\ \E q : /\ t.out = {q} /\ q.parent \in u.elements
                        /\ q.heads \in [Ids -> 0 .. MaxBlocks]
    <3>1. u.round \in Rounds /\ u.highest \in u.elements
      BY <1>3, <2>2, <2>3
    <3> QED BY <2>1, <2>3, <3>1, AdvanceOK
  <2>5. /\ DOMAIN t = Fields
        /\ t.highest = r /\ t.elements = s.elements \cup {r} /\ t.adopted = s.adopted \cup {r}
        /\ t.block_store = s.block_store /\ t.heights = s.heights
        /\ t.pending_data_blocks = s.pending_data_blocks
        /\ t.pending_sig_element_requests = s.pending_sig_element_requests
    BY <2>2, <2>4 DEF Same, Fields, AdvanceFields
  <2>6. ASSUME NEW a \in Ids
        PROVE  p.heads[a] <= s.heights[a]
    <3>1. p.heads[a] = 0 \/ Block(a, p.heads[a]) \in s.block_store
      BY <1>4, <1>7, Constants DEF MissingHeads
    <3>2. s.heights[a] \in 0 .. MaxBlocks
      BY <1>1 DEF DataOK
    <3>3. AuthorOf(Block(a, p.heads[a])) = a /\ Height(Block(a, p.heads[a])) = p.heads[a]
      BY BlockParts
    <3>4. Block(a, p.heads[a]) \in s.block_store => p.heads[a] <= s.heights[a]
      BY <1>1, <3>3 DEF DataOK
    <3> QED BY <3>1, <3>2, <3>4, Constants
  <2>7. GoodElements(i, t)
    BY <1>1, <1>3, <1>4, <1>7, <2>4, <2>5, <2>6 DEF GoodElements
  <2>8. GoodRound(i, t)
    <3>1. t.round \in 1 .. (MaxRound + 1)
      BY <1>3, <2>4, Constants DEF Rounds
    <3>2. \A k \in t.adopted : k < t.round
      <4>1. \A k \in s.adopted : k < r /\ k \in Rounds
        BY <1>1, <1>2 DEF SigOK, HeraInv, ProposalsOK
      <4> QED BY <1>3, <2>4, <2>5, <4>1, Constants DEF Rounds
    <3>3. node[i].adopted \subseteq t.adopted
      BY <1>1, <2>5 DEF GoodRound
    <3> QED BY <2>2, <2>4, <2>5, <3>1, <3>2, <3>3 DEF GoodRound
  <2>9. GoodBlames(i, t, blamed', qcs')
    <3>1. \A k \in 1 .. (t.round - 1) : k = r \/ k \in 1 .. (s.round - 1)
      BY <1>2, <1>3, <2>4, Constants DEF Rounds
    <3>2. ASSUME NEW k \in (1 .. (t.round - 1)) \ t.adopted
          PROVE  Earned(t.adopted, blamed, k)
      <4>1. k \in (1 .. (s.round - 1)) \ s.adopted /\ k # r
        BY <2>5, <3>1
      <4>2. Earned(s.adopted, blamed, k)
        BY <1>1, <4>1 DEF GoodBlames, SkipsOK
      <4>3. k < r /\ k \in Int
        BY <1>2, <1>3, <4>1, Constants DEF Rounds
      <4>4. PICK q \in 1 .. k : Quorum(blamed, q) /\ ((q + 1) .. k) \cap s.adopted = {}
        BY <4>2 DEF Earned
      <4>5. ((q + 1) .. k) \cap t.adopted = {}
        BY <1>3, <2>5, <4>3, <4>4, Constants DEF Rounds
      <4> QED BY <4>4, <4>5 DEF Earned
    <3>3. BlamesOK
      BY DEF HeraInv
    <3>4. \A m \in Unhandled(u) : MessageOK(m, t.round, blamed) /\ m.type = "SigBlameQC"
      BY <1>3, <2>2, <2>3, <2>4, <3>3, UnhandledOK
    <3>5. ASSUME t.msg_buf # {}
          PROVE  Earned(t.adopted, blamed, t.round - 1)
      <4>1. PICK n \in 1 .. qcs[r] : TRUE
        BY <2>2, <2>3, <2>4, <3>5 DEF Unhandled
      <4>2. Quorum(blamed, r)
        BY <1>3, <4>1, <3>3 DEF BlamesOK
      <4>3. t.round - 1 = r /\ r \in 1 .. r /\ (r + 1) .. r = {}
        BY <1>3, <2>4, Constants DEF Rounds
      <4> QED BY <4>2, <4>3 DEF Earned
    <3>6. LateOK(t, blamed)
      BY <2>4, <3>4, <3>5, LateAfterAdvance
    <3>7. SkipsOK(t, blamed)
      BY <3>2 DEF SkipsOK
    <3> QED BY <1>1, <1>2, <3>6, <3>7 DEF GoodBlames
  <2> QED BY <1>2, <1>8, <2>5, <2>7, <2>8, <2>9, SigStep
<1> QED BY <1>5, <1>6, <1>7

\* An element that was asked for is taken from a server that has it.
LEMMA FetchElementOK ==
    ASSUME NEW i \in Ids, HeraInv, FetchElement(i)
    PROVE  HeraInv'
<1> DEFINE s == node[i]
<1>1. /\ DOMAIN s = Fields /\ SigOK(s)
      /\ GoodElements(i, s) /\ GoodRound(i, s) /\ GoodBlames(i, s, blamed, qcs)
  BY StayOK DEF HeraInv, Shape
<1>2. PICK e \in s.pending_sig_element_requests, j \in Ids \ {i} :
          e \in node[j].elements /\ Done(i, OnSigElementResponse(s, e))
  BY DEF FetchElement
<1>3. UNCHANGED <<blamed, qcs>>
  BY DEF FetchElement
<1>4. e \in DOMAIN proposals
  BY <1>1, <1>2 DEF SigOK, HeraInv
<1>5. PICK p : p = proposals[e].parent /\ \E k \in Ids : p \in node[k].elements
  BY <1>4 DEF HeraInv, ProposalsOK
<1>6. PICK t : t = OnSigElementResponse(s, e)
  OBVIOUS
<1>7. t = [s EXCEPT !.elements = @ \cup {e},
                    !.pending_sig_element_requests =
                        (@ \ {e}) \cup (IF p \in s.elements THEN {} ELSE {p}),
                    !.pending_sig_proposals = @ \ {e}]
  BY <1>5, <1>6 DEF OnSigElementResponse
<1>8. /\ Same(s, t, {"elements", "pending_sig_element_requests", "pending_sig_proposals"})
      /\ t.elements = s.elements \cup {e}
      /\ t.pending_sig_element_requests =
             (s.pending_sig_element_requests \ {e}) \cup (IF p \in s.elements THEN {} ELSE {p})
      /\ t.pending_sig_proposals = s.pending_sig_proposals \ {e}
  <2> HIDE DEF s
  <2> QED BY <1>1, <1>7 DEF Same, Fields
<1>9. /\ DOMAIN t = Fields
      /\ t.round = s.round /\ t.blame_map = s.blame_map /\ t.msg_buf = s.msg_buf
      /\ t.out = s.out /\ t.highest = s.highest /\ t.adopted = s.adopted
      /\ t.block_store = s.block_store /\ t.heights = s.heights
      /\ t.pending_data_blocks = s.pending_data_blocks
  BY <1>8 DEF Same, Fields
<1>10. GoodElements(i, t)
  <2>1. Genesis \notin t.pending_sig_element_requests
    BY <1>1, <1>8 DEF SigOK
  <2>2. t.pending_sig_proposals \subseteq t.pending_sig_element_requests
    BY <1>1, <1>8 DEF SigOK
  <2>3. \A d \in t.pending_sig_element_requests : \E k \in Ids : d \in node[k].elements
    BY <1>1, <1>5, <1>8 DEF GoodElements
  <2> QED BY <1>1, <1>4, <1>8, <1>9, <2>1, <2>2, <2>3 DEF GoodElements
<1>11. GoodRound(i, t) /\ GoodBlames(i, t, blamed', qcs')
  BY <1>1, <1>3, <1>8, <1>9 DEF GoodRound, GoodBlames, LateOK, SkipsOK
<1> QED BY <1>2, <1>6, <1>9, <1>10, <1>11, SigStep

\* A server blames the round it waits for, and no other.
LEMMA OnRoundTimeoutOK ==
    ASSUME NEW i \in Ids, HeraInv, OnRoundTimeout(i)
    PROVE  HeraInv'
<1> DEFINE s == node[i]
<1>1. /\ DOMAIN s = Fields
      /\ GoodElements(i, s) /\ GoodRound(i, s) /\ GoodBlames(i, s, blamed, qcs)
  BY StayOK DEF HeraInv, Shape
<1>2. PICK t : t = [s EXCEPT !.timer_enabled = FALSE] /\ Done(i, t)
  BY DEF OnRoundTimeout
<1>3. Same(s, t, {"timer_enabled"})
  BY <1>1, <1>2 DEF Same, Fields
<1>4. /\ DOMAIN t = Fields
      /\ t.round = s.round /\ t.blame_map = s.blame_map /\ t.msg_buf = s.msg_buf
      /\ t.out = s.out
      /\ t.highest = s.highest /\ t.elements = s.elements /\ t.adopted = s.adopted
      /\ t.pending_sig_proposals = s.pending_sig_proposals
      /\ t.pending_sig_element_requests = s.pending_sig_element_requests
      /\ t.block_store = s.block_store /\ t.heights = s.heights
      /\ t.pending_data_blocks = s.pending_data_blocks
  BY <1>3 DEF Same, Fields
<1>5. GoodElements(i, t) /\ GoodRound(i, t)
  BY <1>1, <1>4 DEF GoodElements, GoodRound
<1>6. /\ s.round \in Rounds /\ qcs' = qcs
      /\ blamed' = [blamed EXCEPT ![s.round] = @ \cup {i}]
  BY DEF OnRoundTimeout
<1>7. blamed \in [Rounds -> SUBSET Ids]
  BY DEF HeraInv, BlamesOK
<1>8. blamed' \in [Rounds -> SUBSET Ids] /\ \A r \in Rounds : blamed[r] \subseteq blamed'[r]
  BY <1>6, <1>7
<1>9. \A r \in Rounds : Quorum(blamed, r) => Quorum(blamed', r)
  BY <1>8, QuorumStays DEF Quorum
<1>10. LateOK(t, blamed) /\ SkipsOK(t, blamed) /\ t.round \in 1 .. (MaxRound + 1)
  BY <1>1, <1>4 DEF GoodBlames, LateOK, SkipsOK, GoodRound
<1>12. LateOK(t, blamed') /\ SkipsOK(t, blamed')
  BY <1>7, <1>8, <1>10, EarnedStays
<1>11. GoodBlames(i, t, blamed', qcs')
  BY <1>1, <1>6, <1>8, <1>9, <1>12 DEF GoodBlames
<1> QED BY <1>2, <1>4, <1>5, <1>11, SigStep

\* A round that is rightly passed ends without its proposal.
LEMMA SkipStep ==
    ASSUME NEW i \in Ids, HeraInv, node[i].round \in Rounds,
           Earned(node[i].adopted, blamed, node[i].round),
           NEW map, NEW q \in Rounds, NEW rest,
           \A m \in rest : MessageOK(m, node[i].round + 1, blamed),
           (\A j \in DOMAIN map : map[j] = q) => Quorum(blamed, q),
           HandleSigBlameQC(i, q, map, rest)
    PROVE  HeraInv'
<1>0. PICK s : s = node[i]
  OBVIOUS
<1>1. /\ DOMAIN s = Fields /\ SigOK(s) /\ DataOK(s)
      /\ GoodElements(i, s) /\ GoodRound(i, s) /\ GoodBlames(i, s, blamed, qcs)
  BY <1>0, StayOK DEF HeraInv, Shape
<1>2. PICK t : t = AdvanceSigRound(i, s, rest) /\ Done(i, t)
  BY <1>0 DEF HandleSigBlameQC
<1>5. /\ s.out = {} /\ s.round \in Rounds
      /\ s.highest \in s.elements /\ s.heights \in [Ids -> 0 .. MaxBlocks]
  BY <1>0, <1>1 DEF SigOK, DataOK
<1>6. /\ Same(s, t, AdvanceFields)
      /\ t.round = s.round + 1 /\ t.blame_map = NoBlames /\ t.msg_buf \subseteq rest
      /\ t.pending_sig_proposals = {}
      /\ t.out # {} =>
            /\ t.round \in Rounds
            /\ \E p : /\ t.out = {p} /\ p.parent \in s.elements
                      /\ p.heads \in [Ids -> 0 .. MaxBlocks]
  BY <1>1, <1>2, <1>5, AdvanceOK
<1>7. /\ DOMAIN t = Fields
      /\ t.highest = s.highest /\ t.elements = s.elements /\ t.adopted = s.adopted
      /\ t.block_store = s.block_store /\ t.heights = s.heights
      /\ t.pending_data_blocks = s.pending_data_blocks
      /\ t.pending_sig_element_requests = s.pending_sig_element_requests
  BY <1>6 DEF Same, Fields, AdvanceFields
<1>8. GoodElements(i, t)
  BY <1>1, <1>6, <1>7 DEF GoodElements
<1>9. GoodRound(i, t)
  <2>1. t.round \in 1 .. (MaxRound + 1)
    <3>1. t.round = s.round + 1
      BY <1>6
    <3>2. s.round \in 1 .. MaxRound /\ MaxRound \in Nat
      BY <1>5, Constants DEF Rounds
    <3> QED BY <3>1, <3>2
  <2>2. \A k \in t.adopted : k < t.round
    <3>1. \A k \in s.adopted : k < s.round /\ k \in Rounds
      BY <1>1 DEF SigOK, HeraInv, ProposalsOK
    <3> QED BY <1>5, <1>6, <1>7, <3>1, Constants DEF Rounds
  <2> QED BY <1>1, <1>6, <1>7, <2>1, <2>2 DEF GoodRound
<1>10. SkipsOK(t, blamed)
  <2>1. \A k \in 1 .. (t.round - 1) : k = s.round \/ k \in 1 .. (s.round - 1)
    BY <1>5, <1>6, Constants DEF Rounds
  <2> QED BY <1>0, <1>1, <1>7, <2>1 DEF GoodBlames, SkipsOK
<1>11. LateOK(t, blamed)
  <2>1. t.round - 1 = s.round
    BY <1>5, <1>6 DEF Rounds
  <2> QED BY <1>0, <1>6, <1>7, <2>1, LateAfterAdvance
<1>12. GoodBlames(i, t, blamed', qcs')
  <2>1. blamed' = blamed
    BY DEF HandleSigBlameQC
  <2>2. qcs \in [Rounds -> Nat] /\ \A r \in Rounds : qcs[r] > 0 => Quorum(blamed, r)
    BY DEF HeraInv, BlamesOK
  <2>3. \/ qcs' = qcs
        \/ qcs' = [qcs EXCEPT ![q] = @ + 1] /\ Quorum(blamed, q)
    BY DEF HandleSigBlameQC
  <2>4. qcs' \in [Rounds -> Nat] /\ \A r \in Rounds : qcs'[r] > 0 => Quorum(blamed, r)
    BY <2>2, <2>3
  <2> QED BY <1>1, <1>10, <1>11, <2>1, <2>4 DEF GoodBlames
<1> QED BY <1>0, <1>2, <1>7, <1>8, <1>9, <1>12, SigStep

\* A map that is full ends the round rightly: either all its blames are of the round,
\* or some are late.
LEMMA FullMap ==
    ASSUME NEW map, NEW bl \in [Rounds -> SUBSET Ids], NEW q \in Rounds,
           DOMAIN map \subseteq Ids, \A j \in DOMAIN map : j \in bl[map[j]],
           FullBlameMap(map), \A j \in DOMAIN map : map[j] = q
    PROVE  Quorum(bl, q)
<1>1. DOMAIN map \subseteq bl[q] /\ bl[q] \in SUBSET Ids
  OBVIOUS
<1> QED BY <1>1, QuorumStays DEF FullBlameMap, Quorum

\* A round after one that was rightly passed is.
LEMMA EarnedOn ==
    ASSUME NEW ad, NEW bl, NEW r \in Rounds, Earned(ad, bl, r - 1), r \notin ad
    PROVE  Earned(ad, bl, r)
<1>1. r \in Int
  BY DEF Rounds
<1>2. PICK q \in 1 .. (r - 1) : Quorum(bl, q) /\ ((q + 1) .. (r - 1)) \cap ad = {}
  BY DEF Earned
<1>3. q \in 1 .. r
  BY <1>1, <1>2
<1>4. ((q + 1) .. r) \cap ad = {}
  BY <1>1, <1>2
<1> QED BY <1>2, <1>3, <1>4 DEF Earned

\* What the handlers of blames and QCs know.
LEMMA BlameFacts ==
    ASSUME NEW i \in Ids, HeraInv, NEW s, s = node[i], s.round \in Rounds
    PROVE  /\ BlamesOK /\ SigOK(s) /\ LateOK(s, blamed) /\ DOMAIN s = Fields
           /\ s.round \notin s.adopted /\ s.round \in 1 .. s.round
           /\ \A m \in s.msg_buf \cup Unhandled(s) : MessageOK(m, s.round + 1, blamed)
           /\ s.msg_buf # {} => Earned(s.adopted, blamed, s.round)
<1>1. BlamesOK /\ SigOK(s) /\ LateOK(s, blamed) /\ DOMAIN s = Fields
  BY DEF HeraInv, BlamesOK, Shape
<1>2. s.round \notin s.adopted /\ s.round \in 1 .. s.round
  BY <1>1 DEF SigOK, Rounds
<1>3. \A m \in s.msg_buf : MessageOK(m, s.round + 1, blamed)
  <2>1. \A m \in s.msg_buf : MessageOK(m, s.round, blamed)
    BY <1>1 DEF LateOK
  <2> QED BY <2>1 DEF MessageOK, Rounds
<1>4. \A m \in Unhandled(s) : MessageOK(m, s.round + 1, blamed)
  BY <1>1, UnhandledOK
<1>5. s.msg_buf # {} => Earned(s.adopted, blamed, s.round)
  BY <1>1, <1>2, EarnedOn DEF LateOK
<1> QED BY <1>1, <1>2, <1>3, <1>4, <1>5

\* Blames of a round are added to those that are in the map.
LEMMA InsertOK ==
    ASSUME NEW map, NEW r, NEW q \in Rounds, NEW bl \in [Rounds -> SUBSET Ids],
           NEW J \in SUBSET bl[q], r \in Rounds, q <= r, MapOK(map, r, bl)
    PROVE  /\ MapOK(Insert(map, J, q), r, bl)
           /\ \A j \in DOMAIN Insert(map, J, q) :
                 Insert(map, J, q)[j] = q \/ (j \in DOMAIN map /\ Insert(map, J, q)[j] = map[j])
<1>1. DOMAIN Insert(map, J, q) = DOMAIN map \cup J
  BY DEF Insert
<1>2. \A j \in DOMAIN map \cup J : Insert(map, J, q)[j] = IF j \in J THEN q ELSE map[j]
  BY DEF Insert
<1> QED BY <1>1, <1>2 DEF MapOK

\* Blames are collected, and with a quorum of them a certificate is formed.
LEMMA HandleSigBlameOK ==
    ASSUME NEW i \in Ids, HeraInv, HandleSigBlame(i)
    PROVE  HeraInv'
<1>0. PICK s : s = node[i]
  OBVIOUS
<1>1. s.round \in Rounds
  BY <1>0 DEF HandleSigBlame
<1>2. PICK J \in SUBSET blamed[s.round] :
          /\ FullBlameMap(Insert(s.blame_map, J, s.round))
          /\ HandleSigBlameQC(i, s.round, Insert(s.blame_map, J, s.round),
                              Unhandled(s) \ {SigBlame(s.round, j) : j \in J})
  BY <1>0 DEF HandleSigBlame
<1>3. /\ BlamesOK /\ LateOK(s, blamed) /\ s.round \notin s.adopted /\ s.round \in 1 .. s.round
      /\ \A m \in s.msg_buf \cup Unhandled(s) : MessageOK(m, s.round + 1, blamed)
  BY <1>0, <1>1, BlameFacts
<1>4. PICK map, rest : /\ map = Insert(s.blame_map, J, s.round)
                       /\ rest = Unhandled(s) \ {SigBlame(s.round, j) : j \in J}
  OBVIOUS
<1>5. /\ blamed \in [Rounds -> SUBSET Ids] /\ MapOK(s.blame_map, s.round, blamed)
      /\ s.round <= s.round
  BY <1>1, <1>3 DEF BlamesOK, LateOK, Rounds
<1>6. /\ MapOK(map, s.round, blamed)
      /\ \A j \in DOMAIN map : map[j] = s.round
                                \/ (j \in DOMAIN s.blame_map /\ map[j] = s.blame_map[j])
  BY <1>1, <1>4, <1>5, InsertOK
<1>7. (\A j \in DOMAIN map : map[j] = s.round) => Quorum(blamed, s.round)
  BY <1>1, <1>2, <1>4, <1>5, <1>6, FullMap DEF MapOK
<1>8. Earned(s.adopted, blamed, s.round)
  <2>1. CASE \A j \in DOMAIN map : map[j] = s.round
    <3>1. (s.round + 1) .. s.round = {}
      BY <1>1 DEF Rounds
    <3> QED BY <1>3, <1>7, <2>1, <3>1 DEF Earned
  <2>2. CASE \E j \in DOMAIN map : map[j] # s.round
    <3>1. \E j \in DOMAIN s.blame_map : s.blame_map[j] # s.round
      BY <1>6, <2>2
    <3>2. Earned(s.adopted, blamed, s.round - 1)
      BY <1>3, <3>1 DEF LateOK
    <3> QED BY <1>1, <1>3, <3>2, EarnedOn
  <2> QED BY <2>1, <2>2
<1>9. \A m \in rest : MessageOK(m, s.round + 1, blamed)
  BY <1>3, <1>4
<1> QED BY <1>0, <1>1, <1>2, <1>4, <1>7, <1>8, <1>9, SkipStep

\* A blame of an earlier round is one of those that are left.
LEMMA HandleOldSigBlameOK ==
    ASSUME NEW i \in Ids, HeraInv, HandleOldSigBlame(i)
    PROVE  HeraInv'
<1>0. PICK s : s = node[i]
  OBVIOUS
<1>1. s.round \in Rounds
  BY <1>0 DEF HandleOldSigBlame
<1>2. PICK m \in s.msg_buf :
          /\ m.type = "SigBlame"
          /\ IF FullBlameMap(Insert(s.blame_map, {m.no}, m.round))
             THEN HandleSigBlameQC(i, m.round, Insert(s.blame_map, {m.no}, m.round),
                                   Behind(s.msg_buf \cup Unhandled(s), m))
             ELSE /\ Done(i, [s EXCEPT !.blame_map = Insert(s.blame_map, {m.no}, m.round),
                                       !.msg_buf = Behind(@, m)])
                  /\ UNCHANGED <<blamed, qcs>>
  BY <1>0 DEF HandleOldSigBlame
<1>3. /\ BlamesOK /\ SigOK(s) /\ LateOK(s, blamed) /\ DOMAIN s = Fields
      /\ \A n \in s.msg_buf \cup Unhandled(s) : MessageOK(n, s.round + 1, blamed)
      /\ Earned(s.adopted, blamed, s.round)
  BY <1>0, <1>1, <1>2, BlameFacts
<1>4. PICK map, q : map = Insert(s.blame_map, {m.no}, m.round) /\ q = m.round
  OBVIOUS
<1>5. /\ q \in Rounds /\ q <= s.round /\ m.no \in blamed[q]
      /\ blamed \in [Rounds -> SUBSET Ids] /\ MapOK(s.blame_map, s.round, blamed)
  BY <1>1, <1>2, <1>3, <1>4 DEF BlamesOK, LateOK, MessageOK, Rounds
<1>6. PICK J : J = {m.no} /\ J \in SUBSET blamed[q]
  BY <1>5
<1>7. map = Insert(s.blame_map, J, q)
  BY <1>4, <1>6
<1>8. MapOK(map, s.round, blamed)
  BY <1>1, <1>5, <1>6, <1>7, InsertOK
<1>9. CASE FullBlameMap(map)
  <2>1. PICK rest : rest = Behind(s.msg_buf \cup Unhandled(s), m)
    OBVIOUS
  <2>2. HandleSigBlameQC(i, q, map, rest)
    BY <1>2, <1>4, <1>9, <2>1
  <2>3. (\A j \in DOMAIN map : map[j] = q) => Quorum(blamed, q)
    BY <1>5, <1>8, <1>9, FullMap DEF MapOK
  <2>4. \A n \in rest : MessageOK(n, s.round + 1, blamed)
    BY <1>3, <2>1 DEF Behind
  <2> QED BY <1>0, <1>1, <1>3, <1>5, <2>2, <2>3, <2>4, SkipStep
<1>10. CASE ~ FullBlameMap(map)
  <2>1. PICK rest : rest = Behind(s.msg_buf, m)
    OBVIOUS
  <2>2. PICK t : t = [s EXCEPT !.blame_map = map, !.msg_buf = rest]
    OBVIOUS
  <2>3. Done(i, t) /\ UNCHANGED <<blamed, qcs>>
    BY <1>2, <1>4, <1>10, <2>1, <2>2
  <2>4. /\ DOMAIN t = Fields /\ t.blame_map = map /\ t.msg_buf = rest
        /\ t.round = s.round /\ t.out = s.out
        /\ t.highest = s.highest /\ t.elements = s.elements /\ t.adopted = s.adopted
        /\ t.pending_sig_proposals = s.pending_sig_proposals
        /\ t.pending_sig_element_requests = s.pending_sig_element_requests
        /\ t.block_store = s.block_store /\ t.heights = s.heights
        /\ t.pending_data_blocks = s.pending_data_blocks
    BY <1>3, <2>2 DEF Fields
  <2>5. GoodElements(i, s) /\ GoodRound(i, s) /\ GoodBlames(i, s, blamed, qcs)
    BY <1>0, StayOK
  <2>6. GoodElements(i, t) /\ GoodRound(i, t)
    BY <2>4, <2>5 DEF GoodElements, GoodRound
  <2>7. LateOK(t, blamed)
    <3>1. Earned(s.adopted, blamed, s.round - 1)
      BY <1>2, <1>3 DEF LateOK
    <3>2. \A n \in rest : MessageOK(n, s.round, blamed)
      BY <1>3, <2>1 DEF Behind, LateOK
    <3> QED BY <1>8, <2>4, <3>1, <3>2 DEF LateOK
  <2>8. GoodBlames(i, t, blamed', qcs')
    BY <2>3, <2>4, <2>5, <2>7 DEF GoodBlames, SkipsOK
  <2> QED BY <1>0, <2>3, <2>4, <2>6, <2>8, SigStep
<1> QED BY <1>9, <1>10

\* A certificate ends the round the server is in.
LEMMA OnSigBlameQCOK ==
    ASSUME NEW i \in Ids, HeraInv, OnSigBlameQC(i)
    PROVE  HeraInv'
<1>0. PICK s : s = node[i]
  OBVIOUS
<1>1. s.round \in Rounds
  BY <1>0 DEF OnSigBlameQC
<1>2. PICK m \in s.msg_buf \cup Unhandled(s) :
          /\ m.type = "SigBlameQC"
          /\ HandleSigBlameQC(i, m.round, NoBlames, Behind(s.msg_buf \cup Unhandled(s), m))
  BY <1>0 DEF OnSigBlameQC
<1>3. /\ s.round \in 1 .. s.round
      /\ \A n \in s.msg_buf \cup Unhandled(s) : MessageOK(n, s.round + 1, blamed)
      /\ s.msg_buf # {} => Earned(s.adopted, blamed, s.round)
  BY <1>0, <1>1, BlameFacts
<1>4. PICK q, rest : q = m.round /\ rest = Behind(s.msg_buf \cup Unhandled(s), m)
  OBVIOUS
<1>5. q \in Rounds /\ Quorum(blamed, q)
  BY <1>2, <1>3, <1>4 DEF MessageOK
<1>6. Earned(s.adopted, blamed, s.round)
  <2>1. CASE m \in s.msg_buf
    BY <1>3, <2>1
  <2>2. CASE m \in Unhandled(s)
    <3>1. q = s.round
      BY <1>4, <2>2 DEF Unhandled, SigBlame, SigBlameQC
    <3>2. (s.round + 1) .. s.round = {}
      BY <1>1 DEF Rounds
    <3> QED BY <1>3, <1>5, <3>1, <3>2 DEF Earned
  <2> QED BY <2>1, <2>2
<1>7. \A n \in rest : MessageOK(n, s.round + 1, blamed)
  BY <1>3, <1>4 DEF Behind
<1>8. HandleSigBlameQC(i, q, NoBlames, rest)
  BY <1>2, <1>4
<1>9. (\A j \in DOMAIN NoBlames : NoBlames[j] = q) => Quorum(blamed, q)
  BY <1>5
<1> QED BY <1>0, <1>1, <1>5, <1>6, <1>7, <1>8, <1>9, SkipStep

\* The commit task reads what was adopted and changes nothing of it.
LEMMA RunCommitTaskOK ==
    ASSUME NEW i \in Ids, HeraInv, RunCommitTask(i)
    PROVE  HeraInv'
<1> DEFINE s == node[i]
<1>1. PICK v1, v2, v3, v4, v5 :
          Done(i, [s EXCEPT !.end_rounds = v1, !.task = v2, !.log = v3, !.emitted = v4,
                            !.committed_heights = v5])
  BY DEF RunCommitTask
<1>2. UNCHANGED <<blamed, qcs>>
  BY DEF RunCommitTask
<1>3. DOMAIN s = Fields
  BY DEF HeraInv, Shape
<1>4. PICK t : t = [s EXCEPT !.end_rounds = v1, !.task = v2, !.log = v3, !.emitted = v4,
                             !.committed_heights = v5]
  OBVIOUS
<1>5. Same(s, t, {"end_rounds", "task", "log", "emitted", "committed_heights"})
  BY <1>3, <1>4 DEF Same, Fields
<1>6. /\ GoodElements(i, s) /\ GoodRound(i, s) /\ GoodBlames(i, s, blamed, qcs)
  BY StayOK
<1>7. /\ DOMAIN t = Fields
      /\ t.round = s.round /\ t.blame_map = s.blame_map /\ t.msg_buf = s.msg_buf
      /\ t.out = s.out
      /\ t.highest = s.highest /\ t.elements = s.elements /\ t.adopted = s.adopted
      /\ t.pending_sig_proposals = s.pending_sig_proposals
      /\ t.pending_sig_element_requests = s.pending_sig_element_requests
      /\ t.block_store = s.block_store /\ t.heights = s.heights
      /\ t.pending_data_blocks = s.pending_data_blocks
  BY <1>5 DEF Same, Fields
<1>8. GoodElements(i, t) /\ GoodRound(i, t) /\ GoodBlames(i, t, blamed', qcs')
  BY <1>2, <1>6, <1>7 DEF GoodElements, GoodRound, GoodBlames, LateOK, SkipsOK
<1> QED BY <1>1, <1>4, <1>7, <1>8, SigStep

----------------------------------------------------------------------------
\* The invariant holds at the start,
LEMMA HeraInvInit == Init => HeraInv
<1> SUFFICES ASSUME Init PROVE HeraInv
  OBVIOUS
<1>1. \A i \in Ids : node[i] = InitialNode
  BY DEF Init
<1>2. DOMAIN InitialNode = Fields
  BY DEF InitialNode, Fields
<1>3. /\ InitialNode.round = 1 /\ InitialNode.blame_map = NoBlames
      /\ InitialNode.out = {} /\ InitialNode.msg_buf = {}
      /\ InitialNode.highest = Genesis /\ InitialNode.elements = {Genesis}
      /\ InitialNode.adopted = {} /\ InitialNode.pending_sig_proposals = {}
      /\ InitialNode.pending_sig_element_requests = {}
      /\ InitialNode.block_store = {} /\ InitialNode.heights = NoHeights
      /\ InitialNode.pending_data_blocks = {}
  BY DEF InitialNode
<1>4. NoHeights \in [Ids -> 0 .. MaxBlocks] /\ \A a \in Ids : NoHeights[a] = 0
  BY Constants DEF NoHeights
<1>5. Shape
  BY <1>1, <1>2 DEF Shape, Init
<1>6. proposals = [r \in {1} |-> [parent |-> Genesis, heads |-> NoHeights]]
  BY DEF Init
<1>7. /\ DOMAIN proposals = {1} /\ proposals[1].parent = Genesis
      /\ proposals[1].heads = NoHeights
  BY <1>6
<1>8. SigOK(InitialNode)
  BY <1>3, Constants DEF SigOK
<1>9. DataOK(InitialNode)
  <2>1. \A b \in Blocks : ~ (Height(b) <= InitialNode.heights[AuthorOf(b)])
    BY <1>3, <1>4, BlockParts
  <2> QED BY <1>3, <1>4, <2>1 DEF DataOK
<1>10. HeadsOwned
  BY <1>1, <1>3, <1>4 DEF HeadsOwned, MyHeight
<1>11. ProposalsOK
  <2>1. Ids # {} /\ \A i \in Ids : Genesis \in node[i].elements
    BY <1>1, <1>3, CommitAssumption DEF Ids
  <2>2. 1 \in Rounds
    BY Constants DEF Rounds
  <2> QED BY <1>4, <1>7, <2>1, <2>2 DEF ProposalsOK
<1>12. BlamesOK /\ Fetchable /\ SkipsEarned /\ AdoptedBacked
  <2>1. LateOK(InitialNode, blamed)
    BY <1>3, LateAfterAdvance
  <2>2. BlamesOK
    BY <1>1, <2>1 DEF BlamesOK, Init
  <2> QED BY <1>1, <1>3, <2>2 DEF Fetchable, SkipsEarned, AdoptedBacked
<1> QED BY <1>1, <1>5, <1>8, <1>9, <1>10, <1>11, <1>12 DEF HeraInv

\* and every step keeps it.
LEMMA HeraInvNext == HeraInv /\ [Next]_vars => HeraInv'
<1> SUFFICES ASSUME HeraInv, [Next]_vars PROVE HeraInv'
  OBVIOUS
<1>1. CASE UNCHANGED vars
  BY <1>1 DEF vars, HeraInv, Shape, SigOK, DataOK, HeadsOwned, MyHeight, ProposalsOK,
              BlamesOK, LateOK, Fetchable, SkipsEarned, AdoptedBacked
<1>2. CASE Next
  <2>1. PICK i \in Ids :
            \/ OnSelfPropose(i) \/ OnDataPropose(i) \/ OnDataResponse(i)
            \/ RecvSigPropose(i) \/ FetchElement(i)
            \/ OnRoundTimeout(i)
            \/ HandleSigBlame(i) \/ HandleOldSigBlame(i) \/ OnSigBlameQC(i)
            \/ RunCommitTask(i)
    BY <1>2 DEF Next
  <2> QED BY <2>1, OnSelfProposeOK, OnDataProposeOK, OnDataResponseOK, RecvSigProposeOK,
             FetchElementOK, OnRoundTimeoutOK, HandleSigBlameOK, HandleOldSigBlameOK,
             OnSigBlameQCOK, RunCommitTaskOK
<1> QED BY <1>1, <1>2

\* Hera keeps its inductive invariant.
THEOREM HeraInvariant == Spec => []HeraInv
BY HeraInvInit, HeraInvNext, PTL DEF Spec

\* The store of every server holds of each author a gapless chain up to its head,
\* and no head is ahead of what the author has made, whatever is lost, parked or
\* fetched.
THEOREM HeraTyped == Spec => []TypeOK
<1>1. HeraInv => TypeOK
  BY DEF HeraInv, SigOK, DataOK, Blocks, HeadsOwned, TypeOK
<1> QED BY <1>1, HeraInvariant, PTL

\* A server that passes a round without its proposal has a reason: a quorum blamed
\* that round, or an earlier one since which the server adopted nothing.  The blames
\* and QCs of earlier rounds that a server still handles are among the cases; they
\* are why the round itself need not have been blamed.
THEOREM SkippedRoundsBlamed == Spec => []SkipsEarned
<1>1. HeraInv => SkipsEarned
  BY DEF HeraInv
<1> QED BY <1>1, HeraInvariant, PTL

\* Whatever a server agrees to, it stores: the parent element and every data
\* block the element makes final.
THEOREM AgreedIsStored == Spec => []AdoptedBacked
<1>1. HeraInv => AdoptedBacked
  BY DEF HeraInv
<1> QED BY <1>1, HeraInvariant, PTL

\* A parked proposal waits for an element that was asked for and that some server
\* has.
THEOREM ParkedCanBeFetched == Spec => []ParkedIsFetchable
<1>1. HeraInv => ParkedIsFetchable
  BY DEF HeraInv, SigOK, Fetchable, ParkedIsFetchable
<1> QED BY <1>1, HeraInvariant, PTL

----------------------------------------------------------------------------
(***************************************************************************)
(* The commit task over a set S of stored elements: its queue and what it  *)
(* commits are made of S.                                                  *)
(***************************************************************************)
Entries(S) == [key : Int, elem : S]

Counts == UNION {[D -> Int] : D \in SUBSET {Author(e) : e \in Int}}

Tasks(S) ==
    [commit_queue : Seq(Entries(S)),
     unique_proposers : Counts,
     highest_committed_hash : Int,
     highest_committed_element : S,
     committed : Seq(S),
     panicked : BOOLEAN]

Walks(S) ==
    [head : S, head_hash : Int, queue : Seq(Entries(S)), proposers : Counts,
     stop : {"no", "bottom", "connected"}]

\* A map of proposers has proposers as its domain and integers as its values.
LEMMA CountsAre ==
    ASSUME NEW c
    PROVE  /\ c \in Counts => /\ DOMAIN c \subseteq {Author(e) : e \in Int}
                              /\ \A i \in DOMAIN c : c[i] \in Int
           /\ (\E D \in SUBSET {Author(e) : e \in Int} : c \in [D -> Int]) => c \in Counts
BY DEF Counts

\* An insertion into a LinkedHashMap keeps the type of its entries.
LEMMA LinkedInsertOver ==
    ASSUME NEW E, NEW q \in Seq(E), NEW key, NEW elem, [key |-> key, elem |-> elem] \in E
    PROVE  LinkedInsert(q, key, elem) \in Seq(E)
<1> DEFINE I == {i \in 1 .. Len(q) : q[i].key = key}
           rest == RemoveFirstMatch(q, LAMBDA x : x.key = key)
<1>1. CASE I = {}
  <2>1. rest = q
    BY <1>1 DEF RemoveFirstMatch
  <2> HIDE DEF rest
  <2>2. Append(rest, [key |-> key, elem |-> elem]) \in Seq(E)
    BY <2>1
  <2> QED BY <2>2 DEF LinkedInsert, rest
<1>2. CASE I # {}
  <2>1. PICK n \in Nat : n = Len(q)
    OBVIOUS
  <2>2. PICK m \in I : \A j \in I : m <= j
    <3>1. I \subseteq Nat
      OBVIOUS
    <3> HIDE DEF I
    <3> QED BY <1>2, <3>1, LeastNat
  <2>3. Min(I) \in I
    <3>1. \E x \in I : \A y \in I : x <= y
      BY <2>2
    <3> HIDE DEF I
    <3> QED BY <3>1 DEF Min
  <2>4. SelectInSeq(q, LAMBDA x : x.key = key) = Min(I)
    BY <1>2 DEF SelectInSeq
  <2>5. rest = RemoveAt(q, Min(I))
    BY <1>2, <2>4 DEF RemoveFirstMatch
  <2>6. PICK i \in 1 .. n : i = Min(I)
    BY <2>1, <2>3
  <2>7. rest = SubSeq(q, 1, i - 1) \o SubSeq(q, i + 1, n)
    <3> HIDE DEF I, rest
    <3> QED BY <2>1, <2>5, <2>6 DEF RemoveAt
  <2> HIDE DEF I, rest
  <2>8. SubSeq(q, 1, i - 1) \in Seq(E)
    <3>1. \A k \in 1 .. (i - 1) : k \in 1 .. Len(q) /\ q[k] \in E
      BY <2>1, ElementOfSeq
    <3> QED BY <2>1, <3>1, SubSeqProperties
  <2>9. SubSeq(q, i + 1, n) \in Seq(E)
    <3>1. \A k \in (i + 1) .. n : k \in 1 .. Len(q) /\ q[k] \in E
      BY <2>1, ElementOfSeq
    <3> QED BY <2>1, <3>1, SubSeqProperties
  <2>10. rest \in Seq(E)
    BY <2>7, <2>8, <2>9, ConcatProperties
  <2>11. Append(rest, [key |-> key, elem |-> elem]) \in Seq(E)
    BY <2>10, AppendProperties
  <2> QED BY <2>11 DEF LinkedInsert, rest
<1> QED BY <1>1, <1>2

\* So does an extension.
LEMMA LinkedExtendOver ==
    ASSUME NEW S, NEW q \in Seq(Entries(S)), NEW r \in Seq(Entries(S))
    PROVE  LinkedExtend(q, r) \in Seq(Entries(S))
<1>1. PICK n \in Nat : n = Len(r)
  OBVIOUS
<1> DEFINE V == Seq(Entries(S))
           Step(k, p) == LinkedInsert(p, r[k].key, r[k].elem)
           Extends(a) == a = [k \in 0 .. Len(r) |->
                                IF k = 0 THEN q ELSE LinkedInsert(a[k - 1], r[k].key, r[k].elem)]
           g == [x \in (1 .. n) \X V |-> Step(x[1], x[2])]
<1>2. ASSUME NEW k \in 1 .. n, NEW p \in V PROVE Step(k, p) \in V
  <2>1. r[k] \in Entries(S)
    BY <1>1, ElementOfSeq
  <2>2. [key |-> r[k].key, elem |-> r[k].elem] \in Entries(S)
    BY <2>1 DEF Entries
  <2> QED BY <2>2, LinkedInsertOver
<1>3. g \in [(1 .. n) \X V -> V]
  BY <1>2
<1>4. \A k \in 1 .. n, p \in V : g[<<k, p>>] = Step(k, p)
  OBVIOUS
<1> HIDE DEF g, V
<1>5. q \in V
  BY DEF V
<1>6. PICK h \in [0 .. n -> V] : IteratesOf(h, n, q, g)
  BY <1>3, <1>5, IterateExists
<1>7. Extends(h)
  <2>1. \A k \in 0 .. n : h[k] = IF k = 0 THEN q ELSE Step(k, h[k - 1])
    <3> TAKE k \in 0 .. n
    <3>1. CASE k = 0
      BY <1>6, <3>1 DEF IteratesOf
    <3>2. CASE k # 0
      <4>1. PICK j : j = k - 1 /\ j \in 0 .. n /\ k \in 1 .. n
        BY <3>2
      <4>2. h[j] \in V /\ h[k] = g[<<k, h[j]>>]
        BY <1>6, <4>1 DEF IteratesOf
      <4>3. h[k] = Step(k, h[j])
        BY <1>4, <4>1, <4>2
      <4> QED BY <3>2, <4>1, <4>3
    <3> QED BY <3>1, <3>2
  <2>2. h = [k \in 0 .. n |-> h[k]]
    OBVIOUS
  <2> QED BY <1>1, <2>1, <2>2, Zenon
<1>8. PICK f : f = CHOOSE a : Extends(a)
  OBVIOUS
<1>9. Extends(f)
  BY <1>7, <1>8, Zenon
<1>10. LinkedExtend(q, r) = f[n]
  BY <1>1, <1>8, Zenon DEF LinkedExtend
<1>11. \A k \in 0 .. n : f[k] = IF k = 0 THEN q ELSE Step(k, f[k - 1])
  BY <1>1, <1>9, Zenon
<1> HIDE DEF Step, Extends
<1>12. f[0] \in V
  BY <1>5, <1>11
<1>13. \A k \in 1 .. n : f[k - 1] \in V => f[k] \in V
  BY <1>2, <1>11
<1>14. \A k \in 0 .. n : f[k] \in V
  BY <1>12, <1>13, IterateStays
<1> QED BY <1>10, <1>14 DEF V

\* Counting, merging and discounting proposers of elements.
LEMMA CountsKept ==
    ASSUME NEW c \in Counts, NEW d \in Counts, NEW e \in Int
    PROVE  /\ Counted(c, Author(e), 1) \in Counts
           /\ Merged(c, d) \in Counts
           /\ Discounted(c, Author(e)) \in Counts
<1> DEFINE A == {Author(x) : x \in Int}
<1>1. /\ DOMAIN c \subseteq A /\ \A i \in DOMAIN c : c[i] \in Int
      /\ DOMAIN d \subseteq A /\ \A i \in DOMAIN d : d[i] \in Int
  BY CountsAre
<1>2. PICK id \in A : id = Author(e)
  OBVIOUS
<1> HIDE DEF A
<1>3. Counted(c, id, 1) \in [DOMAIN c \cup {id} -> Int] /\ DOMAIN c \cup {id} \in SUBSET A
  BY <1>1 DEF Counted
<1>4. Merged(c, d) \in [DOMAIN c \cup DOMAIN d -> Int] /\ DOMAIN c \cup DOMAIN d \in SUBSET A
  BY <1>1 DEF Merged
<1>5. \E D \in SUBSET A : Discounted(c, id) \in [D -> Int]
  <2> DEFINE D == {j \in DOMAIN c : j # id \/ c[j] > 1}
  <2>1. Discounted(c, id) \in [D -> Int] /\ D \in SUBSET A
    BY <1>1 DEF Discounted
  <2> QED BY <2>1
<1> QED BY <1>2, <1>3, <1>4, <1>5, CountsAre DEF A

\* The store the task reads: it holds the elements of S, with their parents.
StoreOver(store, S) ==
    S \in SUBSET Int /\ DOMAIN store = S /\ \A x \in S : store[x] \in Int

\* One iteration of the walk stays over S.
LEMMA WalkStepOver ==
    ASSUME NEW S, NEW store, StoreOver(store, S), NEW t, NEW w \in Walks(S)
    PROVE  WalkStep(t, store, w) \in Walks(S)
<1> DEFINE q == LinkedInsert(w.queue, w.head_hash, w.head)
           c == Counted(w.proposers, Author(w.head), 1)
           seen == [w EXCEPT !.queue = q, !.proposers = c]
<1>1. /\ w.head \in S /\ w.head_hash \in Int /\ w.queue \in Seq(Entries(S))
      /\ w.proposers \in Counts
  BY DEF Walks
<1>2. q \in Seq(Entries(S))
  <2>1. [key |-> w.head_hash, elem |-> w.head] \in Entries(S)
    BY <1>1 DEF Entries
  <2> QED BY <1>1, <2>1, LinkedInsertOver
<1>3. c \in Counts
  <2>1. w.head \in Int
    BY <1>1 DEF StoreOver
  <2> QED BY <1>1, <2>1, CountsKept
<1> HIDE DEF q, c
<1>4. seen \in Walks(S)
  BY <1>2, <1>3 DEF Walks
<1>5. [seen EXCEPT !.stop = "bottom"] \in Walks(S)
  <2> HIDE DEF seen
  <2> QED BY <1>4 DEF Walks
<1>6. ASSUME w.head_hash \in DOMAIN store
      PROVE  [seen EXCEPT !.head = w.head_hash, !.head_hash = store[w.head_hash]] \in Walks(S)
  <2>1. w.head_hash \in S /\ store[w.head_hash] \in Int
    BY <1>6 DEF StoreOver
  <2> HIDE DEF seen
  <2> QED BY <1>4, <2>1 DEF Walks
<1>7. [w EXCEPT !.stop = "bottom"] \in Walks(S) /\ [w EXCEPT !.stop = "connected"] \in Walks(S)
  BY DEF Walks
<1>8. \/ WalkStep(t, store, w) = w
      \/ WalkStep(t, store, w) = [w EXCEPT !.stop = "bottom"]
      \/ WalkStep(t, store, w) = [w EXCEPT !.stop = "connected"]
      \/ WalkStep(t, store, w) = [seen EXCEPT !.stop = "bottom"]
      \/ /\ w.head_hash \in DOMAIN store
         /\ WalkStep(t, store, w) = [seen EXCEPT !.head = w.head_hash,
                                                  !.head_hash = store[w.head_hash]]
  BY Zenon DEF WalkStep, q, c
<1> HIDE DEF seen
<1> QED BY <1>5, <1>6, <1>7, <1>8

\* The walk stays over S.
LEMMA WalkOver ==
    ASSUME NEW S, NEW store, StoreOver(store, S), NEW t, NEW e \in S
    PROVE  Walk(t, store, e) \in Walks(S)
<1>1. PICK n \in Nat : n = MaxRound + 2
  BY CommitAssumption
<1> DEFINE V == Walks(S)
           Step(w) == WalkStep(t, store, w)
           start == [head |-> e, head_hash |-> e, queue |-> <<>>,
                     proposers |-> [i \in {} |-> 0], stop |-> "no"]
           Rule(a) == a = [k \in 0 .. (MaxRound + 2) |->
                             IF k = 0 THEN start ELSE WalkStep(t, store, a[k - 1])]
           g == [x \in (1 .. n) \X V |-> Step(x[2])]
<1>2. ASSUME NEW w \in V PROVE Step(w) \in V
  BY WalkStepOver
<1>3. g \in [(1 .. n) \X V -> V]
  BY <1>2
<1>4. \A k \in 1 .. n, w \in V : g[<<k, w>>] = Step(w)
  OBVIOUS
<1>5. start \in V
  <2>1. [i \in {} |-> 0] \in Counts
    <3>1. [i \in {} |-> 0] \in [{} -> Int]
      OBVIOUS
    <3>2. {} \in SUBSET {Author(x) : x \in Int}
      OBVIOUS
    <3> QED BY <3>1, <3>2, CountsAre
  <2>2. e \in Int /\ <<>> \in Seq(Entries(S))
    BY DEF StoreOver
  <2> QED BY <2>1, <2>2 DEF Walks
<1> HIDE DEF g, V, start
<1>6. PICK h \in [0 .. n -> V] : IteratesOf(h, n, start, g)
  BY <1>3, <1>5, IterateExists
<1>7. Rule(h)
  <2>1. \A k \in 0 .. n : h[k] = IF k = 0 THEN start ELSE Step(h[k - 1])
    <3> TAKE k \in 0 .. n
    <3>1. CASE k = 0
      BY <1>6, <3>1 DEF IteratesOf
    <3>2. CASE k # 0
      <4>1. PICK j : j = k - 1 /\ j \in 0 .. n /\ k \in 1 .. n
        BY <3>2
      <4>2. h[j] \in V /\ h[k] = g[<<k, h[j]>>]
        BY <1>6, <4>1 DEF IteratesOf
      <4>3. h[k] = Step(h[j])
        BY <1>4, <4>1, <4>2
      <4> QED BY <3>2, <4>1, <4>3
    <3> QED BY <3>1, <3>2
  <2>2. h = [k \in 0 .. n |-> h[k]]
    OBVIOUS
  <2> QED BY <1>1, <2>1, <2>2, Zenon
<1>8. PICK f : f = CHOOSE a : Rule(a)
  OBVIOUS
<1>9. Rule(f)
  BY <1>7, <1>8, Zenon
<1>10. Walk(t, store, e) = f[n]
  BY <1>1, <1>8, Zenon DEF Walk, start
<1>11. \A k \in 0 .. n : f[k] = IF k = 0 THEN start ELSE Step(f[k - 1])
  BY <1>1, <1>9, Zenon
<1> HIDE DEF Step, Rule
<1>12. f[0] \in V
  BY <1>5, <1>11
<1>13. \A k \in 1 .. n : f[k - 1] \in V => f[k] \in V
  BY <1>2, <1>11
<1>14. \A k \in 0 .. n : f[k] \in V
  BY <1>12, <1>13, IterateStays
<1> QED BY <1>10, <1>14 DEF V

\* Taking up the walk's queue keeps the task over S, and what it drops of the
\* old queue are elements of S.
LEMMA AttachedOver ==
    ASSUME NEW S, NEW t \in Tasks(S), NEW w \in Walks(S)
    PROVE  Attached(t, w) \in Tasks(S) /\ Orphans(t, w) \subseteq S \ {Genesis}
<1> DEFINE q == LinkedExtend(t.commit_queue, w.queue)
           c == Merged(t.unique_proposers, w.proposers)
<1>1. /\ t.commit_queue \in Seq(Entries(S)) /\ t.unique_proposers \in Counts
      /\ w.queue \in Seq(Entries(S)) /\ w.proposers \in Counts
  BY DEF Tasks, Walks
<1>2. q \in Seq(Entries(S)) /\ c \in Counts
  BY <1>1, LinkedExtendOver, CountsKept
<1> HIDE DEF q, c
<1>3. [t EXCEPT !.commit_queue = q, !.unique_proposers = c] \in Tasks(S)
  BY <1>2 DEF Tasks
<1>4. [t EXCEPT !.commit_queue = w.queue, !.unique_proposers = w.proposers] \in Tasks(S)
  BY <1>1 DEF Tasks
<1>5. \A i \in 1 .. Len(t.commit_queue) : t.commit_queue[i].elem \in S
  <2>1. \A i \in 1 .. Len(t.commit_queue) : t.commit_queue[i] \in Entries(S)
    BY <1>1, ElementOfSeq
  <2> QED BY <2>1 DEF Entries
<1>6. Orphans(t, w) \subseteq S \ {Genesis}
  BY <1>5 DEF Orphans
<1>7. Attached(t, w) \in Tasks(S)
  BY <1>3, <1>4, Zenon DEF Attached, q, c
<1> QED BY <1>6, <1>7

\* One iteration of the commit loop keeps the task over S.
LEMMA CommitStepOver ==
    ASSUME NEW S \in SUBSET Int, NEW t \in Tasks(S)
    PROVE  CommitStep(t) \in Tasks(S)
<1>1. CASE CommitStep(t) = t
  BY <1>1
<1>2. CASE CommitStep(t) = [t EXCEPT !.panicked = TRUE]
  BY <1>2 DEF Tasks
<1>3. CASE CommitStep(t) = Popped(t) /\ Unwrappable(t)
  <2>1. /\ t.commit_queue \in Seq(Entries(S)) /\ t.unique_proposers \in Counts
        /\ t.committed \in Seq(S) /\ t.commit_queue # <<>>
    BY <1>3 DEF Tasks, Unwrappable
  <2>2. PICK x \in Entries(S) : x = Head(t.commit_queue)
    BY <2>1, HeadTailProperties
  <2>3. PICK q \in Seq(Entries(S)) : q = Tail(t.commit_queue)
    BY <2>1, HeadTailProperties
  <2>4. x.key \in Int /\ x.elem \in S /\ x.elem \in Int
    BY <2>2 DEF Entries
  <2>5. PICK c \in Counts : c = Discounted(t.unique_proposers, Author(x.elem))
    BY <2>1, <2>4, CountsKept
  <2>6. PICK d \in Seq(S) : d = Append(t.committed, x.elem)
    BY <2>1, <2>4, AppendProperties
  <2>7. Popped(t) = [t EXCEPT !.commit_queue = q, !.unique_proposers = c,
                               !.highest_committed_hash = x.key,
                               !.highest_committed_element = x.elem,
                               !.committed = d]
    BY <2>2, <2>3, <2>5, <2>6, Zenon DEF Popped
  <2>8. [t EXCEPT !.commit_queue = q, !.unique_proposers = c,
                  !.highest_committed_hash = x.key,
                  !.highest_committed_element = x.elem,
                  !.committed = d] \in Tasks(S)
    BY <2>4 DEF Tasks
  <2> QED BY <1>3, <2>7, <2>8
<1> QED BY <1>1, <1>2, <1>3, Zenon DEF CommitStep

\* The commit loop keeps the task over S.
LEMMA CommitLoopOver ==
    ASSUME NEW S \in SUBSET Int, NEW t \in Tasks(S)
    PROVE  CommitLoop(t) \in Tasks(S)
<1>1. PICK n \in Nat : n = Len(t.commit_queue) + 1
  BY DEF Tasks
<1> DEFINE V == Tasks(S)
           Step(u) == CommitStep(u)
           Rule(a) == a = [k \in 0 .. (Len(t.commit_queue) + 1) |->
                             IF k = 0 THEN t ELSE CommitStep(a[k - 1])]
           g == [x \in (1 .. n) \X V |-> Step(x[2])]
<1>2. ASSUME NEW u \in V PROVE Step(u) \in V
  BY CommitStepOver
<1>3. g \in [(1 .. n) \X V -> V]
  BY <1>2
<1>4. \A k \in 1 .. n, u \in V : g[<<k, u>>] = Step(u)
  OBVIOUS
<1>5. t \in V
  OBVIOUS
<1> HIDE DEF g, V
<1>6. PICK h \in [0 .. n -> V] : IteratesOf(h, n, t, g)
  BY <1>3, <1>5, IterateExists
<1>7. Rule(h)
  <2>1. \A k \in 0 .. n : h[k] = IF k = 0 THEN t ELSE Step(h[k - 1])
    <3> TAKE k \in 0 .. n
    <3>1. CASE k = 0
      BY <1>6, <3>1 DEF IteratesOf
    <3>2. CASE k # 0
      <4>1. PICK j : j = k - 1 /\ j \in 0 .. n /\ k \in 1 .. n
        BY <3>2
      <4>2. h[j] \in V /\ h[k] = g[<<k, h[j]>>]
        BY <1>6, <4>1 DEF IteratesOf
      <4>3. h[k] = Step(h[j])
        BY <1>4, <4>1, <4>2
      <4> QED BY <3>2, <4>1, <4>3
    <3> QED BY <3>1, <3>2
  <2>2. h = [k \in 0 .. n |-> h[k]]
    OBVIOUS
  <2> QED BY <1>1, <2>1, <2>2, Zenon
<1>8. PICK f : f = CHOOSE a : Rule(a)
  OBVIOUS
<1>9. Rule(f)
  BY <1>7, <1>8, Zenon
<1>10. CommitLoop(t) = f[n]
  BY <1>1, <1>8, Zenon DEF CommitLoop
<1>11. \A k \in 0 .. n : f[k] = IF k = 0 THEN t ELSE Step(f[k - 1])
  BY <1>1, <1>9, Zenon
<1> HIDE DEF Step, Rule
<1>12. f[0] \in V
  BY <1>5, <1>11
<1>13. \A k \in 1 .. n : f[k - 1] \in V => f[k] \in V
  BY <1>2, <1>11
<1>14. \A k \in 0 .. n : f[k] \in V
  BY <1>12, <1>13, IterateStays
<1> QED BY <1>10, <1>14 DEF V

\* The handler of EndRound for a stored element commits stored elements, and
\* reports rounds of stored elements as orphaned.
LEMMA EndRoundOver ==
    ASSUME NEW S, NEW store, StoreOver(store, S), NEW t \in Tasks(S), NEW e \in S
    PROVE  /\ end_round(t, store, e) \in Tasks(S)
           /\ end_round_orphans(t, store, e) \subseteq S \ {Genesis}
<1>1. PICK w \in Walks(S) : w = Walk(t, store, e)
  BY WalkOver
<1>2. PICK u \in Tasks(S) : u = Attached(t, w)
  BY AttachedOver
<1>3. <<>> \in Seq(S)
  OBVIOUS
<1>4. [t EXCEPT !.committed = <<>>] \in Tasks(S) /\ [u EXCEPT !.committed = <<>>] \in Tasks(S)
  BY <1>3 DEF Tasks
<1>5. S \in SUBSET Int
  BY DEF StoreOver
<1>6. CommitLoop([u EXCEPT !.committed = <<>>]) \in Tasks(S)
  BY <1>4, <1>5, CommitLoopOver
<1>7. end_round(t, store, e) \in Tasks(S)
  BY <1>1, <1>2, <1>4, <1>6, Zenon DEF end_round
<1>8. end_round_orphans(t, store, e) \subseteq S \ {Genesis}
  BY <1>1, AttachedOver DEF end_round_orphans
<1> QED BY <1>7, <1>8

\* A larger set has all the tasks of a smaller one.
LEMMA TasksGrow ==
    ASSUME NEW S, NEW T, S \subseteq T
    PROVE  Tasks(S) \subseteq Tasks(T)
<1>1. Entries(S) \subseteq Entries(T)
  BY DEF Entries
<1>2. Seq(Entries(S)) \subseteq Seq(Entries(T)) /\ Seq(S) \subseteq Seq(T)
  <2>1. ASSUME NEW A, NEW B, A \subseteq B, NEW s \in Seq(A) PROVE s \in Seq(B)
    BY <2>1
  <2> QED BY <1>1, <2>1
<1> QED BY <1>2 DEF Tasks

----------------------------------------------------------------------------
(***************************************************************************)
(* The output.  A block is pinned exactly if it is not above its author's  *)
(* watermark, and the blocks emitted are the merge of what is pinned.      *)
(***************************************************************************)
HeightsOf == [Ids -> 0 .. MaxBlocks]

Emits(out, ch, pins) ==
    /\ \A b \in Blocks : PinnedBy(b, pins) # {} <=> Height(b) <= ch[AuthorOf(b)]
    /\ IsMerge(out, pins)

\* The same while the attestation hd is handled, after its first k authors.
MidEmits(out, ch, pins, hd, k) ==
    /\ \A b \in Blocks : Height(b) <= ch[AuthorOf(b)]
                            <=> \/ PinnedBy(b, pins) # {}
                                \/ AuthorOf(b) < k /\ hd[AuthorOf(b)] >= Height(b)
    /\ ToSet(out) = {b \in Blocks : Height(b) <= ch[AuthorOf(b)]}
    /\ \A i, j \in 1 .. Len(out) : i < j => Before(out[i], out[j], Append(pins, hd))

\* The servers are numbered from 0.
LEMMA IdsAre ==
    /\ Cardinality(Ids) \in Nat
    /\ \A a : a \in Ids <=> a \in Int /\ 0 <= a /\ a < Cardinality(Ids)
<1>1. PICK n \in Nat : n = Cardinality(CommitIds)
  BY HeraAssumption, FS_CardinalityType
<1>2. CommitIds = 0 .. (n - 1)
  BY <1>1, HeraAssumption
<1>3. Cardinality(Ids) = n
  BY <1>1 DEF Ids
<1>4. \A a : a \in CommitIds <=> a \in Int /\ 0 <= a /\ a < n
  BY <1>2
<1> QED BY <1>3, <1>4 DEF Ids

\* One more attestation pins a block last: the first to pin it stays the first.
LEMMA PinnedMore ==
    ASSUME NEW pins \in Seq(HeightsOf), NEW hd \in HeightsOf, NEW b \in Blocks
    PROVE  LET P == PinnedBy(b, pins)
               Q == PinnedBy(b, Append(pins, hd))
           IN /\ P # {} => /\ Q # {} /\ Min(Q) = Min(P)
                           /\ Min(P) \in Int /\ Min(P) <= Len(pins)
              /\ P = {} /\ hd[AuthorOf(b)] >= Height(b) => Q # {} /\ Min(Q) = Len(pins) + 1
              /\ P = {} /\ ~ (hd[AuthorOf(b)] >= Height(b)) => Q = {}
<1>1. PICK n \in Nat : n = Len(pins)
  OBVIOUS
<1> DEFINE P == PinnedBy(b, pins)
           Q == PinnedBy(b, Append(pins, hd))
           N == IF hd[AuthorOf(b)] >= Height(b) THEN {n + 1} ELSE {}
<1>2. /\ Len(Append(pins, hd)) = n + 1
      /\ \A k \in 1 .. n : Append(pins, hd)[k] = pins[k]
      /\ Append(pins, hd)[n + 1] = hd
  BY <1>1, AppendProperties
<1>3. Q = P \cup N
  <2>1. \A k \in 1 .. (n + 1) : k \in 1 .. n \/ k = n + 1
    OBVIOUS
  <2>2. n + 1 \in 1 .. (n + 1) /\ n + 1 \notin 1 .. n /\ \A k \in 1 .. n : k \in 1 .. (n + 1)
    OBVIOUS
  <2> QED BY <1>1, <1>2, <2>1, <2>2 DEF PinnedBy
<1>4. P \subseteq 1 .. n
  BY <1>1 DEF PinnedBy
<1>5. N \subseteq {n + 1} /\ (N = {} <=> ~ (hd[AuthorOf(b)] >= Height(b)))
  OBVIOUS
<1> HIDE DEF P, Q, N
<1>6. ASSUME P # {} PROVE Q # {} /\ Min(Q) = Min(P) /\ Min(P) \in Int /\ Min(P) <= n
  <2>1. P \subseteq Nat
    BY <1>4
  <2>2. PICK m \in P : \A y \in P : m <= y
    BY <1>6, <2>1, LeastNat
  <2>3. m \in 1 .. n /\ \A y \in Q : m <= y
    BY <1>3, <1>4, <1>5, <2>2
  <2>4. m \in Q
    BY <1>3, <2>2
  <2>5. Min(P) = m
    <3>1. \A x \in P : (\A y \in P : x <= y) => x = m
      BY <1>4, <2>2
    <3>2. Min(P) \in P /\ \A y \in P : Min(P) <= y
      BY <2>2 DEF Min
    <3> QED BY <3>1, <3>2
  <2>6. Min(Q) = m
    <3>1. \A x \in Q : x \in Int
      BY <1>3, <1>4, <1>5
    <3>2. \A x \in Q : (\A y \in Q : x <= y) => x = m
      BY <2>3, <2>4, <3>1
    <3>3. Min(Q) \in Q /\ \A y \in Q : Min(Q) <= y
      BY <2>3, <2>4 DEF Min
    <3> QED BY <3>2, <3>3
  <2> QED BY <2>3, <2>4, <2>5, <2>6
<1>7. ASSUME P = {}, N # {} PROVE Q # {} /\ Min(Q) = n + 1
  <2>1. Q = {n + 1}
    BY <1>3, <1>5, <1>7
  <2>2. Min(Q) \in Q
    <3>1. \E x \in Q : \A y \in Q : x <= y
      BY <2>1
    <3> QED BY <3>1 DEF Min
  <2> QED BY <2>1, <2>2
<1>8. P = {} /\ N = {} => Q = {}
  BY <1>3
<1> QED BY <1>1, <1>5, <1>6, <1>7, <1>8 DEF P, Q

\* The blocks that author a adds to the output when its watermark moves.
Run(a, from, to) == [k \in 1 .. (to - from) |-> Block(a, from + k)]

\* A run is a sequence of the blocks above from, up to to.
LEMMA RunIs ==
    ASSUME NEW a \in Ids, NEW from \in 0 .. MaxBlocks, NEW to \in 0 .. MaxBlocks, from <= to
    PROVE  /\ Run(a, from, to) \in Seq(Blocks) /\ Len(Run(a, from, to)) = to - from
           /\ \A k \in 1 .. (to - from) : Run(a, from, to)[k] = Block(a, from + k)
           /\ \A b \in Blocks : b \in ToSet(Run(a, from, to))
                                   <=> AuthorOf(b) = a /\ from < Height(b) /\ Height(b) <= to
<1>1. PICK n \in Nat : n = to - from
  BY Constants
<1>2. \A k \in 1 .. n : from + k \in 1 .. MaxBlocks /\ Block(a, from + k) \in Blocks
  BY <1>1, Constants, BlockParts
<1>3. PICK s : s = [k \in 1 .. n |-> Block(a, from + k)]
  OBVIOUS
<1>4. s = Run(a, from, to)
  BY <1>1, <1>3 DEF Run
<1>5. s \in Seq(Blocks) /\ Len(s) = n /\ \A k \in 1 .. n : s[k] = Block(a, from + k)
  BY <1>2, <1>3
<1>6. ASSUME NEW b \in Blocks
      PROVE  b \in ToSet(s) <=> AuthorOf(b) = a /\ from < Height(b) /\ Height(b) <= to
  <2>1. b \in ToSet(s) <=> \E k \in 1 .. n : Block(a, from + k) = b
    <3>1. b \in ToSet(s) <=> \E k \in 1 .. Len(s) : s[k] = b
      BY <1>5, MembersOf
    <3> QED BY <1>5, <3>1
  <2>2. Height(b) \in 1 .. MaxBlocks /\ b = Block(AuthorOf(b), Height(b))
    BY BlockParts
  <2>3. ASSUME NEW k \in 1 .. n, Block(a, from + k) = b
        PROVE  AuthorOf(b) = a /\ from < Height(b) /\ Height(b) <= to
    <3>1. AuthorOf(b) = a /\ Height(b) = from + k
      BY <2>3, BlockParts
    <3> QED BY <1>1, <3>1
  <2>4. ASSUME AuthorOf(b) = a, from < Height(b), Height(b) <= to
        PROVE  \E k \in 1 .. n : Block(a, from + k) = b
    <3>1. PICK k \in 1 .. n : from + k = Height(b)
      <4>1. Height(b) - from \in 1 .. n /\ from + (Height(b) - from) = Height(b)
        BY <1>1, <2>2, <2>4
      <4> QED BY <4>1
    <3> QED BY <2>2, <2>4, <3>1
  <2> QED BY <2>1, <2>3, <2>4
<1> QED BY <1>1, <1>4, <1>5, <1>6

\* Before an attestation is handled the output is the merge of the ones before
\* it.
LEMMA MidStart ==
    ASSUME NEW pins \in Seq(HeightsOf), NEW hd \in HeightsOf, NEW out \in Seq(Blocks),
           NEW ch \in HeightsOf, Emits(out, ch, pins)
    PROVE  MidEmits(out, ch, pins, hd, 0)
<1>1. /\ \A b \in Blocks : PinnedBy(b, pins) # {} <=> Height(b) <= ch[AuthorOf(b)]
      /\ ToSet(out) = {b \in Blocks : PinnedBy(b, pins) # {}}
      /\ \A j, k \in 1 .. Len(out) : j < k => Before(out[j], out[k], pins)
  BY DEF Emits, IsMerge, Blocks
<1>2. ASSUME NEW i \in 1 .. Len(out), NEW j \in 1 .. Len(out), i < j
      PROVE  Before(out[i], out[j], Append(pins, hd))
  <2>1. PICK b \in Blocks : b = out[i] /\ PinnedBy(b, pins) # {}
    BY <1>1, MembersOf
  <2>2. PICK c \in Blocks : c = out[j] /\ PinnedBy(c, pins) # {}
    BY <1>1, MembersOf
  <2>3. /\ Min(PinnedBy(b, Append(pins, hd))) = Min(PinnedBy(b, pins))
        /\ Min(PinnedBy(c, Append(pins, hd))) = Min(PinnedBy(c, pins))
    BY <2>1, <2>2, PinnedMore
  <2>4. Before(b, c, pins)
    BY <1>1, <1>2, <2>1, <2>2
  <2>5. Before(b, c, Append(pins, hd))
    BY <2>3, <2>4 DEF Before
  <2> QED BY <2>1, <2>2, <2>5
<1>3. \A b \in Blocks : ~ (AuthorOf(b) < 0)
  BY BlockParts, IdsAre
<1>4. ToSet(out) = {b \in Blocks : Height(b) <= ch[AuthorOf(b)]}
  BY <1>1
<1> QED BY <1>1, <1>2, <1>3, <1>4 DEF MidEmits

\* After its last author it is the merge of it and the ones before.
LEMMA MidEnd ==
    ASSUME NEW pins \in Seq(HeightsOf), NEW hd \in HeightsOf, NEW out \in Seq(Blocks),
           NEW ch \in HeightsOf, MidEmits(out, ch, pins, hd, Cardinality(Ids))
    PROVE  Emits(out, ch, Append(pins, hd))
<1>1. ASSUME NEW b \in Blocks
      PROVE  PinnedBy(b, Append(pins, hd)) # {} <=> Height(b) <= ch[AuthorOf(b)]
  <2>1. AuthorOf(b) < Cardinality(Ids)
    BY BlockParts, IdsAre
  <2>2. Height(b) <= ch[AuthorOf(b)]
           <=> PinnedBy(b, pins) # {} \/ hd[AuthorOf(b)] >= Height(b)
    BY <2>1 DEF MidEmits
  <2> QED BY <2>2, PinnedMore
<1>2. ToSet(out) = {b \in Blocks : PinnedBy(b, Append(pins, hd)) # {}}
  BY <1>1 DEF MidEmits
<1>3. \A i, j \in 1 .. Len(out) : i < j => Before(out[i], out[j], Append(pins, hd))
  BY DEF MidEmits
<1> QED BY <1>1, <1>2, <1>3 DEF Emits, IsMerge, Blocks

\* One author's head: nothing new, or the run up to it.
LEMMA MidStep ==
    ASSUME NEW pins \in Seq(HeightsOf), NEW hd \in HeightsOf, NEW out \in Seq(Blocks),
           NEW ch \in HeightsOf, NEW a \in Ids, MidEmits(out, ch, pins, hd, a)
    PROVE  /\ hd[a] <= ch[a] => MidEmits(out, ch, pins, hd, a + 1)
           /\ ch[a] < hd[a] => MidEmits(out \o Run(a, ch[a], hd[a]), [ch EXCEPT ![a] = hd[a]],
                                        pins, hd, a + 1)
<1>1. /\ \A b \in Blocks : Height(b) <= ch[AuthorOf(b)]
                              <=> \/ PinnedBy(b, pins) # {}
                                  \/ AuthorOf(b) < a /\ hd[AuthorOf(b)] >= Height(b)
      /\ ToSet(out) = {b \in Blocks : Height(b) <= ch[AuthorOf(b)]}
      /\ \A i, j \in 1 .. Len(out) : i < j => Before(out[i], out[j], Append(pins, hd))
  BY DEF MidEmits
<1>2. PICK from \in 0 .. MaxBlocks : from = ch[a]
  BY DEF HeightsOf
<1>3. PICK to \in 0 .. MaxBlocks : to = hd[a]
  BY DEF HeightsOf
<1>4. a \in Int /\ MaxBlocks \in Nat /\ ~ (a < a)
  BY IdsAre, Constants
<1>5. \A b \in Blocks : /\ AuthorOf(b) \in Ids /\ AuthorOf(b) \in Int
                        /\ Height(b) \in Int /\ Height(b) >= 1
                        /\ AuthorOf(b) < a + 1 <=> AuthorOf(b) < a \/ AuthorOf(b) = a
  BY <1>4, BlockParts, IdsAre
<1>6. ASSUME to <= from PROVE MidEmits(out, ch, pins, hd, a + 1)
  <2>1. ASSUME NEW b \in Blocks
        PROVE  Height(b) <= ch[AuthorOf(b)]
                  <=> \/ PinnedBy(b, pins) # {}
                      \/ AuthorOf(b) < a + 1 /\ hd[AuthorOf(b)] >= Height(b)
    <3>1. AuthorOf(b) = a /\ to >= Height(b) => Height(b) <= from
      BY <1>5, <1>6
    <3> QED BY <1>1, <1>2, <1>3, <1>5, <3>1
  <2> QED BY <1>1, <2>1 DEF MidEmits
<1>7. ASSUME from < to
      PROVE  MidEmits(out \o Run(a, from, to), [ch EXCEPT ![a] = to], pins, hd, a + 1)
  <2>1. PICK run \in Seq(Blocks) :
            /\ run = Run(a, from, to)
            /\ Len(run) = to - from
            /\ \A k \in 1 .. (to - from) : run[k] = Block(a, from + k)
            /\ \A b \in Blocks : b \in ToSet(run)
                                    <=> AuthorOf(b) = a /\ from < Height(b) /\ Height(b) <= to
    BY <1>4, <1>7, RunIs
  <2>2. PICK ch1 \in HeightsOf : /\ ch1 = [ch EXCEPT ![a] = to]
                                 /\ ch1[a] = to
                                 /\ \A c \in Ids \ {a} : ch1[c] = ch[c]
    <3>1. PICK ch1 : ch1 = [ch EXCEPT ![a] = to]
      OBVIOUS
    <3>2. ch1 \in HeightsOf /\ ch1[a] = to /\ \A c \in Ids \ {a} : ch1[c] = ch[c]
      BY <3>1 DEF HeightsOf
    <3> QED BY <3>1, <3>2
  <2>3. PICK all \in Seq(Blocks) : all = out \o run /\ ToSet(all) = ToSet(out) \cup ToSet(run)
    BY MembersOfConcat
  <2>4. PICK m \in Nat : m = Len(out)
    OBVIOUS
  <2>5. PICK n \in Nat : n = to - from
    BY <1>4, <1>7
  <2>6. /\ Len(all) = m + n
        /\ \A k \in 1 .. m : all[k] = out[k]
        /\ \A k \in 1 .. n : all[m + k] = run[k]
    <3>1. Len(run) = n
      BY <2>1, <2>5
    <3>2. /\ Len(out \o run) = Len(out) + Len(run)
          /\ \A k \in 1 .. Len(out) : (out \o run)[k] = out[k]
          /\ \A k \in 1 .. Len(run) : (out \o run)[Len(out) + k] = run[k]
      OBVIOUS
    <3> QED BY <2>3, <2>4, <3>1, <3>2
  <2>7. ASSUME NEW b \in Blocks
        PROVE  Height(b) <= ch1[AuthorOf(b)]
                  <=> \/ Height(b) <= ch[AuthorOf(b)]
                      \/ AuthorOf(b) = a /\ from < Height(b) /\ Height(b) <= to
    <3>1. AuthorOf(b) \in Ids /\ Height(b) \in Int
      BY <1>5
    <3>2. CASE AuthorOf(b) = a
      BY <1>2, <1>7, <2>2, <3>1, <3>2
    <3>3. CASE AuthorOf(b) # a
      BY <2>2, <3>1, <3>3
    <3> QED BY <3>2, <3>3
  <2>8. ASSUME NEW b \in Blocks
        PROVE  Height(b) <= ch1[AuthorOf(b)]
                  <=> \/ PinnedBy(b, pins) # {}
                      \/ AuthorOf(b) < a + 1 /\ hd[AuthorOf(b)] >= Height(b)
    <3>1. AuthorOf(b) = a => (to >= Height(b) <=> Height(b) <= to)
      BY <1>5
    <3>2. AuthorOf(b) = a /\ Height(b) <= to => Height(b) <= from \/ from < Height(b)
      BY <1>5
    <3>3. AuthorOf(b) = a => ch[AuthorOf(b)] = from /\ hd[AuthorOf(b)] = to
      BY <1>2, <1>3
    <3> QED BY <1>1, <1>5, <2>7, <3>1, <3>2, <3>3
  <2>9. ToSet(all) = {b \in Blocks : Height(b) <= ch1[AuthorOf(b)]}
    <3>1. ToSet(run) \subseteq Blocks
      BY <2>1, ElementOfSeq, MembersOf
    <3> QED BY <1>1, <2>1, <2>3, <2>7, <3>1
  <2> DEFINE first(b) == Min(PinnedBy(b, Append(pins, hd)))
  <2>10. PICK l \in Nat : l = Len(pins)
    OBVIOUS
  <2>11. ASSUME NEW i \in 1 .. m
         PROVE  /\ out[i] \in Blocks /\ first(out[i]) \in Int
                /\ first(out[i]) < l + 1 \/ (first(out[i]) = l + 1 /\ AuthorOf(out[i]) < a)
    <3>1. PICK b \in Blocks : b = out[i] /\ Height(b) <= ch[AuthorOf(b)]
      BY <1>1, <2>4, MembersOf
    <3>2. CASE PinnedBy(b, pins) # {}
      <4>1. first(b) \in Int /\ first(b) <= l
        BY <2>10, <3>2, PinnedMore
      <4> HIDE DEF first
      <4> QED BY <3>1, <4>1
    <3>3. CASE PinnedBy(b, pins) = {}
      <4>1. AuthorOf(b) < a /\ hd[AuthorOf(b)] >= Height(b)
        BY <1>1, <3>1, <3>3
      <4>2. first(b) = l + 1
        BY <2>10, <3>3, <4>1, PinnedMore
      <4> HIDE DEF first
      <4> QED BY <3>1, <4>1, <4>2
    <3> QED BY <3>2, <3>3
  <2>12. ASSUME NEW i \in 1 .. n
         PROVE  /\ run[i] \in Blocks /\ first(run[i]) = l + 1
                /\ AuthorOf(run[i]) = a /\ Height(run[i]) = from + i
    <3>1. PICK b \in Blocks : /\ b = run[i] /\ b \in ToSet(run)
                              /\ AuthorOf(b) = a /\ Height(b) = from + i
      BY <2>1, <2>5, MembersOf, ElementOfSeq, BlockParts
    <3>2. from < Height(b) /\ Height(b) <= to
      BY <2>1, <3>1
    <3>3. ~ (Height(b) <= ch[AuthorOf(b)]) /\ hd[AuthorOf(b)] >= Height(b)
      BY <1>2, <1>3, <1>5, <3>1, <3>2
    <3>4. PinnedBy(b, pins) = {}
      BY <1>1, <3>3
    <3>5. first(b) = l + 1
      BY <2>10, <3>3, <3>4, PinnedMore
    <3> QED BY <3>1, <3>5
  <2>13. ASSUME NEW b, NEW c,
                \/ first(b) < first(c)
                \/ first(b) = first(c) /\ AuthorOf(b) < AuthorOf(c)
                \/ first(b) = first(c) /\ AuthorOf(b) = AuthorOf(c) /\ Height(b) < Height(c)
         PROVE  Before(b, c, Append(pins, hd))
    BY <2>13 DEF Before
  <2> HIDE DEF first
  <2>14. ASSUME NEW i \in 1 .. (m + n), NEW j \in 1 .. (m + n), i < j
         PROVE  Before(all[i], all[j], Append(pins, hd))
    <3>1. CASE j \in 1 .. m
      <4>1. i \in 1 .. m
        BY <2>14, <3>1
      <4> QED BY <1>1, <2>4, <2>6, <2>14, <3>1, <4>1
    <3>2. CASE i \in 1 .. m /\ j \notin 1 .. m
      <4>1. PICK k \in 1 .. n : j = m + k
        <5>1. j - m \in 1 .. n /\ j = m + (j - m)
          BY <3>2
        <5> QED BY <5>1
      <4>2. all[i] = out[i] /\ all[j] = run[k]
        BY <2>6, <3>2, <4>1
      <4> QED BY <2>11, <2>12, <2>13, <3>2, <4>1, <4>2
    <3>3. CASE i \notin 1 .. m /\ j \notin 1 .. m
      <4>1. PICK k \in 1 .. n : j = m + k
        <5>1. j - m \in 1 .. n /\ j = m + (j - m)
          BY <3>3
        <5> QED BY <5>1
      <4>2. PICK k0 \in 1 .. n : i = m + k0
        <5>1. i - m \in 1 .. n /\ i = m + (i - m)
          BY <3>3
        <5> QED BY <5>1
      <4>3. all[i] = run[k0] /\ all[j] = run[k] /\ from + k0 < from + k
        BY <2>6, <2>14, <4>1, <4>2
      <4> QED BY <2>12, <2>13, <4>3
    <3> QED BY <3>1, <3>2, <3>3
  <2>15. MidEmits(all, ch1, pins, hd, a + 1)
    BY <2>6, <2>8, <2>9, <2>14 DEF MidEmits
  <2> QED BY <2>1, <2>2, <2>3, <2>15
<1> QED BY <1>2, <1>3, <1>6, <1>7

----------------------------------------------------------------------------
\* The states of a server that differ from s in its output only.
Output(s, l, e, c) == [s EXCEPT !.log = l, !.emitted = e, !.committed_heights = c]

Outputs(s) == {Output(s, l, e, c) : l \in Seq(Int), e \in Seq(Blocks), c \in HeightsOf}

Logged(t, l) == [t EXCEPT !.log = l]
Emitted(t, e, c) == [t EXCEPT !.emitted = e, !.committed_heights = c]

IsRecord(s) == s = [f \in Fields |-> s[f]]

\* The parts of such a state.
LEMMA OutputsAre ==
    ASSUME NEW s, DOMAIN s = Fields, NEW t \in Outputs(s)
    PROVE  /\ Same(s, t, {"log", "emitted", "committed_heights"})
           /\ t.log \in Seq(Int) /\ t.emitted \in Seq(Blocks)
           /\ t.committed_heights \in HeightsOf
<1>1. PICK l \in Seq(Int), e \in Seq(Blocks), c \in HeightsOf : t = Output(s, l, e, c)
  BY DEF Outputs
<1> QED BY <1>1 DEF Same, Fields, Output

\* Changing the output of such a state gives one.
LEMMA OutputsHave ==
    ASSUME NEW s, DOMAIN s = Fields, NEW t \in Outputs(s)
    PROVE  /\ \A l \in Seq(Int) : \A u : u = Logged(t, l)
                 => /\ u \in Outputs(s) /\ u.log = l /\ u.emitted = t.emitted
                    /\ u.committed_heights = t.committed_heights
           /\ \A e \in Seq(Blocks), c \in HeightsOf : \A u :
                 u = Emitted(t, e, c)
                 => /\ u \in Outputs(s) /\ u.log = t.log /\ u.emitted = e
                    /\ u.committed_heights = c
<1>1. PICK l0 \in Seq(Int), e0 \in Seq(Blocks), c0 \in HeightsOf : t = Output(s, l0, e0, c0)
  BY DEF Outputs
<1>2. DOMAIN t = Fields /\ t.log = l0 /\ t.emitted = e0 /\ t.committed_heights = c0
  BY <1>1 DEF Fields, Output
<1>3. ASSUME NEW l \in Seq(Int), NEW u, u = Logged(t, l)
      PROVE  /\ u \in Outputs(s) /\ u.log = l /\ u.emitted = t.emitted
             /\ u.committed_heights = t.committed_heights
  <2>1. u = Output(s, l, e0, c0)
    BY <1>1, <1>3 DEF Fields, Output, Logged
  <2>2. Output(s, l, e0, c0) \in Outputs(s)
    BY DEF Outputs
  <2>3. u.log = l /\ u.emitted = e0 /\ u.committed_heights = c0
    BY <2>1 DEF Fields, Output
  <2> QED BY <1>2, <2>1, <2>2, <2>3
<1>4. ASSUME NEW e \in Seq(Blocks), NEW c \in HeightsOf,
             NEW u, u = Emitted(t, e, c)
      PROVE  u \in Outputs(s) /\ u.log = t.log /\ u.emitted = e /\ u.committed_heights = c
  <2>1. u = Output(s, l0, e, c)
    BY <1>1, <1>4 DEF Fields, Output, Emitted
  <2>2. Output(s, l0, e, c) \in Outputs(s)
    BY DEF Outputs
  <2>3. u.log = l0 /\ u.emitted = e /\ u.committed_heights = c
    BY <2>1 DEF Fields, Output
  <2> QED BY <1>2, <2>1, <2>2, <2>3
<1> QED BY <1>3, <1>4

\* A state is one of them.
LEMMA OutputsSelf ==
    ASSUME NEW s, IsRecord(s), s.log \in Seq(Int), s.emitted \in Seq(Blocks),
           s.committed_heights \in HeightsOf
    PROVE  s \in Outputs(s)
<1>1. DOMAIN s = Fields
  BY DEF IsRecord
<1>2. PICK t : t = Output(s, s.log, s.emitted, s.committed_heights)
  OBVIOUS
<1>3. t = [f \in Fields |-> s[f]]
  BY <1>1, <1>2 DEF Fields, Output
<1>4. t = s
  BY <1>3 DEF IsRecord
<1>5. t \in Outputs(s)
  BY <1>2 DEF Outputs
<1> QED BY <1>4, <1>5

\* The walk finds blocks up to the pinned one, and all of them if all are stored.
LEMMA WalkRangeIs ==
    ASSUME NEW s, s.committed_heights \in HeightsOf, NEW a \in Ids, NEW to \in 0 .. MaxBlocks,
           NEW from, from = s.committed_heights[a], from < to
    PROVE  /\ WalkRange(s, a, to) \in Seq(Blocks)
           /\ (\A h \in 1 .. to : Block(a, h) \in s.block_store)
                 => WalkRange(s, a, to) = Run(a, from, to)
<1> DEFINE gap == {h \in (from + 1) .. to : Block(a, h) \notin s.block_store}
           S == {from} \cup gap
<1>1. from \in 0 .. MaxBlocks /\ MaxBlocks \in Nat /\ to \in Nat
  BY Constants DEF HeightsOf
<1>2. S \subseteq Nat /\ from \in S /\ \A x \in S : from <= x /\ x <= to
  BY <1>1
<1>3. WalkRange(s, a, to) = Run(a, Max(S), to)
  BY Zenon DEF WalkRange, Run
<1>4. Max(S) \in S
  <2> HIDE DEF S
  <2>1. \E x \in S : \A y \in S : x >= y
    BY <1>1, <1>2, GreatestNat
  <2> QED BY <2>1 DEF Max
<1>5. PICK low \in S : low = Max(S)
  BY <1>4
<1>6. low \in 0 .. MaxBlocks /\ low <= to
  <2> HIDE DEF S
  <2> QED BY <1>1, <1>2
<1>7. Run(a, low, to) \in Seq(Blocks)
  BY <1>6, RunIs
<1>8. ASSUME \A h \in 1 .. to : Block(a, h) \in s.block_store PROVE low = from
  <2>1. \A h \in (from + 1) .. to : h \in 1 .. to
    BY <1>1
  <2>2. gap = {}
    BY <1>8, <2>1
  <2> HIDE DEF gap
  <2> QED BY <2>2
<1> HIDE DEF S
<1> QED BY <1>3, <1>5, <1>7, <1>8

\* The blocks that heads pin are stored.
Backed(s, hd) == \A a \in Ids : \A h \in 1 .. hd[a] : Block(a, h) \in s.block_store

\* One author's head of an attestation.
LEMMA EmitHeadIs ==
    ASSUME NEW s, DOMAIN s = Fields, NEW t \in Outputs(s), NEW a \in Ids, NEW hd \in HeightsOf,
           NEW u, u = EmitHead(t, a, hd[a])
    PROVE  /\ u \in Outputs(s) /\ u.log = t.log
           /\ \A pins \in Seq(HeightsOf) :
                 /\ Backed(s, hd)
                 /\ MidEmits(t.emitted, t.committed_heights, pins, hd, a)
                 => MidEmits(u.emitted, u.committed_heights, pins, hd, a + 1)
<1>1. /\ Same(s, t, {"log", "emitted", "committed_heights"})
      /\ t.emitted \in Seq(Blocks) /\ t.committed_heights \in HeightsOf
  BY OutputsAre
<1>2. DOMAIN t = Fields /\ t.block_store = s.block_store
  BY <1>1 DEF Same, Fields
<1>3. PICK to \in 0 .. MaxBlocks : to = hd[a]
  BY DEF HeightsOf
<1>4. PICK from \in 0 .. MaxBlocks : from = t.committed_heights[a]
  BY <1>1 DEF HeightsOf
<1>5. CASE to <= from
  <2>1. u = t
    BY <1>3, <1>4, <1>5 DEF EmitHead
  <2> QED BY <1>1, <1>3, <1>4, <1>5, <2>1, MidStep
<1>6. CASE ~ (to <= from)
  <2>1. from < to
    BY <1>6, Constants
  <2>2. PICK w \in Seq(Blocks) :
            /\ w = WalkRange(t, a, to)
            /\ (\A h \in 1 .. to : Block(a, h) \in t.block_store) => w = Run(a, from, to)
    BY <1>1, <1>4, <2>1, WalkRangeIs
  <2>3. PICK e \in Seq(Blocks) : e = t.emitted \o w
    BY <1>1, <2>2, ConcatProperties
  <2>4. PICK c \in HeightsOf : c = [t.committed_heights EXCEPT ![a] = to]
    <3>1. [t.committed_heights EXCEPT ![a] = to] \in HeightsOf
      BY <1>1 DEF HeightsOf
    <3> QED BY <3>1
  <2>5. u = Emitted(t, e, c)
    <3>1. u = [t EXCEPT !.emitted = @ \o WalkRange(t, a, to), !.committed_heights[a] = to]
      BY <1>3, <1>4, <1>6 DEF EmitHead
    <3>2. u = [t EXCEPT !.emitted = @ \o w, !.committed_heights[a] = to]
      BY <2>2, <3>1
    <3>3. u = [t EXCEPT !.emitted = t.emitted \o w,
                        !.committed_heights = [t.committed_heights EXCEPT ![a] = to]]
      BY <1>2, <3>2 DEF Fields
    <3> QED BY <2>3, <2>4, <3>3 DEF Emitted
  <2>6. u \in Outputs(s) /\ u.log = t.log /\ u.emitted = e /\ u.committed_heights = c
    BY <2>5, OutputsHave
  <2>7. ASSUME NEW pins \in Seq(HeightsOf), Backed(s, hd),
               MidEmits(t.emitted, t.committed_heights, pins, hd, a)
        PROVE  MidEmits(u.emitted, u.committed_heights, pins, hd, a + 1)
    <3>1. w = Run(a, from, to)
      BY <1>2, <1>3, <2>2, <2>7 DEF Backed
    <3>2. MidEmits(t.emitted \o Run(a, from, to), [t.committed_heights EXCEPT ![a] = to],
                   pins, hd, a + 1)
      BY <1>1, <1>3, <1>4, <2>1, <2>7, MidStep
    <3> QED BY <2>3, <2>4, <2>6, <3>1, <3>2
  <2> QED BY <2>6, <2>7
<1> QED BY <1>5, <1>6

\* A committed attestation, author by author.
LEMMA AttestationIs ==
    ASSUME NEW s, DOMAIN s = Fields, NEW t \in Outputs(s), NEW r \in Int, r # Genesis,
           NEW hd \in HeightsOf, hd = proposals[r].heads,
           NEW u, u = OnCommittedAttestation(t, r)
    PROVE  /\ u \in Outputs(s) /\ u.log = Append(t.log, r)
           /\ \A pins \in Seq(HeightsOf) :
                 Backed(s, hd) /\ Emits(t.emitted, t.committed_heights, pins)
                 => Emits(u.emitted, u.committed_heights, Append(pins, hd))
<1>1. PICK n \in Nat : n = Cardinality(Ids)
  BY IdsAre
<1>2. \A k \in 1 .. n : k - 1 \in Ids
  BY <1>1, IdsAre
<1>3. PICK l \in Seq(Int) : l = Append(t.log, r)
  <2>1. t.log \in Seq(Int)
    BY OutputsAre
  <2> QED BY <2>1, AppendProperties
<1>4. PICK start : start = Logged(t, l)
  OBVIOUS
<1>5. /\ start \in Outputs(s) /\ start.log = Append(t.log, r) /\ start.emitted = t.emitted
      /\ start.committed_heights = t.committed_heights
  <2>1. /\ start \in Outputs(s) /\ start.log = l /\ start.emitted = t.emitted
        /\ start.committed_heights = t.committed_heights
    BY <1>4, OutputsHave
  <2> QED BY <1>3, <2>1
<1> DEFINE V == Outputs(s)
           Step(k, v) == EmitHead(v, k - 1, hd[k - 1])
           Rule(f) == f = [k \in 0 .. Cardinality(Ids) |->
                             IF k = 0 THEN [t EXCEPT !.log = Append(@, r)]
                             ELSE EmitHead(f[k - 1], k - 1, proposals[r].heads[k - 1])]
           g == [x \in (1 .. n) \X V |-> Step(x[1], x[2])]
<1>6. ASSUME NEW k \in 1 .. n, NEW v \in V
      PROVE  /\ Step(k, v) \in V /\ Step(k, v).log = v.log
             /\ \A pins \in Seq(HeightsOf) :
                   /\ Backed(s, hd)
                   /\ MidEmits(v.emitted, v.committed_heights, pins, hd, k - 1)
                   => MidEmits(Step(k, v).emitted, Step(k, v).committed_heights, pins, hd, k)
  <2>1. PICK a \in Ids : a = k - 1 /\ a + 1 = k
    BY <1>2
  <2>2. PICK w : w = Step(k, v)
    OBVIOUS
  <2>3. w = EmitHead(v, a, hd[a])
    BY <2>1, <2>2
  <2> HIDE DEF Step
  <2>4. /\ w \in Outputs(s) /\ w.log = v.log
        /\ \A pins \in Seq(HeightsOf) :
              /\ Backed(s, hd)
              /\ MidEmits(v.emitted, v.committed_heights, pins, hd, a)
              => MidEmits(w.emitted, w.committed_heights, pins, hd, a + 1)
    BY <2>3, EmitHeadIs
  <2> QED BY <2>1, <2>2, <2>4
<1>7. g \in [(1 .. n) \X V -> V]
  <2> HIDE DEF Step, V
  <2> QED BY <1>6
<1>8. \A k \in 1 .. n, v \in V : g[<<k, v>>] = Step(k, v)
  <2> HIDE DEF Step, V
  <2> QED OBVIOUS
<1>9. start \in V
  BY <1>5
<1> HIDE DEF g, V
<1>10. PICK h \in [0 .. n -> V] : IteratesOf(h, n, start, g)
  BY <1>7, <1>9, IterateExists
<1>11. Rule(h)
  <2>1. \A k \in 0 .. n : h[k] = IF k = 0 THEN start ELSE Step(k, h[k - 1])
    <3> TAKE k \in 0 .. n
    <3>1. CASE k = 0
      BY <1>10, <3>1 DEF IteratesOf
    <3>2. CASE k # 0
      <4>1. PICK j : j = k - 1 /\ j \in 0 .. n /\ k \in 1 .. n
        BY <3>2
      <4>2. h[j] \in V /\ h[k] = g[<<k, h[j]>>]
        BY <1>10, <4>1 DEF IteratesOf
      <4>3. h[k] = Step(k, h[j])
        BY <1>8, <4>1, <4>2
      <4> QED BY <3>2, <4>1, <4>3
    <3> QED BY <3>1, <3>2
  <2>2. h = [k \in 0 .. n |-> h[k]]
    OBVIOUS
  <2>3. [t EXCEPT !.log = Append(@, r)] = start
    BY <1>3, <1>4 DEF Logged
  <2> QED BY <1>1, <2>1, <2>2, <2>3, Zenon
<1>12. PICK f : f = CHOOSE a : Rule(a)
  OBVIOUS
<1>13. Rule(f)
  BY <1>11, <1>12, Zenon
<1>14. u = f[n]
  BY <1>1, <1>12, Zenon DEF OnCommittedAttestation
<1>15. \A k \in 0 .. n : f[k] = IF k = 0 THEN start ELSE Step(k, f[k - 1])
  <2>1. [t EXCEPT !.log = Append(@, r)] = start
    BY <1>3, <1>4 DEF Logged
  <2> QED BY <1>1, <1>13, <2>1, Zenon
<1> HIDE DEF Step, Rule
<1>16. f[0] = start
  BY <1>15
<1>17. \A k \in 1 .. n : f[k] = Step(k, f[k - 1])
  BY <1>15
<1> DEFINE K == {k \in 0 .. n :
                    /\ f[k] \in V /\ f[k].log = start.log
                    /\ \A pins \in Seq(HeightsOf) :
                          Backed(s, hd) /\ Emits(t.emitted, t.committed_heights, pins)
                          => MidEmits(f[k].emitted, f[k].committed_heights, pins, hd, k)}
<1>18. 0 \in K
  <2>1. t.emitted \in Seq(Blocks) /\ t.committed_heights \in HeightsOf
    BY OutputsAre
  <2>2. \A pins \in Seq(HeightsOf) :
            Emits(t.emitted, t.committed_heights, pins)
            => MidEmits(start.emitted, start.committed_heights, pins, hd, 0)
    BY <1>5, <2>1, MidStart
  <2> QED BY <1>9, <1>16, <2>2
<1>19. ASSUME NEW k \in 1 .. n, k - 1 \in K PROVE k \in K
  <2>1. PICK j : j = k - 1 /\ j \in K
    BY <1>19
  <2>2. PICK v \in V : /\ v = f[j] /\ v.log = start.log
                       /\ \A pins \in Seq(HeightsOf) :
                             Backed(s, hd) /\ Emits(t.emitted, t.committed_heights, pins)
                             => MidEmits(v.emitted, v.committed_heights, pins, hd, j)
    BY <2>1
  <2>3. PICK w : w = f[k] /\ w = Step(k, v)
    BY <1>17, <2>1, <2>2
  <2>4. /\ w \in V /\ w.log = v.log
        /\ \A pins \in Seq(HeightsOf) :
              /\ Backed(s, hd)
              /\ MidEmits(v.emitted, v.committed_heights, pins, hd, j)
              => MidEmits(w.emitted, w.committed_heights, pins, hd, k)
    BY <1>6, <2>1, <2>3
  <2>5. \A pins \in Seq(HeightsOf) :
            Backed(s, hd) /\ Emits(t.emitted, t.committed_heights, pins)
            => MidEmits(w.emitted, w.committed_heights, pins, hd, k)
    BY <2>2, <2>4
  <2>6. k \in 0 .. n /\ w.log = start.log
    BY <2>2, <2>4
  <2> QED BY <2>3, <2>4, <2>5, <2>6
<1>20. n \in K
  <2>1. \A k \in 0 .. n : k \in K
    <3> HIDE DEF K
    <3> QED BY <1>18, <1>19, CountsUp
  <2> QED BY <2>1
<1>21. /\ u \in V /\ u.log = start.log
       /\ \A pins \in Seq(HeightsOf) :
             Backed(s, hd) /\ Emits(t.emitted, t.committed_heights, pins)
             => MidEmits(u.emitted, u.committed_heights, pins, hd, n)
  BY <1>14, <1>20
<1>22. u \in Outputs(s)
  BY <1>21 DEF V
<1>23. u.emitted \in Seq(Blocks) /\ u.committed_heights \in HeightsOf
  BY <1>22, OutputsAre
<1> QED BY <1>1, <1>5, <1>21, <1>22, <1>23, MidEnd

\* What the attestations of a log pin, and one more.
LEMMA PinsAppend ==
    ASSUME NEW E, \A e \in E : proposals[e].heads \in HeightsOf, NEW l \in Seq(E), NEW r \in E
    PROVE  /\ Pins(l) \in Seq(HeightsOf)
           /\ Pins(Append(l, r)) = Append(Pins(l), proposals[r].heads)
<1>1. PICK n \in Nat : n = Len(l)
  OBVIOUS
<1>2. \A k \in 1 .. n : l[k] \in E
  BY <1>1, ElementOfSeq
<1>3. PICK p : p = [k \in 1 .. n |-> proposals[l[k]].heads]
  OBVIOUS
<1>4. p = Pins(l)
  BY <1>1, <1>3 DEF Pins
<1>5. p \in Seq(HeightsOf) /\ Len(p) = n /\ \A k \in 1 .. n : p[k] = proposals[l[k]].heads
  BY <1>2, <1>3
<1>6. PICK hd \in HeightsOf : hd = proposals[r].heads
  OBVIOUS
<1>7. PICK q \in Seq(E) : /\ q = Append(l, r) /\ Len(q) = n + 1
                          /\ \A k \in 1 .. n : q[k] = l[k]
                          /\ q[n + 1] = r
  <2>1. PICK q : q = Append(l, r)
    OBVIOUS
  <2>2. q \in Seq(E) /\ Len(q) = n + 1 /\ q[n + 1] = r /\ \A k \in 1 .. n : q[k] = l[k]
    BY <1>1, <2>1, AppendProperties
  <2> QED BY <2>1, <2>2
<1>8. PICK c \in Seq(HeightsOf) : /\ c = Append(p, hd) /\ Len(c) = n + 1
                                  /\ \A k \in 1 .. n : c[k] = p[k]
                                  /\ c[n + 1] = hd
  <2>1. PICK c : c = Append(p, hd)
    OBVIOUS
  <2>2. c \in Seq(HeightsOf) /\ Len(c) = n + 1 /\ c[n + 1] = hd /\ \A k \in 1 .. n : c[k] = p[k]
    BY <1>5, <2>1, AppendProperties
  <2> QED BY <2>1, <2>2
<1>9. PICK d : d = Pins(q) /\ d = [k \in 1 .. (n + 1) |-> proposals[q[k]].heads]
  BY <1>7 DEF Pins
<1>10. ASSUME NEW k \in 1 .. (n + 1) PROVE d[k] = c[k] /\ d[k] \in HeightsOf
  <2>1. d[k] = proposals[q[k]].heads
    BY <1>9
  <2>2. CASE k = n + 1
    BY <1>6, <1>7, <1>8, <2>1, <2>2
  <2>3. CASE k # n + 1
    <3>1. k \in 1 .. n
      BY <2>3
    <3> QED BY <1>2, <1>5, <1>7, <1>8, <2>1, <3>1
  <2> QED BY <2>2, <2>3
<1>11. d \in Seq(HeightsOf) /\ Len(d) = n + 1
  <2>1. PICK m \in Nat : m = n + 1
    OBVIOUS
  <2>2. d = [k \in 1 .. m |-> d[k]] /\ \A k \in 1 .. m : d[k] \in HeightsOf
    BY <1>9, <1>10, <2>1
  <2>3. d \in [1 .. m -> HeightsOf]
    BY <2>2
  <2>4. d \in Seq(HeightsOf) /\ Len(d) = m
    BY <2>3
  <2> QED BY <2>1, <2>4
<1>12. d = c
  BY <1>8, <1>10, <1>11, SeqEqual
<1> QED BY <1>4, <1>5, <1>6, <1>7, <1>8, <1>9, <1>12

\* The output of a server whose log is made of E: if it agreed to all of the log,
\* the elements A, it has emitted the merge.
GoodOut(t, E, A) ==
    /\ t.log \in Seq(E \ {Genesis})
    /\ ToSet(t.log) \subseteq A => Emits(t.emitted, t.committed_heights, Pins(t.log))

\* What is stored of a server's elements: heights are heights, and what it agreed
\* to is there.
GoodStore(s, E, A) ==
    /\ E \subseteq Int
    /\ \A e \in E \ {Genesis} : proposals[e].heads \in HeightsOf
    /\ \A e \in A : Backed(s, proposals[e].heads)

\* A committed element keeps the output good.
LEMMA AttestationKeeps ==
    ASSUME NEW s, DOMAIN s = Fields, NEW E, NEW A, GoodStore(s, E, A),
           NEW t \in Outputs(s), GoodOut(t, E, A), NEW r \in E,
           NEW u, u = OnCommittedAttestation(t, r)
    PROVE  u \in Outputs(s) /\ GoodOut(u, E, A)
<1>1. CASE r = Genesis
  <2>1. u = t
    BY <1>1 DEF OnCommittedAttestation
  <2> QED BY <2>1
<1>2. CASE r # Genesis
  <2> DEFINE D == E \ {Genesis}
  <2>1. r \in D /\ r \in Int /\ t.log \in Seq(D) /\ \A e \in D : proposals[e].heads \in HeightsOf
    BY <1>2 DEF GoodStore, GoodOut
  <2>2. PICK hd \in HeightsOf : hd = proposals[r].heads
    BY <2>1
  <2>3. /\ u \in Outputs(s) /\ u.log = Append(t.log, r)
        /\ \A pins \in Seq(HeightsOf) :
              Backed(s, hd) /\ Emits(t.emitted, t.committed_heights, pins)
              => Emits(u.emitted, u.committed_heights, Append(pins, hd))
    BY <1>2, <2>1, <2>2, AttestationIs
  <2> HIDE DEF D
  <2>4. u.log \in Seq(D) /\ ToSet(u.log) = ToSet(t.log) \cup {r}
    <3>1. PICK l \in Seq(D) : l = t.log
      BY <2>1
    <3>2. Append(l, r) \in Seq(D) /\ ToSet(Append(l, r)) = ToSet(l) \cup {r}
      BY <2>1, MembersOfAppend
    <3> QED BY <2>3, <3>1, <3>2
  <2>5. /\ Pins(t.log) \in Seq(HeightsOf)
        /\ Pins(u.log) = Append(Pins(t.log), hd)
    <3>1. PICK l \in Seq(D) : l = t.log
      BY <2>1
    <3>2. Pins(l) \in Seq(HeightsOf) /\ Pins(Append(l, r)) = Append(Pins(l), hd)
      BY <2>1, <2>2, PinsAppend
    <3> QED BY <2>3, <3>1, <3>2
  <2>6. ASSUME ToSet(u.log) \subseteq A
        PROVE  Emits(u.emitted, u.committed_heights, Pins(u.log))
    <3>1. ToSet(t.log) \subseteq A /\ r \in A
      BY <2>4, <2>6
    <3>2. Backed(s, hd)
      BY <2>2, <3>1 DEF GoodStore
    <3>3. Emits(t.emitted, t.committed_heights, Pins(t.log))
      BY <3>1 DEF GoodOut
    <3>4. PICK pins \in Seq(HeightsOf) : pins = Pins(t.log)
      BY <2>5
    <3>5. Emits(u.emitted, u.committed_heights, Append(pins, hd))
      BY <2>3, <3>2, <3>3, <3>4
    <3> QED BY <2>5, <3>4, <3>5
  <2> QED BY <2>3, <2>4, <2>6 DEF GoodOut, D
<1> QED BY <1>1, <1>2

\* So do all the elements that the commit task sends back.
LEMMA ElementsKeep ==
    ASSUME NEW s, DOMAIN s = Fields, NEW E, NEW A, GoodStore(s, E, A),
           s \in Outputs(s), GoodOut(s, E, A), NEW seq \in Seq(E),
           NEW u, u = OnCommittedElements(s, seq)
    PROVE  u \in Outputs(s) /\ GoodOut(u, E, A)
<1>1. PICK n \in Nat : n = Len(seq)
  OBVIOUS
<1> DEFINE V == {t \in Outputs(s) : GoodOut(t, E, A)}
           Step(k, v) == OnCommittedAttestation(v, seq[k])
           Rule(f) == f = [k \in 0 .. Len(seq) |->
                             IF k = 0 THEN s ELSE OnCommittedAttestation(f[k - 1], seq[k])]
           g == [x \in (1 .. n) \X V |-> Step(x[1], x[2])]
<1>2. ASSUME NEW k \in 1 .. n, NEW v \in V PROVE Step(k, v) \in V
  <2>1. PICK r \in E : r = seq[k]
    BY <1>1, ElementOfSeq
  <2>2. PICK w : w = Step(k, v)
    OBVIOUS
  <2>3. w = OnCommittedAttestation(v, r)
    BY <2>1, <2>2
  <2>4. v \in Outputs(s) /\ GoodOut(v, E, A)
    OBVIOUS
  <2>5. w \in Outputs(s) /\ GoodOut(w, E, A)
    BY <2>3, <2>4, AttestationKeeps
  <2> HIDE DEF Step
  <2> QED BY <2>2, <2>5
<1>3. g \in [(1 .. n) \X V -> V]
  <2> HIDE DEF Step, V
  <2> QED BY <1>2
<1>4. \A k \in 1 .. n, v \in V : g[<<k, v>>] = Step(k, v)
  <2> HIDE DEF Step, V
  <2> QED OBVIOUS
<1>5. s \in V
  OBVIOUS
<1> HIDE DEF g, V
<1>6. PICK h \in [0 .. n -> V] : IteratesOf(h, n, s, g)
  BY <1>3, <1>5, IterateExists
<1>7. Rule(h)
  <2>1. \A k \in 0 .. n : h[k] = IF k = 0 THEN s ELSE Step(k, h[k - 1])
    <3> TAKE k \in 0 .. n
    <3>1. CASE k = 0
      BY <1>6, <3>1 DEF IteratesOf
    <3>2. CASE k # 0
      <4>1. PICK j : j = k - 1 /\ j \in 0 .. n /\ k \in 1 .. n
        BY <3>2
      <4>2. h[j] \in V /\ h[k] = g[<<k, h[j]>>]
        BY <1>6, <4>1 DEF IteratesOf
      <4>3. h[k] = Step(k, h[j])
        BY <1>4, <4>1, <4>2
      <4> QED BY <3>2, <4>1, <4>3
    <3> QED BY <3>1, <3>2
  <2>2. h = [k \in 0 .. n |-> h[k]]
    OBVIOUS
  <2> QED BY <1>1, <2>1, <2>2, Zenon
<1>8. PICK f : f = CHOOSE a : Rule(a)
  OBVIOUS
<1>9. Rule(f)
  BY <1>7, <1>8, Zenon
<1>10. u = f[n]
  BY <1>1, <1>8, Zenon DEF OnCommittedElements
<1>11. \A k \in 0 .. n : f[k] = IF k = 0 THEN s ELSE Step(k, f[k - 1])
  BY <1>1, <1>9, Zenon
<1> HIDE DEF Step, Rule
<1>12. f[0] \in V
  BY <1>5, <1>11
<1>13. \A k \in 1 .. n : f[k - 1] \in V => f[k] \in V
  BY <1>2, <1>11
<1>14. \A k \in 0 .. n : f[k] \in V
  BY <1>12, <1>13, IterateStays
<1> QED BY <1>10, <1>14 DEF V

----------------------------------------------------------------------------
(***************************************************************************)
(* The output of a running server.  Besides the commit task being over its *)
(* elements, what matters is that all it has stored or asked for is of an  *)
(* earlier round than its own: so what it has committed it will not agree  *)
(* to later, and what it had not stored when it was committed is never     *)
(* counted as agreed to.                                                   *)
(***************************************************************************)
PinsIn(P, l) == [k \in 1 .. Len(l) |-> P[l[k]].heads]

\* The state of the output of server state s when P are the proposals.
CommitOK(s, P) ==
    /\ s.task \in Tasks(s.elements)
    /\ s.end_rounds \in Seq(s.elements)
    /\ s.emitted \in Seq(Blocks) /\ s.committed_heights \in HeightsOf
    /\ \A e \in s.elements \cup s.pending_sig_element_requests : e \in Int /\ e < s.round
    /\ s.log \in Seq(s.elements \ {Genesis})
    /\ ToSet(s.log) \subseteq s.adopted
          => Emits(s.emitted, s.committed_heights, PinsIn(P, s.log))

\* A proposal extends an element of an earlier round.
ParentsOK(P) == \A r \in DOMAIN P : r \in Int /\ P[r].parent \in Int /\ P[r].parent < r

\* The inductive invariant of the output, on top of HeraInv.
EmitInv ==
    /\ ParentsOK(proposals)
    /\ \A i \in Ids : IsRecord(node[i]) /\ CommitOK(node[i], proposals)

\* More proposals change nothing for a log of older ones.
LEMMA CommitKept ==
    ASSUME NEW P, NEW Q, \A r \in DOMAIN P : Q[r] = P[r],
           NEW s, s.elements \subseteq {Genesis} \cup DOMAIN P, CommitOK(s, P)
    PROVE  CommitOK(s, Q)
<1> DEFINE D == s.elements \ {Genesis}
<1>1. PICK l \in Seq(D) : l = s.log
  BY DEF CommitOK
<1>2. \A k \in 1 .. Len(l) : l[k] \in DOMAIN P
  <2>1. \A k \in 1 .. Len(l) : l[k] \in D
    BY ElementOfSeq
  <2> QED BY <2>1
<1>3. PinsIn(Q, l) = PinsIn(P, l)
  BY <1>2 DEF PinsIn
<1> QED BY <1>1, <1>3 DEF CommitOK

\* So does what the output does not depend on.
LEMMA CommitSame ==
    ASSUME NEW P, NEW s, NEW t, CommitOK(s, P),
           t.task = s.task, t.end_rounds = s.end_rounds, t.emitted = s.emitted,
           t.committed_heights = s.committed_heights, t.log = s.log,
           t.elements = s.elements, t.adopted = s.adopted, t.round = s.round,
           t.pending_sig_element_requests = s.pending_sig_element_requests
    PROVE  CommitOK(t, P)
BY DEF CommitOK

\* A server that stores more elements, none of them one it agrees to too late.
LEMMA CommitQuiet ==
    ASSUME NEW P, NEW s, NEW t, CommitOK(s, P),
           t.task = s.task, t.emitted = s.emitted,
           t.committed_heights = s.committed_heights, t.log = s.log,
           s.elements \subseteq t.elements,
           \A r \in t.adopted : r \in s.adopted \/ r \notin s.elements,
           t.end_rounds \in Seq(t.elements),
           \A e \in t.elements \cup t.pending_sig_element_requests : e \in Int /\ e < t.round
    PROVE  CommitOK(t, P)
<1> DEFINE C == s.elements \ {Genesis}
           D == t.elements \ {Genesis}
<1>1. t.task \in Tasks(t.elements)
  <2>1. Tasks(s.elements) \subseteq Tasks(t.elements)
    BY TasksGrow
  <2> QED BY <2>1 DEF CommitOK
<1>2. PICK l \in Seq(C) : l = s.log
  BY DEF CommitOK
<1>3. l \in Seq(D) /\ ToSet(l) \subseteq C
  <2>1. C \subseteq D
    OBVIOUS
  <2>2. \A k \in 1 .. Len(l) : l[k] \in C
    BY ElementOfSeq
  <2>3. ToSet(l) \subseteq C
    BY <2>2, MembersOf
  <2> HIDE DEF C, D
  <2>4. l \in Seq(D)
    BY <2>1
  <2> QED BY <2>3, <2>4
<1>4. ASSUME ToSet(l) \subseteq t.adopted PROVE ToSet(l) \subseteq s.adopted
  BY <1>3, <1>4
<1> QED BY <1>1, <1>2, <1>3, <1>4 DEF CommitOK

\* A step of server i into state t keeps the invariant if t is fine.
LEMMA EmitStep ==
    ASSUME NEW i \in Ids, HeraInv, EmitInv, NEW t, DOMAIN t = Fields, Done(i, t),
           CommitOK(t, proposals), t.elements \subseteq {Genesis} \cup DOMAIN proposals,
           t.out # {} => /\ t.round \in Int
                         /\ \E p : t.out = {p} /\ p.parent \in t.elements
    PROVE  EmitInv'
<1>1. /\ \A j \in Ids \ {i} : node'[j] = node[j]
      /\ Same(t, node'[i], {"out"})
      /\ \A r \in DOMAIN proposals : proposals'[r] = proposals[r]
      /\ \A r \in DOMAIN proposals' \ DOMAIN proposals :
            r = t.round /\ t.out # {} /\ proposals'[r] = CHOOSE p \in t.out : TRUE
  BY DoneEffect DEF HeraInv
<1>2. IsRecord(node'[i])
  <2>1. node' = [node EXCEPT ![i] = [t EXCEPT !.out = {}]] /\ DOMAIN node = Ids
    BY DEF Done, HeraInv, Shape
  <2>2. PICK u : u = [t EXCEPT !.out = {}]
    OBVIOUS
  <2>3. u = [f \in Fields |-> u[f]]
    BY <2>2 DEF Fields
  <2>4. node'[i] = u
    BY <2>1, <2>2
  <2> QED BY <2>3, <2>4 DEF IsRecord
<1>3. PICK P, Q : P = proposals /\ Q = proposals'
  OBVIOUS
<1>4. \A r \in DOMAIN P : Q[r] = P[r]
  BY <1>1, <1>3
<1>5. ASSUME NEW j \in Ids PROVE IsRecord(node'[j]) /\ CommitOK(node'[j], Q)
  <2>1. CASE j # i
    <3>1. PICK s : s = node[j] /\ s = node'[j]
      BY <1>1, <2>1
    <3>2. IsRecord(s) /\ CommitOK(s, P) /\ s.elements \subseteq {Genesis} \cup DOMAIN P
      BY <1>3, <3>1 DEF EmitInv, HeraInv, SigOK
    <3>3. CommitOK(s, Q)
      BY <1>4, <3>2, CommitKept
    <3> QED BY <3>1, <3>2, <3>3
  <2>2. CASE j = i
    <3>1. PICK u : u = node'[i]
      OBVIOUS
    <3>2. Same(t, u, {"out"})
      BY <1>1, <3>1
    <3>3. /\ u.task = t.task /\ u.end_rounds = t.end_rounds /\ u.emitted = t.emitted
          /\ u.committed_heights = t.committed_heights /\ u.log = t.log
          /\ u.elements = t.elements /\ u.adopted = t.adopted /\ u.round = t.round
          /\ u.pending_sig_element_requests = t.pending_sig_element_requests
      BY <3>2 DEF Same, Fields
    <3>4. CommitOK(t, Q)
      BY <1>3, <1>4, CommitKept
    <3>5. CommitOK(u, Q)
      BY <3>3, <3>4, CommitSame
    <3> QED BY <1>2, <2>2, <3>1, <3>5
  <2> QED BY <2>1, <2>2
<1>6. ParentsOK(Q)
  <2>1. ASSUME NEW r \in DOMAIN Q
        PROVE  r \in Int /\ Q[r].parent \in Int /\ Q[r].parent < r
    <3>1. CASE r \in DOMAIN P
      BY <1>3, <1>4, <3>1 DEF EmitInv, ParentsOK
    <3>2. CASE r \notin DOMAIN P
      <4>1. r = t.round /\ t.out # {} /\ Q[r] = CHOOSE p \in t.out : TRUE
        BY <1>1, <1>3, <3>2
      <4>2. PICK p : t.out = {p} /\ p.parent \in t.elements
        BY <4>1
      <4>3. Q[r] = p
        BY <4>1, <4>2
      <4>4. p.parent \in Int /\ p.parent < t.round
        BY <4>2 DEF CommitOK
      <4> QED BY <4>1, <4>3, <4>4
    <3> QED BY <3>1, <3>2
  <2> QED BY <2>1 DEF ParentsOK
<1> QED BY <1>3, <1>5, <1>6 DEF EmitInv

\* The facts about server i that its steps start from.
LEMMA ServerFacts ==
    ASSUME NEW i \in Ids, HeraInv, EmitInv
    PROVE  /\ DOMAIN node[i] = Fields /\ SigOK(node[i]) /\ DataOK(node[i])
           /\ IsRecord(node[i]) /\ CommitOK(node[i], proposals)
           /\ ParentsOK(proposals) /\ node[i].round \in Int
<1>1. SigOK(node[i]) /\ node[i].round \in Int
  BY Constants DEF HeraInv, SigOK
<1> QED BY <1>1 DEF HeraInv, EmitInv, Shape

\* Fields the output does not depend on.
IdleFields == {"block_store", "heights", "pending_data_blocks", "pending_attestations",
               "timer_enabled", "blame_map", "msg_buf"}

\* A step that leaves elements, rounds and output alone.
LEMMA IdleStep ==
    ASSUME NEW i \in Ids, HeraInv, EmitInv, NEW t, Done(i, t),
           Same(node[i], t, IdleFields)
    PROVE  EmitInv'
<1>1. PICK s : s = node[i]
  OBVIOUS
<1>2. SigOK(s) /\ CommitOK(s, proposals)
  BY <1>1, ServerFacts
<1>3. Same(s, t, IdleFields)
  BY <1>1
<1>4. /\ DOMAIN t = Fields /\ t.out = s.out
      /\ t.task = s.task /\ t.end_rounds = s.end_rounds /\ t.emitted = s.emitted
      /\ t.committed_heights = s.committed_heights /\ t.log = s.log
      /\ t.elements = s.elements /\ t.adopted = s.adopted /\ t.round = s.round
      /\ t.pending_sig_element_requests = s.pending_sig_element_requests
  BY <1>3 DEF Same, Fields, IdleFields
<1>5. CommitOK(t, proposals)
  BY <1>2, <1>4, CommitSame
<1>6. t.out = {} /\ t.elements \subseteq {Genesis} \cup DOMAIN proposals
  BY <1>2, <1>4 DEF SigOK
<1> QED BY <1>4, <1>5, <1>6, EmitStep

\* Blocks come and go without changing what was committed,
LEMMA AdmitEmits ==
    ASSUME NEW i \in Ids, HeraInv, EmitInv, NEW b \in Blocks, Done(i, Admit(node[i], b))
    PROVE  EmitInv'
<1>1. PICK s : s = node[i]
  OBVIOUS
<1>2. DOMAIN s = Fields /\ DataOK(s)
  BY <1>1, ServerFacts
<1>3. PICK t : t = Admit(s, b)
  OBVIOUS
<1>4. Same(s, t, {"block_store", "heights", "pending_data_blocks", "pending_attestations"})
  BY <1>2, <1>3, AdmitOK
<1>5. Same(s, t, IdleFields)
  BY <1>4 DEF Same, Fields, IdleFields
<1> QED BY <1>1, <1>3, <1>5, IdleStep

\* and so does a timeout.
LEMMA TimeoutEmits ==
    ASSUME NEW i \in Ids, HeraInv, EmitInv, OnRoundTimeout(i)
    PROVE  EmitInv'
<1>1. PICK t : t = [node[i] EXCEPT !.timer_enabled = FALSE] /\ Done(i, t)
  BY DEF OnRoundTimeout
<1>2. DOMAIN node[i] = Fields
  BY ServerFacts
<1>3. Same(node[i], t, {"timer_enabled"})
  BY <1>1, <1>2 DEF Same, Fields
<1>4. Same(node[i], t, IdleFields)
  BY <1>3 DEF Same, Fields, IdleFields
<1> QED BY <1>1, <1>4, IdleStep

\* The message to the commit task when a round ends.
LEMMA AdvanceSends ==
    ASSUME NEW i, NEW s, DOMAIN s = Fields, NEW rest, NEW t, t = AdvanceSigRound(i, s, rest)
    PROVE  t.end_rounds = Append(s.end_rounds, s.highest)
<1>1. PICK u :
          u = [s EXCEPT !.round = @ + 1, !.timer_enabled = TRUE, !.blame_map = NoBlames,
                        !.msg_buf = {m \in rest : i \in Lagging /\ s.round <= MaxLate},
                        !.pending_attestations = {}, !.pending_sig_proposals = {},
                        !.data_requests = (@ \cup s.pending_attestations) \ s.block_store,
                        !.end_rounds = Append(@, s.highest)]
  OBVIOUS
<1>2. DOMAIN u = Fields /\ u.end_rounds = Append(s.end_rounds, s.highest)
  BY <1>1 DEF Fields
<1>3. t = IF u.round \in Rounds /\ LeaderOf[u.round] = i THEN HandleNewSigRound(u) ELSE u
  BY <1>1 DEF AdvanceSigRound
<1>4. PICK x : x = {[parent |-> u.highest, heads |-> MakeMultiAttestation(u)]}
  OBVIOUS
<1>5. HandleNewSigRound(u) = [u EXCEPT !.out = x, !.prev_attested_heights = u.heights]
  BY <1>4 DEF HandleNewSigRound
<1>6. [u EXCEPT !.out = x, !.prev_attested_heights = u.heights].end_rounds = u.end_rounds
  BY <1>2 DEF Fields
<1> QED BY <1>2, <1>3, <1>5, <1>6

\* A round ends, with the proposal of the round adopted (A and E) or without.
LEMMA AdvanceEmits ==
    ASSUME NEW i \in Ids, HeraInv, EmitInv, node[i].round \in Rounds,
           NEW u, DOMAIN u = Fields, u.out = {},
           Same(node[i], u, {"highest", "elements", "adopted", "msg_buf"}),
           \/ /\ u.elements = node[i].elements /\ u.adopted = node[i].adopted
              /\ u.highest = node[i].highest
           \/ /\ u.elements = node[i].elements \cup {node[i].round}
              /\ u.adopted = node[i].adopted \cup {node[i].round}
              /\ u.highest = node[i].round /\ node[i].round \in DOMAIN proposals,
           NEW rest, Done(i, AdvanceSigRound(i, u, rest))
    PROVE  EmitInv'
<1>1. PICK s : s = node[i]
  OBVIOUS
<1>2. SigOK(s) /\ DataOK(s) /\ CommitOK(s, proposals) /\ s.round \in Int
  BY <1>1, ServerFacts
<1>3. PICK t : t = AdvanceSigRound(i, u, rest)
  OBVIOUS
<1>4. /\ u.round = s.round /\ u.heights = s.heights /\ u.task = s.task
      /\ u.end_rounds = s.end_rounds /\ u.emitted = s.emitted
      /\ u.committed_heights = s.committed_heights /\ u.log = s.log
      /\ u.pending_sig_element_requests = s.pending_sig_element_requests
  BY <1>1 DEF Same, Fields
<1>5. /\ u.highest \in u.elements /\ s.elements \subseteq u.elements
      /\ u.elements \subseteq s.elements \cup {s.round}
      /\ u.adopted \subseteq s.adopted \cup {s.round}
      /\ u.elements \subseteq {Genesis} \cup DOMAIN proposals
  BY <1>1, <1>2 DEF SigOK
<1>6. u.round \in Rounds /\ u.heights \in [Ids -> 0 .. MaxBlocks]
  BY <1>1, <1>2, <1>4 DEF DataOK
<1>7. /\ Same(u, t, AdvanceFields)
      /\ t.round = u.round + 1
      /\ t.out # {} => \E q : t.out = {q} /\ q.parent \in u.elements
  BY <1>3, <1>5, <1>6, AdvanceOK
<1>8. /\ DOMAIN t = Fields
      /\ t.task = s.task /\ t.emitted = s.emitted
      /\ t.committed_heights = s.committed_heights /\ t.log = s.log
      /\ t.elements = u.elements /\ t.adopted = u.adopted
      /\ t.pending_sig_element_requests = s.pending_sig_element_requests
  BY <1>4, <1>7 DEF Same, Fields, AdvanceFields
<1>9. t.end_rounds \in Seq(t.elements)
  <2>1. t.end_rounds = Append(s.end_rounds, u.highest)
    BY <1>3, <1>4, AdvanceSends
  <2>2. PICK E : E = t.elements /\ s.elements \subseteq E /\ u.highest \in E
    BY <1>5, <1>8
  <2>3. PICK q \in Seq(s.elements) : q = s.end_rounds
    BY <1>2 DEF CommitOK
  <2>4. q \in Seq(E)
    BY <2>2
  <2>5. Append(q, u.highest) \in Seq(E)
    BY <2>2, <2>4, AppendProperties
  <2> QED BY <2>1, <2>2, <2>3, <2>5
<1>10. \A e \in t.elements \cup t.pending_sig_element_requests : e \in Int /\ e < t.round
  <2>1. \A e \in s.elements \cup s.pending_sig_element_requests : e \in Int /\ e < s.round
    BY <1>2 DEF CommitOK
  <2> QED BY <1>2, <1>4, <1>5, <1>7, <1>8, <2>1
<1>11. \A r \in t.adopted : r \in s.adopted \/ r \notin s.elements
  <2>1. s.round \notin s.elements
    BY <1>2 DEF CommitOK
  <2> QED BY <1>5, <1>8, <2>1
<1>12. s.elements \subseteq t.elements
  BY <1>5, <1>8
<1>13. CommitOK(t, proposals)
  BY <1>2, <1>8, <1>9, <1>10, <1>11, <1>12, CommitQuiet
<1>14. t.round \in Int
  BY <1>2, <1>4, <1>7
<1> QED BY <1>3, <1>5, <1>7, <1>8, <1>13, <1>14, EmitStep

\* A blame is kept, or a round ends without its proposal.
LEMMA BlameEmits ==
    ASSUME NEW i \in Ids, HeraInv, EmitInv,
           HandleSigBlame(i) \/ HandleOldSigBlame(i) \/ OnSigBlameQC(i)
    PROVE  EmitInv'
<1>1. PICK s : s = node[i]
  OBVIOUS
<1>2. DOMAIN s = Fields /\ SigOK(s)
  BY <1>1, ServerFacts
<1>3. s.round \in Rounds
  BY <1>1 DEF HandleSigBlame, HandleOldSigBlame, OnSigBlameQC
<1>4. \/ \E r, map, rest : HandleSigBlameQC(i, r, map, rest)
      \/ \E map, rest : Done(i, [s EXCEPT !.blame_map = map, !.msg_buf = rest])
  <2>1. CASE HandleSigBlame(i)
    BY <2>1 DEF HandleSigBlame
  <2>2. CASE OnSigBlameQC(i)
    BY <2>2 DEF OnSigBlameQC
  <2>3. CASE HandleOldSigBlame(i)
    BY <1>1, <2>3 DEF HandleOldSigBlame
  <2> QED BY <2>1, <2>2, <2>3
<1>5. CASE \E r, map, rest : HandleSigBlameQC(i, r, map, rest)
  <2>1. PICK rest : Done(i, AdvanceSigRound(i, s, rest))
    BY <1>1, <1>5 DEF HandleSigBlameQC
  <2>2. Same(node[i], s, {"highest", "elements", "adopted", "msg_buf"}) /\ s.out = {}
    BY <1>1, <1>2 DEF Same, SigOK
  <2> QED BY <1>1, <1>2, <1>3, <2>1, <2>2, AdvanceEmits
<1>6. CASE \E map, rest : Done(i, [s EXCEPT !.blame_map = map, !.msg_buf = rest])
  <2>1. PICK map, rest : Done(i, [s EXCEPT !.blame_map = map, !.msg_buf = rest])
    BY <1>6
  <2>2. PICK t : t = [s EXCEPT !.blame_map = map, !.msg_buf = rest]
    OBVIOUS
  <2>3. Same(s, t, IdleFields)
    BY <1>2, <2>2 DEF Same, Fields, IdleFields
  <2> QED BY <1>1, <2>1, <2>2, <2>3, IdleStep
<1> QED BY <1>4, <1>5, <1>6

\* A proposal is parked, which the output does not notice, or adopted.
LEMMA ProposeEmits ==
    ASSUME NEW i \in Ids, HeraInv, EmitInv, RecvSigPropose(i)
    PROVE  EmitInv'
<1>1. PICK s : s = [node[i] EXCEPT !.msg_buf = {}]
  OBVIOUS
<1>0. Same(node[i], s, {"msg_buf"}) /\ SigOK(s)
  BY <1>1, BufferDropped
<1>2. /\ DOMAIN s = Fields /\ SigOK(s) /\ CommitOK(s, proposals) /\ ParentsOK(proposals)
      /\ s.round \in Int
  <2>1. PICK n : n = node[i]
    OBVIOUS
  <2>2. CommitOK(n, proposals) /\ ParentsOK(proposals) /\ n.round \in Int
    BY <2>1, ServerFacts
  <2>3. /\ DOMAIN s = Fields
        /\ s.task = n.task /\ s.end_rounds = n.end_rounds /\ s.emitted = n.emitted
        /\ s.committed_heights = n.committed_heights /\ s.log = n.log
        /\ s.elements = n.elements /\ s.adopted = n.adopted /\ s.round = n.round
        /\ s.pending_sig_element_requests = n.pending_sig_element_requests
    BY <1>0, <2>1 DEF Same, Fields
  <2>4. CommitOK(s, proposals)
    BY <2>2, <2>3, CommitSame
  <2> QED BY <1>0, <2>2, <2>3, <2>4
<1>3. PICK r : r = s.round /\ r \in DOMAIN proposals /\ r \in Rounds
  BY <1>1 DEF RecvSigPropose, HeraInv, ProposalsOK
<1>4. PICK p : p = proposals[r] /\ p.parent \in Int /\ p.parent < r
  BY <1>2, <1>3 DEF ParentsOK
<1>5. PICK t : t = HandleSigProposal(i, s, r) /\ Done(i, t)
  BY <1>1, <1>3 DEF RecvSigPropose
<1>6. CASE MissingHeads(s, p) # {}
  <2>1. PICK first : t = [s EXCEPT !.pending_attestations = {first}]
    BY <1>4, <1>5, <1>6 DEF HandleSigProposal
  <2>2. Same(s, t, {"pending_attestations"})
    BY <1>2, <2>1 DEF Same, Fields
  <2>3. Same(node[i], t, IdleFields)
    BY <1>0, <2>2 DEF Same, Fields, IdleFields
  <2> QED BY <1>5, <2>3, IdleStep
<1>7. CASE MissingHeads(s, p) = {} /\ p.parent \notin s.elements
  <2>1. t = [s EXCEPT !.pending_sig_proposals = {p.parent},
                      !.pending_sig_element_requests = @ \cup {p.parent}]
    BY <1>4, <1>5, <1>7 DEF HandleSigProposal
  <2>2. /\ DOMAIN t = Fields /\ t.out = s.out
        /\ t.task = s.task /\ t.end_rounds = s.end_rounds /\ t.emitted = s.emitted
        /\ t.committed_heights = s.committed_heights /\ t.log = s.log
        /\ t.elements = s.elements /\ t.adopted = s.adopted /\ t.round = s.round
        /\ t.pending_sig_element_requests = s.pending_sig_element_requests \cup {p.parent}
    BY <1>2, <2>1 DEF Fields
  <2>3. \A e \in t.elements \cup t.pending_sig_element_requests : e \in Int /\ e < t.round
    BY <1>2, <1>3, <1>4, <2>2 DEF CommitOK
  <2>4. t.end_rounds \in Seq(t.elements)
    BY <1>2, <2>2 DEF CommitOK
  <2>5. CommitOK(t, proposals)
    BY <1>2, <2>2, <2>3, <2>4, CommitQuiet
  <2>6. t.out = {} /\ t.elements \subseteq {Genesis} \cup DOMAIN proposals
    BY <1>2, <2>2 DEF SigOK
  <2> QED BY <1>5, <2>2, <2>5, <2>6, EmitStep
<1>8. CASE MissingHeads(s, p) = {} /\ p.parent \in s.elements
  <2>1. PICK u : /\ u = [s EXCEPT !.highest = r, !.elements = @ \cup {r}, !.adopted = @ \cup {r}]
                 /\ t = AdvanceSigRound(i, u, Unhandled(u))
    BY <1>4, <1>5, <1>8 DEF HandleSigProposal, OnCorrectSigProposal
  <2>2. /\ DOMAIN u = Fields /\ u.out = s.out
        /\ Same(s, u, {"highest", "elements", "adopted"})
        /\ u.highest = r /\ u.elements = s.elements \cup {r} /\ u.adopted = s.adopted \cup {r}
    BY <1>2, <2>1 DEF Same, Fields
  <2>3. u.out = {}
    BY <1>2, <2>2 DEF SigOK
  <2>4. /\ Same(node[i], u, {"highest", "elements", "adopted", "msg_buf"})
        /\ node[i].round = r /\ s.elements = node[i].elements /\ s.adopted = node[i].adopted
    BY <1>0, <1>3, <2>2 DEF Same, Fields
  <2>5. Done(i, AdvanceSigRound(i, u, Unhandled(u)))
    BY <1>5, <2>1
  <2> QED BY <1>3, <2>2, <2>3, <2>4, <2>5, AdvanceEmits
<1> QED BY <1>6, <1>7, <1>8

\* A fetched element, and the parent that is asked for next, are of earlier rounds.
LEMMA FetchEmits ==
    ASSUME NEW i \in Ids, HeraInv, EmitInv, FetchElement(i)
    PROVE  EmitInv'
<1>1. PICK s : s = node[i]
  OBVIOUS
<1>2. /\ DOMAIN s = Fields /\ SigOK(s) /\ CommitOK(s, proposals) /\ ParentsOK(proposals)
      /\ s.round \in Int
  BY <1>1, ServerFacts
<1>3. PICK e \in s.pending_sig_element_requests, j \in Ids \ {i} :
          e \in node[j].elements /\ Done(i, OnSigElementResponse(s, e))
  BY <1>1 DEF FetchElement
<1>4. e \in DOMAIN proposals
  BY <1>2, <1>3 DEF SigOK, HeraInv
<1>5. e \in Int /\ e < s.round
  BY <1>2, <1>3 DEF CommitOK
<1>6. PICK p : p = proposals[e].parent /\ p \in Int /\ p < e
  BY <1>2, <1>4 DEF ParentsOK
<1>7. PICK R : R = (s.pending_sig_element_requests \ {e})
                      \cup (IF p \in s.elements THEN {} ELSE {p})
  OBVIOUS
<1>8. PICK t : t = OnSigElementResponse(s, e)
  OBVIOUS
<1>9. t = [s EXCEPT !.elements = @ \cup {e}, !.pending_sig_element_requests = R,
                    !.pending_sig_proposals = @ \ {e}]
  BY <1>6, <1>7, <1>8, Zenon DEF OnSigElementResponse
<1>10. /\ DOMAIN t = Fields /\ t.out = s.out
       /\ t.task = s.task /\ t.end_rounds = s.end_rounds /\ t.emitted = s.emitted
       /\ t.committed_heights = s.committed_heights /\ t.log = s.log
       /\ t.elements = s.elements \cup {e} /\ t.adopted = s.adopted /\ t.round = s.round
       /\ t.pending_sig_element_requests = R
  BY <1>2, <1>9 DEF Fields
<1>11. \A d \in t.elements \cup t.pending_sig_element_requests : d \in Int /\ d < t.round
  <2>1. \A d \in R : d \in s.pending_sig_element_requests \/ d = p
    BY <1>7
  <2> QED BY <1>2, <1>5, <1>6, <1>10, <2>1 DEF CommitOK
<1>12. t.end_rounds \in Seq(t.elements)
  <2>1. PICK E : E = t.elements /\ s.elements \subseteq E
    BY <1>10
  <2>2. PICK q \in Seq(s.elements) : q = s.end_rounds
    BY <1>2 DEF CommitOK
  <2>3. q \in Seq(E)
    BY <2>1
  <2> QED BY <1>10, <2>1, <2>2, <2>3
<1>13. s.elements \subseteq t.elements
  BY <1>10
<1>14. CommitOK(t, proposals)
  BY <1>2, <1>10, <1>11, <1>12, <1>13, CommitQuiet
<1>15. t.out = {} /\ t.elements \subseteq {Genesis} \cup DOMAIN proposals
  BY <1>2, <1>4, <1>10 DEF SigOK
<1> QED BY <1>3, <1>8, <1>10, <1>14, <1>15, EmitStep

\* The commit task commits stored elements, and the output follows them.
LEMMA CommitEmits ==
    ASSUME NEW i \in Ids, HeraInv, EmitInv, RunCommitTask(i)
    PROVE  EmitInv'
<1>1. PICK s : s = node[i]
  OBVIOUS
<1>2. /\ DOMAIN s = Fields /\ SigOK(s) /\ IsRecord(s) /\ CommitOK(s, proposals)
      /\ ParentsOK(proposals)
  BY <1>1, ServerFacts
<1>3. PICK E, A : /\ E = s.elements /\ A = s.adopted /\ E \subseteq Int
                  /\ E \subseteq {Genesis} \cup DOMAIN proposals
  BY <1>2 DEF CommitOK, SigOK
<1>4. PICK chain : chain = [e \in s.elements |-> IF e = Genesis THEN NoParent
                                                 ELSE proposals[e].parent]
  OBVIOUS
<1>5. StoreOver(chain, E)
  <2>1. ASSUME NEW e \in E PROVE chain[e] \in Int
    <3>1. CASE e = Genesis
      BY <1>3, <1>4, <3>1 DEF NoParent
    <3>2. CASE e # Genesis
      BY <1>2, <1>3, <1>4, <3>2 DEF ParentsOK
    <3> QED BY <3>1, <3>2
  <2> QED BY <1>3, <1>4, <2>1 DEF StoreOver
<1>6. PICK ends \in Seq(E) : ends = s.end_rounds /\ ends # <<>>
  BY <1>1, <1>2, <1>3 DEF CommitOK, RunCommitTask, Settled
<1>7. Head(ends) \in E /\ Tail(ends) \in Seq(E)
  BY <1>6, HeadTailProperties
<1>8. s.task \in Tasks(E)
  BY <1>2, <1>3 DEF CommitOK
<1>9. PICK task \in Tasks(E) : task = end_round(s.task, chain, Head(s.end_rounds))
  BY <1>5, <1>6, <1>7, <1>8, EndRoundOver
<1>10. task.committed \in Seq(E)
  BY DEF Tasks
<1>11. PICK out : out = OnCommittedElements(s, task.committed)
  OBVIOUS
<1>12. out \in Outputs(s) /\ GoodOut(out, E, A)
  <2>1. GoodStore(s, E, A)
    <3>1. \A e \in E \ {Genesis} : proposals[e].heads \in HeightsOf
      BY <1>3 DEF HeraInv, ProposalsOK, HeightsOf
    <3>2. \A e \in A : Backed(s, proposals[e].heads)
      BY <1>1, <1>3 DEF HeraInv, AdoptedBacked, Backed
    <3> QED BY <1>3, <3>1, <3>2 DEF GoodStore
  <2>2. GoodOut(s, E, A)
    BY <1>2, <1>3 DEF CommitOK, GoodOut, PinsIn, Pins
  <2>3. s \in Outputs(s)
    <3>1. PICK l \in Seq(E \ {Genesis}) : l = s.log
      BY <2>2 DEF GoodOut
    <3>2. E \ {Genesis} \subseteq Int
      BY <1>3
    <3>3. l \in Seq(Int)
      BY <3>2
    <3> QED BY <1>2, <3>1, <3>3, OutputsSelf DEF CommitOK
  <2> QED BY <1>2, <1>10, <1>11, <2>1, <2>2, <2>3, ElementsKeep
<1>13. out.emitted \in Seq(Blocks) /\ out.committed_heights \in HeightsOf
  BY <1>2, <1>12, OutputsAre
<1>14. PICK next : next = [task EXCEPT !.committed = <<>>]
  OBVIOUS
<1>15. next \in Tasks(E)
  <2>1. <<>> \in Seq(E)
    OBVIOUS
  <2> QED BY <1>14, <2>1 DEF Tasks
<1>16. PICK t : /\ t = [s EXCEPT !.end_rounds = Tail(@), !.task = next, !.log = out.log,
                                 !.emitted = out.emitted,
                                 !.committed_heights = out.committed_heights]
                /\ Done(i, t)
  BY <1>1, <1>4, <1>9, <1>11, <1>14, Zenon DEF RunCommitTask
<1>17. /\ DOMAIN t = Fields /\ t.out = s.out
       /\ t.task = next /\ t.end_rounds = Tail(ends) /\ t.emitted = out.emitted
       /\ t.committed_heights = out.committed_heights /\ t.log = out.log
       /\ t.elements = E /\ t.adopted = A /\ t.round = s.round
       /\ t.pending_sig_element_requests = s.pending_sig_element_requests
  BY <1>2, <1>3, <1>6, <1>16 DEF Fields
<1>18. CommitOK(t, proposals)
  <2>1. \A e \in t.elements \cup t.pending_sig_element_requests : e \in Int /\ e < t.round
    BY <1>2, <1>3, <1>17 DEF CommitOK
  <2>2. /\ t.log \in Seq(t.elements \ {Genesis})
        /\ ToSet(t.log) \subseteq t.adopted
              => Emits(t.emitted, t.committed_heights, PinsIn(proposals, t.log))
    BY <1>12, <1>17 DEF GoodOut, PinsIn, Pins
  <2> QED BY <1>7, <1>13, <1>15, <1>17, <2>1, <2>2 DEF CommitOK
<1>19. t.out = {} /\ t.elements \subseteq {Genesis} \cup DOMAIN proposals
  BY <1>2, <1>3, <1>17 DEF SigOK
<1> QED BY <1>16, <1>17, <1>18, <1>19, EmitStep

----------------------------------------------------------------------------
\* The invariant of the output holds at the start,
LEMMA EmitInvInit == Init => EmitInv
<1> SUFFICES ASSUME Init PROVE EmitInv
  OBVIOUS
<1>1. \A i \in Ids : node[i] = InitialNode
  BY DEF Init
<1>2. PICK s : s = InitialNode
  OBVIOUS
<1>3. IsRecord(s)
  BY <1>2 DEF IsRecord, InitialNode, Fields
<1>4. /\ s.round = 1 /\ s.elements = {Genesis} /\ s.adopted = {}
      /\ s.pending_sig_element_requests = {} /\ s.committed_heights = NoHeights
      /\ s.end_rounds = <<>> /\ s.task = InitTask /\ s.log = <<>> /\ s.emitted = <<>>
  BY <1>2 DEF InitialNode
<1>5. Genesis \in Int /\ Genesis < 1
  BY DEF Genesis
<1>6. InitTask \in Tasks({Genesis})
  <2>1. PICK x : x = [key |-> Genesis, elem |-> Genesis]
    OBVIOUS
  <2>2. x \in Entries({Genesis})
    BY <1>5, <2>1 DEF Entries
  <2>3. <<x>> \in Seq(Entries({Genesis})) /\ <<>> \in Seq({Genesis})
    BY <2>2
  <2>4. PICK c : c = [i \in {START_ID} |-> 1]
    OBVIOUS
  <2>5. c \in Counts
    <3>1. START_ID = Author(Genesis)
      BY DEF Author
    <3>2. {START_ID} \in SUBSET {Author(e) : e \in Int}
      BY <1>5, <3>1
    <3>3. c \in [{START_ID} -> Int]
      BY <2>4
    <3> QED BY <3>2, <3>3, CountsAre
  <2>6. InitTask = [commit_queue |-> <<x>>, unique_proposers |-> c,
                    highest_committed_hash |-> Genesis, highest_committed_element |-> Genesis,
                    committed |-> <<>>, panicked |-> FALSE]
    BY <2>1, <2>4, Zenon DEF InitTask
  <2> QED BY <1>5, <2>3, <2>5, <2>6 DEF Tasks
<1>7. PICK pins : pins = PinsIn(proposals, <<>>)
  OBVIOUS
<1>8. Len(pins) = 0
  BY <1>7 DEF PinsIn
<1>9. \A b : PinnedBy(b, pins) = {}
  BY <1>8 DEF PinnedBy
<1>10. Emits(<<>>, NoHeights, pins)
  <2>1. \A b \in Blocks : ~ (Height(b) <= NoHeights[AuthorOf(b)])
    BY BlockParts DEF NoHeights
  <2>2. ToSet(<<>>) = {}
    BY DEF ToSet
  <2> QED BY <1>9, <2>1, <2>2 DEF Emits, IsMerge
<1>11. NoHeights \in HeightsOf
  BY Constants DEF NoHeights, HeightsOf
<1>12. <<>> \in Seq({Genesis}) /\ <<>> \in Seq(Blocks) /\ <<>> \in Seq({Genesis} \ {Genesis})
  OBVIOUS
<1>13. CommitOK(s, proposals)
  BY <1>4, <1>5, <1>6, <1>7, <1>10, <1>11, <1>12 DEF CommitOK
<1>14. ParentsOK(proposals)
  <2>1. proposals = [r \in {1} |-> [parent |-> Genesis, heads |-> NoHeights]]
    BY DEF Init
  <2> QED BY <1>5, <2>1 DEF ParentsOK
<1> QED BY <1>1, <1>2, <1>3, <1>13, <1>14 DEF EmitInv

\* and every step keeps it.
LEMMA EmitInvNext == HeraInv /\ EmitInv /\ [Next]_vars => EmitInv'
<1> SUFFICES ASSUME HeraInv, EmitInv, [Next]_vars PROVE EmitInv'
  OBVIOUS
<1>1. CASE UNCHANGED vars
  BY <1>1 DEF vars, EmitInv
<1>2. CASE Next
  <2>1. PICK i \in Ids :
            \/ OnSelfPropose(i) \/ OnDataPropose(i) \/ OnDataResponse(i)
            \/ RecvSigPropose(i) \/ FetchElement(i)
            \/ OnRoundTimeout(i)
            \/ HandleSigBlame(i) \/ HandleOldSigBlame(i) \/ OnSigBlameQC(i)
            \/ RunCommitTask(i)
    BY <1>2 DEF Next
  <2>2. CASE OnSelfPropose(i)
    <3>1. MyHeight(i) < MaxBlocks /\ MyHeight(i) \in 0 .. MaxBlocks
      BY <2>2, RoomForNext DEF OnSelfPropose, HeraInv, DataOK, MyHeight
    <3>2. MyHeight(i) + 1 \in 1 .. MaxBlocks
      BY <3>1, Constants
    <3>3. PICK b \in Blocks : b = Block(i, MyHeight(i) + 1)
      BY <3>2, BlockParts
    <3>4. Done(i, Admit(node[i], b))
      BY <2>2, <3>3 DEF OnSelfPropose
    <3> QED BY <3>4, AdmitEmits
  <2>3. CASE OnDataPropose(i)
    <3>1. PICK a \in Ids : \E h \in 1 .. MyHeight(a) : Done(i, Admit(node[i], Block(a, h)))
      BY <2>3 DEF OnDataPropose
    <3>2. PICK h \in 1 .. MyHeight(a) : Done(i, Admit(node[i], Block(a, h)))
      BY <3>1
    <3>3. MyHeight(a) \in 0 .. MaxBlocks
      BY DEF HeraInv, DataOK, MyHeight
    <3>4. h \in 1 .. MaxBlocks
      BY <3>3, Constants
    <3>5. PICK b \in Blocks : b = Block(a, h)
      BY <3>4, BlockParts
    <3> QED BY <3>2, <3>5, AdmitEmits
  <2>4. CASE OnDataResponse(i)
    <3>1. PICK b \in Requested(node[i]), j \in Ids \ {i} :
              b \in node[j].block_store /\ Done(i, Admit(node[i], b))
      BY <2>4 DEF OnDataResponse
    <3>2. b \in Blocks
      BY <3>1 DEF HeraInv, DataOK
    <3> QED BY <3>1, <3>2, AdmitEmits
  <2> QED BY <2>1, <2>2, <2>3, <2>4, ProposeEmits, FetchEmits, TimeoutEmits, BlameEmits,
             CommitEmits
<1> QED BY <1>1, <1>2

\* Hera keeps the inductive invariant of its output.
THEOREM EmitInvariant == Spec => []EmitInv
BY EmitInvInit, EmitInvNext, HeraInvariant, PTL DEF Spec

\* A server that agreed to all it has committed has emitted exactly the pinned
\* blocks of every author, each once, ordered by attestation, author and height:
\* EmissionDetermined, for any committee and any number of rounds and blocks.
THEOREM EmissionIsMerge == Spec => []EmissionDetermined
<1>1. EmitInv => EmissionDetermined
  <2> SUFFICES ASSUME EmitInv, NEW i \in Ids,
                      \A k \in 1 .. Len(node[i].log) : node[i].log[k] \in node[i].adopted
               PROVE  IsMerge(node[i].emitted, Pins(node[i].log))
    BY DEF EmissionDetermined
  <2>1. PICK s : s = node[i] /\ CommitOK(s, proposals)
    BY DEF EmitInv
  <2>2. ToSet(s.log) \subseteq s.adopted
    <3>1. PICK D : s.log \in Seq(D)
      BY <2>1 DEF CommitOK
    <3> QED BY <2>1, <3>1, MembersOf
  <2> QED BY <2>1, <2>2 DEF CommitOK, Emits, PinsIn, Pins
<1> QED BY <1>1, EmitInvariant, PTL

----------------------------------------------------------------------------
(***************************************************************************)
(* The merge is unique, and a longer log only adds to it.                  *)
(***************************************************************************)
\* Server i agreed to all it has committed.
Agreed(i) == \A k \in 1 .. Len(node[i].log) : node[i].log[k] \in node[i].adopted

\* Of two servers that agreed to all they have committed, if the log of one is
\* how the other's starts, its output is how the other's starts.
OutputsAgree ==
    \A i, j \in Ids :
        Agreed(i) /\ Agreed(j) /\ IsPrefix(node[i].log, node[j].log)
            => IsPrefix(node[i].emitted, node[j].emitted)

\* Sequence s is how t starts, place by place.
Starts(s, t) == Len(s) <= Len(t) /\ \A k \in 1 .. Len(s) : s[k] = t[k]

\* That is IsPrefix.
LEMMA StartsIs ==
    ASSUME NEW S, NEW s \in Seq(S), NEW t \in Seq(S)
    PROVE  IsPrefix(s, t) <=> Starts(s, t)
<1>1. PICK n \in Nat : n = Len(s)
  OBVIOUS
<1>2. PICK m \in Nat : m = Len(t)
  OBVIOUS
<1>3. ASSUME n <= m PROVE SubSeq(s, 1, n) = SubSeq(t, 1, n) <=> \A k \in 1 .. n : s[k] = t[k]
  <2>1. PICK u : u = SubSeq(s, 1, n)
    OBVIOUS
  <2>2. PICK v : v = SubSeq(t, 1, n)
    OBVIOUS
  <2>3. u \in Seq(S) /\ Len(u) = n /\ \A k \in 1 .. n : u[k] = s[k]
    <3>1. \A k \in 1 .. n : k \in 1 .. Len(s) /\ s[k] \in S
      BY <1>1, ElementOfSeq
    <3> QED BY <1>1, <2>1, <3>1, SubSeqProperties
  <2>4. v \in Seq(S) /\ Len(v) = n /\ \A k \in 1 .. n : v[k] = t[k]
    <3>1. \A k \in 1 .. n : k \in 1 .. Len(t) /\ t[k] \in S
      BY <1>2, <1>3, ElementOfSeq
    <3> QED BY <1>2, <1>3, <2>2, <3>1, SubSeqProperties
  <2>5. (\A k \in 1 .. n : s[k] = t[k]) => u = v
    BY <2>3, <2>4, SeqEqual
  <2> QED BY <2>1, <2>2, <2>3, <2>4, <2>5
<1> QED BY <1>1, <1>2, <1>3 DEF IsPrefix, Starts

\* The least number of a set of places.
LEMMA FirstPlace ==
    ASSUME NEW n \in Nat, NEW P \in SUBSET (1 .. n), P # {}
    PROVE  Min(P) \in P /\ \A y \in P : Min(P) <= y
<1>1. P \subseteq Nat
  OBVIOUS
<1>2. \E x \in P : \A y \in P : x <= y
  BY <1>1, LeastNat
<1> QED BY <1>2 DEF Min

\* The first attestation to pin a block stays the first when more are committed,
\* and what they pin anew comes later.
LEMMA PinnedFirst ==
    ASSUME NEW p \in Seq(HeightsOf), NEW q \in Seq(HeightsOf), Starts(p, q), NEW b \in Blocks
    PROVE  /\ PinnedBy(b, p) # {} => /\ PinnedBy(b, q) # {}
                                     /\ Min(PinnedBy(b, q)) = Min(PinnedBy(b, p))
                                     /\ Min(PinnedBy(b, q)) <= Len(p)
           /\ PinnedBy(b, p) = {} /\ PinnedBy(b, q) # {} => Min(PinnedBy(b, q)) > Len(p)
           /\ PinnedBy(b, q) # {} => Min(PinnedBy(b, q)) \in Int
<1>1. PICK n \in Nat : n = Len(p)
  OBVIOUS
<1>2. PICK m \in Nat : m = Len(q) /\ n <= m
  BY <1>1 DEF Starts
<1> DEFINE P == PinnedBy(b, p)
           Q == PinnedBy(b, q)
<1>3. P \in SUBSET (1 .. n) /\ Q \in SUBSET (1 .. m)
  BY <1>1, <1>2 DEF PinnedBy
<1>4. \A k \in 1 .. n : k \in P <=> k \in Q
  BY <1>1, <1>2 DEF PinnedBy, Starts
<1> HIDE DEF P, Q
<1>5. P # {} => Min(P) \in P /\ \A y \in P : Min(P) <= y
  BY <1>3, FirstPlace
<1>6. Q # {} => Min(Q) \in Q /\ \A y \in Q : Min(Q) <= y
  BY <1>3, FirstPlace
<1>7. ASSUME P # {} PROVE Q # {} /\ Min(Q) = Min(P) /\ Min(Q) <= n
  <2>1. PICK x \in 1 .. n : x = Min(P) /\ x \in P /\ x \in Q
    BY <1>3, <1>4, <1>5, <1>7
  <2>2. PICK y \in 1 .. m : y = Min(Q) /\ y \in Q /\ y <= x
    BY <1>3, <1>6, <2>1
  <2>3. y \in P
    BY <1>4, <2>1, <2>2
  <2>4. x <= y
    BY <1>5, <2>1, <2>3
  <2> QED BY <2>1, <2>2, <2>4
<1>8. ASSUME P = {}, Q # {} PROVE Min(Q) > n
  <2>1. PICK y \in 1 .. m : y = Min(Q) /\ y \in Q
    BY <1>3, <1>6, <1>8
  <2>2. y \notin 1 .. n
    BY <1>4, <1>8, <2>1
  <2> QED BY <2>1, <2>2
<1>9. ASSUME Q # {} PROVE Min(Q) \in Int
  <2>1. PICK y \in 1 .. m : y = Min(Q)
    BY <1>3, <1>6, <1>9
  <2> QED BY <2>1
<1> QED BY <1>1, <1>7, <1>8, <1>9 DEF P, Q

\* The order of the output is one: no two blocks go before each other.
LEMMA BeforeOnce ==
    ASSUME NEW q \in Seq(HeightsOf), NEW b \in Blocks, NEW c \in Blocks,
           PinnedBy(b, q) # {}, PinnedBy(c, q) # {}, Before(b, c, q)
    PROVE  ~ Before(c, b, q)
<1>1. Starts(q, q)
  BY DEF Starts
<1>2. PICK x \in Int : x = Min(PinnedBy(b, q))
  BY <1>1, PinnedFirst
<1>3. PICK y \in Int : y = Min(PinnedBy(c, q))
  BY <1>1, PinnedFirst
<1>4. /\ AuthorOf(b) \in Int /\ AuthorOf(c) \in Int /\ Height(b) \in Int /\ Height(c) \in Int
  BY BlockParts, IdsAre
<1>5. \/ x < y
      \/ x = y /\ AuthorOf(b) < AuthorOf(c)
      \/ x = y /\ AuthorOf(b) = AuthorOf(c) /\ Height(b) < Height(c)
  BY <1>2, <1>3 DEF Before
<1>6. ~ \/ y < x
        \/ y = x /\ AuthorOf(c) < AuthorOf(b)
        \/ y = x /\ AuthorOf(c) = AuthorOf(b) /\ Height(c) < Height(b)
  BY <1>4, <1>5
<1> QED BY <1>2, <1>3, <1>6 DEF Before

\* The merge of a longer log starts with the merge of a shorter one.
LEMMA MergeStarts ==
    ASSUME NEW p \in Seq(HeightsOf), NEW q \in Seq(HeightsOf), Starts(p, q),
           NEW o1 \in Seq(Blocks), NEW o2 \in Seq(Blocks), IsMerge(o1, p), IsMerge(o2, q)
    PROVE  Starts(o1, o2)
<1>1. PICK n \in Nat : n = Len(o1)
  OBVIOUS
<1>2. PICK m \in Nat : m = Len(o2)
  OBVIOUS
<1>3. /\ \A b \in Blocks : PinnedBy(b, p) # {} <=> \E k \in 1 .. n : o1[k] = b
      /\ \A k \in 1 .. n : o1[k] \in Blocks /\ PinnedBy(o1[k], p) # {}
      /\ \A j, k \in 1 .. n : j < k => Before(o1[j], o1[k], p)
  <2>1. \A x : x \in ToSet(o1) <=> \E k \in 1 .. n : o1[k] = x
    BY <1>1, MembersOf
  <2>2. \A x : x \in ToSet(o1) <=> x \in Blocks /\ PinnedBy(x, p) # {}
    BY DEF IsMerge, Blocks
  <2>3. \A j, k \in 1 .. n : j < k => Before(o1[j], o1[k], p)
    BY <1>1 DEF IsMerge
  <2> QED BY <2>1, <2>2, <2>3
<1>4. /\ \A b \in Blocks : PinnedBy(b, q) # {} <=> \E k \in 1 .. m : o2[k] = b
      /\ \A k \in 1 .. m : o2[k] \in Blocks /\ PinnedBy(o2[k], q) # {}
      /\ \A j, k \in 1 .. m : j < k => Before(o2[j], o2[k], q)
  <2>1. \A x : x \in ToSet(o2) <=> \E k \in 1 .. m : o2[k] = x
    BY <1>2, MembersOf
  <2>2. \A x : x \in ToSet(o2) <=> x \in Blocks /\ PinnedBy(x, q) # {}
    BY DEF IsMerge, Blocks
  <2>3. \A j, k \in 1 .. m : j < k => Before(o2[j], o2[k], q)
    BY <1>2 DEF IsMerge
  <2> QED BY <2>1, <2>2, <2>3
<1>5. ASSUME NEW b \in Blocks, NEW c \in Blocks, PinnedBy(b, p) # {}, PinnedBy(c, p) # {},
             Before(b, c, p)
      PROVE  Before(b, c, q)
  <2>1. /\ Min(PinnedBy(b, q)) = Min(PinnedBy(b, p))
        /\ Min(PinnedBy(c, q)) = Min(PinnedBy(c, p))
    BY <1>5, PinnedFirst
  <2> QED BY <1>5, <2>1 DEF Before
<1>6. ASSUME NEW b \in Blocks, NEW c \in Blocks, PinnedBy(b, p) # {}, PinnedBy(c, p) = {},
             PinnedBy(c, q) # {}
      PROVE  Before(b, c, q)
  <2>1. PICK l \in Nat : l = Len(p)
    OBVIOUS
  <2>2. PICK x \in Int : x = Min(PinnedBy(b, q)) /\ x <= l
    BY <1>6, <2>1, PinnedFirst
  <2>3. PICK y \in Int : y = Min(PinnedBy(c, q)) /\ y > l
    BY <1>6, <2>1, PinnedFirst
  <2>4. x < y
    BY <2>1, <2>2, <2>3
  <2> QED BY <2>2, <2>3, <2>4 DEF Before
<1>7. \A b \in Blocks : PinnedBy(b, p) # {} => PinnedBy(b, q) # {}
  BY PinnedFirst
<1>8. \A b, c \in Blocks : PinnedBy(b, q) # {} /\ PinnedBy(c, q) # {}
                              => ~ (Before(b, c, q) /\ Before(c, b, q))
  BY BeforeOnce
<1> DEFINE K == {k \in 0 .. n : k <= m /\ \A j \in 1 .. k : o1[j] = o2[j]}
<1>9. 0 \in K
  OBVIOUS
<1>10. ASSUME NEW k \in 1 .. n, k - 1 \in K PROVE k \in K
  <2>1. PICK h \in 0 .. n : h = k - 1 /\ h <= m /\ \A j \in 1 .. h : o1[j] = o2[j]
    BY <1>10
  <2>2. PICK x \in Blocks : x = o1[k] /\ PinnedBy(x, p) # {} /\ PinnedBy(x, q) # {}
    BY <1>3, <1>7
  <2>3. PICK j \in 1 .. m : o2[j] = x
    BY <1>4, <2>2
  <2>4. ~ (j < k)
    <3> SUFFICES ASSUME j < k PROVE FALSE
      OBVIOUS
    <3>1. j \in 1 .. n /\ o1[j] = x
      BY <2>1, <2>3
    <3>2. Before(x, x, p)
      BY <1>3, <2>2, <3>1
    <3> QED BY <1>5, <1>8, <2>2, <3>2
  <2>5. k \in 1 .. m /\ (j = k \/ k < j)
    BY <2>3, <2>4
  <2>6. ASSUME k < j PROVE FALSE
    <3>1. PICK y \in Blocks : y = o2[k] /\ PinnedBy(y, q) # {}
      BY <1>4, <2>5
    <3>2. Before(y, x, q)
      BY <1>4, <2>3, <2>5, <2>6, <3>1
    <3>3. ~ Before(x, y, q)
      BY <1>8, <2>2, <3>1, <3>2
    <3>4. PinnedBy(y, p) # {}
      BY <1>6, <2>2, <3>1, <3>3
    <3>5. PICK g \in 1 .. n : o1[g] = y
      BY <1>3, <3>4
    <3>6. ~ (k < g)
      BY <1>3, <1>5, <2>2, <3>3, <3>4, <3>5
    <3>7. g # k
      <4> SUFFICES ASSUME g = k PROVE FALSE
        OBVIOUS
      <4>1. x = y
        BY <2>2, <3>5
      <4> QED BY <3>2, <3>3, <4>1
    <3>8. g \in 1 .. h /\ g \in 1 .. m /\ g < k
      BY <2>1, <3>6, <3>7
    <3>9. o2[g] = y
      BY <2>1, <3>5, <3>8
    <3>10. Before(y, y, q)
      BY <1>4, <2>5, <3>1, <3>8, <3>9
    <3> QED BY <1>8, <3>1, <3>10
  <2>7. o1[k] = o2[k]
    BY <2>2, <2>3, <2>5, <2>6
  <2>8. \A g \in 1 .. k : g \in 1 .. h \/ g = k
    BY <2>1
  <2> QED BY <2>1, <2>5, <2>7, <2>8
<1>11. n \in K
  <2>1. \A k \in 0 .. n : k \in K
    <3> HIDE DEF K
    <3> QED BY <1>9, <1>10, CountsUp
  <2>2. n \in 0 .. n
    OBVIOUS
  <2> HIDE DEF K
  <2> QED BY <2>1, <2>2
<1> QED BY <1>1, <1>2, <1>11 DEF Starts

\* Servers that agreed to what they commit never emit different blocks, or the
\* same blocks in a different order, as long as their logs do not differ.
THEOREM AgreedOutputsAgree == Spec => []OutputsAgree
<1>1. HeraInv /\ EmitInv => OutputsAgree
  <2> SUFFICES ASSUME HeraInv, EmitInv, NEW i \in Ids, NEW j \in Ids, Agreed(i), Agreed(j),
                      IsPrefix(node[i].log, node[j].log)
               PROVE  IsPrefix(node[i].emitted, node[j].emitted)
    BY DEF OutputsAgree
  <2> DEFINE D == DOMAIN proposals
  <2>1. \A e \in D : proposals[e].heads \in HeightsOf
    BY DEF HeraInv, ProposalsOK, HeightsOf
  <2>2. ASSUME NEW k \in Ids, Agreed(k)
        PROVE  /\ node[k].log \in Seq(D) /\ node[k].emitted \in Seq(Blocks)
               /\ Pins(node[k].log) \in Seq(HeightsOf)
               /\ Len(Pins(node[k].log)) = Len(node[k].log)
               /\ IsMerge(node[k].emitted, Pins(node[k].log))
    <3>1. PICK s : s = node[k] /\ CommitOK(s, proposals) /\ SigOK(s)
      BY ServerFacts
    <3>2. PICK C : C = s.elements \ {Genesis} /\ C \subseteq D
      BY <3>1 DEF SigOK
    <3>3. PICK l \in Seq(C) : l = s.log
      BY <3>1, <3>2 DEF CommitOK
    <3>4. l \in Seq(D) /\ s.emitted \in Seq(Blocks)
      BY <3>1, <3>2, <3>3 DEF CommitOK
    <3>5. ToSet(l) \subseteq s.adopted
      BY <2>2, <3>1, <3>3, MembersOf DEF Agreed
    <3>6. IsMerge(s.emitted, Pins(l))
      BY <3>1, <3>3, <3>5 DEF CommitOK, Emits, PinsIn, Pins
    <3>7. Pins(l) \in Seq(HeightsOf) /\ Len(Pins(l)) = Len(l)
      <4>1. PICK n \in Nat : n = Len(l)
        OBVIOUS
      <4>2. \A x \in 1 .. n : proposals[l[x]].heads \in HeightsOf
        BY <2>1, <3>4, <4>1, ElementOfSeq
      <4>3. PICK f : f = [x \in 1 .. n |-> proposals[l[x]].heads]
        OBVIOUS
      <4>4. f \in [1 .. n -> HeightsOf]
        BY <4>2, <4>3
      <4>5. f \in Seq(HeightsOf) /\ Len(f) = n
        BY <4>4
      <4> QED BY <4>1, <4>3, <4>5 DEF Pins
    <3> QED BY <3>1, <3>3, <3>4, <3>6, <3>7
  <2> HIDE DEF D
  <2>3. PICK l1 \in Seq(D), l2 \in Seq(D) : l1 = node[i].log /\ l2 = node[j].log
    BY <2>2
  <2>4. PICK p \in Seq(HeightsOf), q \in Seq(HeightsOf) :
            /\ p = Pins(l1) /\ q = Pins(l2) /\ Len(p) = Len(l1) /\ Len(q) = Len(l2)
    BY <2>2, <2>3
  <2>5. PICK o1 \in Seq(Blocks), o2 \in Seq(Blocks) :
            /\ o1 = node[i].emitted /\ o2 = node[j].emitted
            /\ IsMerge(o1, p) /\ IsMerge(o2, q)
    BY <2>2, <2>3, <2>4
  <2>6. Starts(l1, l2)
    BY <2>3, StartsIs
  <2>7. Starts(p, q)
    <3>1. Len(l1) \in Nat /\ Len(l2) \in Nat /\ Len(l1) <= Len(l2)
      BY <2>6 DEF Starts
    <3>2. ASSUME NEW k \in 1 .. Len(p) PROVE p[k] = q[k]
      <4>1. k \in 1 .. Len(l1) /\ k \in 1 .. Len(l2) /\ l1[k] = l2[k]
        BY <2>4, <2>6, <3>1 DEF Starts
      <4>2. p[k] = proposals[l1[k]].heads /\ q[k] = proposals[l2[k]].heads
        BY <2>4, <4>1 DEF Pins
      <4> QED BY <4>1, <4>2
    <3> QED BY <2>4, <3>1, <3>2 DEF Starts
  <2>8. Starts(o1, o2)
    BY <2>5, <2>7, MergeStarts
  <2> QED BY <2>5, <2>8, StartsIs
<1> QED BY <1>1, HeraInvariant, EmitInvariant, PTL
==============================================================================
