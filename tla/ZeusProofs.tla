----------------------------- MODULE ZeusProofs -----------------------------
(***************************************************************************)
(* Proofs about Zeus, for any committee, any number of rounds, epochs and  *)
(* batches, any schedule of leaders and any loss of proposals.             *)
(*                                                                         *)
(* The state of a server is one record that handlers transform.  The       *)
(* invariant has a part about the blocks a server has (ChainOK), one about *)
(* epochs and blames and one about the signature chain; a handler's state  *)
(* is shown to keep each of them (Good...), and Done carries that over to  *)
(* the system.                                                             *)
(***************************************************************************)
EXTENDS Zeus, DataLemmas

----------------------------------------------------------------------------
\* The fields of a server's state.
Fields == {"current_epoch", "head", "store", "child_of", "pending_data_blocks",
           "pending_attestations", "admitted_change_qcs", "eleader_blames",
           "last_proposed", "batches", "data_timer", "rleader_waiting_fresh",
           "sig_chain", "commits", "commit_lock", "last_committed", "requested", "out"}

\* State t is state s but for the fields F.
Same(s, t, F) ==
    /\ DOMAIN t = Fields
    /\ \A f \in Fields \ F : t[f] = s[f]

Blocks == Seq((1 .. MaxEpoch) \X (1 .. MaxBatches))

SigMessages ==
    [type : {"SigPropose"}, to : SUBSET Ids, round : 1 .. MaxRound, pin : Blocks]

----------------------------------------------------------------------------
\* The blocks of a server: finitely many, closed under parents; what it names
\* elsewhere as a block it has, it has.
BlocksOK(s) ==
    /\ s.store \subseteq Blocks /\ IsFiniteSet(s.store)
    /\ Genesis \in s.store
    /\ \A b \in s.store \ {Genesis} : Parent(b) \in s.store
    /\ s.head \in s.store
    /\ s.child_of \subseteq s.store
    /\ s.requested \subseteq Blocks

\* What is parked.
ParkedOK(s) ==
    /\ IsFiniteSet(DOMAIN s.pending_data_blocks)
    /\ \A p \in DOMAIN s.pending_data_blocks : s.pending_data_blocks[p] \in Seq(Blocks)
    /\ s.pending_attestations \subseteq SigMessages

\* No block of the store has two children there.
SingleChain(s) ==
    \A b, c \in s.store \ {Genesis} : Parent(b) = Parent(c) => b = c

\* What the server adopted and committed: the pins are stored, D* is at least
\* as high as the committed chain and, without siblings, a pin extends it.
CommitOK(s) ==
    /\ s.sig_chain \in Seq(Blocks) /\ Len(s.sig_chain) <= MaxRound
    /\ \A r \in 1 .. Len(s.sig_chain) : s.sig_chain[r] \in s.store
    /\ s.commits \in 0 .. Len(s.sig_chain)
    /\ s.commit_lock \subseteq s.store
    /\ \A p, q \in s.commit_lock : p = q
    /\ s.last_committed \in s.store
    /\ Len(s.last_committed) <= Len(DStar(s))
    /\ SingleChain(s) /\ s.last_committed # Genesis =>
          \E r \in 1 .. s.commits : IsPrefix(s.last_committed, s.sig_chain[r])

\* What an eleader remembers of its proposals.
ProposerOK(s) ==
    /\ s.batches \in Nat
    /\ s.last_proposed # NoBlock => /\ s.last_proposed \in Blocks
                                    /\ EpochOf(s.last_proposed) = s.current_epoch

ChainOK(s) == BlocksOK(s) /\ ParkedOK(s) /\ CommitOK(s) /\ ProposerOK(s)

----------------------------------------------------------------------------
\* The epoch of a server and the QCs it has.
EpochOK(s) ==
    /\ s.current_epoch \in 1 .. MaxEpoch
    /\ s.admitted_change_qcs \subseteq 0 .. (MaxEpoch - 1)
    /\ (s.current_epoch - 1) \in s.admitted_change_qcs
    /\ \A e \in s.admitted_change_qcs : e < s.current_epoch

\* Whose valid blame of the eleader of epoch e is his own, if N gives the states.
Blamers(N, e) ==
    {j \in Ids : \E b \in N[j].eleader_blames : b.epoch = e /\ b.signer = j /\ b.valid}

Earned(N, e) == Cardinality(Blamers(N, e)) > NumFaults

\* A blame was signed by a server that has it, and had reached the epoch.
Signed(N, b) ==
    /\ b.epoch \in 1 .. (MaxEpoch - 1)
    /\ b.signer \in Ids
    /\ b \in N[b.signer].eleader_blames
    /\ b.epoch <= N[b.signer].current_epoch

BlamesSigned(N) == \A i \in Ids : \A b \in N[i].eleader_blames : Signed(N, b)

PassedEarned(N) == \A i \in Ids : \A e \in 1 .. (N[i].current_epoch - 1) : Earned(N, e)

\* A message says what is so.
MessageOK(N, m) ==
    /\ m.type \in {"DataPropose", "EleaderBlame", "EleaderChangeQC", "SigPropose"}
    /\ m.type = "DataPropose" => m.block \in Blocks
    /\ m.type = "EleaderBlame" => Signed(N, m.blame)
    /\ m.type = "EleaderChangeQC" => m.epoch \in 1 .. (MaxEpoch - 1) /\ Earned(N, m.epoch)
    /\ m.type = "SigPropose" => m \in SigMessages

----------------------------------------------------------------------------
\* A proposal of round r that pins b was made, and is in one of these messages or
\* was adopted.
Carries(msgs, r, b) == \E m \in msgs : m.type = "SigPropose" /\ m.round = r /\ m.pin = b

Adopts(s, r, b) == r \in 1 .. Len(s.sig_chain) /\ s.sig_chain[r] = b

Pinned(r, b) ==
    \E j \in Ids : \/ Carries(inbox[j], r, b)
                   \/ Carries(node[j].pending_attestations, r, b)
                   \/ Adopts(node[j], r, b)

\* One block is pinned per round; the leader has reached the round, and the
\* leader of the first round has stopped waiting for a block.
SigAgree ==
    /\ \A r, b : Pinned(r, b) => /\ r \in 1 .. MaxRound
                                 /\ r <= SigRound(node[LeaderOf[r]])
                                 /\ ~node[LeaderOf[1]].rleader_waiting_fresh
    /\ \A r, b, c : Pinned(r, b) /\ Pinned(r, c) => b = c
    /\ \A i \in Ids : node[i].rleader_waiting_fresh => LeaderOf[1] = i

----------------------------------------------------------------------------
\* The inductive invariant.
ZeusInv ==
    /\ DOMAIN node = Ids /\ DOMAIN inbox = Ids
    /\ \A i \in Ids : DOMAIN node[i] = Fields /\ node[i].out = {}
    /\ \A i \in Ids : ChainOK(node[i]) /\ EpochOK(node[i])
    /\ BlamesSigned(node)
    /\ PassedEarned(node)
    /\ \A i \in Ids : \A m \in inbox[i] : MessageOK(node, m)
    /\ SigAgree

----------------------------------------------------------------------------
\* The constants are numbers, or sets and functions of them.
LEMMA Constants ==
    /\ IsFiniteSet(Ids)
    /\ NumFaults \in Nat /\ MaxBatches \in Nat
    /\ MaxRound \in Nat /\ MaxRound >= 1
    /\ MaxEpoch \in Nat /\ MaxEpoch >= 1
    /\ LeaderOf \in [1 .. (MaxRound + 1) -> Ids]
BY ZeusAssumption

\* A block's parent is the block without its last element.
LEMMA ParentOf ==
    ASSUME NEW b \in Blocks
    PROVE  /\ Len(b) \in Nat /\ (b = Genesis <=> Len(b) = 0)
           /\ Genesis \in Blocks /\ Parent(b) \in Blocks
           /\ b = Genesis => Parent(b) = Genesis
           /\ b # Genesis => /\ Len(b) >= 1
                             /\ Len(Parent(b)) = Len(b) - 1
                             /\ \A k \in 1 .. (Len(b) - 1) : Parent(b)[k] = b[k]
           /\ Len(b) <= Len(Parent(b)) + 1
<1> DEFINE S == (1 .. MaxEpoch) \X (1 .. MaxBatches)
<1>1. b \in Seq(S) /\ Parent(b) = SubSeq(b, 1, Len(b) - 1)
  BY DEF Blocks, Parent, Front
<1>2. Genesis \in Seq(S) /\ Len(Genesis) = 0
  BY DEF Genesis
<1>3. Len(b) \in Nat /\ (b = Genesis <=> Len(b) = 0)
  <2> HIDE DEF S
  <2> QED BY <1>1 DEF Genesis
<1>4. CASE b = Genesis
  <2>1. SubSeq(b, 1, Len(b) - 1) = Genesis
    BY <1>1, <1>3, <1>4 DEF Genesis
  <2> QED BY <1>1, <1>2, <1>3, <1>4, <2>1 DEF Blocks
<1>5. CASE b # Genesis
  <2>1. Len(b) >= 1
    BY <1>3, <1>5
  <2>2. /\ SubSeq(b, 1, Len(b) - 1) \in Seq(S)
        /\ Len(SubSeq(b, 1, Len(b) - 1)) = Len(b) - 1
        /\ \A k \in 1 .. (Len(b) - 1) : SubSeq(b, 1, Len(b) - 1)[k] = b[k]
    <3> HIDE DEF S
    <3>a. Len(b) - 1 \in Nat
      BY <1>3, <2>1
    <3>1. PICK n \in Nat : n = Len(b) - 1
      BY <3>a
    <3>2. n <= Len(b) /\ n - 1 + 1 = n
      BY <1>3, <3>1
    <3>3. IsSegment(SubSeq(b, 1, n), S, b, 1, n)
      BY <1>1, <3>2, SegmentIs
    <3> QED BY <3>1, <3>2, <3>3 DEF IsSegment
  <2> QED BY <1>1, <1>2, <1>3, <1>5, <2>1, <2>2 DEF Blocks
<1> QED BY <1>4, <1>5

\* A prefix agrees element by element.
LEMMA PrefixMeans ==
    ASSUME NEW a \in Blocks, NEW b \in Blocks
    PROVE  IsPrefix(a, b) <=> /\ Len(a) <= Len(b)
                              /\ \A k \in 1 .. Len(a) : a[k] = b[k]
<1> DEFINE S == (1 .. MaxEpoch) \X (1 .. MaxBatches)
<1>1. a \in Seq(S) /\ b \in Seq(S) /\ Len(a) \in Nat /\ Len(b) \in Nat
  BY DEF Blocks
<1>2. CASE Len(a) <= Len(b)
  <2>1. /\ SubSeq(a, 1, Len(a)) \in Seq(S) /\ Len(SubSeq(a, 1, Len(a))) = Len(a)
        /\ \A k \in 1 .. Len(a) : SubSeq(a, 1, Len(a))[k] = a[k]
        /\ SubSeq(b, 1, Len(a)) \in Seq(S) /\ Len(SubSeq(b, 1, Len(a))) = Len(a)
        /\ \A k \in 1 .. Len(a) : SubSeq(b, 1, Len(a))[k] = b[k]
    <3> HIDE DEF S
    <3> QED BY <1>1, <1>2, SegmentOf
  <2> HIDE DEF S
  <2> QED BY <1>1, <1>2, <2>1, SeqEqual DEF IsPrefix
<1>3. CASE ~(Len(a) <= Len(b))
  BY <1>3 DEF IsPrefix
<1> QED BY <1>2, <1>3

\* The prefix order, and a block's parent in it.
LEMMA PrefixOrder ==
    ASSUME NEW a \in Blocks, NEW b \in Blocks
    PROVE  /\ IsPrefix(a, a) /\ IsPrefix(Genesis, a) /\ IsPrefix(Parent(a), a)
           /\ \A c \in Blocks : IsPrefix(a, b) /\ IsPrefix(b, c) => IsPrefix(a, c)
           /\ \A c \in Blocks : IsPrefix(a, c) /\ IsPrefix(b, c) => Comparable(a, b)
           /\ IsPrefix(a, b) => Len(a) <= Len(b)
<1>1. Len(a) \in Nat /\ Len(b) \in Nat
  BY ParentOf
<1>2. IsPrefix(a, a)
  BY <1>1, PrefixMeans
<1>3. IsPrefix(Genesis, a)
  <2>1. Genesis \in Blocks /\ Len(Genesis) = 0
    BY ParentOf
  <2> QED BY <1>1, <2>1, PrefixMeans
<1>4. IsPrefix(Parent(a), a)
  <2>1. CASE a = Genesis
    BY <1>2, <2>1, ParentOf
  <2>2. CASE a # Genesis
    <3>1. /\ Parent(a) \in Blocks /\ Len(Parent(a)) = Len(a) - 1
          /\ \A k \in 1 .. (Len(a) - 1) : Parent(a)[k] = a[k]
      BY <2>2, ParentOf
    <3>2. Len(Parent(a)) <= Len(a) /\ \A k \in 1 .. Len(Parent(a)) : Parent(a)[k] = a[k]
      BY <1>1, <3>1
    <3> QED BY <3>1, <3>2, PrefixMeans
  <2> QED BY <2>1, <2>2
<1>5. ASSUME NEW c \in Blocks, IsPrefix(a, b), IsPrefix(b, c)
      PROVE  IsPrefix(a, c)
  <2>1. Len(c) \in Nat
    BY ParentOf
  <2>2. /\ Len(a) <= Len(b) /\ \A k \in 1 .. Len(a) : a[k] = b[k]
        /\ Len(b) <= Len(c) /\ \A k \in 1 .. Len(b) : b[k] = c[k]
    BY <1>5, PrefixMeans
  <2>3. Len(a) <= Len(c) /\ \A k \in 1 .. Len(a) : a[k] = c[k]
    BY <1>1, <2>1, <2>2
  <2> QED BY <2>3, PrefixMeans
<1>6. ASSUME NEW c \in Blocks, IsPrefix(a, c), IsPrefix(b, c)
      PROVE  Comparable(a, b)
  <2>1. /\ \A k \in 1 .. Len(a) : a[k] = c[k]
        /\ \A k \in 1 .. Len(b) : b[k] = c[k]
    BY <1>6, PrefixMeans
  <2>2. CASE Len(a) <= Len(b)
    <3>1. \A k \in 1 .. Len(a) : a[k] = b[k]
      BY <1>1, <2>1, <2>2
    <3> QED BY <2>2, <3>1, PrefixMeans DEF Comparable
  <2>3. CASE Len(b) <= Len(a)
    <3>1. \A k \in 1 .. Len(b) : b[k] = a[k]
      BY <1>1, <2>1, <2>3
    <3> QED BY <2>3, <3>1, PrefixMeans DEF Comparable
  <2> QED BY <1>1, <2>2, <2>3
<1>7. IsPrefix(a, b) => Len(a) <= Len(b)
  BY PrefixMeans
<1> QED BY <1>2, <1>3, <1>4, <1>5, <1>6, <1>7

\* The store has all ancestors of its blocks.
LEMMA AncestorsStored ==
    ASSUME NEW s, BlocksOK(s), NEW b \in s.store, NEW k \in 0 .. Len(b)
    PROVE  SubSeq(b, 1, k) \in s.store
<1> DEFINE S == (1 .. MaxEpoch) \X (1 .. MaxBatches)
           bad == {d \in Nat : d <= Len(b) /\ SubSeq(b, 1, Len(b) - d) \notin s.store}
<1>1. b \in Seq(S) /\ Len(b) \in Nat
  BY DEF BlocksOK, Blocks
<1>2. SubSeq(b, 1, Len(b)) = b
  <2> HIDE DEF S
  <2> QED BY <1>1
<1>3. ASSUME NEW m \in 1 .. Len(b), SubSeq(b, 1, m) \in s.store
      PROVE  SubSeq(b, 1, m - 1) \in s.store
  <2>1. /\ SubSeq(b, 1, m) \in Seq(S) /\ Len(SubSeq(b, 1, m)) = m
        /\ \A j \in 1 .. m : SubSeq(b, 1, m)[j] = b[j]
        /\ SubSeq(b, 1, m - 1) \in Seq(S) /\ Len(SubSeq(b, 1, m - 1)) = m - 1
        /\ \A j \in 1 .. (m - 1) : SubSeq(b, 1, m - 1)[j] = b[j]
    <3> HIDE DEF S
    <3> QED BY <1>1, SegmentOf
  <2>2. PICK c \in Blocks : c = SubSeq(b, 1, m)
    BY <2>1 DEF Blocks
  <2>3. c \in s.store \ {Genesis} /\ Len(c) = m
    <3>1. Len(c) = m /\ m # 0
      BY <2>1, <2>2
    <3> QED BY <1>3, <2>2, <3>1, ParentOf
  <2>4. /\ Parent(c) \in Blocks /\ Len(Parent(c)) = m - 1
        /\ \A j \in 1 .. (m - 1) : Parent(c)[j] = c[j]
    BY <2>2, <2>3, ParentOf
  <2>5. Parent(c) = SubSeq(b, 1, m - 1)
    <3>1. Parent(c) \in Seq(S)
      BY <2>4 DEF Blocks
    <3>2. \A j \in 1 .. (m - 1) : Parent(c)[j] = SubSeq(b, 1, m - 1)[j]
      BY <2>1, <2>2, <2>4
    <3> HIDE DEF S
    <3> QED BY <2>1, <2>4, <3>1, <3>2, SeqEqual
  <2> QED BY <2>3, <2>5 DEF BlocksOK
<1>4. bad = {}
  <2> SUFFICES ASSUME bad # {} PROVE FALSE
    OBVIOUS
  <2>1. bad \subseteq Nat
    OBVIOUS
  <2>2. PICK d \in bad : \A e \in bad : d <= e
    <3> HIDE DEF bad
    <3> QED BY <2>1, LeastNat
  <2>3. d \in Nat /\ d <= Len(b) /\ SubSeq(b, 1, Len(b) - d) \notin s.store
    OBVIOUS
  <2>a. PICK n \in Nat : n = Len(b)
    BY <1>1
  <2>4. d # 0
    <3>1. d = 0 => n - d = n
      BY <2>a
    <3> QED BY <1>2, <2>3, <2>a, <3>1
  <2>5. d - 1 \in Nat /\ d - 1 <= n /\ ~(d <= d - 1)
    BY <2>3, <2>4, <2>a
  <2>b. d - 1 \notin bad
    <3> HIDE DEF bad
    <3> QED BY <2>2, <2>5
  <2>6. SubSeq(b, 1, Len(b) - (d - 1)) \in s.store
    BY <2>5, <2>a, <2>b
  <2>c. d <= n /\ n - (d - 1) \in 1 .. n
    <3>1. d <= n /\ d >= 1
      BY <2>3, <2>4, <2>a
    <3> QED BY <3>1
  <2>7. PICK m \in 1 .. n : m = n - (d - 1)
    BY <2>c
  <2>8. m - 1 = n - d
    BY <2>3, <2>7
  <2> QED BY <1>3, <2>3, <2>6, <2>7, <2>8, <2>a
<1>5. Len(b) - k \in Nat /\ Len(b) - k <= Len(b) /\ Len(b) - (Len(b) - k) = k
  BY <1>1
<1>6. Len(b) - k \notin bad
  BY <1>4
<1> QED BY <1>5, <1>6

\* A store without siblings is one chain.
LEMMA ChainComparable ==
    ASSUME NEW s, BlocksOK(s), SingleChain(s), NEW a \in s.store, NEW b \in s.store
    PROVE  Comparable(a, b)
<1> DEFINE S == (1 .. MaxEpoch) \X (1 .. MaxBatches)
           bad == {k \in Nat : k >= 1 /\ k <= Len(a) /\ k <= Len(b) /\ a[k] # b[k]}
<1>1. /\ a \in Blocks /\ b \in Blocks
      /\ a \in Seq(S) /\ b \in Seq(S) /\ Len(a) \in Nat /\ Len(b) \in Nat
  BY DEF BlocksOK, Blocks
<1>2. bad = {}
  <2> SUFFICES ASSUME bad # {} PROVE FALSE
    OBVIOUS
  <2>1. bad \subseteq Nat
    OBVIOUS
  <2>2. PICK k \in bad : \A j \in bad : k <= j
    <3> HIDE DEF bad
    <3> QED BY <2>1, LeastNat
  <2>3. k \in Nat /\ k >= 1 /\ k <= Len(a) /\ k <= Len(b) /\ a[k] # b[k]
    OBVIOUS
  <2>4. \A j \in 1 .. (k - 1) : a[j] = b[j]
    <3> SUFFICES ASSUME NEW j \in 1 .. (k - 1), a[j] # b[j] PROVE FALSE
      OBVIOUS
    <3>a. j \in Nat /\ j >= 1 /\ j < k
      BY <2>3
    <3>b. \A x, y \in Nat : y <= x /\ j < y => j <= x
      BY <3>a
    <3>1. j \in Nat /\ j >= 1 /\ j < k /\ j <= Len(a) /\ j <= Len(b)
      BY <1>1, <2>3, <3>a, <3>b
    <3>2. j \in bad
      BY <3>1
    <3> QED BY <2>2, <2>3, <3>1, <3>2
  <2>5. PICK x \in Blocks, y \in Blocks : x = SubSeq(a, 1, k) /\ y = SubSeq(b, 1, k)
    <3> HIDE DEF S
    <3>1. SubSeq(a, 1, k) \in Seq(S) /\ SubSeq(b, 1, k) \in Seq(S)
      BY <1>1, <2>3
    <3> QED BY <3>1 DEF Blocks, S
  <2>6. /\ Len(x) = k /\ Len(y) = k
        /\ \A j \in 1 .. k : x[j] = a[j] /\ y[j] = b[j]
    <3> HIDE DEF S
    <3> QED BY <1>1, <2>3, <2>5, SegmentOf
  <2>7. x \in s.store \ {Genesis} /\ y \in s.store \ {Genesis}
    <3>1. k \in 0 .. Len(a) /\ k \in 0 .. Len(b)
      BY <1>1, <2>3
    <3>2. x \in s.store /\ y \in s.store
      BY <2>5, <3>1, AncestorsStored
    <3>3. Len(x) # 0 /\ Len(y) # 0
      BY <2>3, <2>6
    <3> QED BY <3>2, <3>3, ParentOf
  <2>8. /\ Parent(x) \in Blocks /\ Len(Parent(x)) = k - 1
        /\ \A j \in 1 .. (k - 1) : Parent(x)[j] = x[j]
        /\ Parent(y) \in Blocks /\ Len(Parent(y)) = k - 1
        /\ \A j \in 1 .. (k - 1) : Parent(y)[j] = y[j]
    BY <2>6, <2>7, ParentOf
  <2>9. Parent(x) = Parent(y)
    <3>1. Parent(x) \in Seq(S) /\ Parent(y) \in Seq(S)
      BY <2>8 DEF Blocks
    <3>2. \A j \in 1 .. (k - 1) : Parent(x)[j] = Parent(y)[j]
      BY <2>3, <2>4, <2>6, <2>8
    <3> HIDE DEF S
    <3> QED BY <2>8, <3>1, <3>2, SeqEqual
  <2>10. x = y
    BY <2>7, <2>9 DEF SingleChain
  <2> QED BY <2>3, <2>6, <2>10
<1>3. \A k \in Nat : k >= 1 /\ k <= Len(a) /\ k <= Len(b) => a[k] = b[k]
  BY <1>2
<1>4. CASE Len(a) <= Len(b)
  <2>1. \A k \in 1 .. Len(a) : a[k] = b[k]
    BY <1>1, <1>3, <1>4
  <2> QED BY <1>1, <1>4, <2>1, PrefixMeans DEF Comparable
<1>5. CASE Len(b) <= Len(a)
  <2>1. \A k \in 1 .. Len(b) : b[k] = a[k]
    BY <1>1, <1>3, <1>5
  <2> QED BY <1>1, <1>5, <2>1, PrefixMeans DEF Comparable
<1> QED BY <1>1, <1>4, <1>5

----------------------------------------------------------------------------
\* The states of all servers, if server i ends a step in state t.
With(i, t) == [node EXCEPT ![i] = t]

\* What every handler of server i achieves, if t is the state it ends in.  Its
\* own blames stay, and it does not go back to an earlier epoch.
KeepsBlames(i, t) ==
    /\ t.current_epoch >= node[i].current_epoch
    /\ \A b \in node[i].eleader_blames : b.signer = i => b \in t.eleader_blames

GoodEpoch(i, t) ==
    /\ EpochOK(t)
    /\ KeepsBlames(i, t)
    /\ \A b \in t.eleader_blames : Signed(With(i, t), b)
    /\ \A e \in 1 .. (t.current_epoch - 1) : Earned(With(i, t), e)
    /\ \A m \in t.out : MessageOK(With(i, t), m)

\* A proposal that the server makes now: it has just come to the round, or has
\* waited in the first one.
Fresh(i, t, r, b) ==
    /\ r = SigRound(t) /\ b = t.head
    /\ r \in 1 .. MaxRound /\ LeaderOf[r] = i
    /\ ~t.rleader_waiting_fresh
    /\ SigRound(node[i]) < r \/ node[i].rleader_waiting_fresh

GoodSig(i, t) ==
    /\ t.rleader_waiting_fresh => node[i].rleader_waiting_fresh
    /\ Len(t.sig_chain) >= Len(node[i].sig_chain)
    /\ \A r, b : Adopts(t, r, b) \/ Carries(t.pending_attestations, r, b) => Pinned(r, b)
    /\ \A r, b : Carries(t.out, r, b) => Pinned(r, b) \/ Fresh(i, t, r, b)

\* The head goes up, or is set to no less than what is committed.
Moves(s, t) ==
    IF t.current_epoch = s.current_epoch
    THEN IsPrefix(s.head, t.head)
    ELSE Height(t.head) >= Height(s.last_committed)

GoodStep(i, t) ==
    /\ DOMAIN t = Fields
    /\ ChainOK(t) /\ GoodEpoch(i, t) /\ GoodSig(i, t) /\ Moves(node[i], t)

\* What the parts of the invariant say of one server.
LEMMA OneServer ==
    ASSUME ZeusInv, NEW i \in Ids
    PROVE  /\ DOMAIN node = Ids /\ DOMAIN node[i] = Fields /\ node[i].out = {}
           /\ ChainOK(node[i]) /\ EpochOK(node[i])
           /\ \A b \in node[i].eleader_blames : Signed(node, b)
           /\ \A e \in 1 .. (node[i].current_epoch - 1) : Earned(node, e)
           /\ \A m \in inbox[i] : MessageOK(node, m)
BY DEF ZeusInv, BlamesSigned, PassedEarned

\* D* and the siblings depend on the commit lock and the store only.
LEMMA DStarSame ==
    ASSUME NEW s, NEW t, t.commit_lock = s.commit_lock
    PROVE  /\ DStar(t) = DStar(s)
           /\ s.store \subseteq t.store /\ SingleChain(t) => SingleChain(s)
<1>1. DStar(t) = DStar(s)
  BY DEF DStar
<1>2. s.store \subseteq t.store /\ SingleChain(t) => SingleChain(s)
  BY DEF SingleChain
<1> QED BY <1>1, <1>2

\* Blocks and commits do not depend on the other fields.
LEMMA ChainSame ==
    ASSUME NEW s, NEW t, ChainOK(s),
           Same(s, t, {"data_timer", "rleader_waiting_fresh", "eleader_blames",
                       "admitted_change_qcs", "out"})
    PROVE  ChainOK(t)
<1>1. /\ t.store = s.store /\ t.head = s.head /\ t.child_of = s.child_of
      /\ t.requested = s.requested
      /\ t.pending_data_blocks = s.pending_data_blocks
      /\ t.pending_attestations = s.pending_attestations
  BY DEF Same, Fields
<1>2. /\ t.sig_chain = s.sig_chain /\ t.commits = s.commits
      /\ t.commit_lock = s.commit_lock /\ t.last_committed = s.last_committed
      /\ t.last_proposed = s.last_proposed /\ t.batches = s.batches
      /\ t.current_epoch = s.current_epoch
  BY DEF Same, Fields
<1>3. BlocksOK(t) /\ ParkedOK(t)
  BY <1>1 DEF ChainOK, BlocksOK, ParkedOK
<1>4. DStar(t) = DStar(s) /\ (SingleChain(t) <=> SingleChain(s))
  BY <1>1, <1>2, DStarSame
<1>5. CommitOK(t)
  BY <1>1, <1>2, <1>4 DEF ChainOK, CommitOK
<1>6. ProposerOK(t)
  BY <1>2 DEF ChainOK, ProposerOK
<1> QED BY <1>3, <1>5, <1>6 DEF ChainOK

\* Done: server i is in state t, and nothing is in an inbox but what was there or
\* was sent.
LEMMA DoneEffect ==
    ASSUME ZeusInv, NEW i \in Ids, NEW t, DOMAIN t = Fields, NEW ms, Done(i, t, ms)
    PROVE  /\ DOMAIN node' = Ids /\ DOMAIN inbox' = Ids
           /\ \A j \in Ids \ {i} : node'[j] = node[j]
           /\ Same(t, node'[i], {"out"}) /\ node'[i].out = {}
           /\ \A j \in Ids : inbox'[j] \subseteq inbox[j] \cup t.out
<1>1. DOMAIN node = Ids
  BY DEF ZeusInv
<1>2. node' = [node EXCEPT ![i] = [t EXCEPT !.out = {}]]
  BY DEF Done
<1>3. node'[i] = [t EXCEPT !.out = {}] /\ \A j \in Ids \ {i} : node'[j] = node[j]
  BY <1>1, <1>2
<1>4. DOMAIN node' = Ids
  BY <1>1, <1>2
<1>5. Same(t, node'[i], {"out"}) /\ node'[i].out = {}
  BY <1>3 DEF Same, Fields
<1>6. DOMAIN inbox' = Ids /\ \A j \in Ids : inbox'[j] \subseteq inbox[j] \cup t.out
  <2> DEFINE new(j) == {m \in t.out : j \in m.to}
             kept(j) == inbox[j] \ (IF j = i THEN ms ELSE {})
             box(j) == {m \in kept(j) \cup new(j) : ~Stale(node'[j], m)}
  <2>1. inbox' = [j \in Ids |-> box(j)]
    BY DEF Done
  <2>2. \A j \in Ids : new(j) \subseteq t.out /\ kept(j) \subseteq inbox[j]
    OBVIOUS
  <2>3. \A j \in Ids : box(j) \subseteq kept(j) \cup new(j)
    OBVIOUS
  <2> HIDE DEF new, kept, box
  <2> QED BY <2>1, <2>2, <2>3
<1> QED BY <1>3, <1>4, <1>5, <1>6

\* More blames and later epochs keep what was signed and earned.
LEMMA EarnedStays ==
    ASSUME NEW M, NEW N,
           \A j \in Ids : /\ \A b \in M[j].eleader_blames :
                                b.signer = j => b \in N[j].eleader_blames
                          /\ M[j].current_epoch \in Nat /\ N[j].current_epoch \in Nat
                          /\ M[j].current_epoch <= N[j].current_epoch
    PROVE  /\ \A b : Signed(M, b) => Signed(N, b)
           /\ \A e : Earned(M, e) => Earned(N, e)
           /\ \A m : MessageOK(M, m) => MessageOK(N, m)
<1>1. ASSUME NEW b, Signed(M, b) PROVE Signed(N, b)
  <2>1. b.epoch \in Nat /\ b.signer \in Ids /\ b \in M[b.signer].eleader_blames
        /\ b.epoch <= M[b.signer].current_epoch
    BY <1>1, Constants DEF Signed
  <2>2. b \in N[b.signer].eleader_blames /\ b.epoch <= N[b.signer].current_epoch
    BY <2>1
  <2> QED BY <1>1, <2>2 DEF Signed
<1>2. ASSUME NEW e, Earned(M, e) PROVE Earned(N, e)
  <2>1. Blamers(M, e) \subseteq Blamers(N, e) /\ Blamers(N, e) \subseteq Ids
    BY DEF Blamers
  <2>2. IsFiniteSet(Blamers(N, e)) /\ IsFiniteSet(Blamers(M, e))
    BY <2>1, Constants, FS_Subset
  <2>3. Cardinality(Blamers(M, e)) <= Cardinality(Blamers(N, e))
    BY <2>1, <2>2, FS_Subset
  <2>4. Cardinality(Blamers(M, e)) \in Nat /\ Cardinality(Blamers(N, e)) \in Nat
    BY <2>2, FS_CardinalityType
  <2> QED BY <1>2, <2>3, <2>4, Constants DEF Earned
<1>3. ASSUME NEW m, MessageOK(M, m) PROVE MessageOK(N, m)
  BY <1>1, <1>2, <1>3 DEF MessageOK
<1> QED BY <1>1, <1>2, <1>3

\* The signature chain after a good step.
LEMMA StepSig ==
    ASSUME ZeusInv, NEW i \in Ids, NEW t, DOMAIN t = Fields, GoodSig(i, t), ChainOK(t),
           NEW ms, Done(i, t, ms)
    PROVE  SigAgree'
<1>1. /\ \A j \in Ids \ {i} : node'[j] = node[j]
      /\ Same(t, node'[i], {"out"})
      /\ \A j \in Ids : inbox'[j] \subseteq inbox[j] \cup t.out
  BY DoneEffect
<1>2. /\ node'[i].sig_chain = t.sig_chain
      /\ node'[i].pending_attestations = t.pending_attestations
      /\ node'[i].rleader_waiting_fresh = t.rleader_waiting_fresh
      /\ node'[i].head = t.head
  BY <1>1 DEF Same, Fields
<1>3. ASSUME NEW r, NEW b, Pinned(r, b)' PROVE Pinned(r, b) \/ Fresh(i, t, r, b)
  <2>1. PICK j \in Ids : \/ Carries(inbox'[j], r, b)
                         \/ Carries(node'[j].pending_attestations, r, b)
                         \/ Adopts(node'[j], r, b)
    BY <1>3 DEF Pinned, Carries, Adopts
  <2>2. CASE Carries(inbox'[j], r, b)
    <3>1. Carries(inbox[j], r, b) \/ Carries(t.out, r, b)
      BY <1>1, <2>2 DEF Carries
    <3> QED BY <3>1 DEF GoodSig, Pinned
  <2>3. CASE Carries(node'[j].pending_attestations, r, b)
    BY <1>1, <1>2, <2>3 DEF GoodSig, Pinned
  <2>4. CASE Adopts(node'[j], r, b)
    <3>1. CASE j = i
      <4>1. Adopts(t, r, b)
        BY <1>2, <2>4, <3>1 DEF Adopts
      <4> QED BY <4>1 DEF GoodSig
    <3>2. CASE j # i
      <4>1. Adopts(node[j], r, b)
        BY <1>1, <2>4, <3>2
      <4> QED BY <4>1 DEF Pinned
    <3> QED BY <3>1, <3>2
  <2> QED BY <2>1, <2>2, <2>3, <2>4
<1>4. /\ \A j \in Ids : SigRound(node[j]) \in Nat /\ SigRound(node'[j]) \in Nat
                        /\ SigRound(node[j]) <= SigRound(node'[j])
      /\ SigRound(node'[i]) = SigRound(t)
      /\ \A j \in Ids : node'[j].rleader_waiting_fresh => node[j].rleader_waiting_fresh
  <2>1. Len(t.sig_chain) \in Nat /\ \A j \in Ids : Len(node[j].sig_chain) \in Nat
    BY OneServer DEF ChainOK, CommitOK
  <2>2. SigRound(node'[i]) = SigRound(t) /\ SigRound(t) \in Nat
        /\ SigRound(node[i]) <= SigRound(t)
    BY <1>2, <2>1 DEF GoodSig, SigRound
  <2>3. \A j \in Ids : SigRound(node[j]) \in Nat
    BY <2>1 DEF SigRound
  <2>4. ASSUME NEW j \in Ids
        PROVE  /\ SigRound(node'[j]) \in Nat /\ SigRound(node[j]) <= SigRound(node'[j])
               /\ node'[j].rleader_waiting_fresh => node[j].rleader_waiting_fresh
    <3>1. CASE j = i
      BY <1>2, <2>2, <3>1 DEF GoodSig
    <3>2. CASE j # i
      BY <1>1, <2>3, <3>2
    <3> QED BY <3>1, <3>2
  <2> QED BY <2>2, <2>3, <2>4
<1>5. LeaderOf[1] \in Ids
  BY Constants
<1>6. ASSUME NEW r, NEW b, Fresh(i, t, r, b)
      PROVE  /\ r \in 1 .. MaxRound /\ r <= SigRound(node'[LeaderOf[r]])
             /\ ~node'[LeaderOf[1]].rleader_waiting_fresh
             /\ \A c : ~Pinned(r, c)
  <2>1. /\ r = SigRound(t) /\ r \in 1 .. MaxRound /\ LeaderOf[r] = i
        /\ ~t.rleader_waiting_fresh
        /\ SigRound(node[i]) < r \/ node[i].rleader_waiting_fresh
    BY <1>6 DEF Fresh
  <2>2. r <= SigRound(node'[LeaderOf[r]])
    BY <1>4, <2>1
  <2>3. CASE node[i].rleader_waiting_fresh
    <3>1. LeaderOf[1] = i
      BY <2>3 DEF ZeusInv, SigAgree
    <3>2. \A c : ~Pinned(r, c)
      BY <2>3, <3>1 DEF ZeusInv, SigAgree
    <3> QED BY <1>2, <2>1, <2>2, <3>1, <3>2
  <2>4. CASE SigRound(node[i]) < r
    <3>1. \A c : ~Pinned(r, c)
      <4> SUFFICES ASSUME NEW c, Pinned(r, c) PROVE FALSE
        OBVIOUS
      <4>1. r <= SigRound(node[i])
        BY <2>1 DEF ZeusInv, SigAgree
      <4> QED BY <1>4, <2>1, <2>4, <4>1, Constants
    <3>2. Len(t.sig_chain) \in Nat /\ Len(node[i].sig_chain) \in Nat
      BY OneServer DEF ChainOK, CommitOK
    <3>3. 1 \in 1 .. Len(t.sig_chain)
      BY <2>1, <2>4, <3>2 DEF SigRound
    <3>4. Adopts(t, 1, t.sig_chain[1])
      BY <3>3 DEF Adopts
    <3>5. Pinned(1, t.sig_chain[1])
      BY <3>4 DEF GoodSig
    <3>6. ~node[LeaderOf[1]].rleader_waiting_fresh
      BY <3>5 DEF ZeusInv, SigAgree
    <3> QED BY <1>4, <1>5, <2>1, <2>2, <3>1, <3>6
  <2> QED BY <2>1, <2>3, <2>4
<1>7. ASSUME NEW r, NEW b, Pinned(r, b)
      PROVE  /\ r \in 1 .. MaxRound /\ r <= SigRound(node'[LeaderOf[r]])
             /\ ~node'[LeaderOf[1]].rleader_waiting_fresh
  <2>1. /\ r \in 1 .. MaxRound /\ r <= SigRound(node[LeaderOf[r]])
        /\ ~node[LeaderOf[1]].rleader_waiting_fresh
    BY <1>7 DEF ZeusInv, SigAgree
  <2>2. PICK l \in Ids : l = LeaderOf[r]
    BY <2>1, Constants
  <2>3. r \in Nat /\ r <= SigRound(node'[l])
    BY <1>4, <2>1, <2>2, Constants
  <2> QED BY <1>4, <1>5, <2>1, <2>2, <2>3
<1>8. ASSUME NEW r, NEW b, NEW c, Pinned(r, b)', Pinned(r, c)'
      PROVE  b = c
  <2>1. /\ Pinned(r, b) \/ Fresh(i, t, r, b)
        /\ Pinned(r, c) \/ Fresh(i, t, r, c)
    BY <1>3, <1>8
  <2>2. CASE Pinned(r, b) /\ Pinned(r, c)
    BY <2>2 DEF ZeusInv, SigAgree
  <2>3. CASE Fresh(i, t, r, b) \/ Fresh(i, t, r, c)
    <3>1. ~Pinned(r, b) /\ ~Pinned(r, c)
      BY <1>6, <2>3
    <3> QED BY <2>1, <3>1 DEF Fresh
  <2> QED BY <2>1, <2>2, <2>3
<1>9. \A j \in Ids : node'[j].rleader_waiting_fresh => LeaderOf[1] = j
  BY <1>4 DEF ZeusInv, SigAgree
<1>10. \A r, b : Pinned(r, b)' => /\ r \in 1 .. MaxRound
                                  /\ r <= SigRound(node'[LeaderOf[r]])
                                  /\ ~node'[LeaderOf[1]].rleader_waiting_fresh
  BY <1>3, <1>6, <1>7
<1>11. \A r, b, c : Pinned(r, b)' /\ Pinned(r, c)' => b = c
  BY <1>8
<1> QED BY <1>9, <1>10, <1>11 DEF SigAgree, SigRound

\* The states of the others stay.
LEMMA WithIs ==
    ASSUME ZeusInv, NEW i \in Ids, NEW t
    PROVE  With(i, t)[i] = t /\ \A j \in Ids \ {i} : With(i, t)[j] = node[j]
BY OneServer DEF With

\* What was signed and earned before is so if server i ends in state t.
LEMMA StaysWith ==
    ASSUME ZeusInv, NEW i \in Ids, NEW t, EpochOK(t), KeepsBlames(i, t)
    PROVE  /\ \A b : Signed(node, b) => Signed(With(i, t), b)
           /\ \A e : Earned(node, e) => Earned(With(i, t), e)
           /\ \A m : MessageOK(node, m) => MessageOK(With(i, t), m)
<1>1. PICK N : N = With(i, t)
  OBVIOUS
<1>2. N[i] = t /\ \A j \in Ids \ {i} : N[j] = node[j]
  BY <1>1, WithIs
<1>3. \A j \in Ids : node[j].current_epoch \in Nat
  BY OneServer, Constants DEF EpochOK
<1>4. t.current_epoch \in Nat
  BY Constants DEF EpochOK
<1>5. ASSUME NEW j \in Ids
      PROVE  /\ \A b \in node[j].eleader_blames : b.signer = j => b \in N[j].eleader_blames
             /\ node[j].current_epoch \in Nat /\ N[j].current_epoch \in Nat
             /\ node[j].current_epoch <= N[j].current_epoch
  <2>1. CASE j = i
    BY <1>2, <1>3, <1>4, <2>1 DEF KeepsBlames
  <2>2. CASE j # i
    BY <1>2, <1>3, <2>2
  <2> QED BY <2>1, <2>2
<1> HIDE DEF ZeusInv
<1> QED BY <1>1, <1>5, EarnedStays

\* A good step keeps the invariant and moves the heads as it should.
LEMMA StepOK ==
    ASSUME ZeusInv, NEW i \in Ids, NEW t, GoodStep(i, t), NEW ms, Done(i, t, ms)
    PROVE  ZeusInv' /\ \A j \in Ids : Moves(node[j], node'[j])
<1>1. /\ DOMAIN t = Fields /\ ChainOK(t) /\ GoodEpoch(i, t) /\ GoodSig(i, t)
      /\ Moves(node[i], t)
  BY DEF GoodStep
<1>2. /\ DOMAIN node' = Ids /\ DOMAIN inbox' = Ids
      /\ \A j \in Ids \ {i} : node'[j] = node[j]
      /\ Same(t, node'[i], {"out"}) /\ node'[i].out = {}
      /\ \A j \in Ids : inbox'[j] \subseteq inbox[j] \cup t.out
  BY <1>1, DoneEffect
<1>3. /\ node'[i].current_epoch = t.current_epoch
      /\ node'[i].admitted_change_qcs = t.admitted_change_qcs
      /\ node'[i].eleader_blames = t.eleader_blames
      /\ node'[i].head = t.head
  BY <1>2 DEF Same, Fields
<1>4. SigAgree'
  BY <1>1, StepSig
<1>5. \A j \in Ids : ChainOK(node'[j]) /\ EpochOK(node'[j])
  <2>1. ChainOK(node'[i])
    <3>1. Same(t, node'[i], {"data_timer", "rleader_waiting_fresh", "eleader_blames",
                             "admitted_change_qcs", "out"})
      BY <1>2 DEF Same, Fields
    <3> QED BY <1>1, <3>1, ChainSame
  <2>2. EpochOK(node'[i])
    BY <1>1, <1>3 DEF GoodEpoch, EpochOK
  <2> QED BY <1>2, <2>1, <2>2, OneServer
<1>6. \A j \in Ids : DOMAIN node'[j] = Fields /\ node'[j].out = {}
  BY <1>2, OneServer DEF Same
<1>7. PICK N : /\ N = With(i, t)
               /\ N[i] = t /\ \A j \in Ids \ {i} : N[j] = node[j]
  BY WithIs
<1>8. /\ \A b : Signed(node, b) => Signed(N, b)
      /\ \A e : Earned(node, e) => Earned(N, e)
      /\ \A m : MessageOK(node, m) => MessageOK(N, m)
  BY <1>1, <1>7, StaysWith DEF GoodEpoch
<1>9. /\ \A b : Signed(N, b) => Signed(node', b)
      /\ \A e : Earned(N, e) => Earned(node', e)
      /\ \A m : MessageOK(N, m) => MessageOK(node', m)
  <2>1. \A j \in Ids : /\ N[j].eleader_blames = node'[j].eleader_blames
                       /\ N[j].current_epoch = node'[j].current_epoch
                       /\ node'[j].current_epoch \in Nat
    BY <1>2, <1>3, <1>5, <1>7, Constants DEF EpochOK
  <2>2. PICK M : M = node'
    OBVIOUS
  <2>3. \A j \in Ids : /\ \A b \in N[j].eleader_blames : b.signer = j => b \in M[j].eleader_blames
                       /\ N[j].current_epoch \in Nat /\ M[j].current_epoch \in Nat
                       /\ N[j].current_epoch <= M[j].current_epoch
    BY <2>1, <2>2
  <2>4. /\ \A b : Signed(N, b) => Signed(M, b)
        /\ \A e : Earned(N, e) => Earned(M, e)
        /\ \A m : MessageOK(N, m) => MessageOK(M, m)
    BY <2>3, EarnedStays
  <2> QED BY <2>2, <2>4
<1>10. ASSUME NEW j \in Ids, NEW b \in node'[j].eleader_blames
       PROVE  Signed(node', b)
  <2>1. CASE j = i
    BY <1>1, <1>3, <1>7, <1>9, <2>1 DEF GoodEpoch
  <2>2. CASE j # i
    BY <1>2, <1>8, <1>9, <2>2, OneServer
  <2> QED BY <2>1, <2>2
<1>11. ASSUME NEW j \in Ids, NEW e \in 1 .. (node'[j].current_epoch - 1)
       PROVE  Earned(node', e)
  <2>1. CASE j = i
    BY <1>1, <1>3, <1>7, <1>9, <2>1 DEF GoodEpoch
  <2>2. CASE j # i
    BY <1>2, <1>8, <1>9, <2>2, OneServer
  <2> QED BY <2>1, <2>2
<1>12. ASSUME NEW j \in Ids, NEW m \in inbox'[j]
       PROVE  MessageOK(node', m)
  <2>1. m \in inbox[j] \/ m \in t.out
    BY <1>2
  <2>2. CASE m \in inbox[j]
    BY <1>8, <1>9, <2>2, OneServer
  <2>3. CASE m \in t.out
    BY <1>1, <1>7, <1>9, <2>3 DEF GoodEpoch
  <2> QED BY <2>1, <2>2, <2>3
<1>13. ZeusInv'
  <2>1. BlamesSigned(node')
    BY <1>10 DEF BlamesSigned
  <2>2. PassedEarned(node')
    BY <1>11 DEF PassedEarned
  <2> QED BY <1>2, <1>4, <1>5, <1>6, <1>12, <2>1, <2>2 DEF ZeusInv
<1>14. ASSUME NEW j \in Ids PROVE Moves(node[j], node'[j])
  <2>1. CASE j = i
    BY <1>1, <1>3, <2>1 DEF Moves
  <2>2. CASE j # i
    <3>1. node[j].head \in Blocks
      BY OneServer DEF ChainOK, BlocksOK
    <3>2. IsPrefix(node[j].head, node[j].head)
      BY <3>1, PrefixOrder
    <3> QED BY <1>2, <2>2, <3>2 DEF Moves
  <2> QED BY <2>1, <2>2
<1> QED BY <1>13, <1>14

----------------------------------------------------------------------------
\* D* is a block of the store: genesis or the pin of the commit lock.
LEMMA DStarIs ==
    ASSUME NEW s, CommitOK(s), BlocksOK(s)
    PROVE  /\ DStar(s) \in s.store
           /\ \A p \in s.commit_lock : DStar(s) = p
           /\ s.commit_lock = {} => DStar(s) = Genesis
<1>1. CASE s.commit_lock = {}
  BY <1>1 DEF DStar, BlocksOK
<1>2. CASE s.commit_lock # {}
  <2>1. PICK p \in s.commit_lock : s.commit_lock = {p}
    BY <1>2 DEF CommitOK
  <2>2. p \in s.store /\ p \in Blocks /\ Height(p) <= Height(p)
    BY <2>1, ParentOf DEF CommitOK, BlocksOK, Height
  <2>3. DStar(s) = CHOOSE x \in {p} : \A q \in {p} : Height(q) <= Height(x)
    BY <1>2, <2>1 DEF DStar
  <2>4. DStar(s) = p
    BY <2>2, <2>3
  <2> QED BY <2>1, <2>2, <2>4
<1> QED BY <1>1, <1>2

\* The state of a handler of server i that has looked at blames: it has signed or
\* got some, and sent no signature proposal.
Blaming(i, u) ==
    /\ Same(node[i], u, {"data_timer", "eleader_blames", "out"})
    /\ KeepsBlames(i, u)
    /\ \A b \in u.eleader_blames : Signed(With(i, u), b)
    /\ \A m \in u.out : MessageOK(With(i, u), m) /\ m.type # "SigPropose"

\* What such a handler leaves alone.
LEMMA BlamingSame ==
    ASSUME ZeusInv, NEW i \in Ids, NEW u, Blaming(i, u)
    PROVE  /\ DOMAIN u = Fields
           /\ u.current_epoch = node[i].current_epoch
           /\ u.admitted_change_qcs = node[i].admitted_change_qcs
           /\ u.head = node[i].head /\ u.last_committed = node[i].last_committed
           /\ u.sig_chain = node[i].sig_chain
           /\ u.pending_attestations = node[i].pending_attestations
           /\ u.rleader_waiting_fresh = node[i].rleader_waiting_fresh
           /\ ChainOK(u) /\ EpochOK(u)
<1>1. /\ DOMAIN u = Fields
      /\ u.current_epoch = node[i].current_epoch
      /\ u.admitted_change_qcs = node[i].admitted_change_qcs
      /\ u.head = node[i].head /\ u.last_committed = node[i].last_committed
      /\ u.sig_chain = node[i].sig_chain
      /\ u.pending_attestations = node[i].pending_attestations
      /\ u.rleader_waiting_fresh = node[i].rleader_waiting_fresh
  BY DEF Blaming, Same, Fields
<1>2. Same(node[i], u, {"data_timer", "rleader_waiting_fresh", "eleader_blames",
                        "admitted_change_qcs", "out"})
  BY DEF Blaming, Same, Fields
<1>3. ChainOK(u)
  BY <1>2, OneServer, ChainSame
<1>4. EpochOK(u)
  BY <1>1, OneServer DEF EpochOK
<1> QED BY <1>1, <1>3, <1>4

\* No signature proposal is sent, and nothing is adopted or parked.
LEMMA NoNewSig ==
    ASSUME ZeusInv, NEW i \in Ids, NEW t,
           t.sig_chain = node[i].sig_chain,
           t.pending_attestations \subseteq node[i].pending_attestations,
           t.rleader_waiting_fresh => node[i].rleader_waiting_fresh,
           \A m \in t.out : m.type # "SigPropose"
    PROVE  GoodSig(i, t)
<1>1. Len(t.sig_chain) >= Len(node[i].sig_chain)
  BY OneServer DEF ChainOK, CommitOK
<1>2. ASSUME NEW r, NEW b, Adopts(t, r, b) \/ Carries(t.pending_attestations, r, b)
      PROVE  Pinned(r, b)
  <2>1. Adopts(node[i], r, b) \/ Carries(node[i].pending_attestations, r, b)
    BY <1>2 DEF Adopts, Carries
  <2> QED BY <2>1 DEF Pinned
<1>3. \A r, b : ~Carries(t.out, r, b)
  BY DEF Carries
<1> QED BY <1>1, <1>2, <1>3 DEF GoodSig

\* A handler that stops there has done a good step.
LEMMA BlamingGood ==
    ASSUME ZeusInv, NEW i \in Ids, NEW u, Blaming(i, u)
    PROVE  GoodStep(i, u)
<1>1. GoodSig(i, u)
  BY BlamingSame, NoNewSig DEF Blaming
<1>2. EpochOK(u) /\ KeepsBlames(i, u) /\ u.current_epoch = node[i].current_epoch
  BY BlamingSame DEF Blaming
<1>3. \A e \in 1 .. (u.current_epoch - 1) : Earned(With(i, u), e)
  BY <1>2, StaysWith, OneServer
<1>4. GoodEpoch(i, u)
  BY <1>2, <1>3 DEF GoodEpoch, Blaming
<1>5. Moves(node[i], u)
  <2>1. node[i].head \in Blocks
    BY OneServer DEF ChainOK, BlocksOK
  <2> QED BY <2>1, PrefixOrder, BlamingSame DEF Moves
<1> QED BY <1>1, <1>4, <1>5, BlamingSame DEF GoodStep

\* advance_to_epoch.
LEMMA AdvanceToEpochOK ==
    ASSUME NEW s, DOMAIN s = Fields, ChainOK(s), NEW e, NEW t, t = AdvanceToEpoch(s, e)
    PROVE  /\ Same(s, t, {"current_epoch", "head", "last_proposed", "rleader_waiting_fresh",
                          "pending_data_blocks", "pending_attestations", "data_timer"})
           /\ t.current_epoch = e /\ t.head = DStar(s)
           /\ t.rleader_waiting_fresh = FALSE
           /\ t.pending_attestations \subseteq s.pending_attestations
           /\ ChainOK(t)
<1> DEFINE d == DStar(s)
           D == {p \in DOMAIN s.pending_data_blocks : p \in s.store /\ Height(p) < Height(d)}
           A == {m \in s.pending_attestations : m.pin \in s.store /\ Height(m.pin) <= Height(d)}
<1>1. t = [s EXCEPT !.current_epoch = e, !.head = d, !.last_proposed = NoBlock,
                    !.rleader_waiting_fresh = FALSE,
                    !.pending_data_blocks = Restrict(s.pending_data_blocks, D),
                    !.pending_attestations = A, !.data_timer = e < MaxEpoch]
  BY DEF AdvanceToEpoch
<1>2. D \subseteq DOMAIN s.pending_data_blocks /\ A \subseteq s.pending_attestations
  OBVIOUS
<1>3. d \in s.store
  BY DStarIs DEF ChainOK
<1> HIDE DEF d, D, A
<1>4. /\ t.current_epoch = e /\ t.head = d /\ t.last_proposed = NoBlock
      /\ t.rleader_waiting_fresh = FALSE
      /\ t.pending_data_blocks = Restrict(s.pending_data_blocks, D)
      /\ t.pending_attestations = A
      /\ Same(s, t, {"current_epoch", "head", "last_proposed", "rleader_waiting_fresh",
                     "pending_data_blocks", "pending_attestations", "data_timer"})
  BY <1>1 DEF Same, Fields
<1>5. /\ t.store = s.store /\ t.child_of = s.child_of /\ t.requested = s.requested
      /\ t.sig_chain = s.sig_chain /\ t.commits = s.commits
      /\ t.commit_lock = s.commit_lock /\ t.last_committed = s.last_committed
      /\ t.batches = s.batches
  BY <1>4 DEF Same, Fields
<1>6. BlocksOK(t)
  BY <1>3, <1>4, <1>5 DEF ChainOK, BlocksOK
<1>7. ParkedOK(t)
  <2>1. DOMAIN t.pending_data_blocks = D
    BY <1>4 DEF Restrict
  <2>2. IsFiniteSet(D)
    BY <1>2, FS_Subset DEF ChainOK, ParkedOK
  <2>3. \A p \in D : t.pending_data_blocks[p] \in Seq(Blocks)
    BY <1>2, <1>4 DEF Restrict, ChainOK, ParkedOK
  <2> QED BY <1>2, <1>4, <2>1, <2>2, <2>3 DEF ChainOK, ParkedOK
<1>8. CommitOK(t)
  <2>1. DStar(t) = DStar(s) /\ (SingleChain(t) <=> SingleChain(s))
    BY <1>5, DStarSame
  <2> QED BY <1>5, <2>1 DEF ChainOK, CommitOK
<1>9. ProposerOK(t)
  BY <1>4, <1>5 DEF ChainOK, ProposerOK
<1> QED BY <1>2, <1>4, <1>6, <1>7, <1>8, <1>9 DEF ChainOK, d

\* What admitting a QC makes of the state.
Admits(u, t, i, e) ==
    /\ DOMAIN t = Fields /\ ChainOK(t)
    /\ t.out = u.out /\ t.sig_chain = u.sig_chain
    /\ t.pending_attestations \subseteq u.pending_attestations
    /\ t.rleader_waiting_fresh => u.rleader_waiting_fresh
    /\ t.admitted_change_qcs = u.admitted_change_qcs \cup {e}
    /\ t.eleader_blames \subseteq u.eleader_blames
    /\ \A b \in u.eleader_blames : b.signer = i => b \in t.eleader_blames
    /\ u.current_epoch <= e => t.current_epoch = e + 1 /\ t.head = DStar(u)
    /\ ~(u.current_epoch <= e) => t.current_epoch = u.current_epoch /\ t.head = u.head

\* The server keeps its own blames, and leaves the epoch if it is there.
LEMMA AdmitEffect ==
    ASSUME NEW i, NEW u, DOMAIN u = Fields, ChainOK(u), NEW e, NEW t,
           t = AdmitChangeQC(u, i, e)
    PROVE  Admits(u, t, i, e)
<1> DEFINE own == {b \in u.eleader_blames : b.epoch = e => b.signer = i}
           v == [u EXCEPT !.admitted_change_qcs = @ \cup {e}, !.eleader_blames = own]
<1>1. t = IF u.current_epoch <= e THEN AdvanceToEpoch(v, e + 1) ELSE v
  BY DEF AdmitChangeQC
<1> HIDE DEF own
<1>2. /\ Same(u, v, {"admitted_change_qcs", "eleader_blames"})
      /\ v.admitted_change_qcs = u.admitted_change_qcs \cup {e}
      /\ v.eleader_blames = own
  BY DEF Same, Fields
<1> HIDE DEF v
<1>3. /\ DOMAIN v = Fields
      /\ Same(u, v, {"data_timer", "rleader_waiting_fresh", "eleader_blames",
                     "admitted_change_qcs", "out"})
      /\ v.out = u.out /\ v.sig_chain = u.sig_chain
      /\ v.pending_attestations = u.pending_attestations
      /\ v.rleader_waiting_fresh = u.rleader_waiting_fresh
      /\ v.current_epoch = u.current_epoch /\ v.head = u.head
      /\ v.commit_lock = u.commit_lock
  BY <1>2 DEF Same, Fields
<1>4. ChainOK(v) /\ DStar(v) = DStar(u)
  BY <1>3, ChainSame DEF DStar
<1>5. CASE u.current_epoch <= e
  <2>1. t = AdvanceToEpoch(v, e + 1)
    BY <1>1, <1>5
  <2>2. /\ Same(v, t, {"current_epoch", "head", "last_proposed", "rleader_waiting_fresh",
                       "pending_data_blocks", "pending_attestations", "data_timer"})
        /\ t.current_epoch = e + 1 /\ t.head = DStar(v)
        /\ t.rleader_waiting_fresh = FALSE
        /\ t.pending_attestations \subseteq v.pending_attestations
        /\ ChainOK(t)
    BY <1>3, <1>4, <2>1, AdvanceToEpochOK
  <2>3. /\ DOMAIN t = Fields /\ t.out = v.out /\ t.sig_chain = v.sig_chain
        /\ t.admitted_change_qcs = v.admitted_change_qcs
        /\ t.eleader_blames = v.eleader_blames
    BY <2>2 DEF Same, Fields
  <2> QED BY <1>2, <1>3, <1>4, <1>5, <2>2, <2>3 DEF own, Admits
<1>6. CASE ~(u.current_epoch <= e)
  BY <1>1, <1>2, <1>3, <1>4, <1>6 DEF own, Admits
<1> QED BY <1>5, <1>6

\* A QC for an epoch that was earned is admitted: the epochs the server skips
\* with it were earned too, for the blamers had reached the epoch it ends.
LEMMA QCGood ==
    ASSUME ZeusInv, NEW i \in Ids, NEW u, Blaming(i, u), NEW e \in 1 .. (MaxEpoch - 1),
           Earned(With(i, u), e), NEW t, t = AdmitChangeQC(u, i, e)
    PROVE  GoodStep(i, t) /\ t.out = u.out /\ Earned(With(i, t), e)
<1>1. /\ u.current_epoch = node[i].current_epoch
      /\ u.admitted_change_qcs = node[i].admitted_change_qcs
      /\ u.head = node[i].head /\ u.last_committed = node[i].last_committed
      /\ u.sig_chain = node[i].sig_chain
      /\ u.pending_attestations = node[i].pending_attestations
      /\ u.rleader_waiting_fresh = node[i].rleader_waiting_fresh
      /\ ChainOK(u) /\ EpochOK(u) /\ DOMAIN u = Fields
  BY BlamingSame
<1>2. /\ DOMAIN t = Fields /\ ChainOK(t)
      /\ t.out = u.out /\ t.sig_chain = u.sig_chain
      /\ t.pending_attestations \subseteq u.pending_attestations
      /\ t.rleader_waiting_fresh => u.rleader_waiting_fresh
      /\ t.admitted_change_qcs = u.admitted_change_qcs \cup {e}
      /\ t.eleader_blames \subseteq u.eleader_blames
      /\ \A b \in u.eleader_blames : b.signer = i => b \in t.eleader_blames
      /\ u.current_epoch <= e => t.current_epoch = e + 1 /\ t.head = DStar(u)
      /\ ~(u.current_epoch <= e) => t.current_epoch = u.current_epoch /\ t.head = u.head
  <2>1. Admits(u, t, i, e)
    BY <1>1, AdmitEffect
  <2> QED BY <2>1 DEF Admits
<1>3. /\ e \in Nat /\ u.current_epoch \in Nat /\ t.current_epoch \in Nat
      /\ u.current_epoch <= t.current_epoch
  BY <1>1, <1>2, Constants DEF EpochOK
<1>4. EpochOK(t)
  <2>1. CASE u.current_epoch <= e
    BY <1>1, <1>2, <1>3, <2>1, Constants DEF EpochOK
  <2>2. CASE ~(u.current_epoch <= e)
    BY <1>1, <1>2, <1>3, <2>2, Constants DEF EpochOK
  <2> QED BY <2>1, <2>2
<1>5. \A b \in u.eleader_blames : b.signer = i => b \in t.eleader_blames
  BY <1>2
<1>6. KeepsBlames(i, t)
  BY <1>1, <1>3, <1>5 DEF KeepsBlames, Blaming
<1>7. PICK N : N = With(i, u) /\ N[i] = u /\ \A j \in Ids \ {i} : N[j] = node[j]
  BY WithIs
<1>8. PICK P : P = With(i, t) /\ P[i] = t /\ \A j \in Ids \ {i} : P[j] = node[j]
  BY WithIs
<1>9. /\ \A b : Signed(N, b) => Signed(P, b)
      /\ \A x : Earned(N, x) => Earned(P, x)
      /\ \A m : MessageOK(N, m) => MessageOK(P, m)
  <2>1. ASSUME NEW j \in Ids
        PROVE  /\ \A b \in N[j].eleader_blames : b.signer = j => b \in P[j].eleader_blames
               /\ N[j].current_epoch \in Nat /\ P[j].current_epoch \in Nat
               /\ N[j].current_epoch <= P[j].current_epoch
    <3>1. CASE j = i
      BY <1>3, <1>5, <1>7, <1>8, <3>1
    <3>2. CASE j # i
      <4>1. node[j].current_epoch \in Nat
        BY OneServer, Constants DEF EpochOK
      <4> QED BY <1>7, <1>8, <3>2, <4>1
    <3> QED BY <3>1, <3>2
  <2> QED BY <2>1, EarnedStays
<1>10. \A b \in t.eleader_blames : Signed(P, b)
  BY <1>2, <1>7, <1>9 DEF Blaming
<1>11. ASSUME NEW x \in 1 .. (t.current_epoch - 1) PROVE Earned(P, x)
  <2>0. x \in Nat
    BY <1>3
  <2>1. CASE x <= node[i].current_epoch - 1
    <3>1. Earned(node, x)
      BY <1>1, <1>3, <2>0, <2>1, OneServer
    <3> QED BY <1>1, <1>7, <1>9, <3>1, StaysWith DEF Blaming
  <2>2. CASE x = e
    BY <1>7, <1>9, <2>2
  <2>3. CASE x # e /\ ~(x <= node[i].current_epoch - 1)
    <3>1. t.current_epoch = e + 1 /\ x < e /\ u.current_epoch <= x
      BY <1>1, <1>2, <1>3, <2>0, <2>3
    <3>2. PICK j \in Blamers(N, e) : TRUE
      <4>1. Blamers(N, e) # {}
        <5> SUFFICES ASSUME Blamers(N, e) = {} PROVE FALSE
          OBVIOUS
        <5>1. Cardinality(Blamers(N, e)) = 0
          BY FS_EmptySet
        <5> QED BY <1>7, <5>1, Constants DEF Earned
      <4> QED BY <4>1
    <3>3. PICK b \in N[j].eleader_blames : b.epoch = e /\ b.signer = j
      BY <3>2 DEF Blamers
    <3>4. j \in Ids
      BY <3>2 DEF Blamers
    <3>5. j # i
      <4> SUFFICES ASSUME j = i PROVE FALSE
        OBVIOUS
      <4>1. Signed(N, b) /\ N[j].current_epoch = u.current_epoch
        BY <1>7, <3>3 DEF Blaming
      <4>2. e <= u.current_epoch
        BY <3>3, <4>1 DEF Signed
      <4> QED BY <1>3, <2>0, <3>1, <4>2
    <3>6. Signed(node, b)
      BY <1>7, <3>3, <3>4, <3>5, OneServer
    <3>7. e <= node[j].current_epoch
      BY <3>3, <3>6 DEF Signed
    <3>8. node[j].current_epoch \in Nat
      BY <3>4, OneServer, Constants DEF EpochOK
    <3>9. x \in 1 .. (node[j].current_epoch - 1)
      BY <1>3, <2>0, <3>1, <3>7, <3>8
    <3>10. Earned(node, x)
      BY <3>4, <3>9, OneServer
    <3> QED BY <1>1, <1>7, <1>9, <3>10, StaysWith DEF Blaming
  <2> QED BY <2>1, <2>2, <2>3
<1>12. \A m \in t.out : MessageOK(P, m) /\ m.type # "SigPropose"
  BY <1>2, <1>7, <1>9 DEF Blaming
<1>13. GoodEpoch(i, t)
  BY <1>4, <1>6, <1>8, <1>10, <1>11, <1>12 DEF GoodEpoch
<1>14. GoodSig(i, t)
  BY <1>1, <1>2, <1>12, NoNewSig
<1>15. Moves(node[i], t)
  <2>1. CASE u.current_epoch <= e
    <3>1. t.current_epoch # node[i].current_epoch
      BY <1>1, <1>2, <1>3, <2>1
    <3>2. Len(u.last_committed) <= Len(DStar(u)) /\ DStar(u) \in Blocks
          /\ u.last_committed \in Blocks
      BY <1>1, DStarIs DEF ChainOK, CommitOK, BlocksOK
    <3>3. Len(DStar(u)) \in Nat /\ Len(u.last_committed) \in Nat
      BY <3>2, ParentOf
    <3> QED BY <1>1, <1>2, <2>1, <3>1, <3>2, <3>3 DEF Moves, Height
  <2>2. CASE ~(u.current_epoch <= e)
    <3>1. node[i].head \in Blocks
      BY OneServer DEF ChainOK, BlocksOK
    <3> QED BY <1>1, <1>2, <2>2, <3>1, PrefixOrder DEF Moves
  <2> QED BY <2>1, <2>2
<1>16. GoodStep(i, t)
  BY <1>2, <1>13, <1>14, <1>15 DEF GoodStep
<1>17. Earned(With(i, t), e)
  BY <1>7, <1>8, <1>9
<1> QED BY <1>2, <1>16, <1>17

\* Messages of the data plane that say what is so may be sent.
LEMMA SendsGood ==
    ASSUME ZeusInv, NEW i \in Ids, NEW v, GoodStep(i, v), NEW M,
           \A m \in M : MessageOK(With(i, v), m) /\ m.type # "SigPropose",
           NEW t, t = Sends(v, M)
    PROVE  GoodStep(i, t)
<1>1. Same(v, t, {"out"}) /\ t.out = v.out \cup M
  BY DEF Sends, GoodStep, Same, Fields
<1>2. /\ DOMAIN t = Fields
      /\ t.current_epoch = v.current_epoch /\ t.eleader_blames = v.eleader_blames
      /\ t.admitted_change_qcs = v.admitted_change_qcs
      /\ t.sig_chain = v.sig_chain /\ t.pending_attestations = v.pending_attestations
      /\ t.rleader_waiting_fresh = v.rleader_waiting_fresh /\ t.head = v.head
      /\ Same(v, t, {"data_timer", "rleader_waiting_fresh", "eleader_blames",
                     "admitted_change_qcs", "out"})
  BY <1>1 DEF Same, Fields
<1>3. ChainOK(t)
  BY <1>2, ChainSame DEF GoodStep
<1>4. EpochOK(t) /\ KeepsBlames(i, t) /\ EpochOK(v)
  BY <1>2 DEF GoodStep, GoodEpoch, EpochOK, KeepsBlames
<1>5. PICK N : N = With(i, v) /\ N[i] = v /\ \A j \in Ids \ {i} : N[j] = node[j]
  BY WithIs
<1>6. PICK P : P = With(i, t) /\ P[i] = t /\ \A j \in Ids \ {i} : P[j] = node[j]
  BY WithIs
<1>7. /\ \A b : Signed(N, b) => Signed(P, b)
      /\ \A x : Earned(N, x) => Earned(P, x)
      /\ \A m : MessageOK(N, m) => MessageOK(P, m)
  <2>1. ASSUME NEW j \in Ids
        PROVE  /\ \A b \in N[j].eleader_blames : b.signer = j => b \in P[j].eleader_blames
               /\ N[j].current_epoch \in Nat /\ P[j].current_epoch \in Nat
               /\ N[j].current_epoch <= P[j].current_epoch
    <3>1. CASE j = i
      BY <1>2, <1>4, <1>5, <1>6, <3>1, Constants DEF EpochOK
    <3>2. CASE j # i
      <4>1. node[j].current_epoch \in Nat
        BY OneServer, Constants DEF EpochOK
      <4> QED BY <1>5, <1>6, <3>2, <4>1
    <3> QED BY <3>1, <3>2
  <2> QED BY <2>1, EarnedStays
<1>8. GoodEpoch(i, t)
  <2>1. \A b \in t.eleader_blames : Signed(P, b)
    BY <1>2, <1>5, <1>7 DEF GoodStep, GoodEpoch
  <2>2. \A e \in 1 .. (t.current_epoch - 1) : Earned(P, e)
    BY <1>2, <1>5, <1>7 DEF GoodStep, GoodEpoch
  <2>3. \A m \in t.out : MessageOK(P, m)
    BY <1>1, <1>5, <1>7 DEF GoodStep, GoodEpoch
  <2> QED BY <1>4, <1>6, <2>1, <2>2, <2>3 DEF GoodEpoch
<1>9. GoodSig(i, t)
  <2>1. \A r, b : Carries(t.out, r, b) => Carries(v.out, r, b)
    BY <1>1 DEF Carries
  <2>2. \A r, b : Fresh(i, v, r, b) => Fresh(i, t, r, b)
    BY <1>2 DEF Fresh, SigRound
  <2>3. \A r, b : Adopts(t, r, b) => Adopts(v, r, b)
    BY <1>2 DEF Adopts
  <2> QED BY <1>2, <2>1, <2>2, <2>3 DEF GoodStep, GoodSig
<1>10. Moves(node[i], t)
  BY <1>2 DEF GoodStep, Moves
<1> QED BY <1>2, <1>3, <1>8, <1>9, <1>10 DEF GoodStep

\* try_form_change_qc: the signers of the blames it counts all blamed the epoch.
LEMMA TryForm ==
    ASSUME ZeusInv, NEW i \in Ids, NEW u, Blaming(i, u), NEW e \in 1 .. (MaxEpoch - 1),
           NEW t, t = TryFormChangeQC(u, i, e)
    PROVE  GoodStep(i, t)
<1> DEFINE B == BlamesOf(u, e)
           signers == {b.signer : b \in B}
<1>1. CASE ~(e \notin u.admitted_change_qcs /\ ChangeQCValid(B))
  BY <1>1, BlamingGood DEF TryFormChangeQC
<1>2. CASE e \notin u.admitted_change_qcs /\ ChangeQCValid(B)
  <2>1. PICK N : N = With(i, u)
    OBVIOUS
  <2>2. \A b \in B : b.epoch = e /\ Signed(N, b)
    BY <2>1 DEF BlamesOf, Blaming
  <2>3. Cardinality(signers) > NumFaults /\ \A b \in B : b.valid
    BY <1>2 DEF ChangeQCValid
  <2>4. signers \subseteq Blamers(N, e)
    BY <2>2, <2>3 DEF Signed, Blamers
  <2> HIDE DEF B, signers
  <2>5. IsFiniteSet(Blamers(N, e))
    <3>1. Blamers(N, e) \subseteq Ids
      BY DEF Blamers
    <3> QED BY <3>1, Constants, FS_Subset
  <2>6. IsFiniteSet(signers) /\ Cardinality(signers) <= Cardinality(Blamers(N, e))
    BY <2>4, <2>5, FS_Subset
  <2>7. Cardinality(signers) \in Nat /\ Cardinality(Blamers(N, e)) \in Nat
    BY <2>5, <2>6, FS_CardinalityType
  <2>8. Earned(N, e)
    BY <2>3, <2>6, <2>7, Constants DEF Earned
  <2>9. PICK v : v = AdmitChangeQC(u, i, e)
    OBVIOUS
  <2>10. GoodStep(i, v) /\ Earned(With(i, v), e)
    BY <2>1, <2>8, <2>9, QCGood
  <2>11. t = Sends(v, {EleaderChangeQC(i, e)})
    BY <1>2, <2>9 DEF TryFormChangeQC, B
  <2>12. \A m \in {EleaderChangeQC(i, e)} : MessageOK(With(i, v), m) /\ m.type # "SigPropose"
    BY <2>10 DEF EleaderChangeQC, MessageOK
  <2> QED BY <2>10, <2>11, <2>12, SendsGood
<1> QED BY <1>1, <1>2

\* A handler that adds signed blames, and sends such ones.
LEMMA BlamingMore ==
    ASSUME ZeusInv, NEW i \in Ids, NEW u,
           Same(node[i], u, {"data_timer", "eleader_blames", "out"}),
           node[i].eleader_blames \subseteq u.eleader_blames,
           \A b \in u.eleader_blames \ node[i].eleader_blames : Signed(With(i, u), b),
           \A m \in u.out : m.type = "EleaderBlame" /\ Signed(With(i, u), m.blame)
    PROVE  Blaming(i, u)
<1>1. /\ u.current_epoch = node[i].current_epoch
      /\ u.admitted_change_qcs = node[i].admitted_change_qcs
  BY DEF Same, Fields
<1>2. EpochOK(node[i])
  BY OneServer
<1>3. EpochOK(u) /\ KeepsBlames(i, u)
  <2>1. u.current_epoch >= node[i].current_epoch
    BY <1>1, <1>2, Constants DEF EpochOK
  <2> QED BY <1>1, <1>2, <2>1 DEF EpochOK, KeepsBlames
<1>4. \A b \in u.eleader_blames : Signed(With(i, u), b)
  BY <1>3, OneServer, StaysWith
<1>5. \A m \in u.out : MessageOK(With(i, u), m) /\ m.type # "SigPropose"
  BY DEF MessageOK
<1> QED BY <1>3, <1>4, <1>5 DEF Blaming

\* The server blames the eleader of an epoch it has reached.
LEMMA BlameGood ==
    ASSUME ZeusInv, NEW i \in Ids, NEW s, Same(node[i], s, {"data_timer"}),
           NEW blame, blame.signer = i, blame.epoch \in 1 .. node[i].current_epoch,
           NEW t, t = Blame(s, i, blame)
    PROVE  GoodStep(i, t)
<1>1. /\ DOMAIN s = Fields /\ s.eleader_blames = node[i].eleader_blames /\ s.out = {}
  BY OneServer DEF Same, Fields
<1>2. CASE blame.epoch >= MaxEpoch
  <2>1. Same(node[i], s, {"data_timer", "eleader_blames", "out"})
    BY DEF Same
  <2>2. Blaming(i, s)
    BY <1>1, <2>1, BlamingMore
  <2> QED BY <1>2, <2>2, BlamingGood DEF Blame
<1>3. CASE ~(blame.epoch >= MaxEpoch)
  <2>0. PICK u : u = Sends([s EXCEPT !.eleader_blames = @ \cup {blame}], {EleaderBlame(i, blame)})
    OBVIOUS
  <2>1. /\ Same(node[i], u, {"data_timer", "eleader_blames", "out"})
        /\ u.eleader_blames = node[i].eleader_blames \cup {blame}
        /\ u.out = {EleaderBlame(i, blame)}
    BY <1>1, <2>0 DEF Sends, Same, Fields
  <2>2. u.current_epoch = node[i].current_epoch
    BY <2>1 DEF Same, Fields
  <2>3. blame.epoch \in 1 .. (MaxEpoch - 1) /\ blame.epoch <= node[i].current_epoch
    BY <1>3, OneServer, Constants DEF EpochOK
  <2>4. Signed(With(i, u), blame)
    <3>1. With(i, u)[i] = u
      BY WithIs
    <3> QED BY <2>1, <2>2, <2>3, <3>1 DEF Signed
  <2>5. \A m \in u.out : m.type = "EleaderBlame" /\ Signed(With(i, u), m.blame)
    BY <2>1, <2>4 DEF EleaderBlame
  <2>6. \A b \in u.eleader_blames \ node[i].eleader_blames : Signed(With(i, u), b)
    BY <2>1, <2>4
  <2>7. Blaming(i, u)
    BY <2>1, <2>5, <2>6, BlamingMore
  <2>8. t = TryFormChangeQC(u, i, blame.epoch)
    BY <1>3, <2>0 DEF Blame
  <2> QED BY <2>3, <2>7, <2>8, TryForm
<1> QED BY <1>2, <1>3

\* The server does nothing.
LEMMA NothingGood ==
    ASSUME ZeusInv, NEW i \in Ids
    PROVE  Blaming(i, node[i]) /\ GoodStep(i, node[i])
<1>1. Same(node[i], node[i], {"data_timer", "eleader_blames", "out"}) /\ node[i].out = {}
  BY OneServer DEF Same
<1>2. Blaming(i, node[i])
  BY <1>1, BlamingMore
<1> QED BY <1>2, BlamingGood

\* on_eleader_blame
LEMMA OnEleaderBlameGood ==
    ASSUME ZeusInv, NEW i \in Ids, NEW blame, Signed(node, blame),
           NEW t, t = OnEleaderBlame(node[i], i, blame)
    PROVE  GoodStep(i, t)
<1> DEFINE drop == \/ ~blame.valid
                   \/ \E b \in BlamesOf(node[i], blame.epoch) :
                          b.signer = blame.signer /\ b.reason = blame.reason
<1>1. CASE drop
  BY <1>1, NothingGood DEF OnEleaderBlame
<1>2. CASE ~drop
  <2>0. PICK u : u = [node[i] EXCEPT !.eleader_blames = @ \cup {blame}]
    OBVIOUS
  <2>1. DOMAIN node[i] = Fields /\ node[i].out = {}
    BY OneServer
  <2>2. /\ Same(node[i], u, {"data_timer", "eleader_blames", "out"})
        /\ u.eleader_blames = node[i].eleader_blames \cup {blame} /\ u.out = {}
        /\ u.current_epoch = node[i].current_epoch
        /\ u.admitted_change_qcs = node[i].admitted_change_qcs
    BY <2>0, <2>1 DEF Same, Fields
  <2>3. EpochOK(u) /\ KeepsBlames(i, u)
    <3>1. EpochOK(node[i]) /\ u.current_epoch >= node[i].current_epoch
      BY <2>2, OneServer, Constants DEF EpochOK
    <3> QED BY <2>2, <3>1 DEF EpochOK, KeepsBlames
  <2>4. Signed(With(i, u), blame)
    BY <2>3, StaysWith
  <2>5. Blaming(i, u)
    BY <2>2, <2>4, BlamingMore
  <2>6. blame.epoch \in 1 .. (MaxEpoch - 1)
    BY DEF Signed
  <2>7. t = TryFormChangeQC(u, i, blame.epoch)
    BY <1>2, <2>0 DEF OnEleaderBlame
  <2> QED BY <2>5, <2>6, <2>7, TryForm
<1> QED BY <1>1, <1>2

\* on_eleader_change_qc
LEMMA OnEleaderChangeQCGood ==
    ASSUME ZeusInv, NEW i \in Ids, NEW e \in 1 .. (MaxEpoch - 1), Earned(node, e),
           NEW t, t = OnEleaderChangeQC(node[i], i, e)
    PROVE  GoodStep(i, t)
<1>1. CASE e \in node[i].admitted_change_qcs
  BY <1>1, NothingGood DEF OnEleaderChangeQC
<1>2. CASE e \notin node[i].admitted_change_qcs
  <2>1. Blaming(i, node[i])
    BY NothingGood
  <2>2. Earned(With(i, node[i]), e)
    BY <2>1, OneServer, StaysWith DEF Blaming
  <2>3. t = AdmitChangeQC(node[i], i, e)
    BY <1>2 DEF OnEleaderChangeQC
  <2> QED BY <2>1, <2>2, <2>3, QCGood
<1> QED BY <1>1, <1>2

----------------------------------------------------------------------------
\* A handler that leaves the epoch and the blames alone.
LEMMA EpochKept ==
    ASSUME ZeusInv, NEW i \in Ids, NEW t,
           t.current_epoch = node[i].current_epoch,
           t.admitted_change_qcs = node[i].admitted_change_qcs,
           t.eleader_blames = node[i].eleader_blames,
           \A m \in t.out : MessageOK(node, m)
    PROVE  GoodEpoch(i, t)
<1>1. EpochOK(node[i]) /\ t.current_epoch >= node[i].current_epoch
  BY OneServer, Constants DEF EpochOK
<1>2. EpochOK(t) /\ KeepsBlames(i, t)
  BY <1>1 DEF EpochOK, KeepsBlames
<1>3. /\ \A b : Signed(node, b) => Signed(With(i, t), b)
      /\ \A e : Earned(node, e) => Earned(With(i, t), e)
      /\ \A m : MessageOK(node, m) => MessageOK(With(i, t), m)
  BY <1>2, StaysWith
<1> QED BY <1>2, <1>3, OneServer DEF GoodEpoch

\* The state of server i in the course of an admission: blocks are added, the
\* head goes up, and parked attestations are sent to itself.
Admitting(i, s) ==
    /\ Same(node[i], s, {"head", "store", "child_of", "pending_data_blocks",
                         "pending_attestations", "requested", "data_timer",
                         "rleader_waiting_fresh", "out"})
    /\ BlocksOK(s) /\ ParkedOK(s)
    /\ node[i].store \subseteq s.store
    /\ IsPrefix(node[i].head, s.head)
    /\ s.pending_attestations \subseteq node[i].pending_attestations
    /\ s.rleader_waiting_fresh => node[i].rleader_waiting_fresh
    /\ \A m \in s.out : /\ m \in SigMessages
                        /\ Carries(node[i].pending_attestations, m.round, m.pin)

CallsToMake == [call : {"admit", "drain", "advance", "replay"}, block : Blocks]

\* A state and the calls still to be made.
Pending(i, st) ==
    \E s : \E todo \in Seq(CallsToMake) : st = <<s, todo>> /\ Admitting(i, s)

\* Calls that may be made.
LEMMA CallTypes ==
    /\ \A b \in Blocks : Admit(b) \in CallsToMake
    /\ \A c \in {"drain", "advance", "replay"} : Call(c) \in CallsToMake
<1>1. Genesis \in Blocks
  BY DEF Genesis, Blocks
<1> QED BY <1>1 DEF Admit, Call, CallsToMake

\* Each part of the state is kept: the blocks.
LEMMA BlocksAdded ==
    ASSUME NEW s, BlocksOK(s), NEW b \in Blocks, Parent(b) \in s.store,
           NEW t, t.store = s.store \cup {b}, t.child_of \subseteq s.child_of \cup {b},
           t.requested \subseteq s.requested, t.head \in {s.head, b}
    PROVE  BlocksOK(t)
<1>1. IsFiniteSet(t.store)
  BY FS_AddElement DEF BlocksOK
<1> QED BY <1>1 DEF BlocksOK

\* What waits for a block is a sequence of blocks.
LEMMA ParkedForType ==
    ASSUME NEW s, ParkedOK(s), NEW p
    PROVE  ParkedFor(s, p) \in Seq(Blocks)
<1>1. <<>> \in Seq(Blocks)
  OBVIOUS
<1> QED BY <1>1 DEF ParkedFor, ParkedOK

\* admit_data_block
LEMMA AdmitCall ==
    ASSUME ZeusInv, NEW i \in Ids, NEW s, Admitting(i, s), NEW b \in Blocks,
           NEW todo \in Seq(CallsToMake)
    PROVE  Pending(i, AdmitDataBlock(s, i, b, todo))
<1>1. DOMAIN s = Fields /\ BlocksOK(s) /\ ParkedOK(s)
  BY DEF Admitting, Same
<1>2. \A c \in {"drain", "advance", "replay"} : Call(c) \in CallsToMake
  BY CallTypes
<1>3. \A x \in Seq(CallsToMake) : x \o todo \in Seq(CallsToMake)
  BY MembersOfConcat
<1>4. PICK v : v = Insert(s, b)
  OBVIOUS
<1>5. /\ Same(s, v, {"store", "requested", "child_of"})
      /\ v.store = s.store \cup {b} /\ v.requested \subseteq s.requested
      /\ v.child_of \subseteq s.child_of \cup {b}
  BY <1>1, <1>4 DEF Insert, Same, Fields
<1>6. CASE Parent(b) = s.head
  <2>1. PICK t : t = PostAdmitSideEffects([v EXCEPT !.head = b], i)
    OBVIOUS
  <2>2. /\ Same(s, t, {"store", "requested", "child_of", "head", "data_timer",
                       "rleader_waiting_fresh"})
        /\ t.store = v.store /\ t.requested = v.requested /\ t.child_of = v.child_of
        /\ t.head = b
        /\ t.rleader_waiting_fresh => s.rleader_waiting_fresh
    BY <1>5, <2>1 DEF PostAdmitSideEffects, Same, Fields
  <2>3. BlocksOK(t)
    <3>1. Parent(b) \in s.store
      BY <1>1, <1>6 DEF BlocksOK
    <3> QED BY <1>1, <1>5, <2>2, <3>1, BlocksAdded
  <2>4. /\ t.pending_data_blocks = s.pending_data_blocks
        /\ t.pending_attestations = s.pending_attestations /\ t.out = s.out
        /\ Same(node[i], t, {"head", "store", "child_of", "pending_data_blocks",
                             "pending_attestations", "requested", "data_timer",
                             "rleader_waiting_fresh", "out"})
    BY <2>2 DEF Same, Fields, Admitting
  <2>5. IsPrefix(node[i].head, t.head)
    <3>1. node[i].head \in Blocks /\ s.head \in Blocks
      BY <1>1, OneServer DEF ChainOK, BlocksOK
    <3>2. IsPrefix(node[i].head, s.head) /\ IsPrefix(s.head, b)
      BY <1>6, PrefixOrder DEF Admitting
    <3> QED BY <2>2, <3>1, <3>2, PrefixOrder
  <2>6. Admitting(i, t)
    BY <1>1, <1>5, <2>2, <2>3, <2>4, <2>5 DEF Admitting, ParkedOK
  <2>7. <<Call("drain"), Call("replay")>> \in Seq(CallsToMake)
    BY <1>2
  <2>8. AdmitDataBlock(s, i, b, todo) = <<t, <<Call("drain"), Call("replay")>> \o todo>>
    BY <1>4, <1>6, <2>1 DEF AdmitDataBlock
  <2> QED BY <1>3, <2>6, <2>7, <2>8 DEF Pending
<1>7. CASE Parent(b) # s.head /\ Parent(b) \in s.store
  <2>1. v.head = s.head
    BY <1>5 DEF Same, Fields
  <2>2. BlocksOK(v)
    BY <1>1, <1>5, <1>7, <2>1, BlocksAdded
  <2>3. /\ v.pending_data_blocks = s.pending_data_blocks
        /\ v.pending_attestations = s.pending_attestations /\ v.out = s.out
        /\ v.rleader_waiting_fresh = s.rleader_waiting_fresh
        /\ Same(node[i], v, {"head", "store", "child_of", "pending_data_blocks",
                             "pending_attestations", "requested", "data_timer",
                             "rleader_waiting_fresh", "out"})
    BY <1>5 DEF Same, Fields, Admitting
  <2>4. Admitting(i, v)
    BY <1>1, <1>5, <2>1, <2>2, <2>3 DEF Admitting, ParkedOK
  <2>5. <<Call("drain"), Call("advance"), Call("replay")>> \in Seq(CallsToMake)
    BY <1>2
  <2>6. AdmitDataBlock(s, i, b, todo)
            = <<v, <<Call("drain"), Call("advance"), Call("replay")>> \o todo>>
    BY <1>4, <1>7 DEF AdmitDataBlock
  <2> QED BY <1>3, <2>4, <2>5, <2>6 DEF Pending
<1>8. CASE Parent(b) # s.head /\ Parent(b) \notin s.store
  <2> DEFINE parked == ParkedFor(s, Parent(b))
             first == IF IsInjective(parked) THEN parked ELSE Front(parked)
             now == IF first # <<>> /\ Last(first) = b THEN first ELSE Append(first, b)
             P == [p \in DOMAIN s.pending_data_blocks \cup {Parent(b)} |->
                      IF p = Parent(b) THEN now ELSE s.pending_data_blocks[p]]
  <2>1. PICK t : t = Requests(Park(s, b), Parent(b))
    OBVIOUS
  <2>2. DOMAIN P = DOMAIN s.pending_data_blocks \cup {Parent(b)}
    OBVIOUS
  <2>3. \A p \in DOMAIN P : P[p] \in Seq(Blocks)
    <3>1. parked \in Seq(Blocks)
      BY <1>1, ParkedForType
    <3>2. Front(parked) \in Seq(Blocks)
      BY <3>1 DEF Front
    <3> HIDE DEF parked
    <3>3. first \in Seq(Blocks)
      BY <3>1, <3>2
    <3> HIDE DEF first
    <3>4. now \in Seq(Blocks)
      BY <3>3
    <3> HIDE DEF now
    <3> QED BY <1>1, <3>4 DEF ParkedOK
  <2>4. t = Requests([s EXCEPT !.pending_data_blocks = P], Parent(b))
    BY <2>1 DEF Park
  <2> HIDE DEF P, parked, first, now
  <2>5. /\ Same(s, t, {"pending_data_blocks", "requested"})
        /\ t.pending_data_blocks = P /\ t.requested = s.requested \cup {Parent(b)}
    BY <1>1, <2>4 DEF Requests, Same, Fields
  <2>6. /\ t.store = s.store /\ t.head = s.head /\ t.child_of = s.child_of
        /\ t.pending_attestations = s.pending_attestations /\ t.out = s.out
        /\ t.rleader_waiting_fresh = s.rleader_waiting_fresh
        /\ Same(node[i], t, {"head", "store", "child_of", "pending_data_blocks",
                             "pending_attestations", "requested", "data_timer",
                             "rleader_waiting_fresh", "out"})
    BY <2>5 DEF Same, Fields, Admitting
  <2>7. BlocksOK(t)
    BY <1>1, <2>5, <2>6, ParentOf DEF BlocksOK
  <2>8. ParkedOK(t)
    <3>1. IsFiniteSet(DOMAIN P)
      BY <1>1, <2>2, FS_AddElement DEF ParkedOK
    <3> QED BY <1>1, <2>3, <2>5, <2>6, <3>1 DEF ParkedOK
  <2>9. Admitting(i, t)
    BY <2>6, <2>7, <2>8 DEF Admitting
  <2>10. AdmitDataBlock(s, i, b, todo) = <<t, todo>>
    BY <1>8, <2>1 DEF AdmitDataBlock
  <2> QED BY <2>9, <2>10 DEF Pending
<1> QED BY <1>6, <1>7, <1>8

\* drain_pending_data_blocks
LEMMA DrainCall ==
    ASSUME ZeusInv, NEW i \in Ids, NEW s, Admitting(i, s), NEW todo \in Seq(CallsToMake)
    PROVE  Pending(i, DrainPendingDataBlocks(s, todo))
<1>1. DOMAIN s = Fields /\ BlocksOK(s) /\ ParkedOK(s)
  BY DEF Admitting, Same
<1>2. PICK parked \in Seq(Blocks) : parked = ParkedFor(s, s.head)
  BY <1>1, ParkedForType
<1>3. CASE parked = <<>>
  BY <1>2, <1>3 DEF DrainPendingDataBlocks, Pending
<1>4. CASE parked # <<>>
  <2> DEFINE D == DOMAIN s.pending_data_blocks \ {s.head}
             P == Restrict(s.pending_data_blocks, D)
             admits == [k \in DOMAIN parked |-> Admit(parked[k])]
  <2>1. PICK t : t = [s EXCEPT !.pending_data_blocks = P]
    OBVIOUS
  <2>2. DOMAIN P = D /\ \A p \in D : P[p] \in Seq(Blocks)
    BY <1>1 DEF Restrict, ParkedOK
  <2>3. DrainPendingDataBlocks(s, todo) = <<t, admits \o <<Call("drain")>> \o todo>>
    BY <1>2, <1>4, <2>1 DEF DrainPendingDataBlocks
  <2>4. admits \o <<Call("drain")>> \o todo \in Seq(CallsToMake)
    <3>1. admits \in Seq(CallsToMake)
      <4>1. DOMAIN parked = 1 .. Len(parked) /\ Len(parked) \in Nat
        OBVIOUS
      <4>2. \A k \in 1 .. Len(parked) : Admit(parked[k]) \in CallsToMake
        BY CallTypes
      <4> QED BY <4>1, <4>2
    <3>2. <<Call("drain")>> \in Seq(CallsToMake)
      BY CallTypes
    <3> HIDE DEF admits
    <3>3. admits \o <<Call("drain")>> \in Seq(CallsToMake)
      BY <3>1, <3>2, MembersOfConcat
    <3> QED BY <3>3, MembersOfConcat
  <2>5. IsFiniteSet(D)
    BY <1>1, FS_Subset DEF ParkedOK
  <2> HIDE DEF admits, P, D
  <2>6. Same(s, t, {"pending_data_blocks"}) /\ t.pending_data_blocks = P
    BY <1>1, <2>1 DEF Same, Fields
  <2>7. /\ t.store = s.store /\ t.head = s.head /\ t.child_of = s.child_of
        /\ t.requested = s.requested
        /\ t.pending_attestations = s.pending_attestations /\ t.out = s.out
        /\ t.rleader_waiting_fresh = s.rleader_waiting_fresh
        /\ Same(node[i], t, {"head", "store", "child_of", "pending_data_blocks",
                             "pending_attestations", "requested", "data_timer",
                             "rleader_waiting_fresh", "out"})
    BY <2>6 DEF Same, Fields, Admitting
  <2>8. BlocksOK(t) /\ ParkedOK(t)
    BY <1>1, <2>2, <2>5, <2>6, <2>7 DEF BlocksOK, ParkedOK
  <2>9. Admitting(i, t)
    BY <2>7, <2>8 DEF Admitting
  <2> QED BY <2>3, <2>4, <2>9 DEF Pending
<1> QED BY <1>3, <1>4

\* advance_head_via_child_of
LEMMA AdvanceCall ==
    ASSUME ZeusInv, NEW i \in Ids, NEW s, Admitting(i, s), NEW todo \in Seq(CallsToMake)
    PROVE  Pending(i, AdvanceHeadViaChildOf(s, i, todo))
<1>1. DOMAIN s = Fields /\ BlocksOK(s) /\ ParkedOK(s)
  BY DEF Admitting, Same
<1> DEFINE next == {c \in s.child_of : Parent(c) = s.head} \cap s.store
<1>2. CASE next = {}
  BY <1>2 DEF AdvanceHeadViaChildOf, Pending
<1>3. CASE next # {}
  <2>1. PICK c \in next : c = CHOOSE x \in next : TRUE
    BY <1>3
  <2>2. c \in s.store /\ c \in Blocks /\ Parent(c) = s.head
    BY <1>1 DEF BlocksOK
  <2>3. PICK t : t = PostAdmitSideEffects([s EXCEPT !.head = c], i)
    OBVIOUS
  <2>4. AdvanceHeadViaChildOf(s, i, todo) = <<t, <<Call("advance")>> \o todo>>
    BY <1>3, <2>1, <2>3 DEF AdvanceHeadViaChildOf
  <2> HIDE DEF next
  <2>5. /\ Same(s, t, {"head", "data_timer", "rleader_waiting_fresh"})
        /\ t.head = c
        /\ t.rleader_waiting_fresh => s.rleader_waiting_fresh
    BY <1>1, <2>3 DEF PostAdmitSideEffects, Same, Fields
  <2>6. /\ t.store = s.store /\ t.child_of = s.child_of
        /\ t.requested = s.requested /\ t.pending_data_blocks = s.pending_data_blocks
        /\ t.pending_attestations = s.pending_attestations /\ t.out = s.out
        /\ Same(node[i], t, {"head", "store", "child_of", "pending_data_blocks",
                             "pending_attestations", "requested", "data_timer",
                             "rleader_waiting_fresh", "out"})
    BY <2>5 DEF Same, Fields, Admitting
  <2>7. BlocksOK(t) /\ ParkedOK(t)
    BY <1>1, <2>2, <2>5, <2>6 DEF BlocksOK, ParkedOK
  <2>8. IsPrefix(node[i].head, t.head)
    <3>1. node[i].head \in Blocks /\ s.head \in Blocks
      BY <1>1, OneServer DEF ChainOK, BlocksOK
    <3>2. IsPrefix(node[i].head, s.head) /\ IsPrefix(s.head, c)
      BY <2>2, PrefixOrder DEF Admitting
    <3> QED BY <2>2, <2>5, <3>1, <3>2, PrefixOrder
  <2>9. Admitting(i, t)
    BY <2>5, <2>6, <2>7, <2>8 DEF Admitting
  <2>10. <<Call("advance")>> \o todo \in Seq(CallsToMake)
    <3>1. <<Call("advance")>> \in Seq(CallsToMake)
      BY CallTypes
    <3> QED BY <3>1, MembersOfConcat
  <2> QED BY <2>4, <2>9, <2>10 DEF Pending
<1> QED BY <1>2, <1>3

\* drain_pending_attestations
LEMMA ReplayCall ==
    ASSUME ZeusInv, NEW i \in Ids, NEW s, Admitting(i, s), NEW todo \in Seq(CallsToMake)
    PROVE  Pending(i, DrainPendingAttestations(s, i, todo))
<1>1. DOMAIN s = Fields /\ BlocksOK(s) /\ ParkedOK(s)
  BY DEF Admitting, Same
<1> DEFINE parked == {m \in s.pending_attestations : m.pin = s.head}
           again == {[m EXCEPT !.to = {i}] : m \in parked}
<1>2. PICK t : t = Sends([s EXCEPT !.pending_attestations = @ \ parked], again)
  OBVIOUS
<1>3. DrainPendingAttestations(s, i, todo) = <<t, todo>>
  BY <1>2 DEF DrainPendingAttestations
<1>4. \A m \in again : /\ m \in SigMessages
                       /\ Carries(node[i].pending_attestations, m.round, m.pin)
  <2> SUFFICES ASSUME NEW k \in parked
               PROVE  LET m == [k EXCEPT !.to = {i}] IN
                      /\ m \in SigMessages
                      /\ Carries(node[i].pending_attestations, m.round, m.pin)
    OBVIOUS
  <2>1. k \in SigMessages /\ k \in node[i].pending_attestations
    BY <1>1 DEF ParkedOK, Admitting
  <2>2. [k EXCEPT !.to = {i}] \in SigMessages
        /\ [k EXCEPT !.to = {i}].round = k.round /\ [k EXCEPT !.to = {i}].pin = k.pin
    BY <2>1 DEF SigMessages
  <2>3. k.type = "SigPropose"
    BY <2>1 DEF SigMessages
  <2> QED BY <2>1, <2>2, <2>3 DEF Carries
<1> HIDE DEF again
<1>5. /\ Same(s, t, {"pending_attestations", "out"})
      /\ t.pending_attestations \subseteq s.pending_attestations
      /\ t.out = s.out \cup again
  BY <1>1, <1>2 DEF Sends, Same, Fields
<1>6. /\ t.store = s.store /\ t.head = s.head /\ t.child_of = s.child_of
      /\ t.requested = s.requested /\ t.pending_data_blocks = s.pending_data_blocks
      /\ t.rleader_waiting_fresh = s.rleader_waiting_fresh
      /\ Same(node[i], t, {"head", "store", "child_of", "pending_data_blocks",
                           "pending_attestations", "requested", "data_timer",
                           "rleader_waiting_fresh", "out"})
  BY <1>5 DEF Same, Fields, Admitting
<1>7. BlocksOK(t) /\ ParkedOK(t)
  BY <1>1, <1>5, <1>6 DEF BlocksOK, ParkedOK
<1>8. Admitting(i, t)
  BY <1>4, <1>5, <1>6, <1>7 DEF Admitting
<1> QED BY <1>3, <1>8 DEF Pending

\* One call.
LEMMA OneCall ==
    ASSUME ZeusInv, NEW i \in Ids, NEW st, Pending(i, st)
    PROVE  Pending(i, MakeCall(i, st))
<1>1. PICK s : \E todo \in Seq(CallsToMake) : st = <<s, todo>> /\ Admitting(i, s)
  BY DEF Pending
<1>2. PICK todo \in Seq(CallsToMake) : st = <<s, todo>> /\ Admitting(i, s)
  BY <1>1
<1>3. st[1] = s /\ st[2] = todo
  BY <1>2
<1>4. CASE todo = <<>>
  BY <1>2, <1>3, <1>4 DEF MakeCall
<1>5. CASE todo # <<>>
  <2>1. Head(todo) \in CallsToMake /\ Tail(todo) \in Seq(CallsToMake)
    BY <1>5, MembersOfTail
  <2>2. PICK c \in CallsToMake : c = Head(todo)
    BY <2>1
  <2>3. c.block \in Blocks /\ c.call \in {"admit", "drain", "advance", "replay"}
    BY DEF CallsToMake
  <2>4. PICK rest \in Seq(CallsToMake) : rest = Tail(todo)
    BY <2>1
  <2>5. MakeCall(i, st) =
            CASE c.call = "admit"   -> AdmitDataBlock(s, i, c.block, rest)
              [] c.call = "drain"   -> DrainPendingDataBlocks(s, rest)
              [] c.call = "advance" -> AdvanceHeadViaChildOf(s, i, rest)
              [] c.call = "replay"  -> DrainPendingAttestations(s, i, rest)
    BY <1>3, <1>5, <2>2, <2>4 DEF MakeCall
  <2>6. CASE c.call = "admit"
    <3>1. MakeCall(i, st) = AdmitDataBlock(s, i, c.block, rest)
      BY <2>5, <2>6
    <3> QED BY <1>2, <2>3, <3>1, AdmitCall
  <2>7. CASE c.call = "drain"
    <3>1. MakeCall(i, st) = DrainPendingDataBlocks(s, rest)
      BY <2>5, <2>7
    <3> QED BY <1>2, <3>1, DrainCall
  <2>8. CASE c.call = "advance"
    <3>1. MakeCall(i, st) = AdvanceHeadViaChildOf(s, i, rest)
      BY <2>5, <2>8
    <3> QED BY <1>2, <3>1, AdvanceCall
  <2>9. CASE c.call = "replay"
    <3>1. MakeCall(i, st) = DrainPendingAttestations(s, i, rest)
      BY <2>5, <2>9
    <3> QED BY <1>2, <3>1, ReplayCall
  <2> QED BY <2>3, <2>6, <2>7, <2>8, <2>9
<1> QED BY <1>4, <1>5

\* A sequence has finitely many elements.
LEMMA FinitelyMany ==
    ASSUME NEW S, NEW q \in Seq(S)
    PROVE  IsFiniteSet(ToSet(q))
<1>1. PICK n \in Nat : n = Len(q)
  OBVIOUS
<1>2. q \in Surjection(1 .. n, ToSet(q))
  <2>1. q \in [1 .. n -> ToSet(q)] /\ \A x \in ToSet(q) : \E k \in 1 .. n : q[k] = x
    BY <1>1 DEF ToSet
  <2> QED BY <2>1 DEF Surjection
<1>3. IsFiniteSet(1 .. n)
  BY FS_Interval
<1> QED BY <1>2, <1>3, FS_Surjection

\* The bound on the calls is a number.
LEMMA MaxCallsNat ==
    ASSUME NEW s, BlocksOK(s), ParkedOK(s)
    PROVE  MaxCalls(s) \in Nat
<1> DEFINE D == DOMAIN s.pending_data_blocks
           f == [p \in D |-> ToSet(ParkedFor(s, p))]
           sets == {ToSet(ParkedFor(s, p)) : p \in D}
<1>1. f \in Surjection(D, sets)
  <2>1. f \in [D -> sets] /\ \A x \in sets : \E p \in D : f[p] = x
    OBVIOUS
  <2> QED BY <2>1 DEF Surjection
<1>2. IsFiniteSet(D)
  BY DEF ParkedOK
<1>3. \A x \in sets : IsFiniteSet(x)
  BY ParkedForType, FinitelyMany
<1>4. IsFiniteSet(sets)
  <2> HIDE DEF D, f, sets
  <2> QED BY <1>1, <1>2, FS_Surjection
<1>5. Cardinality(UNION sets) \in Nat /\ Cardinality(s.store) \in Nat
  <2> HIDE DEF D, f, sets
  <2>1. IsFiniteSet(UNION sets)
    BY <1>3, <1>4, FS_UNION
  <2> QED BY <2>1, FS_CardinalityType DEF BlocksOK
<1>6. MaxCalls(s) = 12 * (Cardinality(UNION sets) + 1) + Cardinality(s.store)
  BY DEF MaxCalls
<1>7. \A x, y \in Nat : 12 * (x + 1) + y \in Nat
  OBVIOUS
<1> HIDE DEF sets
<1> QED BY <1>5, <1>6, <1>7

\* The calls of an admission, one after the other.
CallRule(f, s, i, b, n) ==
    f = [k \in 0 .. n |-> IF k = 0 THEN <<s, <<Admit(b)>>>> ELSE MakeCall(i, f[k - 1])]

\* They are defined for any number of calls.
LEMMA CallsExist ==
    ASSUME NEW s, NEW i, NEW b, NEW n \in Nat
    PROVE  \E f : CallRule(f, s, i, b, n)
<1> DEFINE bad == {m \in Nat : ~\E f : CallRule(f, s, i, b, m)}
<1> SUFFICES ASSUME bad # {} PROVE FALSE
  OBVIOUS
<1>1. PICK m \in bad : \A k \in bad : m <= k
  <2>1. bad \subseteq Nat
    OBVIOUS
  <2> HIDE DEF bad
  <2> QED BY <2>1, LeastNat
<1>2. m \in Nat /\ \A f : ~CallRule(f, s, i, b, m)
  OBVIOUS
<1>3. m # 0
  <2> SUFFICES ASSUME m = 0 PROVE FALSE
    OBVIOUS
  <2>1. PICK f : f = [k \in 0 .. 0 |-> <<s, <<Admit(b)>>>>]
    OBVIOUS
  <2>2. f = [k \in 0 .. 0 |-> IF k = 0 THEN <<s, <<Admit(b)>>>> ELSE MakeCall(i, f[k - 1])]
    BY <2>1
  <2> QED BY <1>2, <2>2 DEF CallRule
<1>4. m - 1 \in Nat /\ m - 1 \notin bad
  <2>1. m - 1 \in Nat /\ ~(m <= m - 1)
    BY <1>2, <1>3
  <2> HIDE DEF bad
  <2> QED BY <1>1, <2>1
<1>5. PICK g : CallRule(g, s, i, b, m - 1)
  BY <1>4
<1>6. PICK f : f = [k \in 0 .. m |-> IF k = m THEN MakeCall(i, g[m - 1]) ELSE g[k]]
  OBVIOUS
<1>7. ASSUME NEW k \in 0 .. m
      PROVE  f[k] = IF k = 0 THEN <<s, <<Admit(b)>>>> ELSE MakeCall(i, f[k - 1])
  <2>1. \A x \in 0 .. (m - 1) : x # m /\ x \in 0 .. m /\ f[x] = g[x]
    BY <1>2, <1>6
  <2>2. CASE k = m
    <3>1. m - 1 \in 0 .. (m - 1)
      BY <1>2, <1>3
    <3>2. f[m - 1] = g[m - 1]
      BY <2>1, <3>1
    <3> QED BY <1>3, <1>6, <2>2, <3>2
  <2>3. CASE k # m
    <3>1. k \in 0 .. (m - 1)
      BY <1>2, <2>3
    <3>2. g[k] = IF k = 0 THEN <<s, <<Admit(b)>>>> ELSE MakeCall(i, g[k - 1])
      BY <1>5, <3>1 DEF CallRule
    <3>3. k # 0 => k - 1 \in 0 .. (m - 1)
      BY <1>2, <3>1
    <3> QED BY <2>1, <3>1, <3>2, <3>3
  <2> QED BY <2>2, <2>3
<1>8. CallRule(f, s, i, b, m)
  <2>1. f = [k \in 0 .. m |-> f[k]]
    BY <1>6
  <2>2. f = [k \in 0 .. m |-> IF k = 0 THEN <<s, <<Admit(b)>>>> ELSE MakeCall(i, f[k - 1])]
    BY <1>7, <2>1
  <2> QED BY <2>2 DEF CallRule
<1> QED BY <1>2, <1>8

\* After every call the state is one of an admission.
LEMMA CallsPending ==
    ASSUME ZeusInv, NEW i \in Ids, NEW b \in Blocks
    PROVE  Admitting(i, Calls(node[i], i, b)[MaxCalls(node[i])][1])
<1>1. PICK s : s = node[i]
  OBVIOUS
<1>2. ChainOK(s) /\ DOMAIN s = Fields /\ s.out = {}
  BY <1>1, OneServer
<1>3. PICK n \in Nat : n = MaxCalls(s)
  BY <1>2, MaxCallsNat DEF ChainOK
<1>4. PICK f : f = Calls(s, i, b)
  OBVIOUS
<1>5. CallRule(f, s, i, b, n)
  <2>1. f = CHOOSE g : CallRule(g, s, i, b, n)
    BY <1>3, <1>4, Zenon DEF Calls, CallRule
  <2> QED BY <2>1, CallsExist
<1>6. /\ f[0] = <<s, <<Admit(b)>>>>
      /\ \A k \in 0 .. n : k # 0 => f[k] = MakeCall(i, f[k - 1])
  <2>1. \A k \in 0 .. n :
           f[k] = IF k = 0 THEN <<s, <<Admit(b)>>>> ELSE MakeCall(i, f[k - 1])
    BY <1>5, Zenon DEF CallRule
  <2>2. 0 \in 0 .. n
    OBVIOUS
  <2> QED BY <2>1, <2>2, Zenon
<1>7. Admitting(i, s)
  <2>1. s.head \in Blocks
    BY <1>2 DEF ChainOK, BlocksOK
  <2>2. IsPrefix(node[i].head, s.head)
    BY <1>1, <2>1, PrefixOrder
  <2> QED BY <1>1, <1>2, <2>2 DEF Admitting, ChainOK, Same
<1>8. Pending(i, f[0])
  <2>1. <<Admit(b)>> \in Seq(CallsToMake)
    BY CallTypes
  <2> QED BY <1>6, <1>7, <2>1 DEF Pending
<1> DEFINE bad == {k \in Nat : k <= n /\ ~Pending(i, f[k])}
<1>9. bad = {}
  <2> SUFFICES ASSUME bad # {} PROVE FALSE
    OBVIOUS
  <2>1. PICK m \in bad : \A k \in bad : m <= k
    <3>1. bad \subseteq Nat
      OBVIOUS
    <3> HIDE DEF bad
    <3> QED BY <3>1, LeastNat
  <2>2. m \in Nat /\ m <= n /\ ~Pending(i, f[m])
    OBVIOUS
  <2>3. m # 0
    BY <1>8, <2>2
  <2>4. m - 1 \in Nat /\ m - 1 <= n /\ ~(m <= m - 1) /\ m \in 0 .. n
    BY <2>2, <2>3
  <2>5. m - 1 \notin bad
    <3> HIDE DEF bad
    <3> QED BY <2>1, <2>4
  <2>6. Pending(i, f[m - 1])
    BY <2>4, <2>5
  <2>7. f[m] = MakeCall(i, f[m - 1])
    BY <1>6, <2>3, <2>4
  <2> QED BY <2>2, <2>6, <2>7, OneCall
<1>10. Pending(i, f[n])
  BY <1>9
<1>11. PICK t : \E todo \in Seq(CallsToMake) : f[n] = <<t, todo>> /\ Admitting(i, t)
  BY <1>10 DEF Pending
<1>12. f[n][1] = t
  BY <1>11
<1> QED BY <1>1, <1>3, <1>4, <1>11, <1>12

\* The chain of a server in the course of an admission.
LEMMA AdmittingChain ==
    ASSUME ZeusInv, NEW i \in Ids, NEW t, Admitting(i, t)
    PROVE  ChainOK(t)
<1>1. PICK s : s = node[i] /\ ChainOK(s)
  BY OneServer
<1>2. /\ t.sig_chain = s.sig_chain /\ t.commits = s.commits
      /\ t.commit_lock = s.commit_lock /\ t.last_committed = s.last_committed
      /\ t.last_proposed = s.last_proposed /\ t.batches = s.batches
      /\ t.current_epoch = s.current_epoch
      /\ s.store \subseteq t.store
  BY <1>1 DEF Admitting, Same, Fields
<1>3. DStar(t) = DStar(s) /\ (SingleChain(t) => SingleChain(s))
  BY <1>2, DStarSame
<1>4. CommitOK(t)
  BY <1>1, <1>2, <1>3 DEF ChainOK, CommitOK
<1>5. ProposerOK(t)
  BY <1>1, <1>2 DEF ChainOK, ProposerOK
<1> QED BY <1>4, <1>5 DEF Admitting, ChainOK

\* A leader that waits for a block is in the first round.
LEMMA WaitsInFirstRound ==
    ASSUME ZeusInv, NEW i \in Ids, node[i].rleader_waiting_fresh
    PROVE  LeaderOf[1] = i /\ SigRound(node[i]) = 1
<1>1. LeaderOf[1] = i /\ \A r, b : ~Pinned(r, b)
  BY DEF ZeusInv, SigAgree
<1>2. Len(node[i].sig_chain) \in Nat
  BY OneServer DEF ChainOK, CommitOK
<1>3. Len(node[i].sig_chain) = 0
  <2> SUFFICES ASSUME Len(node[i].sig_chain) # 0 PROVE FALSE
    OBVIOUS
  <2>1. 1 \in 1 .. Len(node[i].sig_chain)
    BY <1>2
  <2>2. Adopts(node[i], 1, node[i].sig_chain[1])
    BY <2>1 DEF Adopts
  <2> QED BY <1>1, <2>2 DEF Pinned
<1> QED BY <1>1, <1>3 DEF SigRound

\* admit_data_block from a handler.
LEMMA AdmittedGood ==
    ASSUME ZeusInv, NEW i \in Ids, NEW b \in Blocks, NEW t, t = Admitted(node[i], i, b)
    PROVE  GoodStep(i, t)
<1>1. PICK u : u = Calls(node[i], i, b)[MaxCalls(node[i])][1]
  OBVIOUS
<1>2. Admitting(i, u)
  BY <1>1, CallsPending
<1>3. ChainOK(u) /\ DOMAIN u = Fields
  BY <1>2, AdmittingChain DEF Admitting, Same
<1>4. /\ u.current_epoch = node[i].current_epoch
      /\ u.admitted_change_qcs = node[i].admitted_change_qcs
      /\ u.eleader_blames = node[i].eleader_blames
      /\ u.sig_chain = node[i].sig_chain
  BY <1>2 DEF Admitting, Same, Fields
<1>5. \A r, x : Adopts(u, r, x) => Pinned(r, x)
  <2>1. \A r, x : Adopts(u, r, x) => Adopts(node[i], r, x)
    BY <1>4 DEF Adopts
  <2> QED BY <2>1 DEF Pinned
<1>6. \A r, x : Carries(u.pending_attestations, r, x) => Pinned(r, x)
  <2>1. \A r, x : Carries(u.pending_attestations, r, x) => Carries(node[i].pending_attestations, r, x)
    BY <1>2 DEF Admitting, Carries
  <2> QED BY <2>1 DEF Pinned
<1>7. \A r, x : Carries(u.out, r, x) => Pinned(r, x)
  <2>1. \A r, x : Carries(u.out, r, x) => Carries(node[i].pending_attestations, r, x)
    BY <1>2 DEF Admitting, Carries
  <2> QED BY <2>1 DEF Pinned
<1>8. \A m \in u.out : m \in SigMessages
  BY <1>2 DEF Admitting
<1>9. Len(node[i].sig_chain) \in Nat
  BY OneServer DEF ChainOK, CommitOK
<1>10. CASE ~(node[i].rleader_waiting_fresh /\ ~u.rleader_waiting_fresh)
  <2>1. t = u
    BY <1>1, <1>10 DEF Admitted
  <2>2. GoodEpoch(i, u)
    <3>1. \A m \in u.out : MessageOK(node, m)
      BY <1>8 DEF MessageOK, SigMessages
    <3> QED BY <1>4, <3>1, EpochKept
  <2>3. GoodSig(i, u)
    BY <1>2, <1>4, <1>5, <1>6, <1>7, <1>9 DEF GoodSig, Admitting
  <2> QED BY <1>2, <1>3, <1>4, <2>1, <2>2, <2>3 DEF GoodStep, Moves, Admitting
<1>11. CASE node[i].rleader_waiting_fresh /\ ~u.rleader_waiting_fresh
  <2>1. t = HandleNewSigRound(u)
    BY <1>1, <1>11 DEF Admitted
  <2>2. LeaderOf[1] = i /\ SigRound(node[i]) = 1 /\ SigRound(u) = 1
    BY <1>4, <1>11, WaitsInFirstRound DEF SigRound
  <2>3. PICK m : m = SigPropose(SigRound(u), u.head)
    OBVIOUS
  <2>4. /\ Same(u, t, {"data_timer", "rleader_waiting_fresh", "out"})
        /\ t.rleader_waiting_fresh = FALSE /\ t.out = u.out \cup {m}
    BY <1>3, <2>1, <2>3 DEF HandleNewSigRound, MakeAttestation, Sends, Same, Fields
  <2>5. /\ DOMAIN t = Fields
        /\ t.current_epoch = u.current_epoch /\ t.eleader_blames = u.eleader_blames
        /\ t.admitted_change_qcs = u.admitted_change_qcs
        /\ t.sig_chain = u.sig_chain /\ t.pending_attestations = u.pending_attestations
        /\ t.head = u.head
        /\ Same(u, t, {"data_timer", "rleader_waiting_fresh", "eleader_blames",
                       "admitted_change_qcs", "out"})
    BY <2>4 DEF Same, Fields
  <2>6. ChainOK(t)
    BY <1>3, <2>5, ChainSame
  <2>7. m \in SigMessages /\ m.type = "SigPropose" /\ m.round = 1 /\ m.pin = u.head
    <3>1. u.head \in Blocks
      BY <1>3 DEF ChainOK, BlocksOK
    <3> QED BY <2>2, <2>3, <3>1, Constants DEF SigPropose, SigMessages
  <2>8. GoodEpoch(i, t)
    <3>1. \A k \in t.out : MessageOK(node, k)
      BY <1>8, <2>4, <2>7 DEF MessageOK, SigMessages
    <3> QED BY <1>4, <2>5, <3>1, EpochKept
  <2>9. Fresh(i, t, 1, t.head)
    BY <1>11, <2>2, <2>4, <2>5, Constants DEF Fresh, SigRound
  <2>10. \A r, x : Carries(t.out, r, x) => Pinned(r, x) \/ Fresh(i, t, r, x)
    <3>1. \A r, x : Carries(t.out, r, x) => Carries(u.out, r, x) \/ (r = 1 /\ x = t.head)
      BY <2>4, <2>5, <2>7 DEF Carries
    <3> QED BY <1>7, <2>9, <3>1
  <2>11. GoodSig(i, t)
    <3>1. \A r, x : Adopts(t, r, x) => Adopts(u, r, x)
      BY <2>5 DEF Adopts
    <3>2. Len(t.sig_chain) >= Len(node[i].sig_chain)
      BY <1>4, <1>9, <2>5
    <3>3. \A r, x : Adopts(t, r, x) \/ Carries(t.pending_attestations, r, x) => Pinned(r, x)
      BY <1>5, <1>6, <2>5, <3>1
    <3> QED BY <2>4, <2>10, <3>2, <3>3 DEF GoodSig
  <2>12. Moves(node[i], t)
    BY <1>2, <1>4, <2>5 DEF Moves, Admitting
  <2> QED BY <2>5, <2>6, <2>8, <2>11, <2>12 DEF GoodStep
<1> QED BY <1>10, <1>11

----------------------------------------------------------------------------
\* The epoch of a block is that of its last element.
LEMMA EpochType ==
    ASSUME NEW b \in Blocks
    PROVE  EpochOf(b) \in 0 .. MaxEpoch
<1>1. CASE b = Genesis
  BY <1>1, Constants DEF EpochOf
<1>2. CASE b # Genesis
  <2>1. Len(b) \in Nat /\ Len(b) >= 1
    BY <1>2, ParentOf
  <2>2. Len(b) \in 1 .. Len(b)
    BY <2>1
  <2>3. b[Len(b)] \in (1 .. MaxEpoch) \X (1 .. MaxBatches)
    BY <2>2 DEF Blocks
  <2>4. b[Len(b)][1] \in 1 .. MaxEpoch
    BY <2>3
  <2> QED BY <1>2, <2>4, Constants DEF EpochOf, Last
<1> QED BY <1>1, <1>2

\* on_data_propose.  The gate lets only blocks of the server's own epoch pass, so
\* it blames no epoch that it has not reached.
LEMMA OnDataProposeGood ==
    ASSUME ZeusInv, NEW i \in Ids, NEW b \in Blocks,
           NEW t, t = OnDataPropose(node[i], i, b)
    PROVE  GoodStep(i, t)
<1>1. PICK s : s = node[i]
  OBVIOUS
<1>2. CASE ~EpochGateValid(s, b, s.current_epoch) \/ b \in s.store
  BY <1>1, <1>2, NothingGood DEF OnDataPropose
<1>3. CASE /\ EpochGateValid(s, b, s.current_epoch) /\ b \notin s.store
           /\ Siblings(s, b) # {}
  <2>1. PICK blame : blame = Equivocation(i, CHOOSE c \in Siblings(s, b) : TRUE, b)
    OBVIOUS
  <2>2. blame.signer = i /\ blame.epoch = EpochOf(b)
    BY <2>1 DEF Equivocation
  <2>3. EpochOK(s)
    BY <1>1, OneServer
  <2>4. EpochOf(b) \in Int /\ s.current_epoch \in 1 .. MaxEpoch
    BY <2>3, EpochType, Constants DEF EpochOK
  <2>5. EpochOf(b) = s.current_epoch
    <3>1. EpochOf(b) >= s.current_epoch
      BY <1>3 DEF EpochGateValid
    <3>2. ~(EpochOf(b) > s.current_epoch)
      <4> SUFFICES ASSUME EpochOf(b) > s.current_epoch PROVE FALSE
        OBVIOUS
      <4>1. EpochOf(b) - 1 < s.current_epoch
        BY <1>3, <2>3 DEF EpochGateValid, EpochOK
      <4> QED BY <2>4, <4>1, Constants
    <3> QED BY <2>4, <3>1, <3>2, Constants
  <2>6. blame.epoch \in 1 .. node[i].current_epoch
    BY <1>1, <2>2, <2>4, <2>5, Constants
  <2>7. t = Blame(node[i], i, blame)
    BY <1>1, <1>3, <2>1 DEF OnDataPropose
  <2>8. Same(node[i], node[i], {"data_timer"})
    BY OneServer DEF Same
  <2> QED BY <2>2, <2>6, <2>7, <2>8, BlameGood
<1>4. CASE /\ EpochGateValid(s, b, s.current_epoch) /\ b \notin s.store
           /\ Siblings(s, b) = {}
  <2>1. t = IF ConflictsDataPrefix(s, b) THEN s ELSE Admitted(s, i, b)
    BY <1>1, <1>4 DEF OnDataPropose
  <2> QED BY <1>1, <2>1, NothingGood, AdmittedGood
<1> QED BY <1>2, <1>3, <1>4

\* on_data_response
LEMMA OnDataResponseGood ==
    ASSUME ZeusInv, NEW i \in Ids, NEW b \in Blocks,
           NEW t, t = OnDataResponse(node[i], i, b)
    PROVE  GoodStep(i, t)
<1>1. t = node[i] \/ t = Admitted(node[i], i, b)
  BY DEF OnDataResponse
<1> QED BY <1>1, NothingGood, AdmittedGood

\* A handler that sends nothing, adopts nothing and changes nothing but what is
\* parked and requested.
LEMMA ParkAttestation ==
    ASSUME ZeusInv, NEW i \in Ids, NEW m \in inbox[i], m \in SigMessages,
           NEW t, t = Requests([node[i] EXCEPT !.pending_attestations = @ \cup {m}], m.pin)
    PROVE  GoodStep(i, t)
<1>1. PICK s : s = node[i] /\ DOMAIN s = Fields /\ ChainOK(s) /\ s.out = {}
  BY OneServer
<1>2. /\ Same(s, t, {"pending_attestations", "requested"})
      /\ t.pending_attestations = s.pending_attestations \cup {m}
      /\ t.requested = s.requested \cup {m.pin}
  BY <1>1 DEF Requests, Same, Fields
<1>3. /\ DOMAIN t = Fields
      /\ t.store = s.store /\ t.head = s.head /\ t.child_of = s.child_of
      /\ t.pending_data_blocks = s.pending_data_blocks
      /\ t.sig_chain = s.sig_chain /\ t.commits = s.commits
      /\ t.commit_lock = s.commit_lock /\ t.last_committed = s.last_committed
      /\ t.last_proposed = s.last_proposed /\ t.batches = s.batches
      /\ t.current_epoch = s.current_epoch /\ t.eleader_blames = s.eleader_blames
      /\ t.admitted_change_qcs = s.admitted_change_qcs
      /\ t.rleader_waiting_fresh = s.rleader_waiting_fresh /\ t.out = {}
  BY <1>1, <1>2 DEF Same, Fields
<1>4. m.pin \in Blocks /\ m.type = "SigPropose"
  BY DEF SigMessages
<1>5. ChainOK(t)
  <2>1. BlocksOK(t) /\ ParkedOK(t)
    BY <1>1, <1>2, <1>3, <1>4 DEF ChainOK, BlocksOK, ParkedOK
  <2>2. DStar(t) = DStar(s) /\ (SingleChain(t) <=> SingleChain(s))
    BY <1>3, DStarSame
  <2>3. CommitOK(t)
    BY <1>1, <1>3, <2>2 DEF ChainOK, CommitOK
  <2>4. ProposerOK(t)
    BY <1>1, <1>3 DEF ChainOK, ProposerOK
  <2> QED BY <2>1, <2>3, <2>4 DEF ChainOK
<1>6. GoodEpoch(i, t)
  BY <1>1, <1>3, EpochKept
<1>7. GoodSig(i, t)
  <2>1. \A r, x : Adopts(t, r, x) => Pinned(r, x)
    <3>1. \A r, x : Adopts(t, r, x) => Adopts(node[i], r, x)
      BY <1>1, <1>3 DEF Adopts
    <3> QED BY <3>1 DEF Pinned
  <2>2. \A r, x : Carries(t.pending_attestations, r, x) => Pinned(r, x)
    <3>1. \A r, x : Carries(t.pending_attestations, r, x) =>
                       \/ Carries(node[i].pending_attestations, r, x)
                       \/ Carries(inbox[i], r, x)
      BY <1>1, <1>2 DEF Carries
    <3> QED BY <3>1 DEF Pinned
  <2>3. \A r, x : ~Carries(t.out, r, x)
    BY <1>3 DEF Carries
  <2>4. Len(t.sig_chain) >= Len(node[i].sig_chain)
    BY <1>1, <1>3 DEF ChainOK, CommitOK
  <2> QED BY <1>1, <1>3, <2>1, <2>2, <2>3, <2>4 DEF GoodSig
<1>8. Moves(node[i], t)
  <2>1. s.head \in Blocks
    BY <1>1 DEF ChainOK, BlocksOK
  <2> QED BY <1>1, <1>3, <2>1, PrefixOrder DEF Moves
<1> QED BY <1>3, <1>5, <1>6, <1>7, <1>8 DEF GoodStep

\* What adopting the proposal of its round makes of the state: the pin is added
\* to the signature chain, and the leader of the next round sends its own.
Adopting(i, s, pin, t) ==
    /\ Same(s, t, {"sig_chain", "data_timer", "rleader_waiting_fresh", "out"})
    /\ t.sig_chain = Append(s.sig_chain, pin)
    /\ \/ t.rleader_waiting_fresh = s.rleader_waiting_fresh /\ t.out = s.out
       \/ /\ t.rleader_waiting_fresh = FALSE
          /\ t.out = s.out \cup {SigPropose(SigRound(t), t.head)}
          /\ LeaderOf[SigRound(t)] = i /\ SigRound(t) <= MaxRound

\* advance_sig_round
LEMMA AdvanceSigRoundIs ==
    ASSUME NEW i, NEW s, DOMAIN s = Fields, NEW pin, NEW t, t = AdvanceSigRound(s, i, pin)
    PROVE  Adopting(i, s, pin, t)
<1>1. PICK v : v = ArmDataTimer([s EXCEPT !.sig_chain = Append(@, pin)], i)
  OBVIOUS
<1>2. /\ Same(s, v, {"sig_chain", "data_timer"})
      /\ v.sig_chain = Append(s.sig_chain, pin)
  BY <1>1 DEF ArmDataTimer, Same, Fields
<1>3. DOMAIN v = Fields /\ v.rleader_waiting_fresh = s.rleader_waiting_fresh /\ v.out = s.out
  BY <1>2 DEF Same, Fields
<1>4. CASE ~(LeaderOf[SigRound(v)] = i /\ SigRound(v) <= MaxRound)
  <2>1. t = v
    BY <1>1, <1>4 DEF AdvanceSigRound
  <2> QED BY <1>2, <1>3, <2>1 DEF Adopting, Same
<1>5. CASE LeaderOf[SigRound(v)] = i /\ SigRound(v) <= MaxRound
  <2>1. t = HandleNewSigRound(v)
    BY <1>1, <1>5 DEF AdvanceSigRound
  <2>2. PICK m : m = SigPropose(SigRound(v), v.head)
    OBVIOUS
  <2>3. /\ Same(v, t, {"data_timer", "rleader_waiting_fresh", "out"})
        /\ t.rleader_waiting_fresh = FALSE /\ t.out = v.out \cup {m}
    BY <1>3, <2>1, <2>2 DEF HandleNewSigRound, MakeAttestation, Sends, Same, Fields
  <2>4. t.sig_chain = v.sig_chain /\ t.head = v.head
    BY <2>3 DEF Same, Fields
  <2>5. SigRound(t) = SigRound(v)
    BY <2>4 DEF SigRound
  <2>6. Same(s, t, {"sig_chain", "data_timer", "rleader_waiting_fresh", "out"})
    BY <1>2, <2>3 DEF Same
  <2> QED BY <1>2, <1>3, <1>5, <2>2, <2>3, <2>4, <2>5, <2>6 DEF Adopting
<1> QED BY <1>4, <1>5

\* The proposal of the server's round is adopted.
LEMMA AdoptGood ==
    ASSUME ZeusInv, NEW i \in Ids, NEW m \in inbox[i], m \in SigMessages,
           m.round = SigRound(node[i]), m.pin \in node[i].store,
           NEW t, Adopting(i, node[i], m.pin, t)
    PROVE  GoodStep(i, t)
<1>1. PICK s : s = node[i] /\ DOMAIN s = Fields /\ ChainOK(s) /\ s.out = {}
  BY OneServer
<1>2. /\ Same(s, t, {"sig_chain", "data_timer", "rleader_waiting_fresh", "out"})
      /\ t.sig_chain = Append(s.sig_chain, m.pin)
      /\ \/ t.rleader_waiting_fresh = s.rleader_waiting_fresh /\ t.out = {}
         \/ /\ t.rleader_waiting_fresh = FALSE
            /\ t.out = {SigPropose(SigRound(t), t.head)}
            /\ LeaderOf[SigRound(t)] = i /\ SigRound(t) <= MaxRound
  BY <1>1 DEF Adopting
<1>3. /\ DOMAIN t = Fields
      /\ t.store = s.store /\ t.head = s.head /\ t.child_of = s.child_of
      /\ t.requested = s.requested
      /\ t.pending_data_blocks = s.pending_data_blocks
      /\ t.pending_attestations = s.pending_attestations
      /\ t.commits = s.commits
      /\ t.commit_lock = s.commit_lock /\ t.last_committed = s.last_committed
      /\ t.last_proposed = s.last_proposed /\ t.batches = s.batches
      /\ t.current_epoch = s.current_epoch /\ t.eleader_blames = s.eleader_blames
      /\ t.admitted_change_qcs = s.admitted_change_qcs
  BY <1>2 DEF Same, Fields
<1>4. m.pin \in Blocks /\ m.type = "SigPropose" /\ m.round \in 1 .. MaxRound
  BY DEF SigMessages
<1>5. PICK n \in Nat : n = Len(s.sig_chain)
  BY <1>1 DEF ChainOK, CommitOK
<1>6. m.round = n + 1 /\ n + 1 <= MaxRound
  BY <1>1, <1>4, <1>5, Constants DEF SigRound
<1>7. /\ t.sig_chain \in Seq(Blocks) /\ Len(t.sig_chain) = n + 1
      /\ \A r \in 1 .. n : t.sig_chain[r] = s.sig_chain[r]
      /\ t.sig_chain[n + 1] = m.pin
  BY <1>1, <1>2, <1>4, <1>5, PlacesOfAppend DEF ChainOK, CommitOK
<1>8. ChainOK(t)
  <2>1. BlocksOK(t) /\ ParkedOK(t)
    BY <1>1, <1>3 DEF ChainOK, BlocksOK, ParkedOK
  <2>2. DStar(t) = DStar(s) /\ (SingleChain(t) <=> SingleChain(s))
    BY <1>3, DStarSame
  <2>3. CommitOK(t)
    <3>1. \A r \in 1 .. (n + 1) : t.sig_chain[r] \in t.store
      <4>1. \A r \in 1 .. n : s.sig_chain[r] \in s.store
        BY <1>1, <1>5 DEF ChainOK, CommitOK
      <4>2. \A r \in 1 .. (n + 1) : r \in 1 .. n \/ r = n + 1
        OBVIOUS
      <4> QED BY <1>1, <1>3, <1>7, <4>1, <4>2
    <3>2. s.commits \in 0 .. n
      BY <1>1, <1>5 DEF ChainOK, CommitOK
    <3>3. s.commits \in 0 .. (n + 1) /\ \A r \in 1 .. s.commits : r \in 1 .. n
      BY <3>2
    <3>4. SingleChain(t) /\ t.last_committed # Genesis =>
             \E r \in 1 .. t.commits : IsPrefix(t.last_committed, t.sig_chain[r])
      <4>1. SingleChain(s) /\ s.last_committed # Genesis =>
               \E r \in 1 .. s.commits : IsPrefix(s.last_committed, s.sig_chain[r])
        BY <1>1 DEF ChainOK, CommitOK
      <4>2. \A r \in 1 .. s.commits : t.sig_chain[r] = s.sig_chain[r]
        BY <1>7, <3>3
      <4> QED BY <1>3, <2>2, <4>1, <4>2
    <3>5. /\ s.commit_lock \subseteq s.store
          /\ \A p, q \in s.commit_lock : p = q
          /\ s.last_committed \in s.store
          /\ Len(s.last_committed) <= Len(DStar(s))
      BY <1>1 DEF ChainOK, CommitOK
    <3> QED BY <1>3, <1>6, <1>7, <2>2, <3>1, <3>3, <3>4, <3>5 DEF CommitOK
  <2>4. ProposerOK(t)
    BY <1>1, <1>3 DEF ChainOK, ProposerOK
  <2> QED BY <2>1, <2>3, <2>4 DEF ChainOK
<1>9. SigRound(t) = n + 2 /\ SigRound(node[i]) = n + 1
  BY <1>1, <1>5, <1>7 DEF SigRound
<1>10. GoodEpoch(i, t)
  <2>1. ASSUME NEW k \in t.out PROVE MessageOK(node, k)
    <3>1. k = SigPropose(n + 2, s.head) /\ n + 2 <= MaxRound
      BY <1>2, <1>3, <1>9, <2>1
    <3>2. s.head \in Blocks /\ n + 2 \in 1 .. MaxRound
      BY <1>1, <3>1, Constants DEF ChainOK, BlocksOK
    <3> QED BY <3>1, <3>2 DEF SigPropose, SigMessages, MessageOK
  <2> QED BY <1>1, <1>3, <2>1, EpochKept
<1>11. GoodSig(i, t)
  <2>1. ASSUME NEW r, NEW x, Adopts(t, r, x) PROVE Pinned(r, x)
    <3>1. r \in 1 .. (n + 1) /\ t.sig_chain[r] = x
      BY <1>7, <2>1 DEF Adopts
    <3>2. CASE r \in 1 .. n
      <4>1. Adopts(node[i], r, x)
        BY <1>1, <1>5, <1>7, <3>1, <3>2 DEF Adopts
      <4> QED BY <4>1 DEF Pinned
    <3>3. CASE r = n + 1
      <4>1. Carries(inbox[i], r, x)
        BY <1>4, <1>6, <1>7, <3>1, <3>3 DEF Carries
      <4> QED BY <4>1 DEF Pinned
    <3> QED BY <3>1, <3>2, <3>3
  <2>2. \A r, x : Carries(t.pending_attestations, r, x) => Pinned(r, x)
    <3>1. \A r, x : Carries(t.pending_attestations, r, x) =>
                       Carries(node[i].pending_attestations, r, x)
      BY <1>1, <1>3
    <3> QED BY <3>1 DEF Pinned
  <2>3. ASSUME NEW r, NEW x, Carries(t.out, r, x) PROVE Fresh(i, t, r, x)
    <3>1. PICK k \in t.out : k.round = r /\ k.pin = x
      BY <2>3 DEF Carries
    <3>2. /\ k = SigPropose(SigRound(t), t.head) /\ t.rleader_waiting_fresh = FALSE
          /\ LeaderOf[SigRound(t)] = i /\ SigRound(t) <= MaxRound
      BY <1>2, <3>1
    <3>3. r = SigRound(t) /\ x = t.head
      BY <3>1, <3>2 DEF SigPropose
    <3>4. r \in 1 .. MaxRound /\ SigRound(node[i]) < r
      BY <1>9, <3>2, <3>3, Constants
    <3> QED BY <3>2, <3>3, <3>4 DEF Fresh
  <2>4. Len(t.sig_chain) >= Len(node[i].sig_chain)
    BY <1>1, <1>5, <1>7
  <2>5. t.rleader_waiting_fresh => node[i].rleader_waiting_fresh
    BY <1>1, <1>2
  <2> QED BY <2>1, <2>2, <2>3, <2>4, <2>5 DEF GoodSig
<1>12. Moves(node[i], t)
  <2>1. s.head \in Blocks
    BY <1>1 DEF ChainOK, BlocksOK
  <2> QED BY <1>1, <1>3, <2>1, PrefixOrder DEF Moves
<1> QED BY <1>3, <1>8, <1>10, <1>11, <1>12 DEF GoodStep

\* handle_sig_proposal
LEMMA HandleSigProposalGood ==
    ASSUME ZeusInv, NEW i \in Ids, NEW m \in inbox[i], m.type = "SigPropose",
           m.round = SigRound(node[i]), NEW t, t = HandleSigProposal(node[i], i, m)
    PROVE  GoodStep(i, t)
<1>1. m \in SigMessages /\ DOMAIN node[i] = Fields
  BY OneServer DEF MessageOK
<1>2. CASE AttestationValid(node[i], m.pin) = "Parked"
  <2>1. t = Requests([node[i] EXCEPT !.pending_attestations = @ \cup {m}], m.pin)
    BY <1>2 DEF HandleSigProposal
  <2> QED BY <1>1, <2>1, ParkAttestation
<1>3. CASE AttestationValid(node[i], m.pin) = "Invalid"
  BY <1>3, NothingGood DEF HandleSigProposal
<1>4. CASE AttestationValid(node[i], m.pin) = "Valid"
  <2>1. t = AdvanceSigRound(node[i], i, m.pin)
    BY <1>4 DEF HandleSigProposal
  <2>2. m.pin \in node[i].store
    BY <1>4 DEF AttestationValid
  <2>3. Adopting(i, node[i], m.pin, t)
    BY <1>1, <2>1, AdvanceSigRoundIs
  <2> QED BY <1>1, <2>2, <2>3, AdoptGood
<1> QED BY <1>2, <1>3, <1>4 DEF AttestationValid

----------------------------------------------------------------------------
\* on_eleader_propose: the block is of the server's epoch, and of one more batch.
LEMMA ProposeGood ==
    ASSUME ZeusInv, NEW i \in Ids, OnEleaderPropose(i)
    PROVE  \E t : GoodStep(i, t) /\ Done(i, t, {})
<1>1. PICK s : s = node[i] /\ DOMAIN s = Fields /\ ChainOK(s) /\ EpochOK(s) /\ s.out = {}
  BY OneServer
<1> DEFINE parent == IF s.last_proposed # NoBlock THEN s.last_proposed
                     ELSE IF DStar(s) \in s.store THEN DStar(s) ELSE Genesis
           last == <<s.current_epoch, s.batches + 1>>
           b == Append(parent, last)
<1>2. PICK t : t = Sends([s EXCEPT !.last_proposed = b, !.batches = @ + 1], {DataPropose(b)})
  OBVIOUS
<1>3. Done(i, t, {}) /\ SumFunctionOnSet([j \in Ids |-> node[j].batches], Ids) < MaxBatches
  BY <1>1, <1>2 DEF OnEleaderPropose
<1>4. s.batches + 1 \in 1 .. MaxBatches /\ s.batches \in Nat
  <2>1. PICK f : f = [j \in Ids |-> node[j].batches]
    OBVIOUS
  <2>2. \A j \in Ids : f[j] \in Nat
    BY <2>1, OneServer DEF ChainOK, ProposerOK
  <2>3. /\ SumFunctionOnSet(f, Ids) \in Nat /\ SumFunctionOnSet(f, Ids \ {i}) \in Nat
        /\ SumFunctionOnSet(f, Ids) = f[i] + SumFunctionOnSet(f, Ids \ {i})
    BY <2>2, Constants, SumRemove
  <2>4. f[i] = s.batches /\ f[i] \in Nat /\ SumFunctionOnSet(f, Ids) < MaxBatches
    BY <1>1, <1>3, <2>1, <2>2
  <2> QED BY <2>3, <2>4, Constants
<1>5. parent \in Blocks
  <2>1. Genesis \in Blocks /\ DStar(s) \in Blocks
    BY <1>1, DStarIs DEF ChainOK, BlocksOK
  <2> QED BY <1>1, <2>1 DEF ChainOK, ProposerOK
<1>6. last \in (1 .. MaxEpoch) \X (1 .. MaxBatches)
  BY <1>1, <1>4 DEF EpochOK
<1> HIDE DEF parent
<1>7. b \in Blocks /\ EpochOf(b) = s.current_epoch
  <2> DEFINE S == (1 .. MaxEpoch) \X (1 .. MaxBatches)
  <2>1. parent \in Seq(S) /\ last \in S
    BY <1>5, <1>6 DEF Blocks
  <2>2. last[1] = s.current_epoch
    OBVIOUS
  <2> HIDE DEF S, last
  <2>3. b \in Seq(S) /\ b # <<>> /\ Len(b) = Len(parent) + 1 /\ b[Len(parent) + 1] = last
    BY <2>1, PlacesOfAppend
  <2>4. b[Len(b)][1] = s.current_epoch
    BY <2>2, <2>3
  <2> QED BY <2>3, <2>4 DEF EpochOf, Last, Genesis, Blocks, S
<1> HIDE DEF b
<1>8. /\ Same(s, t, {"last_proposed", "batches", "out"})
      /\ t.last_proposed = b /\ t.batches = s.batches + 1 /\ t.out = {DataPropose(b)}
  BY <1>1, <1>2 DEF Sends, Same, Fields
<1>9. /\ DOMAIN t = Fields
      /\ t.store = s.store /\ t.head = s.head /\ t.child_of = s.child_of
      /\ t.requested = s.requested
      /\ t.pending_data_blocks = s.pending_data_blocks
      /\ t.pending_attestations = s.pending_attestations
      /\ t.sig_chain = s.sig_chain /\ t.commits = s.commits
      /\ t.commit_lock = s.commit_lock /\ t.last_committed = s.last_committed
      /\ t.current_epoch = s.current_epoch /\ t.eleader_blames = s.eleader_blames
      /\ t.admitted_change_qcs = s.admitted_change_qcs
      /\ t.rleader_waiting_fresh = s.rleader_waiting_fresh
  BY <1>8 DEF Same, Fields
<1>10. ChainOK(t)
  <2>1. BlocksOK(t) /\ ParkedOK(t)
    BY <1>1, <1>9 DEF ChainOK, BlocksOK, ParkedOK
  <2>2. DStar(t) = DStar(s) /\ (SingleChain(t) => SingleChain(s))
    BY <1>9, DStarSame
  <2>3. CommitOK(t)
    BY <1>1, <1>9, <2>2 DEF ChainOK, CommitOK
  <2>4. ProposerOK(t)
    BY <1>4, <1>7, <1>8, <1>9 DEF ProposerOK
  <2> QED BY <2>1, <2>3, <2>4 DEF ChainOK
<1>11. \A m \in t.out : MessageOK(node, m) /\ m.type # "SigPropose"
  BY <1>7, <1>8 DEF MessageOK, DataPropose
<1>12. GoodEpoch(i, t)
  BY <1>1, <1>9, <1>11, EpochKept
<1>13. GoodSig(i, t)
  BY <1>1, <1>9, <1>11, NoNewSig
<1>14. Moves(node[i], t)
  <2>1. s.head \in Blocks
    BY <1>1 DEF ChainOK, BlocksOK
  <2> QED BY <1>1, <1>9, <2>1, PrefixOrder DEF Moves
<1> QED BY <1>3, <1>9, <1>10, <1>12, <1>13, <1>14 DEF GoodStep

\* on_data_timer_expired
LEMMA TimerGood ==
    ASSUME ZeusInv, NEW i \in Ids, OnDataTimerExpired(i)
    PROVE  \E t : GoodStep(i, t) /\ Done(i, t, {})
<1>1. DOMAIN node[i] = Fields /\ EpochOK(node[i])
  BY OneServer
<1>2. PICK s : s = [node[i] EXCEPT !.data_timer = FALSE]
  OBVIOUS
<1>3. Same(node[i], s, {"data_timer"})
  BY <1>1, <1>2 DEF Same, Fields
<1>4. PICK blame : blame = Silence(i, node[i].current_epoch)
  OBVIOUS
<1>5. blame.signer = i /\ blame.epoch \in 1 .. node[i].current_epoch
  BY <1>1, <1>4, Constants DEF Silence, EpochOK
<1>6. PICK t : t = Blame(s, i, blame)
  OBVIOUS
<1>7. GoodStep(i, t)
  BY <1>3, <1>5, <1>6, BlameGood
<1>8. Done(i, t, {})
  BY <1>2, <1>4, <1>6 DEF OnDataTimerExpired
<1> QED BY <1>7, <1>8

----------------------------------------------------------------------------
\* The commit walk, step after step.
WalkRule(f, s, h, n) ==
    f = [k \in 0 .. n |-> IF k = 0 THEN s.last_committed ELSE WalkStep(s, h, f[k - 1])]

\* It is defined for any number of steps.
LEMMA WalkExists ==
    ASSUME NEW s, NEW h, NEW n \in Nat
    PROVE  \E f : WalkRule(f, s, h, n)
<1> DEFINE bad == {m \in Nat : ~\E f : WalkRule(f, s, h, m)}
<1> SUFFICES ASSUME bad # {} PROVE FALSE
  OBVIOUS
<1>1. PICK m \in bad : \A k \in bad : m <= k
  <2>1. bad \subseteq Nat
    OBVIOUS
  <2> HIDE DEF bad
  <2> QED BY <2>1, LeastNat
<1>2. m \in Nat /\ \A f : ~WalkRule(f, s, h, m)
  OBVIOUS
<1>3. m # 0
  <2> SUFFICES ASSUME m = 0 PROVE FALSE
    OBVIOUS
  <2>1. PICK f : f = [k \in 0 .. 0 |-> s.last_committed]
    OBVIOUS
  <2>2. f = [k \in 0 .. 0 |-> IF k = 0 THEN s.last_committed ELSE WalkStep(s, h, f[k - 1])]
    BY <2>1
  <2> QED BY <1>2, <2>2 DEF WalkRule
<1>4. m - 1 \in Nat /\ m - 1 \notin bad
  <2>1. m - 1 \in Nat /\ ~(m <= m - 1)
    BY <1>2, <1>3
  <2> HIDE DEF bad
  <2> QED BY <1>1, <2>1
<1>5. PICK g : WalkRule(g, s, h, m - 1)
  BY <1>4
<1>6. PICK f : f = [k \in 0 .. m |-> IF k = m THEN WalkStep(s, h, g[m - 1]) ELSE g[k]]
  OBVIOUS
<1>7. ASSUME NEW k \in 0 .. m
      PROVE  f[k] = IF k = 0 THEN s.last_committed ELSE WalkStep(s, h, f[k - 1])
  <2>1. \A x \in 0 .. (m - 1) : x # m /\ x \in 0 .. m /\ f[x] = g[x]
    BY <1>2, <1>6
  <2>2. CASE k = m
    <3>1. m - 1 \in 0 .. (m - 1)
      BY <1>2, <1>3
    <3>2. f[m - 1] = g[m - 1]
      BY <2>1, <3>1
    <3> QED BY <1>3, <1>6, <2>2, <3>2
  <2>3. CASE k # m
    <3>1. k \in 0 .. (m - 1)
      BY <1>2, <2>3
    <3>2. g[k] = IF k = 0 THEN s.last_committed ELSE WalkStep(s, h, g[k - 1])
      BY <1>5, <3>1 DEF WalkRule
    <3>3. k # 0 => k - 1 \in 0 .. (m - 1)
      BY <1>2, <3>1
    <3> QED BY <2>1, <3>1, <3>2, <3>3
  <2> QED BY <2>2, <2>3
<1>8. WalkRule(f, s, h, m)
  <2>1. f = [k \in 0 .. m |-> f[k]]
    BY <1>6
  <2>2. f = [k \in 0 .. m |-> IF k = 0 THEN s.last_committed ELSE WalkStep(s, h, f[k - 1])]
    BY <1>7, <2>1
  <2> QED BY <2>2 DEF WalkRule
<1> QED BY <1>2, <1>8

\* Where the walk may be: at a stored block, which is the last one committed or
\* no higher than h.
Walked(s, h, c) == c \in s.store /\ (c = s.last_committed \/ Len(c) <= h)

\* One step of the walk.
LEMMA WalkStepOK ==
    ASSUME NEW s, BlocksOK(s), NEW h \in Nat, NEW c, Walked(s, h, c)
    PROVE  Walked(s, h, WalkStep(s, h, c))
<1> DEFINE next == {x \in s.child_of : Parent(x) = c} \cap s.store
<1>1. CASE Height(c) >= h \/ next = {}
  BY <1>1 DEF WalkStep
<1>2. CASE ~(Height(c) >= h) /\ next # {}
  <2>1. PICK x \in next : x = CHOOSE y \in next : TRUE
    BY <1>2
  <2>2. WalkStep(s, h, c) = x
    BY <1>2, <2>1 DEF WalkStep
  <2>3. x \in s.store /\ Parent(x) = c /\ x \in Blocks /\ c \in Blocks
    BY DEF BlocksOK, Walked
  <2>4. Len(x) \in Nat /\ Len(c) \in Nat /\ Len(x) <= Len(c) + 1 /\ ~(Len(c) >= h)
    BY <1>2, <2>3, ParentOf DEF Height
  <2>5. Len(x) <= h
    BY <2>4
  <2> QED BY <2>2, <2>3, <2>5 DEF Walked
<1> QED BY <1>1, <1>2

\* The whole walk.
LEMMA CommitWalkOK ==
    ASSUME NEW s, BlocksOK(s), s.last_committed \in s.store, NEW h \in Nat
    PROVE  Walked(s, h, CommitWalk(s, h))
<1>1. PICK f : WalkRule(f, s, h, h) /\ CommitWalk(s, h) = f[h]
  <2>1. PICK f : f = CHOOSE g : WalkRule(g, s, h, h)
    OBVIOUS
  <2>2. CommitWalk(s, h) = f[h]
    BY <2>1, Zenon DEF CommitWalk, WalkRule
  <2>3. WalkRule(f, s, h, h)
    BY <2>1, WalkExists
  <2> QED BY <2>2, <2>3
<1>2. /\ f[0] = s.last_committed
      /\ \A k \in 0 .. h : k # 0 => f[k] = WalkStep(s, h, f[k - 1])
  <2>1. \A k \in 0 .. h :
           f[k] = IF k = 0 THEN s.last_committed ELSE WalkStep(s, h, f[k - 1])
    BY <1>1, Zenon DEF WalkRule
  <2>2. 0 \in 0 .. h
    OBVIOUS
  <2> QED BY <2>1, <2>2, Zenon
<1> DEFINE bad == {k \in Nat : k <= h /\ ~Walked(s, h, f[k])}
<1>3. bad = {}
  <2> SUFFICES ASSUME bad # {} PROVE FALSE
    OBVIOUS
  <2>1. PICK m \in bad : \A k \in bad : m <= k
    <3>1. bad \subseteq Nat
      OBVIOUS
    <3> HIDE DEF bad
    <3> QED BY <3>1, LeastNat
  <2>2. m \in Nat /\ m <= h /\ ~Walked(s, h, f[m])
    OBVIOUS
  <2>3. m # 0
    BY <1>2, <2>2 DEF Walked
  <2>4. m - 1 \in Nat /\ m - 1 <= h /\ ~(m <= m - 1) /\ m \in 0 .. h
    BY <2>2, <2>3
  <2>5. m - 1 \notin bad
    <3> HIDE DEF bad
    <3> QED BY <2>1, <2>4
  <2>6. Walked(s, h, f[m - 1])
    BY <2>4, <2>5
  <2>7. f[m] = WalkStep(s, h, f[m - 1])
    BY <1>2, <2>3, <2>4
  <2> QED BY <2>2, <2>6, <2>7, WalkStepOK
<1>4. Walked(s, h, f[h])
  BY <1>3
<1> QED BY <1>1, <1>4

\* on_committed_attestation: what is committed stays below D* and, without
\* siblings, on the chain that some committed attestation pins.
LEMMA CommitGood ==
    ASSUME ZeusInv, NEW i \in Ids, OnCommittedAttestation(i)
    PROVE  \E t : GoodStep(i, t) /\ Done(i, t, {})
<1>1. PICK s : s = node[i] /\ DOMAIN s = Fields /\ ChainOK(s) /\ s.out = {}
  BY OneServer
<1>2. BlocksOK(s) /\ CommitOK(s)
  BY <1>1 DEF ChainOK
<1> DEFINE kept(q) == {p \in s.commit_lock : Height(p) >= Height(q)}
           lock(q) == IF kept(q) = {} THEN {q} ELSE kept(q)
<1>3. PICK n \in Nat : n = s.commits /\ n + 1 \in 1 .. Len(s.sig_chain)
  <2>1. s.commits \in Nat /\ Len(s.sig_chain) \in Nat
    BY <1>2 DEF CommitOK
  <2>2. s.commits + 1 <= Len(s.sig_chain)
    BY <1>1 DEF OnCommittedAttestation, Committable
  <2> QED BY <2>1, <2>2
<1>4. PICK pin \in s.store : pin = s.sig_chain[n + 1]
  BY <1>2, <1>3 DEF CommitOK
<1>5. PICK h \in Nat : h = Len(pin) /\ h = Height(pin)
  <2>1. pin \in Blocks
    BY <1>2 DEF BlocksOK
  <2> QED BY <2>1, ParentOf DEF Height
<1>6. PICK w : w = CommitWalk(s, h)
  OBVIOUS
<1>7. w \in s.store /\ (w = s.last_committed \/ Len(w) <= h)
  BY <1>2, <1>6, CommitWalkOK DEF Walked, CommitOK
<1>8. PICK t : t = [s EXCEPT !.commits = n + 1, !.commit_lock = lock(pin), !.last_committed = w]
  OBVIOUS
<1>9. Done(i, t, {})
  BY <1>1, <1>3, <1>4, <1>5, <1>6, <1>8 DEF OnCommittedAttestation
<1>10. /\ lock(pin) \subseteq s.store
       /\ \A p, q \in lock(pin) : p = q
       /\ lock(pin) # {}
       /\ \A p \in lock(pin) : Len(p) >= h
       /\ lock(pin) \subseteq s.commit_lock \/ (lock(pin) = {pin} /\ kept(pin) = {})
  BY <1>2, <1>5 DEF CommitOK, Height
<1>11. PICK L : L = lock(pin)
  OBVIOUS
<1>12. kept(pin) = {} => \A p \in s.commit_lock : ~(Len(p) >= h)
  BY <1>5 DEF Height
<1> HIDE DEF lock, kept
<1>13. /\ Same(s, t, {"commits", "commit_lock", "last_committed"})
       /\ t.commits = n + 1 /\ t.commit_lock = L /\ t.last_committed = w
  BY <1>1, <1>8, <1>11 DEF Same, Fields
<1>14. /\ DOMAIN t = Fields
       /\ t.store = s.store /\ t.head = s.head /\ t.child_of = s.child_of
       /\ t.requested = s.requested
       /\ t.pending_data_blocks = s.pending_data_blocks
       /\ t.pending_attestations = s.pending_attestations
       /\ t.sig_chain = s.sig_chain
       /\ t.last_proposed = s.last_proposed /\ t.batches = s.batches
       /\ t.current_epoch = s.current_epoch /\ t.eleader_blames = s.eleader_blames
       /\ t.admitted_change_qcs = s.admitted_change_qcs
       /\ t.rleader_waiting_fresh = s.rleader_waiting_fresh /\ t.out = {}
  BY <1>1, <1>13 DEF Same, Fields
<1>15. BlocksOK(t) /\ ParkedOK(t) /\ ProposerOK(t)
  BY <1>1, <1>14 DEF ChainOK, BlocksOK, ParkedOK, ProposerOK
<1>16. PICK d \in L : DStar(t) = d
  <2>1. PICK d \in L : L = {d}
    BY <1>10, <1>11
  <2>2. d \in Blocks /\ Len(d) \in Nat
    BY <1>2, <1>10, <1>11, ParentOf DEF BlocksOK
  <2>3. DStar(t) = CHOOSE x \in {d} : \A q \in {d} : Height(q) <= Height(x)
    BY <1>13, <2>1 DEF DStar
  <2>4. Height(d) <= Height(d)
    BY <2>2 DEF Height
  <2> QED BY <2>1, <2>3, <2>4
<1>17. Len(d) \in Nat /\ Len(d) >= h /\ Len(d) >= Len(DStar(s)) /\ Len(DStar(s)) \in Nat
  <2>1. d \in Blocks /\ DStar(s) \in Blocks
    BY <1>2, <1>10, <1>11, DStarIs DEF BlocksOK
  <2>2. Len(d) \in Nat /\ Len(DStar(s)) \in Nat
    BY <2>1, ParentOf
  <2>3. Len(d) >= h
    BY <1>10, <1>11
  <2>4. CASE d \in s.commit_lock
    <3>1. DStar(s) = d
      BY <1>2, <2>4, DStarIs
    <3> QED BY <2>2, <2>3, <3>1
  <2>5. CASE d \notin s.commit_lock
    <3>1. kept(pin) = {} /\ d = pin
      BY <1>10, <1>11, <2>5
    <3>2. CASE s.commit_lock = {}
      <4>1. Len(DStar(s)) = 0
        BY <1>2, <2>1, <3>2, DStarIs, ParentOf
      <4> QED BY <2>2, <2>3, <4>1
    <3>3. CASE s.commit_lock # {}
      <4>1. ~(Len(DStar(s)) >= h)
        BY <1>2, <1>12, <3>1, <3>3, DStarIs
      <4> QED BY <2>2, <2>3, <4>1
    <3> QED BY <3>2, <3>3
  <2> QED BY <2>4, <2>5
<1>18. w \in Blocks /\ pin \in Blocks /\ Len(w) \in Nat
  BY <1>2, <1>7, ParentOf DEF BlocksOK
<1>19. Len(w) <= Len(DStar(t))
  <2>1. w = s.last_committed => Len(w) <= Len(DStar(s))
    BY <1>2 DEF CommitOK
  <2> QED BY <1>7, <1>16, <1>17, <1>18, <2>1
<1>20. ASSUME SingleChain(s), w # Genesis
       PROVE  \E r \in 1 .. (n + 1) : IsPrefix(w, s.sig_chain[r])
  <2>1. CASE w = s.last_committed
    <3>1. PICK r \in 1 .. n : IsPrefix(w, s.sig_chain[r])
      BY <1>2, <1>3, <1>20, <2>1 DEF CommitOK
    <3>2. r \in 1 .. (n + 1)
      OBVIOUS
    <3> QED BY <3>1, <3>2
  <2>2. CASE Len(w) <= h
    <3>1. Comparable(w, pin)
      BY <1>2, <1>7, <1>20, ChainComparable
    <3>2. IsPrefix(w, pin)
      <4> SUFFICES ASSUME IsPrefix(pin, w) PROVE IsPrefix(w, pin)
        BY <3>1 DEF Comparable
      <4>1. h <= Len(w) /\ \A k \in 1 .. h : pin[k] = w[k]
        BY <1>5, <1>18, PrefixMeans
      <4>2. Len(w) = h
        BY <1>18, <2>2, <4>1
      <4>3. Len(w) <= Len(pin) /\ \A k \in 1 .. Len(w) : w[k] = pin[k]
        BY <1>5, <4>1, <4>2
      <4> QED BY <1>18, <4>3, PrefixMeans
    <3>3. n + 1 \in 1 .. (n + 1)
      OBVIOUS
    <3> QED BY <1>4, <3>2, <3>3
  <2> QED BY <1>7, <2>1, <2>2
<1>21. CommitOK(t)
  <2>1. SingleChain(t) => SingleChain(s)
    BY <1>14 DEF SingleChain
  <2>2. n + 1 \in 0 .. Len(s.sig_chain)
    BY <1>3
  <2>3. /\ s.sig_chain \in Seq(Blocks) /\ Len(s.sig_chain) <= MaxRound
        /\ \A r \in 1 .. Len(s.sig_chain) : s.sig_chain[r] \in s.store
    BY <1>2 DEF CommitOK
  <2> QED BY <1>7, <1>10, <1>11, <1>13, <1>14, <1>19, <1>20, <2>1, <2>2, <2>3 DEF CommitOK
<1>22. GoodEpoch(i, t)
  BY <1>1, <1>14, EpochKept
<1>23. GoodSig(i, t)
  BY <1>1, <1>14, NoNewSig
<1>24. Moves(node[i], t)
  <2>1. s.head \in Blocks
    BY <1>2 DEF BlocksOK
  <2> QED BY <1>1, <1>14, <2>1, PrefixOrder DEF Moves
<1> QED BY <1>9, <1>14, <1>15, <1>21, <1>22, <1>23, <1>24 DEF GoodStep, ChainOK

----------------------------------------------------------------------------
\* The invariant holds at the start.
LEMMA ZeusInit == Init => ZeusInv
<1> SUFFICES ASSUME Init PROVE ZeusInv
  OBVIOUS
<1>1. /\ DOMAIN node = Ids /\ DOMAIN inbox = Ids
      /\ \A i \in Ids : node[i] = InitialNode(i) /\ inbox[i] = {}
  BY DEF Init
<1>2. ASSUME NEW i \in Ids, NEW s, s = InitialNode(i)
      PROVE  /\ DOMAIN s = Fields /\ s.out = {}
             /\ ChainOK(s) /\ EpochOK(s)
             /\ s.eleader_blames = {} /\ s.current_epoch = 1
             /\ s.pending_attestations = {} /\ s.sig_chain = <<>>
             /\ s.rleader_waiting_fresh => LeaderOf[1] = i
  <2>1. DOMAIN s = Fields
    BY <1>2 DEF InitialNode, Fields
  <2>2. /\ s.out = {} /\ s.eleader_blames = {} /\ s.current_epoch = 1
        /\ s.pending_attestations = {} /\ s.sig_chain = <<>>
        /\ s.rleader_waiting_fresh = (LeaderOf[1] = i)
        /\ s.head = Genesis /\ s.store = {Genesis} /\ s.child_of = {}
        /\ s.pending_data_blocks = [p \in {} |-> <<>>]
        /\ s.admitted_change_qcs = {0} /\ s.last_proposed = NoBlock /\ s.batches = 0
        /\ s.commits = 0 /\ s.commit_lock = {} /\ s.last_committed = Genesis
        /\ s.requested = {}
    BY <1>2 DEF InitialNode
  <2>3. Genesis \in Blocks /\ Len(Genesis) = 0
    BY DEF Genesis, Blocks
  <2>4. BlocksOK(s)
    <3>1. IsFiniteSet({Genesis})
      BY FS_Singleton
    <3> QED BY <2>2, <2>3, <3>1 DEF BlocksOK
  <2>5. ParkedOK(s)
    <3>1. DOMAIN s.pending_data_blocks = {} /\ IsFiniteSet({})
      BY <2>2, FS_EmptySet
    <3> QED BY <2>2, <3>1 DEF ParkedOK
  <2>6. CommitOK(s)
    <3>1. DStar(s) = Genesis
      BY <2>2 DEF DStar
    <3>2. s.sig_chain \in Seq(Blocks) /\ Len(s.sig_chain) = 0
      BY <2>2
    <3> QED BY <2>2, <2>3, <3>1, <3>2, Constants DEF CommitOK
  <2>7. ProposerOK(s)
    BY <2>2 DEF ProposerOK
  <2>8. EpochOK(s)
    BY <2>2, Constants DEF EpochOK
  <2> QED BY <2>1, <2>2, <2>4, <2>5, <2>6, <2>7, <2>8 DEF ChainOK
<1>3. \A i \in Ids : /\ DOMAIN node[i] = Fields /\ node[i].out = {}
                     /\ ChainOK(node[i]) /\ EpochOK(node[i])
                     /\ node[i].eleader_blames = {} /\ node[i].current_epoch = 1
                     /\ node[i].pending_attestations = {} /\ node[i].sig_chain = <<>>
                     /\ node[i].rleader_waiting_fresh => LeaderOf[1] = i
  BY <1>1, <1>2
<1>4. BlamesSigned(node) /\ PassedEarned(node)
  BY <1>3 DEF BlamesSigned, PassedEarned
<1>5. \A r, b : ~Pinned(r, b)
  BY <1>1, <1>3 DEF Pinned, Carries, Adopts
<1>6. SigAgree
  BY <1>3, <1>5 DEF SigAgree
<1> QED BY <1>1, <1>3, <1>4, <1>6 DEF ZeusInv

\* Every step is that of one server that ends in a good state.
LEMMA StepGood ==
    ASSUME ZeusInv, Next
    PROVE  \E i \in Ids : \E t : \E ms : GoodStep(i, t) /\ Done(i, t, ms)
<1>1. PICK i \in Ids :
          \/ OnEleaderPropose(i)
          \/ OnDataTimerExpired(i)
          \/ OnCommittedAttestation(i)
          \/ \E m \in inbox[i] : Dispatch(i, m) \/ HandleSigOrdered(i, m)
          \/ \E b \in node[i].requested : FetchBlock(i, b)
  BY DEF Next
<1>2. CASE OnEleaderPropose(i)
  BY <1>2, ProposeGood
<1>3. CASE OnDataTimerExpired(i)
  BY <1>3, TimerGood
<1>4. CASE OnCommittedAttestation(i)
  BY <1>4, CommitGood
<1>5. ASSUME NEW m \in inbox[i], Dispatch(i, m) \/ HandleSigOrdered(i, m)
      PROVE  \E t : \E ms : GoodStep(i, t) /\ Done(i, t, ms)
  <2>1. MessageOK(node, m)
    BY OneServer
  <2>2. CASE m.type = "DataPropose" /\ Dispatch(i, m)
    <3>1. Done(i, OnDataPropose(node[i], i, m.block), {m} \cup Missed(i, m))
      BY <2>2 DEF Dispatch
    <3>2. m.block \in Blocks
      BY <2>1, <2>2 DEF MessageOK
    <3>3. GoodStep(i, OnDataPropose(node[i], i, m.block))
      BY <3>2, OnDataProposeGood
    <3> QED BY <3>1, <3>3
  <2>3. CASE m.type = "EleaderBlame" /\ Dispatch(i, m)
    <3>1. Done(i, OnEleaderBlame(node[i], i, m.blame), {m})
      BY <2>3 DEF Dispatch
    <3>2. Signed(node, m.blame)
      BY <2>1, <2>3 DEF MessageOK
    <3>3. GoodStep(i, OnEleaderBlame(node[i], i, m.blame))
      BY <3>2, OnEleaderBlameGood
    <3> QED BY <3>1, <3>3
  <2>4. CASE m.type = "EleaderChangeQC" /\ Dispatch(i, m)
    <3>1. Done(i, OnEleaderChangeQC(node[i], i, m.epoch), {m})
      BY <2>4 DEF Dispatch
    <3>2. m.epoch \in 1 .. (MaxEpoch - 1) /\ Earned(node, m.epoch)
      BY <2>1, <2>4 DEF MessageOK
    <3>3. GoodStep(i, OnEleaderChangeQC(node[i], i, m.epoch))
      BY <3>2, OnEleaderChangeQCGood
    <3> QED BY <3>1, <3>3
  <2>5. CASE HandleSigOrdered(i, m)
    <3>1. /\ m.type = "SigPropose" /\ m.round = SigRound(node[i])
          /\ Done(i, HandleSigProposal(node[i], i, m), {m})
      BY <2>5 DEF HandleSigOrdered
    <3>2. GoodStep(i, HandleSigProposal(node[i], i, m))
      BY <3>1, HandleSigProposalGood
    <3> QED BY <3>1, <3>2
  <2> QED BY <1>5, <2>2, <2>3, <2>4, <2>5 DEF Dispatch
<1>6. ASSUME NEW b \in node[i].requested, FetchBlock(i, b)
      PROVE  \E t : \E ms : GoodStep(i, t) /\ Done(i, t, ms)
  <2>1. b \in Blocks
    BY OneServer DEF ChainOK, BlocksOK
  <2>2. GoodStep(i, OnDataResponse(node[i], i, b))
    BY <2>1, OnDataResponseGood
  <2>3. Done(i, OnDataResponse(node[i], i, b), {})
    BY <1>6 DEF FetchBlock
  <2> QED BY <2>2, <2>3
<1> QED BY <1>1, <1>2, <1>3, <1>4, <1>5, <1>6

\* The invariant is kept, and the heads move as they should.
LEMMA ZeusNext == ZeusInv /\ [Next]_vars => ZeusInv'
<1> SUFFICES ASSUME ZeusInv, [Next]_vars PROVE ZeusInv'
  OBVIOUS
<1>1. CASE Next
  BY <1>1, StepGood, StepOK
<1>2. CASE UNCHANGED vars
  BY <1>2 DEF vars, ZeusInv, SigAgree, Pinned, BlamesSigned, PassedEarned
<1> QED BY <1>1, <1>2

----------------------------------------------------------------------------
\* The inductive invariant holds in every state of every behaviour of the data
\* plane: what the servers hold, have blamed and have adopted fits together.
THEOREM InvariantHolds == Spec => []ZeusInv
BY ZeusInit, ZeusNext, PTL DEF Spec

\* Blocks, epochs, QCs and rounds are in their ranges for every server, and what
\* it remembers as its last proposal is of its current epoch (advance_to_epoch
\* resets it).
THEOREM TypeCorrect == Spec => []TypeOK
<1>1. ZeusInv => TypeOK
  <2> SUFFICES ASSUME ZeusInv PROVE TypeOK
    OBVIOUS
  <2>1. \A b \in Blocks : IsBlock(b)
    <3> SUFFICES ASSUME NEW b \in Blocks, NEW k \in DOMAIN b
                 PROVE  b[k][1] \in 1 .. MaxEpoch /\ b[k][2] \in 1 .. MaxBatches
      BY DEF IsBlock
    <3>1. b[k] \in (1 .. MaxEpoch) \X (1 .. MaxBatches)
      BY DEF Blocks
    <3> QED BY <3>1
  <2>2. ASSUME NEW i \in Ids, NEW s, s = node[i]
        PROVE  /\ s.current_epoch \in 1 .. MaxEpoch
               /\ \A b \in s.store \cup s.requested \cup {s.head, s.last_committed} : IsBlock(b)
               /\ s.child_of \cup s.commit_lock \subseteq s.store
               /\ s.last_proposed # NoBlock => EpochOf(s.last_proposed) = s.current_epoch
               /\ s.admitted_change_qcs \subseteq 0 .. (MaxEpoch - 1)
               /\ s.commits <= Len(s.sig_chain) /\ Len(s.sig_chain) <= MaxRound
               /\ s.out = {}
    <3>1. ChainOK(s) /\ EpochOK(s) /\ s.out = {}
      BY <2>2, OneServer
    <3>2. s.commits <= Len(s.sig_chain) /\ Len(s.sig_chain) <= MaxRound
      BY <3>1 DEF ChainOK, CommitOK
    <3>3. \A b \in s.store \cup s.requested \cup {s.head, s.last_committed} : b \in Blocks
      BY <3>1 DEF ChainOK, BlocksOK, CommitOK
    <3>4. s.child_of \cup s.commit_lock \subseteq s.store
      BY <3>1 DEF ChainOK, BlocksOK, CommitOK
    <3> QED BY <2>1, <3>1, <3>2, <3>3, <3>4 DEF ChainOK, ProposerOK, EpochOK
  <2> QED BY <2>2 DEF TypeOK
<1> QED BY <1>1, InvariantHolds, PTL

\* Every stored block has its parent stored, through parking, drains, fetches and
\* truncation, and the head and the last committed block are stored.
THEOREM StoreStaysChained == Spec => []StoreChained
<1>1. ZeusInv => StoreChained
  BY OneServer DEF StoreChained, ChainOK, BlocksOK, CommitOK
<1> QED BY <1>1, InvariantHolds, PTL

\* A server is in the epoch after the last one it knows to be over.
THEOREM EpochsFollowQCs == Spec => []EpochFollowsQCs
<1>1. ZeusInv => EpochFollowsQCs
  BY OneServer DEF EpochFollowsQCs, EpochOK
<1> QED BY <1>1, InvariantHolds, PTL

\* Every epoch a server has left was blamed by more than f servers, whichever of
\* them formed the QC and whatever epochs the server skipped.
THEOREM EveryEpochEarned == Spec => []EpochsEarned
<1>1. ZeusInv => EpochsEarned
  <2> SUFFICES ASSUME ZeusInv, NEW i \in Ids, NEW e \in 1 .. (node[i].current_epoch - 1)
               PROVE  Cardinality({j \in Ids : \E b \in BlamesOf(node[j], e) :
                                                  b.signer = j /\ b.valid}) > NumFaults
    BY DEF EpochsEarned
  <2>1. {j \in Ids : \E b \in BlamesOf(node[j], e) : b.signer = j /\ b.valid}
            = Blamers(node, e)
    BY DEF Blamers, BlamesOf
  <2>2. Earned(node, e)
    BY OneServer
  <2> QED BY <2>1, <2>2 DEF Earned
<1> QED BY <1>1, InvariantHolds, PTL

\* As long as no server stores two children of one block, the servers commit one
\* chain: each commits along the pins of one signature chain.
THEOREM OneChainCommitted == Spec => []SingleChainAgreement
<1>1. ASSUME ZeusInv, \A k \in Ids : SingleChain(node[k]), NEW i \in Ids, NEW j \in Ids,
             Len(node[i].sig_chain) <= Len(node[j].sig_chain)
      PROVE  Comparable(node[i].last_committed, node[j].last_committed)
  <2>1. PICK s : s = node[i] /\ BlocksOK(s) /\ CommitOK(s)
    BY <1>1, OneServer DEF ChainOK
  <2>2. PICK t : t = node[j] /\ BlocksOK(t) /\ CommitOK(t)
    BY <1>1, OneServer DEF ChainOK
  <2>3. PICK a \in Blocks : a = s.last_committed
    BY <2>1 DEF BlocksOK, CommitOK
  <2>4. PICK c \in Blocks : c = t.last_committed
    BY <2>2 DEF BlocksOK, CommitOK
  <2>5. CASE a = Genesis \/ c = Genesis
    BY <2>1, <2>2, <2>3, <2>4, <2>5, PrefixOrder DEF Comparable
  <2>6. CASE a # Genesis /\ c # Genesis
    <3>1. PICK r \in 1 .. s.commits : IsPrefix(a, s.sig_chain[r])
      BY <1>1, <2>1, <2>3, <2>6 DEF CommitOK
    <3>2. PICK q \in 1 .. t.commits : IsPrefix(c, t.sig_chain[q])
      BY <1>1, <2>2, <2>4, <2>6 DEF CommitOK
    <3>3. r \in 1 .. Len(s.sig_chain) /\ r \in 1 .. Len(t.sig_chain) /\ q \in 1 .. Len(t.sig_chain)
      <4>1. /\ s.commits \in 0 .. Len(s.sig_chain) /\ Len(s.sig_chain) \in Nat
            /\ t.commits \in 0 .. Len(t.sig_chain) /\ Len(t.sig_chain) \in Nat
        BY <2>1, <2>2 DEF CommitOK
      <4>2. Len(s.sig_chain) <= Len(t.sig_chain)
        BY <1>1, <2>1, <2>2
      <4> QED BY <4>1, <4>2
    <3>4. s.sig_chain[r] = t.sig_chain[r]
      <4>1. Adopts(node[i], r, s.sig_chain[r]) /\ Adopts(node[j], r, t.sig_chain[r])
        BY <2>1, <2>2, <3>3 DEF Adopts
      <4>2. Pinned(r, s.sig_chain[r]) /\ Pinned(r, t.sig_chain[r])
        BY <4>1 DEF Pinned
      <4> QED BY <1>1, <4>2 DEF ZeusInv, SigAgree
    <3>5. PICK x \in t.store : x = t.sig_chain[r]
      BY <2>2, <3>3 DEF CommitOK
    <3>6. PICK y \in t.store : y = t.sig_chain[q]
      BY <2>2, <3>3 DEF CommitOK
    <3>7. x \in Blocks /\ y \in Blocks
      BY <2>2 DEF BlocksOK
    <3>8. Comparable(x, y)
      BY <1>1, <2>2, ChainComparable
    <3>9. IsPrefix(a, x) /\ IsPrefix(c, y)
      BY <3>1, <3>2, <3>4, <3>5, <3>6
    <3>10. (IsPrefix(a, y) /\ IsPrefix(c, y)) \/ (IsPrefix(a, x) /\ IsPrefix(c, x))
      BY <3>7, <3>8, <3>9, PrefixOrder DEF Comparable
    <3>11. Comparable(a, c)
      BY <3>7, <3>10, PrefixOrder
    <3> QED BY <2>1, <2>2, <2>3, <2>4, <3>11
  <2> QED BY <2>5, <2>6
<1>2. ZeusInv => SingleChainAgreement
  <2> SUFFICES ASSUME ZeusInv,
                      \A i \in Ids : \A b, c \in node[i].store \ {Genesis} :
                          Parent(b) = Parent(c) => b = c,
                      NEW i \in Ids, NEW j \in Ids
               PROVE  Comparable(node[i].last_committed, node[j].last_committed)
    BY DEF SingleChainAgreement
  <2>1. \A k \in Ids : SingleChain(node[k])
    BY DEF SingleChain
  <2>2. Len(node[i].sig_chain) \in Nat /\ Len(node[j].sig_chain) \in Nat
    BY OneServer DEF ChainOK, CommitOK
  <2>3. CASE Len(node[i].sig_chain) <= Len(node[j].sig_chain)
    BY <1>1, <2>1, <2>3
  <2>4. CASE Len(node[j].sig_chain) <= Len(node[i].sig_chain)
    <3>1. Comparable(node[j].last_committed, node[i].last_committed)
      BY <1>1, <2>1, <2>4
    <3> QED BY <3>1 DEF Comparable
  <2> QED BY <2>2, <2>3, <2>4
<1> QED BY <1>2, InvariantHolds, PTL

\* Within an epoch a server's head only grows, and a server that leaves an epoch
\* does not truncate its head below what it has committed.
THEOREM HeadNeverBelowCommit == Spec => HeadMoves
<1>1. ZeusInv /\ [Next]_vars =>
         [\A i \in Ids :
             IF node'[i].current_epoch = node[i].current_epoch
             THEN IsPrefix(node[i].head, node'[i].head)
             ELSE Height(node'[i].head) >= Height(node[i].last_committed)]_vars
  <2> SUFFICES ASSUME ZeusInv, Next, NEW i \in Ids
               PROVE  IF node'[i].current_epoch = node[i].current_epoch
                      THEN IsPrefix(node[i].head, node'[i].head)
                      ELSE Height(node'[i].head) >= Height(node[i].last_committed)
    OBVIOUS
  <2>1. Moves(node[i], node'[i])
    BY StepGood, StepOK
  <2> QED BY <2>1 DEF Moves
<1> QED BY <1>1, InvariantHolds, PTL DEF Spec, HeadMoves
=============================================================================
