---------------------------- MODULE MempoolProofs ---------------------------
(***************************************************************************)
(* Proofs about the transaction pool, for any clients, nonces, rounds and  *)
(* sizes: every operation keeps SoundPool, so the pool is sound after any  *)
(* sequence of calls, and no call loses a transaction it should keep.      *)
(* The second half is about the pool in its server: engine, commit task    *)
(* and batcher run at their own pace, and NodeInv ties the marks of the    *)
(* pool to the commits the batcher has read.                               *)
(***************************************************************************)
EXTENDS NodeMempool, DataLemmas

----------------------------------------------------------------------------
\* Max of a nonempty set of nonces is a member and an upper bound.
LEMMA MaxOfNonces ==
    ASSUME NEW S, S \subseteq Nonces, S # {}
    PROVE  Max(S) \in S /\ \A y \in S : y <= Max(S)
<1>1. S \subseteq Nat /\ MaxNonce \in Nat /\ \A x \in S : x <= MaxNonce
  BY PoolAssumption DEF Nonces
<1>2. \E x \in S : \A y \in S : x >= y
  BY <1>1, GreatestNat
<1>3. Max(S) \in S /\ \A y \in S : Max(S) >= y
  BY <1>2 DEF Max
<1> QED BY <1>1, <1>3

----------------------------------------------------------------------------
\* add_tx keeps the pool sound.
LEMMA AddTxSound ==
    ASSUME NEW p, SoundPool(p), NEW k \in TxKey, NEW size \in Sizes
    PROVE  SoundPool(add_tx(p, k, size))
<1> DEFINE q == add_tx(p, k, size)
<1>1. CASE ~ Accepts(p, k)
  BY <1>1 DEF add_tx
<1>2. CASE Accepts(p, k)
  <2>1. /\ q.inflight = p.inflight
        /\ q.inflight_by_round = p.inflight_by_round
        /\ q.high_committed_nonce = p.high_committed_nonce
        /\ DOMAIN q.mineable = DOMAIN p.mineable \cup {k}
        /\ q.mineable[k] = size
        /\ \A m \in DOMAIN p.mineable \ {k} : q.mineable[m] = p.mineable[m]
        /\ q = [mineable |-> q.mineable, mineable_bytes |-> q.mineable_bytes,
                inflight |-> q.inflight, inflight_by_round |-> q.inflight_by_round,
                high_committed_nonce |-> q.high_committed_nonce]
    BY <1>2 DEF add_tx, InsertMineable, SoundPool, TypedPool
  <2> HIDE DEF q
  <2>2. TypedPool(q)
    BY <2>1 DEF SoundPool, TypedPool
  <2>3. DisjointBuckets(q) /\ FreshMineable(q)
    BY <1>2, <2>1 DEF SoundPool, DisjointBuckets, FreshMineable, Accepts, Fresh
  <2>4. ExactIndex(q)
    BY <2>1 DEF SoundPool, ExactIndex
  <2> QED BY <2>2, <2>3, <2>4 DEF SoundPool, q
<1> QED BY <1>1, <1>2

\* A batch maps keys to sizes.
LEMMA BatchIsTyped ==
    ASSUME NEW batch \in Batches
    PROVE  DOMAIN batch \subseteq TxKey /\ \A k \in DOMAIN batch : batch[k] \in Sizes
BY DEF Batches, PartialFn

(***************************************************************************)
(* Moving a set of keys to InFlight under one round keeps the pool sound,  *)
(* if none of them was InFlight.  admit_proposal and make_batch are both   *)
(* such a move.                                                            *)
(***************************************************************************)
LEMMA PromoteSound ==
    ASSUME NEW p, SoundPool(p), NEW q, NEW new \in SUBSET TxKey, NEW r \in Rounds,
           new \cap DOMAIN p.inflight = {},
           q = [mineable |-> q.mineable, mineable_bytes |-> q.mineable_bytes,
                inflight |-> q.inflight, inflight_by_round |-> q.inflight_by_round,
                high_committed_nonce |-> q.high_committed_nonce],
           q.high_committed_nonce = p.high_committed_nonce,
           q.mineable = Restrict(p.mineable, DOMAIN p.mineable \ new),
           DOMAIN q.inflight = DOMAIN p.inflight \cup new,
           \A k \in DOMAIN p.inflight : q.inflight[k] = p.inflight[k],
           \A k \in new : q.inflight[k] \in InflightEntry /\ q.inflight[k].round = r,
           q.inflight_by_round = IndexUnder(p.inflight_by_round, r, new)
    PROVE  SoundPool(q)
<1>1. /\ DOMAIN q.mineable = DOMAIN p.mineable \ new
      /\ \A k \in DOMAIN q.mineable : q.mineable[k] = p.mineable[k]
  BY DEF Restrict
<1>2. /\ DOMAIN q.inflight_by_round = DOMAIN p.inflight_by_round \cup {r}
      /\ \A s \in DOMAIN p.inflight_by_round \ {r} :
            q.inflight_by_round[s] = p.inflight_by_round[s]
      /\ r \in DOMAIN p.inflight_by_round
            => q.inflight_by_round[r] = p.inflight_by_round[r] \cup new
      /\ r \notin DOMAIN p.inflight_by_round => q.inflight_by_round[r] = new
  BY DEF IndexUnder
<1>3. TypedPool(q)
  BY <1>1, <1>2 DEF SoundPool, TypedPool
<1>4. DisjointBuckets(q)
  BY <1>1 DEF SoundPool, DisjointBuckets
<1>5. FreshMineable(q)
  BY <1>1 DEF SoundPool, FreshMineable, Fresh
<1>6. ExactIndex(q)
  <2> SUFFICES ASSUME NEW k \in TxKey, NEW s \in Rounds
               PROVE  (s \in DOMAIN q.inflight_by_round /\ k \in q.inflight_by_round[s])
                        <=> (k \in DOMAIN q.inflight /\ q.inflight[k].round = s)
    BY DEF ExactIndex
  <2>1. (s \in DOMAIN p.inflight_by_round /\ k \in p.inflight_by_round[s])
          <=> (k \in DOMAIN p.inflight /\ p.inflight[k].round = s)
    BY DEF SoundPool, ExactIndex
  <2>2. CASE s = r
    BY <1>2, <2>1, <2>2
  <2>3. CASE s # r
    BY <1>2, <2>1, <2>3
  <2> QED BY <2>2, <2>3
<1> QED BY <1>3, <1>4, <1>5, <1>6 DEF SoundPool

\* admit_proposal keeps the pool sound.
LEMMA AdmitProposalSound ==
    ASSUME NEW p, SoundPool(p), NEW batch \in Batches, NEW r \in Rounds
    PROVE  SoundPool(admit_proposal(p, batch, r))
<1> DEFINE q == admit_proposal(p, batch, r)
           new == AdmittedKeys(p, batch)
<1>1. /\ new \in SUBSET TxKey
      /\ new \cap DOMAIN p.inflight = {}
  BY BatchIsTyped DEF AdmittedKeys, Accepts
<1>2. /\ q = [mineable |-> q.mineable, mineable_bytes |-> q.mineable_bytes,
              inflight |-> q.inflight, inflight_by_round |-> q.inflight_by_round,
              high_committed_nonce |-> q.high_committed_nonce]
      /\ q.high_committed_nonce = p.high_committed_nonce
      /\ q.mineable = Restrict(p.mineable, DOMAIN p.mineable \ new)
      /\ DOMAIN q.inflight = DOMAIN p.inflight \cup new
      /\ q.inflight_by_round = IndexUnder(p.inflight_by_round, r, new)
  BY DEF admit_proposal
<1>3. \A k \in DOMAIN p.inflight : q.inflight[k] = p.inflight[k]
  BY <1>1 DEF admit_proposal
<1>4. \A k \in new : q.inflight[k] \in InflightEntry /\ q.inflight[k].round = r
  <2> SUFFICES ASSUME NEW k \in new
               PROVE  q.inflight[k] \in InflightEntry /\ q.inflight[k].round = r
    OBVIOUS
  <2>1. PICK size \in Sizes : q.inflight[k] = [size |-> size, round |-> r]
    <3>1. CASE k \in DOMAIN p.mineable
      <4>1. q.inflight[k] = [size |-> p.mineable[k], round |-> r]
        BY <3>1 DEF admit_proposal
      <4> QED BY <4>1, <3>1 DEF SoundPool, TypedPool
    <3>2. CASE k \notin DOMAIN p.mineable
      <4>1. q.inflight[k] = [size |-> batch[k], round |-> r]
        BY <3>2 DEF admit_proposal
      <4>2. batch[k] \in Sizes
        BY BatchIsTyped DEF AdmittedKeys
      <4> QED BY <4>1, <4>2
    <3> QED BY <3>1, <3>2
  <2> QED BY <2>1 DEF InflightEntry
<1> HIDE DEF q, new
<1>5. SoundPool(q)
  BY <1>1, <1>2, <1>3, <1>4, PromoteSound
<1> QED BY <1>5 DEF q

\* make_batch keeps the pool sound.
LEMMA MakeBatchSound ==
    ASSUME NEW p, SoundPool(p), NEW r \in Rounds
    PROVE  SoundPool(make_batch(p, r))
<1> DEFINE q == make_batch(p, r)
           new == TakenKeys(p)
<1>1. /\ new \subseteq DOMAIN p.mineable
      /\ new \in SUBSET TxKey
      /\ new \cap DOMAIN p.inflight = {}
  BY DEF TakenKeys, SoundPool, TypedPool, DisjointBuckets
<1>2. /\ q = [mineable |-> q.mineable, mineable_bytes |-> q.mineable_bytes,
              inflight |-> q.inflight, inflight_by_round |-> q.inflight_by_round,
              high_committed_nonce |-> q.high_committed_nonce]
      /\ q.high_committed_nonce = p.high_committed_nonce
      /\ q.mineable = Restrict(p.mineable, DOMAIN p.mineable \ new)
      /\ DOMAIN q.inflight = DOMAIN p.inflight \cup new
      /\ q.inflight_by_round = IndexUnder(p.inflight_by_round, r, new)
  BY DEF make_batch
<1>3. \A k \in DOMAIN p.inflight : q.inflight[k] = p.inflight[k]
  BY <1>1 DEF make_batch
<1>4. \A k \in new : q.inflight[k] = [size |-> p.mineable[k], round |-> r]
  BY DEF make_batch
<1> HIDE DEF q, new
<1>5. \A k \in new : q.inflight[k] \in InflightEntry /\ q.inflight[k].round = r
  <2> SUFFICES ASSUME NEW k \in new
               PROVE  q.inflight[k] \in InflightEntry /\ q.inflight[k].round = r
    OBVIOUS
  <2>1. PICK size \in Sizes : q.inflight[k] = [size |-> size, round |-> r]
    BY <1>1, <1>4 DEF SoundPool, TypedPool
  <2> QED BY <2>1 DEF InflightEntry
<1>6. SoundPool(q)
  BY <1>1, <1>2, <1>3, <1>5, PromoteSound
<1> QED BY <1>6 DEF q

\* The raised high-water mark of a client is a nonce, not below the old mark
\* and not below any nonce of the client in the batch.
LEMMA RaisedNonceBounds ==
    ASSUME NEW p, TypedPool(p), NEW keys \in SUBSET TxKey, NEW c \in Clients
    PROVE  /\ RaisedNonce(p, keys, c) \in Nonces
           /\ p.high_committed_nonce[c] <= RaisedNonce(p, keys, c)
           /\ \A n \in Nonces : <<c, n>> \in keys => n <= RaisedNonce(p, keys, c)
<1> DEFINE S == {p.high_committed_nonce[c]} \cup {n \in Nonces : <<c, n>> \in keys}
<1>1. S \subseteq Nonces /\ S # {}
  BY DEF TypedPool
<1>2. Max(S) \in S /\ \A y \in S : y <= Max(S)
  BY <1>1, MaxOfNonces
<1>3. RaisedNonce(p, keys, c) = Max(S)
  BY DEF RaisedNonce
<1> QED BY <1>1, <1>2, <1>3

\* commit keeps the pool sound.
LEMMA CommitSound ==
    ASSUME NEW p, SoundPool(p), NEW batch \in Batches, NEW r \in Rounds
    PROVE  SoundPool(commit(p, batch, r))
<1> DEFINE q == commit(p, batch, r)
           keys == DOMAIN batch
<1>1. keys \in SUBSET TxKey
  BY BatchIsTyped
<1>2. /\ q = [mineable |-> q.mineable, mineable_bytes |-> q.mineable_bytes,
              inflight |-> q.inflight, inflight_by_round |-> q.inflight_by_round,
              high_committed_nonce |-> q.high_committed_nonce]
      /\ q.high_committed_nonce = [c \in Clients |-> RaisedNonce(p, keys, c)]
      /\ q.inflight = Restrict(p.inflight, DOMAIN p.inflight \ keys)
      /\ q.inflight_by_round = WithoutEmpty(Unindexed(p, keys), r)
  BY DEF commit
<1>3. /\ DOMAIN q.mineable \subseteq DOMAIN p.mineable
      /\ \A k \in DOMAIN q.mineable :
            /\ q.mineable[k] = p.mineable[k]
            /\ k[1] \in {m[1] : m \in keys} => ~ (k[2] <= q.high_committed_nonce[k[1]])
  BY DEF commit, Collected, Restrict
<1> HIDE DEF q, keys
<1>4. /\ DOMAIN q.inflight = DOMAIN p.inflight \ keys
      /\ \A k \in DOMAIN q.inflight : q.inflight[k] = p.inflight[k]
  BY <1>2 DEF Restrict
<1>5. /\ DOMAIN q.inflight_by_round \subseteq DOMAIN p.inflight_by_round
      /\ \A s \in DOMAIN q.inflight_by_round :
            q.inflight_by_round[s] = Unindexed(p, keys)[s]
      /\ \A s \in DOMAIN p.inflight_by_round \ DOMAIN q.inflight_by_round :
            Unindexed(p, keys)[s] = {}
  BY <1>2 DEF WithoutEmpty, Unindexed, Restrict
<1>6. \A s \in DOMAIN p.inflight_by_round :
         Unindexed(p, keys)[s] =
           {k \in p.inflight_by_round[s] :
              ~ (k \in keys /\ k \in DOMAIN p.inflight /\ p.inflight[k].round = s)}
  BY DEF Unindexed
<1>7. TypedPool(q)
  <2>1. q.high_committed_nonce \in [Clients -> Nonces]
    BY <1>1, <1>2, RaisedNonceBounds DEF SoundPool
  <2>2. \A s \in DOMAIN q.inflight_by_round : q.inflight_by_round[s] \subseteq TxKey
    BY <1>5, <1>6 DEF SoundPool, TypedPool
  <2> QED BY <1>2, <1>3, <1>4, <1>5, <2>1, <2>2 DEF SoundPool, TypedPool
<1>8. DisjointBuckets(q)
  BY <1>3, <1>4 DEF SoundPool, DisjointBuckets
<1>9. FreshMineable(q)
  <2> SUFFICES ASSUME NEW k \in DOMAIN q.mineable PROVE Fresh(q, k)
    BY DEF FreshMineable
  <2>1. k \in TxKey /\ k[1] \in Clients /\ k[2] \in Nonces /\ k = <<k[1], k[2]>>
    BY <1>3 DEF SoundPool, TypedPool, TxKey
  <2>2. k[2] > p.high_committed_nonce[k[1]]
    BY <1>3 DEF SoundPool, FreshMineable, Fresh
  <2>3. q.high_committed_nonce[k[1]] = RaisedNonce(p, keys, k[1])
    BY <1>2, <2>1
  <2>4. q.high_committed_nonce[k[1]] \in Nonces
    BY <1>1, <2>1, <2>3, RaisedNonceBounds DEF SoundPool
  <2>5. CASE k[1] \in {m[1] : m \in keys}
    BY <1>3, <2>1, <2>4, <2>5, PoolAssumption DEF Fresh, Nonces
  <2>6. CASE k[1] \notin {m[1] : m \in keys}
    <3>1. {n \in Nonces : <<k[1], n>> \in keys} = {}
      <4> SUFFICES ASSUME NEW n \in Nonces, <<k[1], n>> \in keys PROVE FALSE
        OBVIOUS
      <4>1. <<k[1], n>>[1] = k[1]
        OBVIOUS
      <4> QED BY <4>1, <2>6
    <3>2. RaisedNonce(p, keys, k[1]) = Max({p.high_committed_nonce[k[1]]})
      BY <3>1 DEF RaisedNonce
    <3>3. p.high_committed_nonce[k[1]] \in Nonces
      BY <2>1 DEF SoundPool, TypedPool
    <3>4. Max({p.high_committed_nonce[k[1]]}) = p.high_committed_nonce[k[1]]
      BY <3>3, MaxOfNonces
    <3> QED BY <2>2, <2>3, <3>2, <3>4 DEF Fresh
  <2> QED BY <2>5, <2>6
<1>10. ExactIndex(q)
  <2> SUFFICES ASSUME NEW k \in TxKey, NEW s \in Rounds
               PROVE  (s \in DOMAIN q.inflight_by_round /\ k \in q.inflight_by_round[s])
                        <=> (k \in DOMAIN q.inflight /\ q.inflight[k].round = s)
    BY DEF ExactIndex
  <2>1. (s \in DOMAIN p.inflight_by_round /\ k \in p.inflight_by_round[s])
          <=> (k \in DOMAIN p.inflight /\ p.inflight[k].round = s)
    BY DEF SoundPool, ExactIndex
  <2>2. (s \in DOMAIN q.inflight_by_round /\ k \in q.inflight_by_round[s])
          <=> (s \in DOMAIN p.inflight_by_round /\ k \in Unindexed(p, keys)[s])
    BY <1>5
  <2> QED BY <1>4, <1>6, <2>1, <2>2
<1>11. SoundPool(q)
  BY <1>7, <1>8, <1>9, <1>10 DEF SoundPool
<1> QED BY <1>11 DEF q

\* rollback keeps the pool sound.
LEMMA RollbackSound ==
    ASSUME NEW p, SoundPool(p), NEW rounds \in SUBSET Rounds
    PROVE  SoundPool(rollback(p, rounds))
<1> DEFINE q == rollback(p, rounds)
           orphans == Orphans(p, rounds)
           back == Returned(p, rounds)
<1>1. \A k \in TxKey : k \in orphans <=> (k \in DOMAIN p.inflight
                                            /\ p.inflight[k].round \in rounds)
  <2> SUFFICES ASSUME NEW k \in TxKey
               PROVE  k \in orphans <=> (k \in DOMAIN p.inflight
                                           /\ p.inflight[k].round \in rounds)
    OBVIOUS
  <2>1. k \in orphans <=> \E s \in rounds : s \in DOMAIN p.inflight_by_round
                                              /\ k \in p.inflight_by_round[s]
    BY DEF Orphans
  <2>2. \A s \in rounds : (s \in DOMAIN p.inflight_by_round
                             /\ k \in p.inflight_by_round[s])
                            <=> (k \in DOMAIN p.inflight /\ p.inflight[k].round = s)
    BY DEF SoundPool, ExactIndex
  <2> QED BY <2>1, <2>2
<1>2. /\ q = [mineable |-> q.mineable, mineable_bytes |-> q.mineable_bytes,
              inflight |-> q.inflight, inflight_by_round |-> q.inflight_by_round,
              high_committed_nonce |-> q.high_committed_nonce]
      /\ q.high_committed_nonce = p.high_committed_nonce
      /\ DOMAIN q.mineable = DOMAIN p.mineable \cup back
      /\ \A k \in back : q.mineable[k] = p.inflight[k].size
      /\ \A k \in DOMAIN p.mineable \ back : q.mineable[k] = p.mineable[k]
      /\ DOMAIN q.inflight = DOMAIN p.inflight \ orphans
      /\ \A k \in DOMAIN q.inflight : q.inflight[k] = p.inflight[k]
      /\ DOMAIN q.inflight_by_round = DOMAIN p.inflight_by_round \ rounds
      /\ \A s \in DOMAIN q.inflight_by_round :
            q.inflight_by_round[s] = p.inflight_by_round[s]
  BY DEF rollback, Restrict
<1>3. back \subseteq DOMAIN p.inflight /\ \A k \in back : k \in orphans /\ Fresh(p, k)
  BY DEF Returned
<1> HIDE DEF q, orphans, back
<1>4. TypedPool(q)
  <2>1. \A k \in back : p.inflight[k].size \in Sizes
    BY <1>3 DEF SoundPool, TypedPool, InflightEntry
  <2> QED BY <1>2, <1>3, <2>1 DEF SoundPool, TypedPool
<1>5. DisjointBuckets(q)
  BY <1>2, <1>3 DEF SoundPool, DisjointBuckets
<1>6. FreshMineable(q)
  BY <1>2, <1>3 DEF SoundPool, FreshMineable, Fresh
<1>7. ExactIndex(q)
  BY <1>1, <1>2 DEF SoundPool, ExactIndex
<1>8. SoundPool(q)
  BY <1>4, <1>5, <1>6, <1>7 DEF SoundPool
<1> QED BY <1>8 DEF q
----------------------------------------------------------------------------
\* A new pool is sound.
LEMMA PoolInitSound == PoolInit => SoundPool(pool)
<1> SUFFICES ASSUME PoolInit PROVE SoundPool(pool)
  OBVIOUS
<1>1. /\ pool = [mineable |-> pool.mineable, mineable_bytes |-> pool.mineable_bytes,
                 inflight |-> pool.inflight,
                 inflight_by_round |-> pool.inflight_by_round,
                 high_committed_nonce |-> pool.high_committed_nonce]
      /\ DOMAIN pool.mineable = {}
      /\ DOMAIN pool.inflight = {}
      /\ DOMAIN pool.inflight_by_round = {}
      /\ pool.high_committed_nonce = [c \in Clients |-> 0]
  BY DEF PoolInit, EmptyPool
<1>2. 0 \in Nonces
  BY PoolAssumption DEF Nonces
<1> QED BY <1>1, <1>2
        DEF SoundPool, TypedPool, DisjointBuckets, FreshMineable, ExactIndex

\* The pool is sound after any sequence of calls: SoundPool is inductive.
THEOREM PoolSound == PoolSpec => []PoolSoundInv
<1>1. PoolInit => PoolSoundInv
  BY PoolInitSound DEF PoolSoundInv
<1>2. PoolSoundInv /\ [PoolNext]_pool => PoolSoundInv'
  <2> SUFFICES ASSUME SoundPool(pool), [PoolNext]_pool PROVE SoundPool(pool')
    BY DEF PoolSoundInv
  <2>1. CASE AddTx
    BY <2>1, AddTxSound DEF AddTx
  <2>2. CASE AdmitProposal
    BY <2>2, AdmitProposalSound DEF AdmitProposal
  <2>3. CASE MakeBatch
    BY <2>3, MakeBatchSound DEF MakeBatch
  <2>4. CASE Commit
    BY <2>4, CommitSound DEF Commit
  <2>5. CASE Rollback
    BY <2>5, RollbackSound DEF Rollback
  <2>6. CASE UNCHANGED pool
    BY <2>6
  <2> QED BY <2>1, <2>2, <2>3, <2>4, <2>5, <2>6 DEF PoolNext
<1> QED BY <1>1, <1>2, PTL DEF PoolSpec

\* The fields keep their types through any sequence of calls.
THEOREM PoolTyped == PoolSpec => []PoolTypeOK
<1>1. PoolSoundInv => PoolTypeOK
  BY DEF PoolSoundInv, SoundPool, PoolTypeOK
<1> QED BY <1>1, PoolSound, PTL

\* The debug_assert of every operation holds: no key is in both buckets.
THEOREM BucketsDisjoint == PoolSpec => []KeySetsDisjoint
<1>1. PoolSoundInv => KeySetsDisjoint
  BY DEF PoolSoundInv, SoundPool, KeySetsDisjoint
<1> QED BY <1>1, PoolSound, PTL

\* make_batch can only pop keys above the committed high-water mark.
THEOREM NothingCommittedIsMineable == PoolSpec => []MineableAboveHigh
<1>1. PoolSoundInv => MineableAboveHigh
  BY DEF PoolSoundInv, SoundPool, MineableAboveHigh
<1> QED BY <1>1, PoolSound, PTL

\* rollback's index and the tags of the InFlight entries never drift apart.
THEOREM IndexMatchesTags == PoolSpec => []RoundIndexExact
<1>1. PoolSoundInv => RoundIndexExact
  BY DEF PoolSoundInv, SoundPool, RoundIndexExact
<1> QED BY <1>1, PoolSound, PTL

----------------------------------------------------------------------------
\* From p to q no held key is lost unless q's high-water mark covers it.
KeepsHeld(p, q) == \A k \in Held(p) : k \in Held(q) \/ ~ Fresh(q, k)

\* add_tx only adds a key.
LEMMA AddTxKeeps ==
    ASSUME NEW p, SoundPool(p), NEW k \in TxKey, NEW size \in Sizes
    PROVE  KeepsHeld(p, add_tx(p, k, size))
<1>1. CASE ~ Accepts(p, k)
  BY <1>1 DEF add_tx, KeepsHeld
<1>2. CASE Accepts(p, k)
  <2> DEFINE q == add_tx(p, k, size)
  <2>1. q.inflight = p.inflight /\ DOMAIN q.mineable = DOMAIN p.mineable \cup {k}
    BY <1>2 DEF add_tx, InsertMineable, SoundPool, TypedPool
  <2> QED BY <2>1 DEF KeepsHeld, Held
<1> QED BY <1>1, <1>2

\* admit_proposal only moves keys from Mineable to InFlight.
LEMMA AdmitProposalKeeps ==
    ASSUME NEW p, NEW batch, NEW r
    PROVE  KeepsHeld(p, admit_proposal(p, batch, r))
<1> DEFINE q == admit_proposal(p, batch, r)
           new == AdmittedKeys(p, batch)
<1>1. /\ DOMAIN q.mineable = DOMAIN p.mineable \ new
      /\ DOMAIN q.inflight = DOMAIN p.inflight \cup new
  BY DEF admit_proposal, Restrict
<1> QED BY <1>1 DEF KeepsHeld, Held

\* make_batch only moves keys from Mineable to InFlight.
LEMMA MakeBatchKeeps ==
    ASSUME NEW p, NEW r
    PROVE  KeepsHeld(p, make_batch(p, r))
<1> DEFINE q == make_batch(p, r)
           new == TakenKeys(p)
<1>1. /\ DOMAIN q.mineable = DOMAIN p.mineable \ new
      /\ DOMAIN q.inflight = DOMAIN p.inflight \cup new
  BY DEF make_batch, Restrict
<1> QED BY <1>1 DEF KeepsHeld, Held

\* What commit drops is at or below the marks it leaves.
LEMMA CommitKeeps ==
    ASSUME NEW p, SoundPool(p), NEW batch \in Batches, NEW r \in Rounds
    PROVE  KeepsHeld(p, commit(p, batch, r))
<1> DEFINE q == commit(p, batch, r)
           keys == DOMAIN batch
<1>1. keys \in SUBSET TxKey
  BY BatchIsTyped
<1>2. /\ q.high_committed_nonce = [c \in Clients |-> RaisedNonce(p, keys, c)]
      /\ DOMAIN q.inflight = DOMAIN p.inflight \ keys
  BY DEF commit, Restrict
<1>3. \A k \in DOMAIN p.mineable :
         \/ k \in DOMAIN q.mineable
         \/ k \in keys
         \/ k[2] <= q.high_committed_nonce[k[1]]
  BY DEF commit, Collected, Restrict
<1> HIDE DEF q, keys
<1>4. SUFFICES ASSUME NEW k \in Held(p), k \notin Held(q) PROVE ~ Fresh(q, k)
  BY DEF KeepsHeld, q
<1>5. k \in keys \/ k[2] <= q.high_committed_nonce[k[1]]
  BY <1>2, <1>3, <1>4 DEF Held
<1>6. k \in TxKey /\ k[1] \in Clients /\ k[2] \in Nonces /\ k = <<k[1], k[2]>>
  BY DEF Held, SoundPool, TypedPool, TxKey
<1>7. /\ q.high_committed_nonce[k[1]] = RaisedNonce(p, keys, k[1])
      /\ q.high_committed_nonce[k[1]] \in Nonces
      /\ <<k[1], k[2]>> \in keys => k[2] <= q.high_committed_nonce[k[1]]
  BY <1>1, <1>2, <1>6, RaisedNonceBounds DEF SoundPool
<1> QED BY <1>5, <1>6, <1>7, PoolAssumption DEF Fresh, Nonces

\* What rollback does not return to Mineable is at or below the marks.
LEMMA RollbackKeeps ==
    ASSUME NEW p, NEW rounds
    PROVE  KeepsHeld(p, rollback(p, rounds))
<1> DEFINE q == rollback(p, rounds)
           orphans == Orphans(p, rounds)
           back == Returned(p, rounds)
<1>1. /\ DOMAIN q.mineable = DOMAIN p.mineable \cup back
      /\ DOMAIN q.inflight = DOMAIN p.inflight \ orphans
      /\ q.high_committed_nonce = p.high_committed_nonce
  BY DEF rollback, Restrict
<1>2. \A k : Fresh(q, k) <=> Fresh(p, k)
  BY <1>1 DEF Fresh
<1> QED BY <1>1, <1>2 DEF KeepsHeld, Held, Returned

\* No call loses a transaction whose nonce is above the committed mark.
THEOREM NoTransactionLost == PoolSpec => HeldUntilSuperseded
<1>1. PoolSoundInv /\ [PoolNext]_pool
        => [\A k \in Held(pool) : k \in Held(pool') \/ ~ Fresh(pool', k)]_pool
  <2> SUFFICES ASSUME SoundPool(pool), PoolNext PROVE KeepsHeld(pool, pool')
    BY DEF PoolSoundInv, KeepsHeld
  <2>1. CASE AddTx
    BY <2>1, AddTxKeeps DEF AddTx
  <2>2. CASE AdmitProposal
    BY <2>2, AdmitProposalKeeps DEF AdmitProposal
  <2>3. CASE MakeBatch
    BY <2>3, MakeBatchKeeps DEF MakeBatch
  <2>4. CASE Commit
    BY <2>4, CommitKeeps DEF Commit
  <2>5. CASE Rollback
    BY <2>5, RollbackKeeps DEF Rollback
  <2> QED BY <2>1, <2>2, <2>3, <2>4, <2>5 DEF PoolNext
<1> QED BY <1>1, PoolSound, PTL DEF PoolSpec, HeldUntilSuperseded
----------------------------------------------------------------------------
\* mineable_bytes counts Mineable.
CountsBytes(p) == p.mineable_bytes = TotalSize(p.mineable, DOMAIN p.mineable)

\* Mineable is finite and its sizes are natural numbers, so it has a total.
LEMMA MineableSummable ==
    ASSUME NEW p, SoundPool(p)
    PROVE  /\ IsFiniteSet(DOMAIN p.mineable)
           /\ \A k \in DOMAIN p.mineable : p.mineable[k] \in Nat
<1>1. IsFiniteSet(Nonces)
  BY PoolAssumption, FS_Interval DEF Nonces
<1>2. IsFiniteSet(TxKey)
  BY <1>1, PoolAssumption, FS_Product DEF TxKey
<1>3. IsFiniteSet(DOMAIN p.mineable)
  BY <1>2, FS_Subset DEF SoundPool, TypedPool
<1> QED BY <1>3, PoolAssumption DEF SoundPool, TypedPool

\* Taking keys out of Mineable and their bytes out of the count keeps it exact:
\* what admit_proposal, make_batch and commit do.
LEMMA RemovalCounts ==
    ASSUME NEW p, SoundPool(p), CountsBytes(p), NEW gone, NEW q,
           q.mineable = Restrict(p.mineable, DOMAIN p.mineable \ gone),
           q.mineable_bytes
              = p.mineable_bytes - TotalSize(p.mineable, gone \cap DOMAIN p.mineable)
    PROVE  CountsBytes(q)
<1> DEFINE D == DOMAIN p.mineable
           T == gone \cap D
<1>1. IsFiniteSet(D) /\ \A k \in D : p.mineable[k] \in Nat
  BY MineableSummable
<1>2. T \in SUBSET D /\ D \ T = D \ gone /\ IsFiniteSet(D \ T)
  BY <1>1, FS_Subset
<1>3. /\ SumFunctionOnSet(p.mineable, T) \in Nat
      /\ SumFunctionOnSet(p.mineable, D \ T) \in Nat
      /\ SumFunctionOnSet(p.mineable, D)
           = SumFunctionOnSet(p.mineable, T) + SumFunctionOnSet(p.mineable, D \ T)
  <2> HIDE DEF D, T
  <2> QED BY <1>1, <1>2, SumParts
<1>4. DOMAIN q.mineable = D \ T /\ \A k \in D \ T : q.mineable[k] = p.mineable[k]
  BY DEF Restrict
<1>5. SumFunctionOnSet(q.mineable, D \ T) = SumFunctionOnSet(p.mineable, D \ T)
  <2> DEFINE f == q.mineable
             e == p.mineable
             S == D \ T
  <2>1. \A k \in S : f[k] = e[k]
    BY <1>4
  <2>2. IsFiniteSet(S)
    BY <1>2
  <2>3. SumFunctionOnSet(f, S) = SumFunctionOnSet(e, S)
    <3> HIDE DEF f, e, S
    <3> QED BY <2>1, <2>2, SumAgree
  <2> QED BY <2>3
<1> HIDE DEF D, T
<1>6. q.mineable_bytes = SumFunctionOnSet(p.mineable, D) - SumFunctionOnSet(p.mineable, T)
  BY DEF CountsBytes, TotalSize, D, T
<1>7. q.mineable_bytes = SumFunctionOnSet(p.mineable, D \ T)
  BY <1>3, <1>6
<1> QED BY <1>4, <1>5, <1>7 DEF CountsBytes, TotalSize

\* Putting keys back that were not Mineable, with their bytes, keeps it exact.
LEMMA ReturnCounts ==
    ASSUME NEW p, SoundPool(p), CountsBytes(p), NEW q, SoundPool(q),
           NEW back, back \cap DOMAIN p.mineable = {}, NEW sizes,
           DOMAIN q.mineable = DOMAIN p.mineable \cup back,
           \A k \in back : q.mineable[k] = sizes[k],
           \A k \in DOMAIN p.mineable : q.mineable[k] = p.mineable[k],
           q.mineable_bytes = p.mineable_bytes + TotalSize(sizes, back)
    PROVE  CountsBytes(q)
<1> DEFINE D == DOMAIN p.mineable
           S == DOMAIN q.mineable
           f == q.mineable
           e == p.mineable
<1>1. IsFiniteSet(S) /\ \A k \in S : f[k] \in Nat
  BY MineableSummable
<1>2. IsFiniteSet(D)
  BY MineableSummable
<1>3. back \in SUBSET S /\ S \ back = D /\ IsFiniteSet(back)
  BY <1>1, FS_Subset
<1> HIDE DEF S, D, f, e
<1>4. /\ SumFunctionOnSet(f, back) \in Nat
      /\ SumFunctionOnSet(f, D) \in Nat
      /\ SumFunctionOnSet(f, S) = SumFunctionOnSet(f, back) + SumFunctionOnSet(f, D)
  BY <1>1, <1>3, SumParts
<1>5. \A k \in D : f[k] = e[k]
  BY DEF D, f, e
<1>6. SumFunctionOnSet(f, D) = SumFunctionOnSet(e, D)
  BY <1>2, <1>5, SumAgree
<1>7. \A k \in back : f[k] = sizes[k]
  BY DEF f
<1>8. SumFunctionOnSet(f, back) = SumFunctionOnSet(sizes, back)
  BY <1>3, <1>7, SumAgree
<1>9. q.mineable_bytes = SumFunctionOnSet(e, D) + SumFunctionOnSet(sizes, back)
  BY DEF CountsBytes, TotalSize, D, e
<1>10. q.mineable_bytes = SumFunctionOnSet(f, S)
  BY <1>4, <1>6, <1>8, <1>9
<1> QED BY <1>10 DEF CountsBytes, TotalSize, S, f

\* An overwritten entry gives its bytes back before the new ones are counted.
LEMMA AddTxCounts ==
    ASSUME NEW p, SoundPool(p), CountsBytes(p), NEW k \in TxKey, NEW size \in Sizes
    PROVE  CountsBytes(add_tx(p, k, size))
<1> DEFINE q == add_tx(p, k, size)
           D == DOMAIN p.mineable
           f == q.mineable
           e == p.mineable
<1>1. CASE ~ Accepts(p, k)
  BY <1>1 DEF add_tx
<1>2. CASE Accepts(p, k)
  <2>1. /\ DOMAIN q.mineable = D \cup {k}
        /\ f[k] = size
        /\ \A m \in D \ {k} : f[m] = e[m]
        /\ q.mineable_bytes = p.mineable_bytes - (IF k \in D THEN e[k] ELSE 0) + size
    BY <1>2 DEF add_tx, InsertMineable, SoundPool, TypedPool
  <2>2. SoundPool(q)
    BY AddTxSound
  <2>3. p.mineable_bytes = SumFunctionOnSet(e, D)
    BY DEF CountsBytes, TotalSize
  <2>4. IsFiniteSet(D) /\ \A m \in D : e[m] \in Nat
    BY MineableSummable
  <2>5. IsFiniteSet(D \cup {k}) /\ \A m \in D \cup {k} : f[m] \in Nat
    BY <2>1, <2>2, MineableSummable
  <2>6. IsFiniteSet(D \ {k}) /\ (D \cup {k}) \ {k} = D \ {k}
    BY <2>4, FS_Subset
  <2>7. (k \notin D => D \ {k} = D) /\ size \in Nat
    BY PoolAssumption
  <2>8. SUFFICES q.mineable_bytes = SumFunctionOnSet(f, D \cup {k})
    BY <2>1 DEF CountsBytes, TotalSize
  <2> HIDE DEF q, D, f, e
  <2>9. /\ SumFunctionOnSet(f, D \ {k}) \in Nat
        /\ SumFunctionOnSet(f, D \cup {k}) = size + SumFunctionOnSet(f, D \ {k})
    <3>1. k \in D \cup {k}
      OBVIOUS
    <3> DEFINE S == D \cup {k}
    <3> HIDE DEF S
    <3>2. IsFiniteSet(S) /\ (\A m \in S : f[m] \in Nat) /\ k \in S
      BY <2>5, <3>1 DEF S
    <3>3. /\ SumFunctionOnSet(f, S \ {k}) \in Nat
          /\ SumFunctionOnSet(f, S) = f[k] + SumFunctionOnSet(f, S \ {k})
      BY <3>2, SumRemove
    <3> QED BY <3>3, <2>1, <2>6 DEF S
  <2>10. SumFunctionOnSet(f, D \ {k}) = SumFunctionOnSet(e, D \ {k})
    BY <2>1, <2>6, SumAgree
  <2>11. CASE k \in D
    <3>1. e[k] \in Nat /\ SumFunctionOnSet(e, D) = e[k] + SumFunctionOnSet(e, D \ {k})
      BY <2>4, <2>11, SumRemove
    <3> QED BY <2>1, <2>3, <2>7, <2>9, <2>10, <2>11, <3>1
  <2>12. CASE k \notin D
    <3>1. SumFunctionOnSet(e, D) = SumFunctionOnSet(f, D \ {k})
      BY <2>7, <2>10, <2>12
    <3>2. q.mineable_bytes = SumFunctionOnSet(e, D) - 0 + size
      BY <2>1, <2>3, <2>12
    <3> QED BY <2>7, <2>9, <3>1, <3>2
  <2> QED BY <2>11, <2>12
<1> QED BY <1>1, <1>2

\* Every call keeps the count exact.
LEMMA StepCounts ==
    ASSUME SoundPool(pool), CountsBytes(pool), PoolNext, SoundPool(pool')
    PROVE  CountsBytes(pool')
<1>1. CASE AddTx
  BY <1>1, AddTxCounts DEF AddTx
<1>2. CASE AdmitProposal
  <2>1. PICK batch \in Batches, r \in Rounds : pool' = admit_proposal(pool, batch, r)
    BY <1>2 DEF AdmitProposal
  <2> DEFINE new == AdmittedKeys(pool, batch)
  <2>2. /\ pool'.mineable = Restrict(pool.mineable, DOMAIN pool.mineable \ new)
        /\ pool'.mineable_bytes = pool.mineable_bytes
              - TotalSize(pool.mineable, new \cap DOMAIN pool.mineable)
    BY <2>1 DEF admit_proposal
  <2> HIDE DEF new
  <2> QED BY <2>2, RemovalCounts
<1>3. CASE MakeBatch
  <2>1. PICK r \in Rounds : pool' = make_batch(pool, r)
    BY <1>3 DEF MakeBatch
  <2> DEFINE new == TakenKeys(pool)
  <2>2. new \cap DOMAIN pool.mineable = new
    BY DEF TakenKeys
  <2>3. /\ pool'.mineable = Restrict(pool.mineable, DOMAIN pool.mineable \ new)
        /\ pool'.mineable_bytes = pool.mineable_bytes - TotalSize(pool.mineable, new)
    BY <2>1 DEF make_batch
  <2> HIDE DEF new
  <2> QED BY <2>2, <2>3, RemovalCounts
<1>4. CASE Commit
  <2>1. PICK batch \in Batches, r \in Rounds : pool' = commit(pool, batch, r)
    BY <1>4 DEF Commit
  <2> DEFINE high == [c \in Clients |-> RaisedNonce(pool, DOMAIN batch, c)]
             gone == Collected(pool, DOMAIN batch, high)
  <2>2. gone \cap DOMAIN pool.mineable = gone
    BY DEF Collected
  <2>3. /\ pool'.mineable = Restrict(pool.mineable, DOMAIN pool.mineable \ gone)
        /\ pool'.mineable_bytes = pool.mineable_bytes - TotalSize(pool.mineable, gone)
    BY <2>1 DEF commit
  <2> HIDE DEF gone
  <2> QED BY <2>2, <2>3, RemovalCounts
<1>5. CASE Rollback
  <2>1. PICK rounds \in SUBSET Rounds : pool' = rollback(pool, rounds)
    BY <1>5 DEF Rollback
  <2> DEFINE back == Returned(pool, rounds)
             sizes == [k \in back |-> pool.inflight[k].size]
  <2>2. back \cap DOMAIN pool.mineable = {}
    BY DEF Returned, SoundPool, DisjointBuckets
  <2>3. /\ DOMAIN pool'.mineable = DOMAIN pool.mineable \cup back
        /\ \A k \in back : pool'.mineable[k] = sizes[k]
        /\ \A k \in DOMAIN pool.mineable \ back : pool'.mineable[k] = pool.mineable[k]
        /\ pool'.mineable_bytes = pool.mineable_bytes + TotalSize(sizes, back)
    BY <2>1 DEF rollback
  <2> HIDE DEF back, sizes
  <2> QED BY <2>2, <2>3, ReturnCounts
<1> QED BY <1>1, <1>2, <1>3, <1>4, <1>5 DEF PoolNext

\* mineable_bytes, the counter that decides when a batch is ready, is the sum of
\* the sizes in Mineable after any sequence of calls.
THEOREM BytesCounted == PoolSpec => []ByteCountExact
<1>1. PoolInit => CountsBytes(pool)
  <2> SUFFICES ASSUME PoolInit PROVE CountsBytes(pool)
    OBVIOUS
  <2>1. DOMAIN pool.mineable = {} /\ pool.mineable_bytes = 0
    BY DEF PoolInit, EmptyPool
  <2>2. SumFunctionOnSet(pool.mineable, {}) = 0
    BY FS_EmptySet, SumRemove
  <2> QED BY <2>1, <2>2 DEF CountsBytes, TotalSize
<1>2. PoolSoundInv /\ PoolSoundInv' /\ CountsBytes(pool) /\ [PoolNext]_pool
        => CountsBytes(pool)'
  <2> SUFFICES ASSUME SoundPool(pool), SoundPool(pool'), CountsBytes(pool),
                      [PoolNext]_pool
               PROVE  CountsBytes(pool')
    BY DEF PoolSoundInv
  <2>1. CASE PoolNext
    BY <2>1, StepCounts
  <2>2. CASE UNCHANGED pool
    BY <2>2
  <2> QED BY <2>1, <2>2
<1>3. CountsBytes(pool) => ByteCountExact
  BY DEF CountsBytes, ByteCountExact
<1> QED BY <1>1, <1>2, <1>3, PoolSound, PTL DEF PoolSpec

----------------------------------------------------------------------------
(***************************************************************************)
(* The commit task over a set S of stored elements: its queue and what it  *)
(* commits are made of S.                                                  *)
(***************************************************************************)
Entries(S) == [key : Int, elem : S]

Counts == UNION {[D -> Int] : D \in SUBSET {Task!Author(e) : e \in Int}}

Tasks(S) ==
    [commit_queue : Seq(Entries(S)),
     unique_proposers : Counts,
     highest_committed_hash : Int,
     highest_committed_element : S,
     committed : Seq(S),
     panicked : BOOLEAN]

Walks(S) ==
    [head : S, head_hash : Int, queue : Seq(Entries(S)), proposers : Counts,
     stop : {"no", "bottom", "connected"}]

\* A map of proposers has proposers as its domain and integers as its values.
LEMMA CountsAre ==
    ASSUME NEW c
    PROVE  /\ c \in Counts => /\ DOMAIN c \subseteq {Task!Author(e) : e \in Int}
                              /\ \A i \in DOMAIN c : c[i] \in Int
           /\ (\E D \in SUBSET {Task!Author(e) : e \in Int} : c \in [D -> Int]) => c \in Counts
BY DEF Counts

\* An insertion into a LinkedHashMap keeps the type of its entries.
LEMMA LinkedInsertOver ==
    ASSUME NEW E, NEW q \in Seq(E), NEW key, NEW elem, [key |-> key, elem |-> elem] \in E
    PROVE  Task!LinkedInsert(q, key, elem) \in Seq(E)
<1> DEFINE I == {i \in 1 .. Len(q) : q[i].key = key}
           rest == Task!RemoveFirstMatch(q, LAMBDA x : x.key = key)
<1>1. CASE I = {}
  <2>1. rest = q
    BY <1>1 DEF Task!RemoveFirstMatch
  <2> HIDE DEF rest
  <2>2. Append(rest, [key |-> key, elem |-> elem]) \in Seq(E)
    BY <2>1
  <2> QED BY <2>2 DEF Task!LinkedInsert, rest
<1>2. CASE I # {}
  <2>1. PICK n \in Nat : n = Len(q)
    OBVIOUS
  <2>2. PICK m \in I : \A j \in I : m <= j
    <3>1. I \subseteq Nat
      OBVIOUS
    <3> HIDE DEF I
    <3> QED BY <1>2, <3>1, LeastNat
  <2>3. Task!Min(I) \in I
    <3>1. \E x \in I : \A y \in I : x <= y
      BY <2>2
    <3> HIDE DEF I
    <3> QED BY <3>1 DEF Task!Min
  <2>4. Task!SelectInSeq(q, LAMBDA x : x.key = key) = Task!Min(I)
    BY <1>2 DEF Task!SelectInSeq
  <2>5. rest = Task!RemoveAt(q, Task!Min(I))
    BY <1>2, <2>4 DEF Task!RemoveFirstMatch
  <2>6. PICK i \in 1 .. n : i = Task!Min(I)
    BY <2>1, <2>3
  <2>7. rest = SubSeq(q, 1, i - 1) \o SubSeq(q, i + 1, n)
    <3> HIDE DEF I, rest
    <3> QED BY <2>1, <2>5, <2>6 DEF Task!RemoveAt
  <2> HIDE DEF I, rest
  <2>8. SubSeq(q, 1, i - 1) \in Seq(E)
    <3>1. \A k \in 1 .. (i - 1) : k \in 1 .. Len(q) /\ q[k] \in E
      BY <2>1, ElementOfSeq
    <3> QED BY <2>1, <3>1, SubSeqProperties
  <2>9. SubSeq(q, i + 1, n) \in Seq(E)
    <3>1. \A k \in (i + 1) .. n : k \in 1 .. Len(q) /\ q[k] \in E
      BY <2>1, ElementOfSeq
    <3> QED BY <2>1, <3>1, SubSeqProperties
  <2>10. rest \in Seq(E)
    BY <2>7, <2>8, <2>9, ConcatProperties
  <2>11. Append(rest, [key |-> key, elem |-> elem]) \in Seq(E)
    BY <2>10, AppendProperties
  <2> QED BY <2>11 DEF Task!LinkedInsert, rest
<1> QED BY <1>1, <1>2

\* So does an extension.
LEMMA LinkedExtendOver ==
    ASSUME NEW S, NEW q \in Seq(Entries(S)), NEW r \in Seq(Entries(S))
    PROVE  Task!LinkedExtend(q, r) \in Seq(Entries(S))
<1>1. PICK n \in Nat : n = Len(r)
  OBVIOUS
<1> DEFINE V == Seq(Entries(S))
           Step(k, p) == Task!LinkedInsert(p, r[k].key, r[k].elem)
           Extends(a) == a = [k \in 0 .. Len(r) |->
                                IF k = 0 THEN q ELSE Task!LinkedInsert(a[k - 1], r[k].key, r[k].elem)]
           g == [x \in (1 .. n) \X V |-> Step(x[1], x[2])]
<1>2. ASSUME NEW k \in 1 .. n, NEW p \in V PROVE Step(k, p) \in V
  <2>1. r[k] \in Entries(S)
    BY <1>1, ElementOfSeq
  <2>2. [key |-> r[k].key, elem |-> r[k].elem] \in Entries(S)
    BY <2>1 DEF Entries
  <2> QED BY <2>2, LinkedInsertOver
<1>3. g \in [(1 .. n) \X V -> V]
  BY <1>2
<1>4. \A k \in 1 .. n, p \in V : g[<<k, p>>] = Step(k, p)
  OBVIOUS
<1> HIDE DEF g, V
<1>5. q \in V
  BY DEF V
<1>6. PICK h \in [0 .. n -> V] : IteratesOf(h, n, q, g)
  BY <1>3, <1>5, IterateExists
<1>7. Extends(h)
  <2>1. \A k \in 0 .. n : h[k] = IF k = 0 THEN q ELSE Step(k, h[k - 1])
    <3> TAKE k \in 0 .. n
    <3>1. CASE k = 0
      BY <1>6, <3>1 DEF IteratesOf
    <3>2. CASE k # 0
      <4>1. PICK j : j = k - 1 /\ j \in 0 .. n /\ k \in 1 .. n
        BY <3>2
      <4>2. h[j] \in V /\ h[k] = g[<<k, h[j]>>]
        BY <1>6, <4>1 DEF IteratesOf
      <4>3. h[k] = Step(k, h[j])
        BY <1>4, <4>1, <4>2
      <4> QED BY <3>2, <4>1, <4>3
    <3> QED BY <3>1, <3>2
  <2>2. h = [k \in 0 .. n |-> h[k]]
    OBVIOUS
  <2> QED BY <1>1, <2>1, <2>2, Zenon
<1>8. PICK f : f = CHOOSE a : Extends(a)
  OBVIOUS
<1>9. Extends(f)
  BY <1>7, <1>8, Zenon
<1>10. Task!LinkedExtend(q, r) = f[n]
  BY <1>1, <1>8, Zenon DEF Task!LinkedExtend
<1>11. \A k \in 0 .. n : f[k] = IF k = 0 THEN q ELSE Step(k, f[k - 1])
  BY <1>1, <1>9, Zenon
<1> HIDE DEF Step, Extends
<1>12. f[0] \in V
  BY <1>5, <1>11
<1>13. \A k \in 1 .. n : f[k - 1] \in V => f[k] \in V
  BY <1>2, <1>11
<1>14. \A k \in 0 .. n : f[k] \in V
  BY <1>12, <1>13, IterateStays
<1> QED BY <1>10, <1>14 DEF V


\* Counting, merging and discounting proposers of elements.
LEMMA CountsKept ==
    ASSUME NEW c \in Counts, NEW d \in Counts, NEW e \in Int
    PROVE  /\ Task!Counted(c, Task!Author(e), 1) \in Counts
           /\ Task!Merged(c, d) \in Counts
           /\ Task!Discounted(c, Task!Author(e)) \in Counts
<1> DEFINE A == {Task!Author(x) : x \in Int}
<1>1. /\ DOMAIN c \subseteq A /\ \A i \in DOMAIN c : c[i] \in Int
      /\ DOMAIN d \subseteq A /\ \A i \in DOMAIN d : d[i] \in Int
  BY CountsAre
<1>2. PICK id \in A : id = Task!Author(e)
  OBVIOUS
<1> HIDE DEF A
<1>3. Task!Counted(c, id, 1) \in [DOMAIN c \cup {id} -> Int] /\ DOMAIN c \cup {id} \in SUBSET A
  BY <1>1 DEF Task!Counted
<1>4. Task!Merged(c, d) \in [DOMAIN c \cup DOMAIN d -> Int] /\ DOMAIN c \cup DOMAIN d \in SUBSET A
  BY <1>1 DEF Task!Merged
<1>5. \E D \in SUBSET A : Task!Discounted(c, id) \in [D -> Int]
  <2> DEFINE D == {j \in DOMAIN c : j # id \/ c[j] > 1}
  <2>1. Task!Discounted(c, id) \in [D -> Int] /\ D \in SUBSET A
    BY <1>1 DEF Task!Discounted
  <2> QED BY <2>1
<1> QED BY <1>2, <1>3, <1>4, <1>5, CountsAre DEF A

\* The store the task reads: it holds the elements of S, with their parents.
StoreOver(store, S) ==
    S \in SUBSET Int /\ DOMAIN store = S /\ \A x \in S : store[x] \in Int

\* One iteration of the walk stays over S.
LEMMA WalkStepOver ==
    ASSUME NEW S, NEW store, StoreOver(store, S), NEW t, NEW w \in Walks(S)
    PROVE  Task!WalkStep(t, store, w) \in Walks(S)
<1> DEFINE q == Task!LinkedInsert(w.queue, w.head_hash, w.head)
           c == Task!Counted(w.proposers, Task!Author(w.head), 1)
           seen == [w EXCEPT !.queue = q, !.proposers = c]
<1>1. /\ w.head \in S /\ w.head_hash \in Int /\ w.queue \in Seq(Entries(S))
      /\ w.proposers \in Counts
  BY DEF Walks
<1>2. q \in Seq(Entries(S))
  <2>1. [key |-> w.head_hash, elem |-> w.head] \in Entries(S)
    BY <1>1 DEF Entries
  <2> QED BY <1>1, <2>1, LinkedInsertOver
<1>3. c \in Counts
  <2>1. w.head \in Int
    BY <1>1 DEF StoreOver
  <2> QED BY <1>1, <2>1, CountsKept
<1> HIDE DEF q, c
<1>4. seen \in Walks(S)
  BY <1>2, <1>3 DEF Walks
<1>5. [seen EXCEPT !.stop = "bottom"] \in Walks(S)
  <2> HIDE DEF seen
  <2> QED BY <1>4 DEF Walks
<1>6. ASSUME w.head_hash \in DOMAIN store
      PROVE  [seen EXCEPT !.head = w.head_hash, !.head_hash = store[w.head_hash]] \in Walks(S)
  <2>1. w.head_hash \in S /\ store[w.head_hash] \in Int
    BY <1>6 DEF StoreOver
  <2> HIDE DEF seen
  <2> QED BY <1>4, <2>1 DEF Walks
<1>7. [w EXCEPT !.stop = "bottom"] \in Walks(S) /\ [w EXCEPT !.stop = "connected"] \in Walks(S)
  BY DEF Walks
<1>8. \/ Task!WalkStep(t, store, w) = w
      \/ Task!WalkStep(t, store, w) = [w EXCEPT !.stop = "bottom"]
      \/ Task!WalkStep(t, store, w) = [w EXCEPT !.stop = "connected"]
      \/ Task!WalkStep(t, store, w) = [seen EXCEPT !.stop = "bottom"]
      \/ /\ w.head_hash \in DOMAIN store
         /\ Task!WalkStep(t, store, w) = [seen EXCEPT !.head = w.head_hash,
                                                  !.head_hash = store[w.head_hash]]
  BY Zenon DEF Task!WalkStep, q, c
<1> HIDE DEF seen
<1> QED BY <1>5, <1>6, <1>7, <1>8

\* The walk stays over S.
LEMMA WalkOver ==
    ASSUME NEW S, NEW store, StoreOver(store, S), NEW t, NEW e \in S
    PROVE  Task!Walk(t, store, e) \in Walks(S)
<1>1. PICK n \in Nat : n = MaxRound + 2
  BY NodeAssumption
<1> DEFINE V == Walks(S)
           Step(w) == Task!WalkStep(t, store, w)
           start == [head |-> e, head_hash |-> e, queue |-> <<>>,
                     proposers |-> [i \in {} |-> 0], stop |-> "no"]
           Rule(a) == a = [k \in 0 .. (MaxRound + 2) |->
                             IF k = 0 THEN start ELSE Task!WalkStep(t, store, a[k - 1])]
           g == [x \in (1 .. n) \X V |-> Step(x[2])]
<1>2. ASSUME NEW w \in V PROVE Step(w) \in V
  BY WalkStepOver
<1>3. g \in [(1 .. n) \X V -> V]
  BY <1>2
<1>4. \A k \in 1 .. n, w \in V : g[<<k, w>>] = Step(w)
  OBVIOUS
<1>5. start \in V
  <2>1. [i \in {} |-> 0] \in Counts
    <3>1. [i \in {} |-> 0] \in [{} -> Int]
      OBVIOUS
    <3>2. {} \in SUBSET {Task!Author(x) : x \in Int}
      OBVIOUS
    <3> QED BY <3>1, <3>2, CountsAre
  <2>2. e \in Int /\ <<>> \in Seq(Entries(S))
    BY DEF StoreOver
  <2> QED BY <2>1, <2>2 DEF Walks
<1> HIDE DEF g, V, start
<1>6. PICK h \in [0 .. n -> V] : IteratesOf(h, n, start, g)
  BY <1>3, <1>5, IterateExists
<1>7. Rule(h)
  <2>1. \A k \in 0 .. n : h[k] = IF k = 0 THEN start ELSE Step(h[k - 1])
    <3> TAKE k \in 0 .. n
    <3>1. CASE k = 0
      BY <1>6, <3>1 DEF IteratesOf
    <3>2. CASE k # 0
      <4>1. PICK j : j = k - 1 /\ j \in 0 .. n /\ k \in 1 .. n
        BY <3>2
      <4>2. h[j] \in V /\ h[k] = g[<<k, h[j]>>]
        BY <1>6, <4>1 DEF IteratesOf
      <4>3. h[k] = Step(h[j])
        BY <1>4, <4>1, <4>2
      <4> QED BY <3>2, <4>1, <4>3
    <3> QED BY <3>1, <3>2
  <2>2. h = [k \in 0 .. n |-> h[k]]
    OBVIOUS
  <2> QED BY <1>1, <2>1, <2>2, Zenon
<1>8. PICK f : f = CHOOSE a : Rule(a)
  OBVIOUS
<1>9. Rule(f)
  BY <1>7, <1>8, Zenon
<1>10. Task!Walk(t, store, e) = f[n]
  BY <1>1, <1>8, Zenon DEF Task!Walk, start
<1>11. \A k \in 0 .. n : f[k] = IF k = 0 THEN start ELSE Step(f[k - 1])
  BY <1>1, <1>9, Zenon
<1> HIDE DEF Step, Rule
<1>12. f[0] \in V
  BY <1>5, <1>11
<1>13. \A k \in 1 .. n : f[k - 1] \in V => f[k] \in V
  BY <1>2, <1>11
<1>14. \A k \in 0 .. n : f[k] \in V
  BY <1>12, <1>13, IterateStays
<1> QED BY <1>10, <1>14 DEF V

\* Taking up the walk's queue keeps the task over S, and what it drops of the
\* old queue are elements of S.
LEMMA AttachedOver ==
    ASSUME NEW S, NEW t \in Tasks(S), NEW w \in Walks(S)
    PROVE  Task!Attached(t, w) \in Tasks(S) /\ Task!Orphans(t, w) \subseteq S \ {Task!Genesis}
<1> DEFINE q == Task!LinkedExtend(t.commit_queue, w.queue)
           c == Task!Merged(t.unique_proposers, w.proposers)
<1>1. /\ t.commit_queue \in Seq(Entries(S)) /\ t.unique_proposers \in Counts
      /\ w.queue \in Seq(Entries(S)) /\ w.proposers \in Counts
  BY DEF Tasks, Walks
<1>2. q \in Seq(Entries(S)) /\ c \in Counts
  BY <1>1, LinkedExtendOver, CountsKept
<1> HIDE DEF q, c
<1>3. [t EXCEPT !.commit_queue = q, !.unique_proposers = c] \in Tasks(S)
  BY <1>2 DEF Tasks
<1>4. [t EXCEPT !.commit_queue = w.queue, !.unique_proposers = w.proposers] \in Tasks(S)
  BY <1>1 DEF Tasks
<1>5. \A i \in 1 .. Len(t.commit_queue) : t.commit_queue[i].elem \in S
  <2>1. \A i \in 1 .. Len(t.commit_queue) : t.commit_queue[i] \in Entries(S)
    BY <1>1, ElementOfSeq
  <2> QED BY <2>1 DEF Entries
<1>6. Task!Orphans(t, w) \subseteq S \ {Task!Genesis}
  BY <1>5 DEF Task!Orphans
<1>7. Task!Attached(t, w) \in Tasks(S)
  BY <1>3, <1>4, Zenon DEF Task!Attached, q, c
<1> QED BY <1>6, <1>7

\* One iteration of the commit loop keeps the task over S.
LEMMA CommitStepOver ==
    ASSUME NEW S \in SUBSET Int, NEW t \in Tasks(S)
    PROVE  Task!CommitStep(t) \in Tasks(S)
<1>1. CASE Task!CommitStep(t) = t
  BY <1>1
<1>2. CASE Task!CommitStep(t) = [t EXCEPT !.panicked = TRUE]
  BY <1>2 DEF Tasks
<1>3. CASE Task!CommitStep(t) = Task!Popped(t) /\ Task!Unwrappable(t)
  <2>1. /\ t.commit_queue \in Seq(Entries(S)) /\ t.unique_proposers \in Counts
        /\ t.committed \in Seq(S) /\ t.commit_queue # <<>>
    BY <1>3 DEF Tasks, Task!Unwrappable
  <2>2. PICK x \in Entries(S) : x = Head(t.commit_queue)
    BY <2>1, HeadTailProperties
  <2>3. PICK q \in Seq(Entries(S)) : q = Tail(t.commit_queue)
    BY <2>1, HeadTailProperties
  <2>4. x.key \in Int /\ x.elem \in S /\ x.elem \in Int
    BY <2>2 DEF Entries
  <2>5. PICK c \in Counts : c = Task!Discounted(t.unique_proposers, Task!Author(x.elem))
    BY <2>1, <2>4, CountsKept
  <2>6. PICK d \in Seq(S) : d = Append(t.committed, x.elem)
    BY <2>1, <2>4, AppendProperties
  <2>7. Task!Popped(t) = [t EXCEPT !.commit_queue = q, !.unique_proposers = c,
                               !.highest_committed_hash = x.key,
                               !.highest_committed_element = x.elem,
                               !.committed = d]
    BY <2>2, <2>3, <2>5, <2>6, Zenon DEF Task!Popped
  <2>8. [t EXCEPT !.commit_queue = q, !.unique_proposers = c,
                  !.highest_committed_hash = x.key,
                  !.highest_committed_element = x.elem,
                  !.committed = d] \in Tasks(S)
    BY <2>4 DEF Tasks
  <2> QED BY <1>3, <2>7, <2>8
<1> QED BY <1>1, <1>2, <1>3, Zenon DEF Task!CommitStep

\* The commit loop keeps the task over S.
LEMMA CommitLoopOver ==
    ASSUME NEW S \in SUBSET Int, NEW t \in Tasks(S)
    PROVE  Task!CommitLoop(t) \in Tasks(S)
<1>1. PICK n \in Nat : n = Len(t.commit_queue) + 1
  BY DEF Tasks
<1> DEFINE V == Tasks(S)
           Step(u) == Task!CommitStep(u)
           Rule(a) == a = [k \in 0 .. (Len(t.commit_queue) + 1) |->
                             IF k = 0 THEN t ELSE Task!CommitStep(a[k - 1])]
           g == [x \in (1 .. n) \X V |-> Step(x[2])]
<1>2. ASSUME NEW u \in V PROVE Step(u) \in V
  BY CommitStepOver
<1>3. g \in [(1 .. n) \X V -> V]
  BY <1>2
<1>4. \A k \in 1 .. n, u \in V : g[<<k, u>>] = Step(u)
  OBVIOUS
<1>5. t \in V
  OBVIOUS
<1> HIDE DEF g, V
<1>6. PICK h \in [0 .. n -> V] : IteratesOf(h, n, t, g)
  BY <1>3, <1>5, IterateExists
<1>7. Rule(h)
  <2>1. \A k \in 0 .. n : h[k] = IF k = 0 THEN t ELSE Step(h[k - 1])
    <3> TAKE k \in 0 .. n
    <3>1. CASE k = 0
      BY <1>6, <3>1 DEF IteratesOf
    <3>2. CASE k # 0
      <4>1. PICK j : j = k - 1 /\ j \in 0 .. n /\ k \in 1 .. n
        BY <3>2
      <4>2. h[j] \in V /\ h[k] = g[<<k, h[j]>>]
        BY <1>6, <4>1 DEF IteratesOf
      <4>3. h[k] = Step(h[j])
        BY <1>4, <4>1, <4>2
      <4> QED BY <3>2, <4>1, <4>3
    <3> QED BY <3>1, <3>2
  <2>2. h = [k \in 0 .. n |-> h[k]]
    OBVIOUS
  <2> QED BY <1>1, <2>1, <2>2, Zenon
<1>8. PICK f : f = CHOOSE a : Rule(a)
  OBVIOUS
<1>9. Rule(f)
  BY <1>7, <1>8, Zenon
<1>10. Task!CommitLoop(t) = f[n]
  BY <1>1, <1>8, Zenon DEF Task!CommitLoop
<1>11. \A k \in 0 .. n : f[k] = IF k = 0 THEN t ELSE Step(f[k - 1])
  BY <1>1, <1>9, Zenon
<1> HIDE DEF Step, Rule
<1>12. f[0] \in V
  BY <1>5, <1>11
<1>13. \A k \in 1 .. n : f[k - 1] \in V => f[k] \in V
  BY <1>2, <1>11
<1>14. \A k \in 0 .. n : f[k] \in V
  BY <1>12, <1>13, IterateStays
<1> QED BY <1>10, <1>14 DEF V

\* The handler of EndRound for a stored element commits stored elements, and
\* reports rounds of stored elements as orphaned.
LEMMA EndRoundOver ==
    ASSUME NEW S, NEW store, StoreOver(store, S), NEW t \in Tasks(S), NEW e \in S
    PROVE  /\ Task!end_round(t, store, e) \in Tasks(S)
           /\ Task!end_round_orphans(t, store, e) \subseteq S \ {Task!Genesis}
<1>1. PICK w \in Walks(S) : w = Task!Walk(t, store, e)
  BY WalkOver
<1>2. PICK u \in Tasks(S) : u = Task!Attached(t, w)
  BY AttachedOver
<1>3. <<>> \in Seq(S)
  OBVIOUS
<1>4. [t EXCEPT !.committed = <<>>] \in Tasks(S) /\ [u EXCEPT !.committed = <<>>] \in Tasks(S)
  BY <1>3 DEF Tasks
<1>5. S \in SUBSET Int
  BY DEF StoreOver
<1>6. Task!CommitLoop([u EXCEPT !.committed = <<>>]) \in Tasks(S)
  BY <1>4, <1>5, CommitLoopOver
<1>7. Task!end_round(t, store, e) \in Tasks(S)
  BY <1>1, <1>2, <1>4, <1>6, Zenon DEF Task!end_round
<1>8. Task!end_round_orphans(t, store, e) \subseteq S \ {Task!Genesis}
  BY <1>1, AttachedOver DEF Task!end_round_orphans
<1> QED BY <1>7, <1>8

\* A larger set has all the sequences of a smaller one.
LEMMA SeqGrows == ASSUME NEW A, NEW B, A \subseteq B PROVE Seq(A) \subseteq Seq(B)
OBVIOUS

\* A larger set has all the tasks of a smaller one.
LEMMA TasksGrow ==
    ASSUME NEW S, NEW T, S \subseteq T
    PROVE  Tasks(S) \subseteq Tasks(T)
<1>1. Entries(S) \subseteq Entries(T)
  BY DEF Entries
<1>2. Seq(Entries(S)) \subseteq Seq(Entries(T)) /\ Seq(S) \subseteq Seq(T)
  BY <1>1, SeqGrows
<1> QED BY <1>2 DEF Tasks

----------------------------------------------------------------------------
(***************************************************************************)
(* The path of a transaction through one server.  What the batcher has     *)
(* not read yet is tracked by a function f: after the first i messages of  *)
(* its channel it will have been told of the first f[i] elements of log.   *)
(***************************************************************************)
Messages ==
    [type : {"NewRound"}, leader : {LeaderOf[r] : r \in 1 .. MaxRound}, round : Rounds]
      \cup [type : {"Proposed", "Committed"}, batch : Batches, round : Rounds]
      \cup [type : {"Rollback"}, rounds : SUBSET Rounds]

Tracks(f, q, lg, pay) ==
    /\ f \in [0 .. Len(q) -> 0 .. Len(lg)]
    /\ f[Len(q)] = Len(lg)
    /\ \A i \in 1 .. Len(q) :
          IF q[i].type = "Committed"
          THEN f[i] = f[i - 1] + 1 /\ q[i].batch = pay[lg[f[i]]]
          ELSE f[i] = f[i - 1]

\* A channel and log that go on from what f tracks.
Continues(f, q, lg, pay) == \E h : Tracks(h, q, lg, pay) /\ h[0] = f[0]

\* No commit is among the messages.
Quiet(ms) == \A i \in 1 .. Len(ms) : ms[i].type # "Committed"

\* The nonces of client c in the first n elements of lg, and 0.
NoncesIn(c, lg, pay, n) ==
    {0} \cup {m \in Nonces : \E i \in 1 .. n : <<c, m>> \in DOMAIN pay[lg[i]]}

Marks(high, lg, pay, n) == \A c \in Clients : high[c] = Max(NoncesIn(c, lg, pay, n))

\* Elements, batches and rounds are what their names say.
NodeTyped ==
    /\ SoundPool(pool)
    /\ current_round \in Rounds
    /\ from_consensus \in Seq(Messages)
    /\ sealed \in Seq(Batches)
    /\ round \in Nat /\ round >= 1
    /\ StoreOver(db, DOMAIN db)
    /\ DOMAIN db \subseteq Rounds
    /\ \A e \in DOMAIN db : e < round
    /\ highest \in DOMAIN db
    /\ DOMAIN payload = DOMAIN db
    /\ \A e \in DOMAIN db : payload[e] \in Batches
    /\ end_rounds \in Seq(DOMAIN db)
    /\ task \in Tasks(DOMAIN db)
    /\ log \in Seq(DOMAIN db)

\* The marks are those of what was read, and the rest is on its way in order.
NodeTracked ==
    \E f : /\ Tracks(f, from_consensus, log, payload)
           /\ Marks(pool.high_committed_nonce, log, payload, f[0])

\* The inductive invariant.
NodeInv == NodeTyped /\ NodeTracked

\* Other messages at the end of the channel leave what is tracked.
LEMMA TracksMore ==
    ASSUME NEW q \in Seq(Messages), NEW ms \in Seq(Messages), NEW E, NEW lg \in Seq(E), NEW pay,
           NEW f, Tracks(f, q, lg, pay), Quiet(ms)
    PROVE  Continues(f, q \o ms, lg, pay)
<1>1. PICK a \in Nat, b \in Nat, n \in Nat : a = Len(q) /\ b = Len(ms) /\ n = Len(lg)
  OBVIOUS
<1>2. PICK r : r = q \o ms
  OBVIOUS
<1>3. /\ Len(r) = a + b
      /\ \A i \in 1 .. a : r[i] = q[i]
      /\ \A i \in (a + 1) .. (a + b) : r[i].type # "Committed"
  <2>1. Len(r) = a + b /\ \A i \in 1 .. (a + b) : r[i] = IF i <= a THEN q[i] ELSE ms[i - a]
    BY <1>1, <1>2, ConcatProperties
  <2>2. ASSUME NEW i \in (a + 1) .. (a + b) PROVE r[i].type # "Committed"
    <3>1. PICK j : j = i - a /\ j \in 1 .. b /\ ~ (i <= a) /\ i \in 1 .. (a + b)
      BY <1>1
    <3> QED BY <1>1, <2>1, <3>1 DEF Quiet
  <2>3. \A i \in 1 .. a : i \in 1 .. (a + b) /\ i <= a
    BY <1>1
  <2> QED BY <2>1, <2>2, <2>3
<1>4. PICK h : h = [i \in 0 .. (a + b) |-> IF i <= a THEN f[i] ELSE n]
  OBVIOUS
<1>5. /\ f \in [0 .. a -> 0 .. n] /\ f[a] = n
      /\ \A i \in 1 .. a : IF q[i].type = "Committed"
                           THEN f[i] = f[i - 1] + 1 /\ q[i].batch = pay[lg[f[i]]]
                           ELSE f[i] = f[i - 1]
  BY <1>1 DEF Tracks
<1>6. /\ h \in [0 .. (a + b) -> 0 .. n] /\ h[a + b] = n /\ h[0] = f[0]
      /\ \A i \in 0 .. a : h[i] = f[i]
      /\ \A i \in a .. (a + b) : h[i] = n
  BY <1>1, <1>4, <1>5
<1>7. ASSUME NEW i \in 1 .. (a + b)
      PROVE  IF r[i].type = "Committed"
             THEN h[i] = h[i - 1] + 1 /\ r[i].batch = pay[lg[h[i]]]
             ELSE h[i] = h[i - 1]
  <2>1. PICK j : j = i - 1 /\ j \in 0 .. (a + b)
    BY <1>1
  <2>2. CASE i <= a
    <3>1. i \in 1 .. a /\ i \in 0 .. a /\ j \in 0 .. a
      BY <1>1, <2>1, <2>2
    <3> QED BY <1>3, <1>5, <1>6, <2>1, <3>1
  <2>3. CASE ~ (i <= a)
    <3>1. i \in (a + 1) .. (a + b) /\ i \in a .. (a + b) /\ j \in a .. (a + b)
      BY <1>1, <2>1, <2>3
    <3> QED BY <1>3, <1>6, <2>1, <3>1
  <2> QED BY <2>2, <2>3
<1>8. Tracks(h, r, lg, pay)
  BY <1>1, <1>3, <1>6, <1>7 DEF Tracks
<1> QED BY <1>2, <1>6, <1>8 DEF Continues

\* The Committed messages of newly committed elements are tracked.
LEMMA TracksCommitted ==
    ASSUME NEW q \in Seq(Messages), NEW E, NEW lg \in Seq(E), NEW pay, NEW f,
           Tracks(f, q, lg, pay), NEW fin \in Seq(E), NEW ms \in Seq(Messages),
           ms = [i \in 1 .. Len(fin) |-> Committed(pay[fin[i]], fin[i])]
    PROVE  Continues(f, q \o ms, lg \o fin, pay)
<1>1. PICK a \in Nat, b \in Nat, n \in Nat :
         a = Len(q) /\ b = Len(ms) /\ b = Len(fin) /\ n = Len(lg)
  OBVIOUS
<1>2. PICK r, lf : r = q \o ms /\ lf = lg \o fin
  OBVIOUS
<1>3. /\ Len(r) = a + b /\ Len(lf) = n + b
      /\ \A i \in 1 .. a : r[i] = q[i]
      /\ \A i \in 1 .. n : lf[i] = lg[i]
      /\ \A j \in 1 .. b : r[a + j].type = "Committed" /\ r[a + j].batch = pay[lf[n + j]]
  <2>1. Len(r) = a + b /\ \A i \in 1 .. (a + b) : r[i] = IF i <= a THEN q[i] ELSE ms[i - a]
    BY <1>1, <1>2, ConcatProperties
  <2>2. Len(lf) = n + b /\ \A i \in 1 .. (n + b) : lf[i] = IF i <= n THEN lg[i] ELSE fin[i - n]
    BY <1>1, <1>2, ConcatProperties
  <2>3. ASSUME NEW j \in 1 .. b
        PROVE  r[a + j].type = "Committed" /\ r[a + j].batch = pay[lf[n + j]]
    <3>1. /\ a + j \in 1 .. (a + b) /\ ~ (a + j <= a) /\ (a + j) - a = j
          /\ n + j \in 1 .. (n + b) /\ ~ (n + j <= n) /\ (n + j) - n = j
      BY <1>1
    <3>2. r[a + j] = ms[j] /\ lf[n + j] = fin[j]
      BY <2>1, <2>2, <3>1
    <3>3. ms[j] = Committed(pay[fin[j]], fin[j])
      BY <1>1
    <3> QED BY <3>2, <3>3 DEF Committed
  <2>4. (\A i \in 1 .. a : i \in 1 .. (a + b) /\ i <= a)
        /\ (\A i \in 1 .. n : i \in 1 .. (n + b) /\ i <= n)
    BY <1>1
  <2> QED BY <2>1, <2>2, <2>3, <2>4
<1>4. PICK h : h = [i \in 0 .. (a + b) |-> IF i <= a THEN f[i] ELSE n + (i - a)]
  OBVIOUS
<1>5. /\ f \in [0 .. a -> 0 .. n] /\ f[a] = n
      /\ \A i \in 1 .. a : IF q[i].type = "Committed"
                           THEN f[i] = f[i - 1] + 1 /\ q[i].batch = pay[lg[f[i]]]
                           ELSE f[i] = f[i - 1]
  BY <1>1 DEF Tracks
<1>6. /\ \A i \in 0 .. a : h[i] = f[i]
      /\ \A i \in a .. (a + b) : h[i] = n + (i - a)
      /\ h \in [0 .. (a + b) -> 0 .. (n + b)] /\ h[a + b] = n + b /\ h[0] = f[0]
  <2>1. \A i \in 0 .. a : h[i] = f[i] /\ h[i] \in 0 .. (n + b)
    BY <1>1, <1>4, <1>5
  <2>2. \A i \in a .. (a + b) : h[i] = n + (i - a) /\ h[i] \in 0 .. (n + b)
    BY <1>1, <1>4, <1>5
  <2>3. \A i \in 0 .. (a + b) : h[i] \in 0 .. (n + b)
    BY <1>1, <2>1, <2>2
  <2>4. 0 \in 0 .. a /\ a + b \in a .. (a + b) /\ n + ((a + b) - a) = n + b
    BY <1>1
  <2> QED BY <1>4, <2>1, <2>2, <2>3, <2>4
<1>7. ASSUME NEW i \in 1 .. (a + b)
      PROVE  IF r[i].type = "Committed"
             THEN h[i] = h[i - 1] + 1 /\ r[i].batch = pay[lf[h[i]]]
             ELSE h[i] = h[i - 1]
  <2>1. PICK j : j = i - 1 /\ j \in 0 .. (a + b)
    BY <1>1
  <2>2. CASE i <= a
    <3>1. i \in 1 .. a /\ i \in 0 .. a /\ j \in 0 .. a
      BY <1>1, <2>1, <2>2
    <3>2. h[i] = f[i] /\ h[j] = f[j] /\ f[i] \in 0 .. n /\ f[j] \in 0 .. n /\ r[i] = q[i]
      BY <1>3, <1>5, <1>6, <3>1
    <3>3. CASE q[i].type = "Committed"
      <4>1. f[i] = f[j] + 1 /\ q[i].batch = pay[lg[f[i]]]
        BY <1>5, <2>1, <3>1, <3>3
      <4>2. f[i] \in 1 .. n
        BY <1>1, <3>2, <4>1
      <4>3. lf[f[i]] = lg[f[i]]
        BY <1>3, <4>2
      <4> QED BY <2>1, <3>2, <3>3, <4>1, <4>3
    <3>4. CASE q[i].type # "Committed"
      BY <1>5, <2>1, <3>1, <3>2, <3>4
    <3> QED BY <3>3, <3>4
  <2>3. CASE ~ (i <= a)
    <3>1. PICK k \in 1 .. b : i = a + k
      <4>1. i - a \in 1 .. b /\ i = a + (i - a)
        BY <1>1, <2>3
      <4> QED BY <4>1
    <3>2. i \in a .. (a + b) /\ j \in a .. (a + b)
      BY <1>1, <2>1, <2>3
    <3>3. h[i] = n + k /\ h[j] = n + (j - a)
      BY <1>1, <1>6, <3>1, <3>2
    <3>4. n + k = n + (j - a) + 1
      BY <1>1, <2>1, <3>1
    <3>5. r[i].type = "Committed" /\ r[i].batch = pay[lf[n + k]]
      BY <1>3, <3>1
    <3> QED BY <2>1, <3>3, <3>4, <3>5
  <2> QED BY <2>2, <2>3
<1>8. Tracks(h, r, lf, pay)
  BY <1>1, <1>3, <1>6, <1>7 DEF Tracks
<1> QED BY <1>2, <1>6, <1>8 DEF Continues

\* Reading a message: what is tracked moves up by one.
LEMMA TracksTail ==
    ASSUME NEW q \in Seq(Messages), q # <<>>, NEW E, NEW lg \in Seq(E), NEW pay, NEW f,
           Tracks(f, q, lg, pay)
    PROVE  /\ \E h : Tracks(h, Tail(q), lg, pay) /\ h[0] = f[1]
           /\ f[0] \in 0 .. Len(lg) /\ f[1] \in 0 .. Len(lg)
           /\ IF Head(q).type = "Committed"
              THEN f[1] = f[0] + 1 /\ Head(q).batch = pay[lg[f[1]]]
              ELSE f[1] = f[0]
<1>1. PICK a \in Nat, n \in Nat : a = Len(q) - 1 /\ n = Len(lg) /\ Len(q) = a + 1
  <2>1. Len(q) \in Nat /\ Len(q) # 0
    BY EmptySeq
  <2>2. Len(q) - 1 \in Nat /\ Len(q) = (Len(q) - 1) + 1
    BY <2>1
  <2>3. Len(lg) \in Nat
    OBVIOUS
  <2> QED BY <2>2, <2>3, Zenon
<1>2. PICK r : r = Tail(q)
  OBVIOUS
<1>3. Head(q) = q[1] /\ Len(r) = a /\ \A i \in 1 .. a : r[i] = q[i + 1]
  BY <1>1, <1>2, HeadTailProperties
<1>4. /\ f \in [0 .. (a + 1) -> 0 .. n] /\ f[a + 1] = n
      /\ \A i \in 1 .. (a + 1) : IF q[i].type = "Committed"
                                 THEN f[i] = f[i - 1] + 1 /\ q[i].batch = pay[lg[f[i]]]
                                 ELSE f[i] = f[i - 1]
  BY <1>1 DEF Tracks
<1>5. PICK h : h = [i \in 0 .. a |-> f[i + 1]]
  OBVIOUS
<1>6. h \in [0 .. a -> 0 .. n] /\ h[a] = n /\ h[0] = f[1]
  BY <1>1, <1>4, <1>5
<1>7. ASSUME NEW i \in 1 .. a
      PROVE  IF r[i].type = "Committed"
             THEN h[i] = h[i - 1] + 1 /\ r[i].batch = pay[lg[h[i]]]
             ELSE h[i] = h[i - 1]
  <2>1. PICK j, k : j = i - 1 /\ j \in 0 .. a /\ k = i + 1 /\ k \in 1 .. (a + 1) /\ i = k - 1 /\ i = j + 1
    BY <1>1
  <2>2. h[i] = f[k] /\ h[j] = f[i] /\ r[i] = q[k]
    BY <1>3, <1>5, <2>1
  <2> QED BY <1>4, <2>1, <2>2
<1>8. Tracks(h, r, lg, pay)
  BY <1>1, <1>3, <1>6, <1>7 DEF Tracks
<1>9. 1 \in 1 .. (a + 1) /\ 1 - 1 = 0 /\ 0 \in 0 .. (a + 1) /\ 1 \in 0 .. (a + 1)
  BY <1>1
<1>10. IF Head(q).type = "Committed" THEN f[1] = f[0] + 1 /\ Head(q).batch = pay[lg[f[1]]]
       ELSE f[1] = f[0]
  BY <1>3, <1>4, <1>9
<1> QED BY <1>1, <1>2, <1>4, <1>6, <1>8, <1>9, <1>10

\* A batch for a new element changes nothing for those in the log.
LEMMA TracksSame ==
    ASSUME NEW q \in Seq(Messages), NEW E, NEW lg \in Seq(E), NEW pay, NEW new,
           \A e \in E : new[e] = pay[e], NEW f, Tracks(f, q, lg, pay)
    PROVE  Tracks(f, q, lg, new)
<1>1. PICK a \in Nat, n \in Nat : a = Len(q) /\ n = Len(lg)
  OBVIOUS
<1>2. \A i \in 1 .. n : new[lg[i]] = pay[lg[i]]
  BY <1>1, ElementOfSeq
<1>3. /\ f \in [0 .. a -> 0 .. n] /\ f[a] = n
      /\ \A i \in 1 .. a : IF q[i].type = "Committed"
                           THEN f[i] = f[i - 1] + 1 /\ q[i].batch = pay[lg[f[i]]]
                           ELSE f[i] = f[i - 1]
  BY <1>1 DEF Tracks
<1>4. ASSUME NEW i \in 1 .. a, q[i].type = "Committed"
      PROVE  q[i].batch = new[lg[f[i]]]
  <2>1. PICK j : j = i - 1 /\ j \in 0 .. a /\ i \in 0 .. a
    BY <1>1
  <2>2. f[i] = f[j] + 1 /\ f[j] \in 0 .. n /\ f[i] \in 0 .. n /\ q[i].batch = pay[lg[f[i]]]
    BY <1>3, <1>4, <2>1
  <2>3. f[i] \in 1 .. n
    BY <1>1, <2>2
  <2> QED BY <1>2, <2>2, <2>3
<1> QED BY <1>1, <1>3, <1>4 DEF Tracks

\* What has been read of the log is what is not on its way.
LEMMA TracksUnread ==
    ASSUME NEW q \in Seq(Messages), NEW E, NEW lg \in Seq(E), NEW pay, NEW f,
           Tracks(f, q, lg, pay)
    PROVE  /\ f[0] \in 0 .. Len(lg)
           /\ f[0] = Len(lg) - Cardinality({i \in 1 .. Len(q) : q[i].type = "Committed"})
<1>1. PICK a \in Nat, n \in Nat : a = Len(q) /\ n = Len(lg)
  OBVIOUS
<1>2. /\ f \in [0 .. a -> 0 .. n] /\ f[a] = n
      /\ \A i \in 1 .. a : IF q[i].type = "Committed" THEN f[i] = f[i - 1] + 1
                           ELSE f[i] = f[i - 1]
  BY <1>1 DEF Tracks
<1> DEFINE U(k) == {i \in 1 .. k : q[i].type = "Committed"}
           bad == {k \in Nat : k <= a /\ ~ (IsFiniteSet(U(k)) /\ f[k] = f[0] + Cardinality(U(k)))}
<1>3. bad = {}
  <2> SUFFICES ASSUME bad # {} PROVE FALSE
    OBVIOUS
  <2>1. bad \subseteq Nat
    OBVIOUS
  <2>2. PICK k \in bad : \A j \in bad : k <= j
    BY <2>1, LeastNat
  <2>3. k \in Nat /\ k <= a /\ ~ (IsFiniteSet(U(k)) /\ f[k] = f[0] + Cardinality(U(k)))
    OBVIOUS
  <2>4. CASE k = 0
    <3>1. U(0) = {}
      OBVIOUS
    <3>2. IsFiniteSet(U(0)) /\ Cardinality(U(0)) = 0
      BY <3>1, FS_EmptySet
    <3>3. f[0] = f[0] + 0
      BY <1>1, <1>2
    <3> QED BY <2>3, <2>4, <3>2, <3>3
  <2>5. CASE k # 0
    <3>1. PICK j \in Nat : j = k - 1 /\ j <= a /\ ~ (k <= j) /\ k \in 1 .. a /\ k = j + 1
      BY <1>1, <2>3, <2>5
    <3>2. j \notin bad
      BY <2>2, <3>1
    <3>3. IsFiniteSet(U(j)) /\ f[j] = f[0] + Cardinality(U(j))
      BY <3>1, <3>2
    <3>4. Cardinality(U(j)) \in Nat /\ f[0] \in Nat /\ f[j] \in Nat
      BY <1>1, <1>2, <3>1, <3>3, FS_CardinalityType
    <3>5. CASE q[k].type = "Committed"
      <4>1. U(k) = U(j) \cup {k} /\ k \notin U(j)
        BY <3>1, <3>5
      <4> HIDE DEF U, bad
      <4>2. IsFiniteSet(U(k)) /\ Cardinality(U(k)) = Cardinality(U(j)) + 1
        BY <3>3, <4>1, FS_AddElement
      <4>3. f[k] = f[j] + 1
        BY <1>2, <3>1, <3>5
      <4>4. f[k] = f[0] + Cardinality(U(k))
        BY <3>3, <3>4, <4>2, <4>3
      <4> QED BY <2>3, <4>2, <4>4
    <3>6. CASE q[k].type # "Committed"
      <4>1. U(k) = U(j)
        BY <3>1, <3>6
      <4>2. f[k] = f[j]
        BY <1>2, <3>1, <3>6
      <4> HIDE DEF U, bad
      <4> QED BY <2>3, <3>3, <4>1, <4>2
    <3> QED BY <3>5, <3>6
  <2> QED BY <2>4, <2>5
<1>4. IsFiniteSet(U(a)) /\ f[a] = f[0] + Cardinality(U(a))
  <2>1. a \in Nat /\ a <= a
    OBVIOUS
  <2>2. a \notin bad
    BY <1>3, Zenon
  <2> HIDE DEF U
  <2> QED BY <2>1, <2>2
<1>5. PICK u \in Nat : u = Cardinality(U(a))
  BY <1>4, FS_CardinalityType
<1>6. f[0] \in 0 .. n /\ n = f[0] + u
  BY <1>1, <1>2, <1>4, <1>5
<1>7. f[0] = n - u
  BY <1>6
<1> QED BY <1>1, <1>5, <1>6, <1>7


\* The marks only depend on the elements that were read.
LEMMA MarksSame ==
    ASSUME NEW high, NEW lg, NEW pay, NEW lg2, NEW pay2, NEW n, Marks(high, lg, pay, n),
           \A i \in 1 .. n : pay2[lg2[i]] = pay[lg[i]]
    PROVE  Marks(high, lg2, pay2, n)
<1>1. \A c \in Clients : NoncesIn(c, lg2, pay2, n) = NoncesIn(c, lg, pay, n)
  BY DEF NoncesIn
<1> QED BY <1>1 DEF Marks

\* A commit raises the marks to those of one more element.
LEMMA MarksRaised ==
    ASSUME NEW p, SoundPool(p), NEW lg, NEW pay, NEW n \in Nat,
           Marks(p.high_committed_nonce, lg, pay, n),
           NEW batch \in Batches, batch = pay[lg[n + 1]], NEW r
    PROVE  Marks(commit(p, batch, r).high_committed_nonce, lg, pay, n + 1)
<1> DEFINE q == commit(p, batch, r)
<1>1. q.high_committed_nonce = [c \in Clients |-> RaisedNonce(p, DOMAIN batch, c)]
  BY DEF commit
<1> HIDE DEF q
<1> SUFFICES ASSUME NEW c \in Clients
             PROVE  q.high_committed_nonce[c] = Max(NoncesIn(c, lg, pay, n + 1))
  BY DEF Marks, q
<1> DEFINE A == NoncesIn(c, lg, pay, n)
           B == {m \in Nonces : <<c, m>> \in DOMAIN batch}
<1>2. NoncesIn(c, lg, pay, n + 1) = A \cup B
  <2>1. \A m : (\E i \in 1 .. (n + 1) : <<c, m>> \in DOMAIN pay[lg[i]])
                 <=> (\E i \in 1 .. n : <<c, m>> \in DOMAIN pay[lg[i]])
                       \/ <<c, m>> \in DOMAIN batch
    <3> TAKE m
    <3>1. \A i \in 1 .. n : i \in 1 .. (n + 1)
      OBVIOUS
    <3>2. \A i \in 1 .. (n + 1) : i \in 1 .. n \/ i = n + 1
      OBVIOUS
    <3>3. n + 1 \in 1 .. (n + 1)
      OBVIOUS
    <3> QED BY <3>1, <3>2, <3>3
  <2> QED BY <2>1 DEF NoncesIn
<1>3. A \subseteq Nonces /\ 0 \in A /\ B \subseteq Nonces
  BY PoolAssumption DEF NoncesIn, Nonces
<1>4. p.high_committed_nonce[c] = Max(A)
  BY DEF Marks
<1>5. RaisedNonce(p, DOMAIN batch, c) = Max({Max(A)} \cup B)
  BY <1>4 DEF RaisedNonce
<1> HIDE DEF A, B
<1>6. Max(A) \in A /\ \A y \in A : y <= Max(A)
  BY <1>3, MaxOfNonces
<1>7. /\ Max({Max(A)} \cup B) \in {Max(A)} \cup B
      /\ \A y \in {Max(A)} \cup B : y <= Max({Max(A)} \cup B)
  <2>1. {Max(A)} \cup B \subseteq Nonces /\ {Max(A)} \cup B # {}
    BY <1>3, <1>6
  <2> QED BY <2>1, MaxOfNonces
<1>8. Max(A \cup B) \in A \cup B /\ \A y \in A \cup B : y <= Max(A \cup B)
  <2>1. A \cup B \subseteq Nonces /\ A \cup B # {}
    BY <1>3
  <2> QED BY <2>1, MaxOfNonces
<1>9. PICK x, y, z : x = Max(A) /\ y = Max({Max(A)} \cup B) /\ z = Max(A \cup B)
  OBVIOUS
<1>10. x \in Nat /\ y \in Nat /\ z \in Nat
  <2>1. Nonces \subseteq Nat
    BY PoolAssumption DEF Nonces
  <2>2. x \in Nonces /\ y \in Nonces /\ z \in Nonces
    BY <1>3, <1>6, <1>7, <1>8, <1>9
  <2> QED BY <2>1, <2>2
<1>11. y \in A \cup B /\ y <= z
  BY <1>6, <1>7, <1>8, <1>9
<1>12. z <= y
  <2>1. CASE z \in A
    BY <1>6, <1>7, <1>9, <1>10, <2>1
  <2>2. CASE z \in B
    BY <1>7, <1>9, <2>2
  <2> QED BY <1>8, <1>9, <2>1, <2>2
<1>13. y = z
  BY <1>10, <1>11, <1>12
<1> QED BY <1>1, <1>2, <1>5, <1>9, <1>13

\* Only commit moves the marks.
LEMMA MarksKept ==
    ASSUME NEW p, SoundPool(p)
    PROVE  /\ \A k, size : add_tx(p, k, size).high_committed_nonce = p.high_committed_nonce
           /\ \A b, r : admit_proposal(p, b, r).high_committed_nonce = p.high_committed_nonce
           /\ \A r : make_batch(p, r).high_committed_nonce = p.high_committed_nonce
           /\ \A rs : rollback(p, rs).high_committed_nonce = p.high_committed_nonce
<1>1. \A k, size : add_tx(p, k, size).high_committed_nonce = p.high_committed_nonce
  BY DEF add_tx, InsertMineable, SoundPool, TypedPool
<1>2. \A b, r : admit_proposal(p, b, r).high_committed_nonce = p.high_committed_nonce
  BY DEF admit_proposal
<1>3. \A r : make_batch(p, r).high_committed_nonce = p.high_committed_nonce
  BY DEF make_batch
<1>4. \A rs : rollback(p, rs).high_committed_nonce = p.high_committed_nonce
  BY DEF rollback
<1> QED BY <1>1, <1>2, <1>3, <1>4

\* What is sealed is a batch of fresh transactions.
LEMMA SealedIsFresh ==
    ASSUME NEW p, SoundPool(p)
    PROVE  SealedBatch(p) \in Batches /\ \A k \in DOMAIN SealedBatch(p) : Fresh(p, k)
<1> DEFINE D == TakenKeys(p)
<1>1. D \subseteq DOMAIN p.mineable
  BY DEF TakenKeys
<1>2. DOMAIN SealedBatch(p) = D /\ SealedBatch(p) = [k \in D |-> p.mineable[k]]
  BY DEF SealedBatch, Restrict
<1> HIDE DEF D
<1>3. D \in SUBSET TxKey /\ \A k \in D : p.mineable[k] \in Sizes
  BY <1>1 DEF SoundPool, TypedPool
<1>4. SealedBatch(p) \in [D -> Sizes]
  BY <1>2, <1>3
<1>5. \A k \in D : Fresh(p, k)
  BY <1>1 DEF SoundPool, FreshMineable
<1> QED BY <1>2, <1>3, <1>4, <1>5 DEF Batches, PartialFn

\* The transactions of batches sealed from now on are fresh.
SealsFresh(p, s, t) ==
    \A i \in (Len(s) + 1) .. Len(t) : \A k \in DOMAIN t[i] : k \in TxKey /\ Fresh(p, k)

\* Sealing, or not, keeps the pool sound and the marks as they are.
LEMMA SealStep ==
    ASSUME NEW now, NEW p, SoundPool(p), NEW r \in Rounds, SealIf(now, p, r),
           sealed \in Seq(Batches)
    PROVE  /\ SoundPool(pool') /\ pool'.high_committed_nonce = p.high_committed_nonce
           /\ sealed' \in Seq(Batches)
           /\ SealsFresh(p, sealed, sealed')
<1>1. CASE now
  <2>1. pool' = make_batch(p, r) /\ sealed' = Append(sealed, SealedBatch(p))
    BY <1>1 DEF SealIf
  <2>2. PICK b \in Batches : b = SealedBatch(p) /\ \A k \in DOMAIN b : Fresh(p, k)
    BY SealedIsFresh
  <2>3. /\ sealed' \in Seq(Batches) /\ Len(sealed') = Len(sealed) + 1
        /\ sealed'[Len(sealed) + 1] = b
    BY <2>1, <2>2, AppendProperties
  <2>4. DOMAIN b \subseteq TxKey
    BY BatchIsTyped
  <2>5. \A i \in (Len(sealed) + 1) .. Len(sealed') : i = Len(sealed) + 1
    BY <2>3
  <2>6. SealsFresh(p, sealed, sealed')
    BY <2>2, <2>3, <2>4, <2>5 DEF SealsFresh
  <2>7. SoundPool(pool') /\ pool'.high_committed_nonce = p.high_committed_nonce
    BY <2>1, MakeBatchSound, MarksKept
  <2> QED BY <2>3, <2>6, <2>7
<1>2. CASE ~ now
  <2>1. pool' = p /\ sealed' = sealed
    BY <1>2 DEF SealIf
  <2>2. (Len(sealed) + 1) .. Len(sealed) = {}
    OBVIOUS
  <2> QED BY <2>1, <2>2 DEF SealsFresh
<1> QED BY <1>1, <1>2

----------------------------------------------------------------------------
\* The steps keep the invariant.  A step of the batcher alone changes the pool,
\* the round it knows, its channel and what it has sealed.
LEMMA BatcherTyped ==
    ASSUME NodeTyped, UNCHANGED <<engineVars, taskVars>>,
           SoundPool(pool'), current_round' \in Rounds,
           from_consensus' \in Seq(Messages), sealed' \in Seq(Batches)
    PROVE  NodeTyped'
BY DEF NodeTyped, engineVars, taskVars

\* What every step has to show.
StepKeeps == NodeInv' /\ SealsFresh(pool, sealed, sealed')

\* A step that leaves the channel, the log and the marks keeps what is tracked.
LEMMA TrackedSame ==
    ASSUME NodeTracked, UNCHANGED <<from_consensus, log, payload>>,
           pool'.high_committed_nonce = pool.high_committed_nonce
    PROVE  NodeTracked'
BY DEF NodeTracked

\* A client's transaction, and the batch it may complete.
LEMMA ClientTxKeeps == NodeInv /\ ClientTx => StepKeeps
<1> SUFFICES ASSUME NodeInv, ClientTx PROVE StepKeeps
  OBVIOUS
<1>1. PICK k \in TxKey, size \in Sizes : RecvTx(k, size)
  BY DEF ClientTx
<1>2. UNCHANGED <<engineVars, taskVars>>
  BY DEF ClientTx
<1>3. PICK p : p = add_tx(pool, k, size)
  OBVIOUS
<1>4. /\ SoundPool(pool) /\ current_round \in Rounds /\ from_consensus \in Seq(Messages)
      /\ sealed \in Seq(Batches)
  BY DEF NodeInv, NodeTyped
<1>5. SoundPool(p) /\ p.high_committed_nonce = pool.high_committed_nonce
  BY <1>3, <1>4, AddTxSound, MarksKept
<1>6. /\ SealIf(CanPropose /\ ready(p), p, current_round)
      /\ UNCHANGED <<current_leader, current_round, from_consensus>>
  BY <1>1, <1>3 DEF RecvTx
<1>7. PICK now : now = (CanPropose /\ ready(p))
  OBVIOUS
<1>8. SealIf(now, p, current_round)
  BY <1>6, <1>7
<1>9. /\ SoundPool(pool') /\ pool'.high_committed_nonce = p.high_committed_nonce
      /\ sealed' \in Seq(Batches)
      /\ SealsFresh(p, sealed, sealed')
  BY <1>4, <1>5, <1>8, SealStep
<1>10. NodeTyped'
  BY <1>2, <1>4, <1>6, <1>9, BatcherTyped DEF NodeInv
<1>11. NodeTracked'
  BY <1>2, <1>5, <1>6, <1>9, TrackedSame DEF NodeInv, engineVars, taskVars
<1>12. SealsFresh(pool, sealed, sealed')
  BY <1>5, <1>9 DEF SealsFresh, Fresh
<1> QED BY <1>10, <1>11, <1>12 DEF StepKeeps, NodeInv

\* The batch timer.
LEMMA BatcherTimerKeeps == NodeInv /\ BatcherTimer => StepKeeps
<1> SUFFICES ASSUME NodeInv, BatcherTimer PROVE StepKeeps
  OBVIOUS
<1>1. /\ SealIf(TRUE, pool, current_round)
      /\ UNCHANGED <<current_leader, current_round, from_consensus>>
      /\ UNCHANGED <<engineVars, taskVars>>
  BY DEF BatcherTimer, TickTimer
<1>2. /\ SoundPool(pool) /\ current_round \in Rounds /\ from_consensus \in Seq(Messages)
      /\ sealed \in Seq(Batches)
  BY DEF NodeInv, NodeTyped
<1>3. /\ SoundPool(pool') /\ pool'.high_committed_nonce = pool.high_committed_nonce
      /\ sealed' \in Seq(Batches)
      /\ SealsFresh(pool, sealed, sealed')
  BY <1>1, <1>2, SealStep
<1>4. NodeTyped'
  BY <1>1, <1>2, <1>3, BatcherTyped DEF NodeInv
<1>5. NodeTracked'
  BY <1>1, <1>3, TrackedSame DEF NodeInv, engineVars, taskVars
<1> QED BY <1>3, <1>4, <1>5 DEF StepKeeps, NodeInv

\* Nothing is sealed by a step that leaves the sealed batches, or takes one.
LEMMA NothingSealed ==
    ASSUME NEW p, NEW s \in Seq(Batches), NEW t \in Seq(Batches), Len(t) <= Len(s)
    PROVE  SealsFresh(p, s, t)
<1>1. (Len(s) + 1) .. Len(t) = {}
  OBVIOUS
<1> QED BY <1>1 DEF SealsFresh

\* The kinds of messages.
LEMMA MessageKinds ==
    ASSUME NEW m \in Messages
    PROVE  \/ m.type = "NewRound" /\ m.round \in Rounds
           \/ m.type = "Proposed" /\ m.batch \in Batches /\ m.round \in Rounds
           \/ m.type = "Committed" /\ m.batch \in Batches /\ m.round \in Rounds
           \/ m.type = "Rollback" /\ m.rounds \in SUBSET Rounds
BY DEF Messages

\* A message of the engine or the commit task.
LEMMA BatcherRecvKeeps == NodeInv /\ BatcherRecv => StepKeeps
<1> SUFFICES ASSUME NodeInv, BatcherRecv PROVE StepKeeps
  OBVIOUS
<1>1. PICK q \in Seq(Messages) : q = from_consensus
  BY DEF NodeInv, NodeTyped
<1>2. PICK m : m = Head(q)
  OBVIOUS
<1>3. /\ q # <<>> /\ from_consensus' = Tail(q) /\ UNCHANGED <<engineVars, taskVars>>
      /\ IF m.type = "NewRound" THEN RecvNewRound(m)
         ELSE pool' = PoolAfter(m) /\ UNCHANGED <<current_leader, current_round, proposed, sealed>>
  BY <1>1, <1>2, Zenon DEF BatcherRecv, RecvConsensus
<1>4. /\ SoundPool(pool) /\ current_round \in Rounds /\ sealed \in Seq(Batches)
      /\ log \in Seq(DOMAIN db)
  BY DEF NodeInv, NodeTyped
<1>5. m \in Messages /\ from_consensus' \in Seq(Messages)
  BY <1>2, <1>3, HeadTailProperties
<1>6. PICK f : /\ Tracks(f, q, log, payload)
               /\ Marks(pool.high_committed_nonce, log, payload, f[0])
  BY <1>1 DEF NodeInv, NodeTracked
<1>7. /\ \E h : Tracks(h, Tail(q), log, payload) /\ h[0] = f[1]
      /\ f[0] \in 0 .. Len(log) /\ f[1] \in 0 .. Len(log)
      /\ IF m.type = "Committed" THEN f[1] = f[0] + 1 /\ m.batch = payload[log[f[1]]]
         ELSE f[1] = f[0]
  BY <1>2, <1>3, <1>4, <1>6, TracksTail
<1>8. log' = log /\ payload' = payload
  BY <1>3 DEF engineVars, taskVars
<1>9. CASE m.type = "NewRound"
  <2>1. /\ SealIf(my_id = m.leader /\ ready(pool), pool, m.round)
        /\ current_round' = m.round
    BY <1>3, <1>9 DEF RecvNewRound
  <2>2. PICK now, r : now = (my_id = m.leader /\ ready(pool)) /\ r = m.round
    OBVIOUS
  <2>3. r \in Rounds
    BY <1>5, <1>9, <2>2, MessageKinds
  <2>4. SealIf(now, pool, r)
    BY <2>1, <2>2
  <2>5. /\ SoundPool(pool') /\ pool'.high_committed_nonce = pool.high_committed_nonce
        /\ sealed' \in Seq(Batches)
        /\ SealsFresh(pool, sealed, sealed')
    BY <1>4, <2>3, <2>4, SealStep
  <2>6. NodeTyped'
    BY <1>3, <1>5, <2>1, <2>2, <2>3, <2>5, BatcherTyped DEF NodeInv
  <2>7. NodeTracked'
    BY <1>3, <1>6, <1>7, <1>8, <1>9, <2>5 DEF NodeTracked
  <2> QED BY <2>5, <2>6, <2>7 DEF StepKeeps, NodeInv
<1>10. CASE m.type # "NewRound"
  <2>1. /\ pool' = PoolAfter(m)
        /\ UNCHANGED <<current_leader, current_round, proposed, sealed>>
    BY <1>3, <1>10
  <2>2. SoundPool(pool') /\ Marks(pool'.high_committed_nonce, log, payload, f[1])
    <3>1. CASE m.type = "Proposed"
      <4>1. m.batch \in Batches /\ m.round \in Rounds
        BY <1>5, <3>1, MessageKinds
      <4>2. pool' = admit_proposal(pool, m.batch, m.round)
        BY <2>1, <3>1 DEF PoolAfter
      <4>3. SoundPool(pool') /\ pool'.high_committed_nonce = pool.high_committed_nonce
        BY <1>4, <4>1, <4>2, AdmitProposalSound, MarksKept
      <4> QED BY <1>6, <1>7, <3>1, <4>3
    <3>2. CASE m.type = "Committed"
      <4>1. m.batch \in Batches /\ m.round \in Rounds
        BY <1>5, <3>2, MessageKinds
      <4>2. pool' = commit(pool, m.batch, m.round)
        BY <2>1, <3>2 DEF PoolAfter
      <4>3. SoundPool(pool')
        BY <1>4, <4>1, <4>2, CommitSound
      <4>4. PICK n \in Nat : n = f[0] /\ f[1] = n + 1 /\ m.batch = payload[log[n + 1]]
        BY <1>7, <3>2
      <4>5. Marks(pool'.high_committed_nonce, log, payload, n + 1)
        BY <1>4, <1>6, <4>1, <4>2, <4>4, MarksRaised
      <4> QED BY <4>3, <4>4, <4>5
    <3>3. CASE m.type = "Rollback"
      <4>1. m.rounds \in SUBSET Rounds
        BY <1>5, <3>3, MessageKinds
      <4>2. pool' = rollback(pool, m.rounds)
        BY <2>1, <3>3 DEF PoolAfter
      <4>3. SoundPool(pool') /\ pool'.high_committed_nonce = pool.high_committed_nonce
        BY <1>4, <4>1, <4>2, RollbackSound, MarksKept
      <4> QED BY <1>6, <1>7, <3>3, <4>3
    <3> QED BY <1>5, <1>10, <3>1, <3>2, <3>3, MessageKinds
  <2>3. NodeTyped'
    BY <1>3, <1>4, <1>5, <2>1, <2>2, BatcherTyped DEF NodeInv
  <2>4. NodeTracked'
    BY <1>3, <1>7, <1>8, <2>2 DEF NodeTracked
  <2>5. SealsFresh(pool, sealed, sealed')
    BY <1>4, <2>1, NothingSealed
  <2> QED BY <2>3, <2>4, <2>5 DEF StepKeeps, NodeInv
<1> QED BY <1>9, <1>10


\* The messages of the engine at the end of a round.
LEMMA RoundAnnounced ==
    ASSUME NodeTyped, round < MaxRound, NEW before \in Seq(Messages),
           Quiet(before), AdvanceRound(before)
    PROVE  /\ from_consensus' \in Seq(Messages)
           /\ \A f, pay : Tracks(f, from_consensus, log, pay)
                            => Continues(f, from_consensus', log, pay)
<1>1. PICK q \in Seq(Messages), lg \in Seq(DOMAIN db) : q = from_consensus /\ lg = log
  BY DEF NodeTyped
<1>2. PICK m : m = NewRound(LeaderOf[round + 1], round + 1)
  OBVIOUS
<1>3. m \in Messages /\ m.type # "Committed"
  <2>1. PICK l, r : l = LeaderOf[round + 1] /\ r = round + 1
    OBVIOUS
  <2>2. r \in 1 .. MaxRound /\ r \in Rounds
    BY <2>1, NodeAssumption DEF NodeTyped
  <2>3. l \in {LeaderOf[s] : s \in 1 .. MaxRound}
    BY <2>1, <2>2
  <2>4. m = [type |-> "NewRound", leader |-> l, round |-> r]
    BY <1>2, <2>1 DEF NewRound
  <2> QED BY <2>2, <2>3, <2>4 DEF Messages
<1>4. PICK ms \in Seq(Messages) : ms = <<m>> /\ Quiet(ms)
  <2>1. <<m>> \in Seq(Messages) /\ Len(<<m>>) = 1 /\ <<m>>[1] = m
    BY <1>3
  <2>2. Quiet(<<m>>)
    BY <1>3, <2>1 DEF Quiet
  <2> QED BY <2>1, <2>2
<1>5. from_consensus' = (q \o before) \o ms
  BY <1>1, <1>2, <1>4 DEF AdvanceRound
<1>6. PICK r \in Seq(Messages) : r = q \o before
  BY ConcatProperties
<1>7. from_consensus' \in Seq(Messages)
  BY <1>5, <1>6, ConcatProperties
<1>8. ASSUME NEW f, NEW pay, Tracks(f, q, lg, pay)
      PROVE  Continues(f, from_consensus', lg, pay)
  <2>1. Continues(f, r, lg, pay)
    BY <1>6, <1>8, TracksMore
  <2>2. PICK g : Tracks(g, r, lg, pay) /\ g[0] = f[0]
    BY <2>1 DEF Continues
  <2>3. Continues(g, r \o ms, lg, pay)
    BY <1>4, <2>2, TracksMore
  <2> QED BY <1>5, <1>6, <2>2, <2>3 DEF Continues
<1> QED BY <1>1, <1>7, <1>8

\* A proposal is adopted, with parent p and batch b.
LEMMA AdoptKeeps ==
    ASSUME NodeInv, round < MaxRound, NEW p \in DOMAIN db, NEW b \in Batches, Adopt(p, b),
           UNCHANGED <<pool, current_round, taskVars>>, sealed' \in Seq(Batches),
           Len(sealed') <= Len(sealed)
    PROVE  StepKeeps
<1>1. PICK D : D = DOMAIN db
  OBVIOUS
<1>2. /\ D \subseteq Rounds /\ D \in SUBSET Int /\ \A e \in D : e < round
      /\ \A e \in D : db[e] \in Int /\ payload[e] \in Batches
      /\ DOMAIN payload = D /\ round \in Nat /\ round >= 1 /\ p \in Int
      /\ end_rounds \in Seq(D) /\ task \in Tasks(D) /\ log \in Seq(D)
      /\ sealed \in Seq(Batches) /\ SoundPool(pool) /\ current_round \in Rounds
  BY <1>1 DEF NodeInv, NodeTyped, StoreOver
<1>3. round \notin D /\ round \in Rounds /\ round \in Int
  BY <1>2, NodeAssumption
<1>4. PICK T : T = D \cup {round}
  OBVIOUS
<1>5. /\ db' = [e \in T |-> IF e = round THEN p ELSE db[e]]
      /\ payload' = [e \in T |-> IF e = round THEN b ELSE payload[e]]
      /\ highest' = round
      /\ AdvanceRound(<<Proposed(b, round)>>)
  BY <1>1, <1>2, <1>4 DEF Adopt
<1>6. PICK before \in Seq(Messages) : before = <<Proposed(b, round)>> /\ Quiet(before)
  <2>1. PICK m : m = Proposed(b, round)
    OBVIOUS
  <2>2. PICK r \in Rounds : r = round
    BY <1>3
  <2>3. m = [type |-> "Proposed", batch |-> b, round |-> r]
    BY <2>1, <2>2 DEF Proposed
  <2>4. m \in Messages /\ m.type # "Committed"
    BY <2>3 DEF Messages
  <2>5. <<m>> \in Seq(Messages) /\ Len(<<m>>) = 1 /\ <<m>>[1] = m
    BY <2>4
  <2>6. Quiet(<<m>>)
    BY <2>4, <2>5 DEF Quiet
  <2> QED BY <2>1, <2>5, <2>6
<1>7. /\ from_consensus' \in Seq(Messages)
      /\ \A f, pay : Tracks(f, from_consensus, log, pay)
                       => Continues(f, from_consensus', log, pay)
  BY <1>5, <1>6, RoundAnnounced DEF NodeInv
<1>8. round' = round + 1 /\ end_rounds' = Append(end_rounds, round)
  BY <1>5 DEF AdvanceRound
<1>9. /\ DOMAIN db' = T /\ DOMAIN payload' = T /\ highest' \in T
      /\ \A e \in T : db'[e] \in Int /\ payload'[e] \in Batches
      /\ \A e \in D : payload'[e] = payload[e]
  BY <1>2, <1>3, <1>4, <1>5
<1>10. /\ T \in SUBSET Int /\ T \subseteq Rounds /\ \A e \in T : e < round + 1
       /\ D \subseteq T
  BY <1>2, <1>3, <1>4
<1>11. end_rounds' \in Seq(T) /\ task' \in Tasks(T) /\ log' \in Seq(T) /\ log' = log /\ pool' = pool
  <2>1. end_rounds \in Seq(T) /\ log \in Seq(T)
    BY <1>2, <1>10, SeqGrows
  <2>2. round \in T
    BY <1>4
  <2>3. Append(end_rounds, round) \in Seq(T)
    BY <2>1, <2>2, AppendProperties
  <2>4. task \in Tasks(T)
    BY <1>2, <1>10, TasksGrow
  <2> QED BY <1>8, <2>1, <2>3, <2>4 DEF taskVars
<1>12. NodeTyped'
  <2>1. StoreOver(db', DOMAIN db')
    BY <1>9, <1>10 DEF StoreOver
  <2>2. round' \in Nat /\ round' >= 1
    BY <1>2, <1>8
  <2> QED BY <1>2, <1>7, <1>8, <1>9, <1>10, <1>11, <2>1, <2>2 DEF NodeTyped
<1>13. NodeTracked'
  <2>1. PICK f : /\ Tracks(f, from_consensus, log, payload)
                 /\ Marks(pool.high_committed_nonce, log, payload, f[0])
    BY DEF NodeInv, NodeTracked
  <2>2. from_consensus \in Seq(Messages)
    BY DEF NodeInv, NodeTyped
  <2>3. Tracks(f, from_consensus, log, payload')
    BY <1>2, <1>9, <2>1, <2>2, TracksSame
  <2>4. PICK h : Tracks(h, from_consensus', log, payload') /\ h[0] = f[0]
    BY <1>7, <2>3 DEF Continues
  <2>5. PICK n \in Nat : n = f[0] /\ n <= Len(log)
    <3>1. f[0] \in 0 .. Len(log)
      BY <1>2, <2>1, <2>2, TracksUnread, Zenon
    <3> QED BY <1>2, <3>1
  <2>6. \A i \in 1 .. n : payload'[log[i]] = payload[log[i]]
    <3>1. \A i \in 1 .. n : i \in 1 .. Len(log) /\ log[i] \in D
      BY <1>2, <2>5, ElementOfSeq
    <3> QED BY <1>9, <3>1
  <2>7. Marks(pool.high_committed_nonce, log, payload', n)
    BY <2>1, <2>5, <2>6, MarksSame
  <2> QED BY <1>11, <2>4, <2>5, <2>7 DEF NodeTracked
<1>14. SealsFresh(pool, sealed, sealed')
  BY <1>2, NothingSealed
<1> QED BY <1>12, <1>13, <1>14 DEF StepKeeps, NodeInv

\* The server's own proposal.
LEMMA ProposeOwnKeeps == NodeInv /\ ProposeOwn => StepKeeps
<1> SUFFICES ASSUME NodeInv, ProposeOwn PROVE StepKeeps
  OBVIOUS
<1>1. /\ round < MaxRound /\ sealed # <<>> /\ sealed' = Tail(sealed)
      /\ Adopt(highest, Head(sealed))
      /\ UNCHANGED <<pool, current_round, taskVars>>
  BY DEF ProposeOwn
<1>2. sealed \in Seq(Batches) /\ highest \in DOMAIN db
  BY DEF NodeInv, NodeTyped
<1>3. Head(sealed) \in Batches /\ sealed' \in Seq(Batches) /\ Len(sealed') <= Len(sealed)
  BY <1>1, <1>2, HeadTailProperties
<1> QED BY <1>1, <1>2, <1>3, AdoptKeeps

\* The proposal of another leader.
LEMMA AdoptOtherKeeps == NodeInv /\ AdoptOther => StepKeeps
<1> SUFFICES ASSUME NodeInv, AdoptOther PROVE StepKeeps
  OBVIOUS
<1>1. PICK p \in DOMAIN db, b \in Batches : Adopt(p, b)
  BY DEF AdoptOther
<1>2. round < MaxRound /\ UNCHANGED <<pool, current_round, taskVars>> /\ sealed' = sealed
  BY DEF AdoptOther
<1>3. sealed \in Seq(Batches)
  BY DEF NodeInv, NodeTyped
<1>4. sealed' \in Seq(Batches) /\ Len(sealed') <= Len(sealed)
  BY <1>2, <1>3
<1> QED BY <1>1, <1>2, <1>4, AdoptKeeps

\* A round that ends with a blame QC.
LEMMA BlameQCKeeps == NodeInv /\ BlameQC => StepKeeps
<1> SUFFICES ASSUME NodeInv, BlameQC PROVE StepKeeps
  OBVIOUS
<1>1. /\ round < MaxRound /\ AdvanceRound(<<>>) /\ UNCHANGED <<db, highest, payload>>
      /\ UNCHANGED <<pool, current_leader, current_round, proposed, sealed, taskVars>>
  BY DEF BlameQC
<1>2. PICK before \in Seq(Messages) : before = <<>> /\ Quiet(before)
  <2>1. <<>> \in Seq(Messages) /\ 1 .. Len(<<>>) = {}
    OBVIOUS
  <2> QED BY <2>1 DEF Quiet
<1>3. /\ from_consensus' \in Seq(Messages)
      /\ \A f, pay : Tracks(f, from_consensus, log, pay)
                       => Continues(f, from_consensus', log, pay)
  BY <1>1, <1>2, RoundAnnounced DEF NodeInv
<1>4. round' = round + 1 /\ end_rounds' = Append(end_rounds, highest)
  BY <1>1 DEF AdvanceRound
<1>5. NodeTyped'
  <2>1. end_rounds' \in Seq(DOMAIN db)
    BY <1>4, AppendProperties DEF NodeInv, NodeTyped
  <2>2. round' \in Nat /\ round' >= 1 /\ \A e \in DOMAIN db : e < round'
    <3>1. round \in Nat /\ round >= 1 /\ DOMAIN db \in SUBSET Int /\ \A e \in DOMAIN db : e < round
      BY DEF NodeInv, NodeTyped, StoreOver
    <3> QED BY <1>4, <3>1
  <2> QED BY <1>1, <1>3, <2>1, <2>2 DEF NodeInv, NodeTyped, taskVars
<1>6. NodeTracked'
  BY <1>1, <1>3 DEF NodeInv, NodeTracked, Continues, taskVars
<1>7. SealsFresh(pool, sealed, sealed')
  <2>1. sealed \in Seq(Batches) /\ sealed' = sealed /\ Len(sealed) <= Len(sealed)
    BY <1>1 DEF NodeInv, NodeTyped
  <2> QED BY <2>1, NothingSealed
<1> QED BY <1>5, <1>6, <1>7 DEF StepKeeps, NodeInv

\* The commit task's handler: a rollback, then the commits in the order of log.
LEMMA RunCommitTaskKeeps == NodeInv /\ RunCommitTask => StepKeeps
<1> SUFFICES ASSUME NodeInv, RunCommitTask PROVE StepKeeps
  OBVIOUS
<1>1. PICK D : D = DOMAIN db
  OBVIOUS
<1>2. /\ D \subseteq Rounds /\ StoreOver(db, D) /\ task \in Tasks(D) /\ end_rounds \in Seq(D)
      /\ log \in Seq(D) /\ from_consensus \in Seq(Messages)
      /\ \A e \in D : payload[e] \in Batches
      /\ sealed \in Seq(Batches)
  BY <1>1 DEF NodeInv, NodeTyped
<1>3. end_rounds # <<>>
  BY DEF RunCommitTask
<1>4. PICK e \in D : e = Head(end_rounds)
  BY <1>2, <1>3, HeadTailProperties
<1>5. PICK gone : gone = Task!end_round_orphans(task, db, e)
  OBVIOUS
<1>6. PICK fin : fin = task'.committed
  OBVIOUS
<1>7. PICK ms : ms = [i \in 1 .. Len(fin) |-> Committed(payload[fin[i]], fin[i])]
  OBVIOUS
<1>8. PICK rb : rb = IF gone = {} THEN <<>> ELSE <<RolledBack(gone)>>
  OBVIOUS
<1>9. /\ end_rounds' = Tail(end_rounds)
      /\ task' = Task!end_round(task, db, e)
      /\ log' = log \o fin
      /\ from_consensus' = (from_consensus \o rb) \o ms
      /\ UNCHANGED <<pool, current_leader, current_round, proposed, sealed,
                     round, db, highest, payload>>
  BY <1>4, <1>5, <1>6, <1>7, <1>8, Zenon DEF RunCommitTask
<1>10. task' \in Tasks(D) /\ gone \subseteq D
  BY <1>2, <1>5, <1>9, EndRoundOver
<1>11. fin \in Seq(D)
  BY <1>6, <1>10 DEF Tasks
<1>12. ms \in Seq(Messages)
  <2>1. ASSUME NEW i \in 1 .. Len(fin) PROVE ms[i] \in Messages
    <3>1. fin[i] \in D
      BY <1>11, ElementOfSeq
    <3>2. PICK r \in Rounds, b \in Batches : r = fin[i] /\ b = payload[fin[i]]
      BY <1>2, <3>1
    <3>3. ms[i] = [type |-> "Committed", batch |-> b, round |-> r]
      BY <1>7, <3>2 DEF Committed
    <3> QED BY <3>3 DEF Messages
  <2>2. PICK n \in Nat : n = Len(fin)
    BY <1>11
  <2>3. ms = [i \in 1 .. n |-> ms[i]] /\ ms \in [1 .. n -> Messages]
    BY <1>7, <2>1, <2>2
  <2> QED BY <2>2, <2>3
<1>13. rb \in Seq(Messages) /\ Quiet(rb)
  <2>1. CASE gone = {}
    <3>1. <<>> \in Seq(Messages) /\ 1 .. Len(<<>>) = {}
      OBVIOUS
    <3> QED BY <1>8, <2>1, <3>1 DEF Quiet
  <2>2. CASE gone # {}
    <3>1. PICK g \in SUBSET Rounds : g = gone
      BY <1>2, <1>10
    <3>2. PICK m : m = RolledBack(g)
      OBVIOUS
    <3>3. m \in Messages /\ m.type # "Committed"
      BY <3>2 DEF RolledBack, Messages
    <3>4. <<m>> \in Seq(Messages) /\ Len(<<m>>) = 1 /\ <<m>>[1] = m
      BY <3>3
    <3> QED BY <1>8, <2>2, <3>1, <3>2, <3>3, <3>4 DEF Quiet
  <2> QED BY <2>1, <2>2
<1>14. PICK r \in Seq(Messages) : r = from_consensus \o rb
  BY <1>2, <1>13, ConcatProperties
<1>15. NodeTyped'
  <2>1. from_consensus' \in Seq(Messages) /\ log' \in Seq(D) /\ end_rounds' \in Seq(D)
    BY <1>2, <1>3, <1>9, <1>11, <1>12, <1>14, ConcatProperties, HeadTailProperties
  <2> QED BY <1>1, <1>9, <1>10, <2>1 DEF NodeInv, NodeTyped
<1>16. NodeTracked'
  <2>1. PICK f : /\ Tracks(f, from_consensus, log, payload)
                 /\ Marks(pool.high_committed_nonce, log, payload, f[0])
    BY DEF NodeInv, NodeTracked
  <2>2. PICK g : Tracks(g, r, log, payload) /\ g[0] = f[0]
    <3>1. Continues(f, from_consensus \o rb, log, payload)
      BY <1>2, <1>13, <2>1, TracksMore, Zenon
    <3> QED BY <1>14, <3>1 DEF Continues
  <2>3. PICK h : Tracks(h, r \o ms, log \o fin, payload) /\ h[0] = g[0]
    <3>1. Continues(g, r \o ms, log \o fin, payload)
      BY <1>2, <1>7, <1>11, <1>12, <2>2, TracksCommitted, Zenon
    <3> QED BY <3>1 DEF Continues
  <2>4. PICK n \in Nat : n = f[0] /\ n <= Len(log)
    <3>1. f[0] \in 0 .. Len(log)
      BY <1>2, <2>1, TracksUnread, Zenon
    <3> QED BY <1>2, <3>1
  <2>5. \A i \in 1 .. n : payload[log'[i]] = payload[log[i]]
    BY <1>2, <1>9, <1>11, <2>4, ConcatProperties
  <2>6. Marks(pool.high_committed_nonce, log', payload, n)
    BY <2>1, <2>4, <2>5, MarksSame
  <2> QED BY <1>9, <1>14, <2>2, <2>3, <2>4, <2>6 DEF NodeTracked
<1>17. SealsFresh(pool, sealed, sealed')
  <2>1. sealed' = sealed /\ Len(sealed) <= Len(sealed)
    BY <1>2, <1>9
  <2> QED BY <1>2, <2>1, NothingSealed
<1> QED BY <1>15, <1>16, <1>17 DEF StepKeeps, NodeInv


\* The initial state.
LEMMA NodeInvInit == NodeInit => NodeInv
<1> SUFFICES ASSUME NodeInit PROVE NodeInv
  OBVIOUS
<1>1. /\ pool = EmptyPool /\ current_round = 0 /\ from_consensus = <<>> /\ sealed = <<>>
      /\ round = 1 /\ db = [e \in {0} |-> -1] /\ highest = 0 /\ task = Task!InitTask
      /\ log = <<>> /\ payload = [e \in {0} |-> EmptyBatch] /\ end_rounds = <<>>
  BY DEF NodeInit, BatcherInit, Task!Genesis, Task!NoParent
<1>2. 0 \in Rounds
  BY NodeAssumption
<1>3. SoundPool(pool)
  <2>1. PoolInit
    BY <1>1 DEF PoolInit
  <2> QED BY <2>1, PoolInitSound
<1>4. EmptyBatch \in Batches
  <2>1. EmptyBatch \in [{} -> Sizes] /\ {} \in SUBSET TxKey
    BY DEF EmptyBatch
  <2> QED BY <2>1 DEF Batches, PartialFn
<1>5. task \in Tasks({0})
  <2>1. PICK c : c = [i \in {START_ID} |-> 1]
    OBVIOUS
  <2>2. Task!Author(0) = START_ID
    BY DEF Task!Author, Task!Genesis
  <2>3. c \in Counts
    <3>1. c \in [{START_ID} -> Int] /\ {START_ID} \in SUBSET {Task!Author(e) : e \in Int}
      BY <2>1, <2>2
    <3> QED BY <3>1, CountsAre
  <2>4. PICK q : q = <<[key |-> 0, elem |-> 0]>>
    OBVIOUS
  <2>5. q \in Seq(Entries({0}))
    <3>1. [key |-> 0, elem |-> 0] \in Entries({0})
      BY DEF Entries
    <3> QED BY <2>4, <3>1
  <2>6. PICK s \in Seq({0}) : s = <<>>
    <3>1. <<>> \in Seq({0})
      OBVIOUS
    <3> QED BY <3>1
  <2>7. task = [commit_queue |-> q, unique_proposers |-> c, highest_committed_hash |-> 0,
                highest_committed_element |-> 0, committed |-> s, panicked |-> FALSE]
    BY <1>1, <2>1, <2>4, <2>6 DEF Task!InitTask, Task!Genesis
  <2> QED BY <2>3, <2>5, <2>6, <2>7 DEF Tasks
<1>6. NodeTyped
  <2>1. DOMAIN db = {0} /\ db[0] = -1 /\ StoreOver(db, {0})
    BY <1>1 DEF StoreOver
  <2>2. <<>> \in Seq(Messages) /\ <<>> \in Seq(Batches) /\ <<>> \in Seq({0})
    OBVIOUS
  <2> QED BY <1>1, <1>2, <1>3, <1>4, <1>5, <2>1, <2>2 DEF NodeTyped
<1>7. NodeTracked
  <2>1. PICK f : f = [i \in 0 .. 0 |-> 0]
    OBVIOUS
  <2>2. f[0] = 0 /\ f \in [0 .. 0 -> 0 .. 0] /\ 1 .. 0 = {} /\ Len(<<>>) = 0
    BY <2>1
  <2>3. Tracks(f, from_consensus, log, payload)
    BY <1>1, <2>2 DEF Tracks
  <2>4. Marks(pool.high_committed_nonce, log, payload, 0)
    <3> SUFFICES ASSUME NEW c \in Clients
                 PROVE  pool.high_committed_nonce[c] = Max(NoncesIn(c, log, payload, 0))
      BY DEF Marks
    <3>1. NoncesIn(c, log, payload, 0) = {0}
      BY DEF NoncesIn
    <3>2. {0} \subseteq Nonces /\ {0} # {}
      BY PoolAssumption DEF Nonces
    <3>3. Max({0}) = 0
      BY <3>2, MaxOfNonces
    <3>4. pool.high_committed_nonce[c] = 0
      BY <1>1 DEF EmptyPool
    <3> QED BY <3>1, <3>3, <3>4
  <2> QED BY <2>2, <2>3, <2>4 DEF NodeTracked
<1> QED BY <1>6, <1>7 DEF NodeInv

\* Every step keeps the invariant and seals fresh transactions only.
LEMMA NodeStepKeeps == NodeInv /\ [NodeNext]_vars => StepKeeps
<1> SUFFICES ASSUME NodeInv, [NodeNext]_vars PROVE StepKeeps
  OBVIOUS
<1>1. CASE NodeNext
  BY <1>1, ProposeOwnKeeps, AdoptOtherKeeps, BlameQCKeeps, RunCommitTaskKeeps,
     ClientTxKeeps, BatcherTimerKeeps, BatcherRecvKeeps DEF NodeNext
<1>2. CASE UNCHANGED vars
  <2>1. NodeInv'
    BY <1>2 DEF NodeInv, NodeTyped, NodeTracked, vars, batcherVars, engineVars, taskVars
  <2>2. sealed' = sealed /\ sealed \in Seq(Batches) /\ Len(sealed) <= Len(sealed)
    BY <1>2 DEF vars, batcherVars, NodeInv, NodeTyped
  <2>3. SealsFresh(pool, sealed, sealed')
    BY <2>2, NothingSealed
  <2> QED BY <2>1, <2>3 DEF StepKeeps
<1> QED BY <1>1, <1>2

\* The inductive invariant of the server holds in every interleaving.
THEOREM NodeInvariant == NodeSpec => []NodeInv
<1>1. NodeInv /\ [NodeNext]_vars => NodeInv'
  BY NodeStepKeeps DEF StepKeeps
<1> QED BY <1>1, NodeInvInit, PTL DEF NodeSpec

\* What the batcher has read of the log are its first f[0] elements.
LEMMA ReadLogIs ==
    ASSUME NodeInv
    PROVE  \E n \in Nat : /\ Marks(pool.high_committed_nonce, log, payload, n)
                          /\ Len(ReadLog) = n
                          /\ \A i \in 1 .. n : ReadLog[i] = log[i]
<1> DEFINE D == DOMAIN db
<1>1. PICK q \in Seq(Messages), lg \in Seq(D) : q = from_consensus /\ lg = log
  BY DEF NodeInv, NodeTyped
<1>2. PICK f : Tracks(f, q, lg, payload) /\ Marks(pool.high_committed_nonce, lg, payload, f[0])
  BY <1>1 DEF NodeInv, NodeTracked
<1>3. /\ f[0] \in 0 .. Len(lg)
      /\ f[0] = Len(lg) - Cardinality({i \in 1 .. Len(q) : q[i].type = "Committed"})
  BY <1>2, TracksUnread
<1>4. PICK n \in Nat : n = f[0] /\ n <= Len(lg)
  <2>1. \A x \in 0 .. Len(lg) : x \in Nat /\ x <= Len(lg)
    OBVIOUS
  <2> QED BY <1>3, <2>1, Zenon
<1>5. ReadLog = SubSeq(lg, 1, n)
  BY <1>1, <1>3, <1>4 DEF ReadLog, Unread
<1>6. \A i \in 1 .. n : lg[i] \in D
  BY <1>4, ElementOfSeq
<1>7. Len(ReadLog) = n /\ \A i \in 1 .. n : ReadLog[i] = lg[i]
  <2>1. /\ Len(SubSeq(lg, 1, n)) = IF 1 <= n THEN n - 1 + 1 ELSE 0
        /\ \A i \in 1 .. (n - 1 + 1) : SubSeq(lg, 1, n)[i] = lg[1 + i - 1]
    BY <1>4, <1>6, SubSeqProperties
  <2>2. (1 <= n => n - 1 + 1 = n) /\ (~ (1 <= n) => n = 0) /\ n - 1 + 1 = n
    OBVIOUS
  <2>3. \A i \in 1 .. n : 1 + i - 1 = i
    OBVIOUS
  <2> QED BY <1>5, <2>1, <2>2, <2>3
<1> QED BY <1>1, <1>2, <1>4, <1>7

\* The high-water marks are exactly those of the commits the batcher has been
\* told of, in any interleaving of engine, commit task, clients and batcher.
THEOREM MarksAreOfCommits == NodeSpec => []MarksFollowCommits
<1>1. NodeInv => MarksFollowCommits
  <2> SUFFICES ASSUME NodeInv, NEW c \in Clients
               PROVE  pool.high_committed_nonce[c] =
                        Max({0} \cup {m \in Nonces : \E i \in 1 .. Len(ReadLog) :
                                                         <<c, m>> \in DOMAIN payload[ReadLog[i]]})
    BY DEF MarksFollowCommits
  <2>1. PICK n \in Nat : /\ Marks(pool.high_committed_nonce, log, payload, n)
                         /\ Len(ReadLog) = n
                         /\ \A i \in 1 .. n : ReadLog[i] = log[i]
    BY ReadLogIs
  <2>2. PICK rl : rl = ReadLog
    OBVIOUS
  <2>3. Marks(pool.high_committed_nonce, rl, payload, n)
    BY <2>1, <2>2, MarksSame
  <2> QED BY <2>1, <2>2, <2>3 DEF Marks, NoncesIn
<1> QED BY <1>1, NodeInvariant, PTL

\* The batcher never seals a transaction whose commit it has been told of.
THEOREM CommittedNotSealed == NodeSpec => NeverSealsCommitted
<1>1. NodeInv /\ [NodeNext]_vars
        => [\A i \in (Len(sealed) + 1) .. Len(sealed') :
              \A j \in 1 .. Len(ReadLog) :
                  DOMAIN sealed'[i] \cap DOMAIN payload[ReadLog[j]] = {}]_vars
  <2> SUFFICES ASSUME NodeInv, [NodeNext]_vars,
                      NEW i \in (Len(sealed) + 1) .. Len(sealed'),
                      NEW j \in 1 .. Len(ReadLog),
                      NEW k \in DOMAIN sealed'[i], k \in DOMAIN payload[ReadLog[j]]
               PROVE  FALSE
    OBVIOUS
  <2>1. k \in TxKey /\ Fresh(pool, k)
    BY NodeStepKeeps DEF StepKeeps, SealsFresh
  <2>2. PICK n \in Nat : /\ Marks(pool.high_committed_nonce, log, payload, n)
                         /\ Len(ReadLog) = n
                         /\ \A m \in 1 .. n : ReadLog[m] = log[m]
    BY ReadLogIs
  <2>3. PICK c \in Clients, m \in Nonces : k = <<c, m>> /\ k[1] = c /\ k[2] = m
    BY <2>1 DEF TxKey
  <2> DEFINE S == NoncesIn(c, log, payload, n)
  <2>4. m \in S
    BY <2>2, <2>3 DEF NoncesIn
  <2>5. S \subseteq Nonces /\ S # {}
    <3>1. 0 \in Nonces
      BY PoolAssumption DEF Nonces
    <3> QED BY <3>1 DEF NoncesIn
  <2>6. pool.high_committed_nonce[c] = Max(S)
    BY <2>2 DEF Marks
  <2> HIDE DEF S
  <2>7. Max(S) \in Nonces /\ m <= Max(S)
    BY <2>4, <2>5, MaxOfNonces
  <2>8. m > Max(S)
    BY <2>1, <2>3, <2>6 DEF Fresh
  <2> QED BY <2>7, <2>8, PoolAssumption DEF Nonces
<1> QED BY <1>1, NodeInvariant, PTL DEF NodeSpec, NeverSealsCommitted
=============================================================================
