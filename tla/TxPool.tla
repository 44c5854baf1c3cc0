------------------------------- MODULE TxPool -------------------------------
(***************************************************************************)
(* The nonce-keyed transaction pool of consensus/src/server/tx_pool.rs.    *)
(*                                                                         *)
(* A transaction is known to the pool by its key <<client, nonce>>.  It is *)
(* Unknown, Mineable (waiting to be batched) or InFlight (part of a batch  *)
(* proposed in some round).  Its payload only matters through its size in  *)
(* bytes: two different transactions with the same key (an equivocating    *)
(* client) show up as two sizes.                                           *)
(*                                                                         *)
(* A batch is a function from the keys it carries to their sizes.  Every   *)
(* loop over a payload ignores a second transaction with the same key (it  *)
(* meets the InFlight guard, or removes what is already removed), so the   *)
(* function of first occurrences is all the pool can tell of a payload.    *)
(*                                                                         *)
(* The operations are operators from pool to pool, so that a caller can    *)
(* run two of them in one step, as the batcher does.                       *)
(***************************************************************************)
EXTENDS Integers, FiniteSets, FiniteSetsExt, Functions

CONSTANTS
    Clients,    \* client ids
    MaxNonce,   \* the largest nonce a client uses
    Rounds,     \* consensus rounds a batch can be tagged with
    Sizes,      \* sizes of transactions, in bytes
    BatchSize   \* batch_size: bytes that make a batch full

ASSUME PoolAssumption ==
    /\ Clients \subseteq Nat /\ IsFiniteSet(Clients)
    /\ MaxNonce \in Nat
    /\ Rounds \subseteq Nat
    /\ Sizes \subseteq Nat
    /\ BatchSize \in Nat

VARIABLE pool

Nonces == 0 .. MaxNonce

TxKey == Clients \X Nonces

InflightEntry == [size : Sizes, round : Rounds]

\* The partial functions from a subset of S to T.
PartialFn(S, T) == UNION {[D -> T] : D \in SUBSET S}

Batches == PartialFn(TxKey, Sizes)

\* high_committed_nonce.get(c).unwrap_or(0): a client nothing was committed
\* for counts as 0, so nonce 0 is never accepted.
Fresh(p, k) == k[2] > p.high_committed_nonce[k[1]]

TotalSize(sizes, keys) == SumFunctionOnSet(sizes, keys)

\* BTreeMap order of the keys.
KeyLess(k, m) == k[1] < m[1] \/ (k[1] = m[1] /\ k[2] < m[2])

\* inflight_by_round.entry(round).or_default() extended with keys.
IndexUnder(index, r, keys) ==
    [s \in DOMAIN index \cup {r} |->
        IF s = r THEN (IF r \in DOMAIN index THEN index[r] ELSE {}) \cup keys
                 ELSE index[s]]

(***************************************************************************)
(* Txpool::new                                                             *)
(***************************************************************************)
EmptyPool ==
    [mineable             |-> [k \in {} |-> 0],
     mineable_bytes       |-> 0,
     inflight             |-> [k \in {} |-> 0],
     inflight_by_round    |-> [r \in {} |-> {}],
     high_committed_nonce |-> [c \in Clients |-> 0]]

----------------------------------------------------------------------------
(***************************************************************************)
(* add_tx: a transaction arrives from a client.  A replay and a key that   *)
(* is already InFlight are dropped; otherwise the last write wins.         *)
(***************************************************************************)
AcceptsFreshOnly(p, k) == Fresh(p, k)    \* mutant: InFlight check dropped

AcceptsReplays(p, k) == k \notin DOMAIN p.inflight    \* mutant: replay check dropped

Accepts(p, k) == Fresh(p, k) /\ k \notin DOMAIN p.inflight

\* mutant: the overwritten entry's bytes are not given back
InsertMineableNoRefund(p, k, size) ==
    [p EXCEPT !.mineable = [m \in DOMAIN p.mineable \cup {k} |->
                               IF m = k THEN size ELSE p.mineable[m]],
              !.mineable_bytes = @ + size]

InsertMineable(p, k, size) ==
    [p EXCEPT !.mineable = [m \in DOMAIN p.mineable \cup {k} |->
                               IF m = k THEN size ELSE p.mineable[m]],
              !.mineable_bytes =
                  @ - (IF k \in DOMAIN p.mineable THEN p.mineable[k] ELSE 0) + size]

add_tx(p, k, size) == IF Accepts(p, k) THEN InsertMineable(p, k, size) ELSE p

(***************************************************************************)
(* admit_proposal: batch was proposed at round r.  Stale keys and keys     *)
(* already InFlight are skipped, whatever round they are tagged with; the  *)
(* others leave Mineable (keeping the size recorded there) or, when the    *)
(* proposal overtook the client, become InFlight directly.                 *)
(***************************************************************************)
AdmittedKeys(p, batch) == {k \in DOMAIN batch : Accepts(p, k)}

admit_proposal(p, batch, r) ==
    LET new == AdmittedKeys(p, batch)
        promoted == new \cap DOMAIN p.mineable
    IN [mineable             |-> Restrict(p.mineable, DOMAIN p.mineable \ new),
        mineable_bytes       |-> p.mineable_bytes - TotalSize(p.mineable, promoted),
        inflight             |->
            [k \in DOMAIN p.inflight \cup new |->
                IF k \notin new THEN p.inflight[k]
                ELSE [size |-> IF k \in promoted THEN p.mineable[k] ELSE batch[k],
                      round |-> r]],
        inflight_by_round    |-> IndexUnder(p.inflight_by_round, r, new),
        high_committed_nonce |-> p.high_committed_nonce]

(***************************************************************************)
(* make_batch: pop Mineable in key order while the bytes popped so far     *)
(* stay below batch_size.  TakenKeys is that prefix in closed form.        *)
(***************************************************************************)
TakenKeys(p) ==
    {k \in DOMAIN p.mineable :
        TotalSize(p.mineable, {m \in DOMAIN p.mineable : KeyLess(m, k)}) < BatchSize}

SealedBatch(p) == Restrict(p.mineable, TakenKeys(p))

make_batch(p, r) ==
    LET taken == TakenKeys(p)
    IN [mineable             |-> Restrict(p.mineable, DOMAIN p.mineable \ taken),
        mineable_bytes       |-> p.mineable_bytes - TotalSize(p.mineable, taken),
        inflight             |->
            [k \in DOMAIN p.inflight \cup taken |->
                IF k \in taken THEN [size |-> p.mineable[k], round |-> r]
                               ELSE p.inflight[k]],
        inflight_by_round    |-> IndexUnder(p.inflight_by_round, r, taken),
        high_committed_nonce |-> p.high_committed_nonce]

(***************************************************************************)
(* commit: the batch proposed at round r is final.  Its keys leave both    *)
(* buckets, the high-water marks of its clients rise, and Mineable entries *)
(* at or below the new marks are collected.  InFlight entries below the    *)
(* marks stay.                                                             *)
(***************************************************************************)
\* mutant: the mark is the next nonce expected, not the last committed
RaisedNoncePlusOne(p, keys, c) ==
    1 + Max({p.high_committed_nonce[c]} \cup {n \in Nonces : <<c, n>> \in keys})

RaisedNonce(p, keys, c) ==
    Max({p.high_committed_nonce[c]} \cup {n \in Nonces : <<c, n>> \in keys})

UnindexedNothing(p, keys) == p.inflight_by_round    \* mutant: index forgotten

Unindexed(p, keys) ==
    [r \in DOMAIN p.inflight_by_round |->
        {k \in p.inflight_by_round[r] :
            ~ (k \in keys /\ k \in DOMAIN p.inflight /\ p.inflight[k].round = r)}]

\* The index entry of r goes only if the commit left it empty.
WithoutEmpty(index, r) ==
    Restrict(index, {s \in DOMAIN index : s # r \/ index[s] # {}})

\* mutant: no range scan below the new marks
CollectedKeysOnly(p, keys, high) == DOMAIN p.mineable \cap keys

\* The Mineable entries that go: the batch's own, and those at or below the
\* new mark of a client the batch touched.
Collected(p, keys, high) ==
    {k \in DOMAIN p.mineable :
        k \in keys \/ (k[1] \in {m[1] : m \in keys} /\ k[2] <= high[k[1]])}

commit(p, batch, r) ==
    LET keys == DOMAIN batch
        high == [c \in Clients |-> RaisedNonce(p, keys, c)]
        gone == Collected(p, keys, high)
    IN [mineable             |-> Restrict(p.mineable, DOMAIN p.mineable \ gone),
        mineable_bytes       |-> p.mineable_bytes - TotalSize(p.mineable, gone),
        inflight             |-> Restrict(p.inflight, DOMAIN p.inflight \ keys),
        inflight_by_round    |-> WithoutEmpty(Unindexed(p, keys), r),
        high_committed_nonce |-> high]

(***************************************************************************)
(* rollback: the chain switched away from rounds.  What the index lists    *)
(* for them leaves InFlight, and what is still fresh is Mineable again.    *)
(***************************************************************************)
Orphans(p, rounds) ==
    UNION {p.inflight_by_round[r] : r \in rounds \cap DOMAIN p.inflight_by_round}

ReturnedNone(p, rounds) == {}    \* mutant: orphans dropped, not returned

Returned(p, rounds) ==
    {k \in Orphans(p, rounds) \cap DOMAIN p.inflight : Fresh(p, k)}

rollback(p, rounds) ==
    LET orphans == Orphans(p, rounds)
        back == Returned(p, rounds)
    IN [mineable             |->
            [k \in DOMAIN p.mineable \cup back |->
                IF k \in back THEN p.inflight[k].size ELSE p.mineable[k]],
        mineable_bytes       |->
            p.mineable_bytes + TotalSize([k \in back |-> p.inflight[k].size], back),
        inflight             |-> Restrict(p.inflight, DOMAIN p.inflight \ orphans),
        inflight_by_round    |->
            Restrict(p.inflight_by_round, DOMAIN p.inflight_by_round \ rounds),
        high_committed_nonce |-> p.high_committed_nonce]

\* ready: enough bytes in Mineable to fill a batch.
ready(p) == p.mineable_bytes > BatchSize

----------------------------------------------------------------------------
(***************************************************************************)
(* The pool under any sequence of calls, which covers every order in which *)
(* clients, proposals, commits and chain switches can reach it.            *)
(***************************************************************************)
AddTx == \E k \in TxKey, size \in Sizes : pool' = add_tx(pool, k, size)

AdmitProposal == \E batch \in Batches, r \in Rounds :
                    pool' = admit_proposal(pool, batch, r)

MakeBatch == \E r \in Rounds : pool' = make_batch(pool, r)

Commit == \E batch \in Batches, r \in Rounds : pool' = commit(pool, batch, r)

Rollback == \E rounds \in SUBSET Rounds : pool' = rollback(pool, rounds)

PoolInit == pool = EmptyPool

PoolNext == AddTx \/ AdmitProposal \/ MakeBatch \/ Commit \/ Rollback

PoolSpec == PoolInit /\ [][PoolNext]_pool

----------------------------------------------------------------------------
\* What the fields of the pool range over.
TypedPool(p) ==
    /\ p = [mineable             |-> p.mineable,
            mineable_bytes       |-> p.mineable_bytes,
            inflight             |-> p.inflight,
            inflight_by_round    |-> p.inflight_by_round,
            high_committed_nonce |-> p.high_committed_nonce]
    /\ DOMAIN p.mineable \subseteq TxKey
    /\ \A k \in DOMAIN p.mineable : p.mineable[k] \in Sizes
    /\ DOMAIN p.inflight \subseteq TxKey
    /\ \A k \in DOMAIN p.inflight : p.inflight[k] \in InflightEntry
    /\ DOMAIN p.inflight_by_round \subseteq Rounds
    /\ \A r \in DOMAIN p.inflight_by_round : p.inflight_by_round[r] \subseteq TxKey
    /\ p.high_committed_nonce \in [Clients -> Nonces]

DisjointBuckets(p) == DOMAIN p.mineable \cap DOMAIN p.inflight = {}

FreshMineable(p) == \A k \in DOMAIN p.mineable : Fresh(p, k)

ExactIndex(p) ==
    \A k \in TxKey, r \in Rounds :
        (r \in DOMAIN p.inflight_by_round /\ k \in p.inflight_by_round[r])
            <=> (k \in DOMAIN p.inflight /\ p.inflight[k].round = r)

\* The inductive invariant: every operation keeps it, whatever its arguments.
SoundPool(p) ==
    TypedPool(p) /\ DisjointBuckets(p) /\ FreshMineable(p) /\ ExactIndex(p)

PoolSoundInv == SoundPool(pool)

\* Type correctness of the pool after every call.
PoolTypeOK == TypedPool(pool)

\* key_sets_disjoint, the debug_assert at the end of every operation: no key
\* is Mineable and InFlight at once, so no call can batch a proposed key.
KeySetsDisjoint == DisjointBuckets(pool)

\* Everything make_batch can pop is above the client's high-water mark: a
\* committed nonce is never batched again, whether it comes back through
\* add_tx, through rollback, or was overtaken by a later commit.
MineableAboveHigh == FreshMineable(pool)

\* inflight_by_round lists a key under r exactly when the key is InFlight and
\* tagged r: rollback finds every entry of a round, and only those.
RoundIndexExact == ExactIndex(pool)

\* mineable_bytes is the sum of the sizes in Mineable through overwrites,
\* promotions, collection and rollback (a usize that once went below it would
\* wrap, and ready() would hold for ever).
ByteCountExact ==
    pool.mineable_bytes = TotalSize(pool.mineable, DOMAIN pool.mineable)

Held(p) == DOMAIN p.mineable \cup DOMAIN p.inflight

\* A transaction the pool took in stays in one of its buckets until its nonce
\* is at or below the committed high-water mark: no other call loses it.
HeldUntilSuperseded ==
    [][\A k \in Held(pool) : k \in Held(pool') \/ ~ Fresh(pool', k)]_pool
=============================================================================
