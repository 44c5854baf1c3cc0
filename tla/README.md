# TLA+ models of leto-rs

leto-rs implements three related state-machine-replication protocols (Leto,
Zeus, Hera) on tokio: every server runs a consensus engine, a batcher with a
transaction pool, a commit task, a synchronizer and a confirmation router,
connected by unbounded channels, and talks to the other servers over TCP.
This directory models the protocols' logic in TLA+, checks small instances
with TLC and proves some results for every instance with TLAPS.

Paths below are relative to `src/`; `server/` is `consensus/src/server/`.

## Inventory

| Component | State | Operations | Talks to | What is hard, and what must hold |
|---|---|---|---|---|
| Transaction pool `server/tx_pool.rs` | Mineable (by client and nonce), InFlight (tagged with a round), index by round, high-water marks, byte count | `add_tx`, `admit_proposal`, `make_batch`, `commit`, `rollback`, `ready` | called by the batcher | clients, proposals, commits and chain switches come in any order; no key in both buckets, nothing committed is batched, nothing fresh is lost, index and byte count exact |
| Batcher `server/rr_batcher.rs` | leader, round, `proposed` flag, the pool | timer, transaction, consensus message | client listener, engine, commit task, mempool processor | messages about a round are read rounds later; seals at most once per led round, and always can |
| Leader rotation `server/leto/leader_context.rs` | history, elligible set, leader, next leader | `new`, `advance_round` | engines of all three protocols | depends on hash-map order and a seeded draw; leaders are spaced and nobody is lost |
| Leto engine `server/leto/{core,round_context}.rs`, `phases/{proposal,relay,blame}.rs` | round, timer, queues per round, blames, highest chain, QCs | proposal, relay, timeout, blame, blame QC, new batch | other servers, synchronizer, batcher, commit task | races of proposals, blames and QCs between servers in different rounds; crash of a leader |
| Leto commit task `server/leto/phases/commit.rs` | commit queue, proposer counts, last committed element | `EndRound` | engine, batcher, router | chain switches and missed rounds; what is committed is one chain |
| Synchronizer `server/leto/synchronizer/`, `server/leto/helper.rs` | pending requests, waiting messages | deliver parent / batch, answer requests | engine, other servers | lost requests, duplicates, requests for what was not yet written |
| Client listener, fan-out, confirmation router `server/zeus/server.rs`, `server/core.rs` | pending registrations, bounded ingress channel | client batch, forward, register, commit | clients, batcher, committer or commit task | registration and commit come through different channels; backpressure delays and loses nothing; a confirmation is for a delivered transaction, once |
| Zeus `server/zeus/` | data chain of the epoch leader, epoch, blames, signature chain, attestations, commit state | data blocks, requests, timers, blames, change QCs, signature rounds | other servers, batcher, load | out-of-order blocks, equivocation, epoch change while blocks and QCs are on the way |
| Zeus payload store and committer `server/zeus/chain_state/db.rs`, `phases/commit.rs` | resident cache with a byte budget, write queue, RocksDB, committed and emitted heights | insert with eviction, background write, hand-over of a committed run, emission | consensus loop, writer task, committer task, batcher, fan-out | three tasks share a watermark read without a lock; what is not emitted is never lost, the output is the chain in order, once |
| Hera `server/hera/` | one data chain per author with parked blocks, signature chain, parked proposals, outstanding requests, commit task, load generator | own block, peer's block, request and answer, signature proposal, element fetch, timeout, blame, QC, committed attestation | other servers through a network that sheds frames | blocks and elements missing or late in any order, rounds skipped by a QC; all servers emit one merge of the chains |
| Client load generator `consensus/src/client/stresser.rs` | outstanding transactions with their send time | burst, confirmation, giving up stale ones | one server (Zeus) or all (Leto) | lost bursts and confirmations; throttled at the cap by a trickle |
| Node, stress-test, benchmark, scripts | - | command line, deployment, plots | - | tooling, not modelled |

## Plan

1. Leto, the core (done): pool, batcher, leader rotation, commit task, the
   rounds of all servers, the path of a transaction through one server.
2. Zeus, the data plane (done): blocks, epochs, pinning and the committed
   prefix on all servers.
3. Hera (done): the data chains of all authors, the signature chain with its
   timeouts, blames, QCs and element fetches, commit and merge.
4. From the client through a Zeus server and back (done): load generator,
   listener, payload store, writer, committer, router.
5. Proofs (done, see below): pool, the path of a transaction through one server,
   leader rotation, `Leto`, the commit task in every run and, for elements adopted in
   order, the refinement of its rule, the data plane of `Zeus`, its delivery path, and `Hera` with its output. Every safety
   property of a passing run is a theorem.
6. Left to model: timeouts, blames and QCs of the Zeus signature chain (as in
   `Hera`); the request tables of the Leto synchronizer; the queues of
   `RoundContext`, with their priorities, as an implementation of the inbox of
   `Leto`.

## Modules

| Module | Models | State and actions |
|---|---|---|
| `TxPool` | `tx_pool.rs` | one record `pool` with the struct's fields; operations are operators `add_tx(p, ...)`, wrapped as actions `AddTx`, `AdmitProposal`, `MakeBatch`, `Commit`, `Rollback` |
| `RRBatcher` | `rr_batcher.rs`, extends `TxPool` | one action per branch of the `select!` loop: `TickTimer`, `RecvTx`, `RecvConsensus` |
| `LeaderContext` | `leader_context.rs` | `Init` is `new`, `AdvanceRound`; `order` is the order of the ids, `age` a history variable |
| `ChainCommit` | abstract | the commit rule without counters: an element is final once the rest of the chain has `CommitLen` distinct proposers |
| `CommitTask` | the loop body of `leto/phases/commit.rs`, which `hera/phases/commit.rs` repeats | constant level: `end_round(task, db, head)` is the handler of `EndRound` on the variables of `run` |
| `CommitContext` | the Leto task under its engine, extends `CommitTask` | the engine's `Adopt`, `SkipRound`, `MissProposal` end a round and call `end_round`; an adopted element extends any stored one; `Fetch` is the synchronizer's |
| `NodeMempool` | one server: `RRBatcher` and `CommitContext` composed | the channels between engine, commit task and batcher are queues; the engine is how a round ends |
| `Leto` | the engine on all servers | one action per handler; `inbox[i]` is everything sent to server i and not handled |
| `Zeus` | `zeus/core.rs`, `zeus/phases/*.rs` on all servers | `node[i]` is the struct of server i; handlers are operators on it (`OnDataPropose(s, i, b)`), and one action per branch of the `select!` loop applies them: `OnEleaderPropose`, `Dispatch`, `HandleSigOrdered`, `OnCommittedAttestation`, `OnDataTimerExpired`; `FetchBlock` is a DataRequest answered |
| `Hera` | `hera/core.rs`, `hera/phases/*.rs`, `multi_data_chain.rs`, `load_gen.rs` on all servers, extends `CommitTask` | `node[i]` is the struct of server i with its commit task; one action per handler: `OnSelfPropose`, `OnDataPropose`, `OnDataResponse`, `RecvSigPropose`, `FetchElement`, `OnRoundTimeout`, `HandleSigBlame`, `HandleOldSigBlame`, `OnSigBlameQC`, `RunCommitTask` |
| `DataBlockDB` | `zeus/chain_state/db.rs` and the committer of `zeus/phases/commit.rs` | `Insert`, `WriteSpilled`, `CommitUpTo`, `EmitNext`, `RaiseEmitted`: the steps of three tasks |
| `ClientConfirm` | `client/stresser.rs`; listener, forwarder, fan-out and router of `zeus/server.rs` | `BurstTick`, `RecvConfirmation`; `ListenerRecv`, `ListenerForward`, `Forwarder`; `FanOut`, `RouterRegister`, `RouterCommit` |
| `ZeusDelivery` | `DataBlockDB` and `ClientConfirm` as the tasks of one server | `Propose` joins batcher and store, `Emit` committer and fan-out; `Commit` is a committed attestation |
| `MempoolProofs`, `LeaderContextProofs`, `LetoProofs`, `CommitProofs`, `ZeusProofs`, `DeliveryProofs`, `HeraProofs` | | theorems about `TxPool` and `NodeMempool`, `LeaderContext`, `Leto`, `CommitContext`, `Zeus`, `ZeusDelivery` (with `DataBlockDB` and `ClientConfirm`) and `Hera` |
| `DataLemmas` | | lemmas the proofs share: least elements, sequences and their members, `FlattenSeq`, sums |
| `MC*` | | instances for TLC |

Abstractions. A transaction is its key and its size. A batch is a function from
keys to sizes. A server adopts one proposal per round, so in `CommitContext` an
element is its round; in `Leto`, where servers disagree, elements have numbers
of their own. Hashes and signatures are exact. Operators marked `mutant` are
variants of the definition below them with a plausible mistake; no
specification uses them, they show that the properties can fail.

In `Leto` the queues of the synchronizer and of the round context are one set.
Messages reach the queues in any order, so any order of handling a round's
messages is possible with the code too, and the set has no fewer behaviours.
A message of a past round is dropped at once rather than when it is read
(`RoundContext` keeps one queue per round and drops those of past rounds). The
synchronizer asks for the parent of a proposal or relay whose batch it knows
(`BatchKnown`, `FetchParent`); a relay that misses both asks for its batch only.

In `Zeus` a data block is the sequence of its ancestors' epochs and batches, so
its hash and its height are itself and its length. `admit_data_block` and the
drains call each other; the calls still to be made are a stack, and `Calls` is the
function of the state and the stack after each call. All calls are one step, as
the engine awaits nothing but its own store there. A block that arrives again
while it is parked is parked again; of these later arrivals `Park` keeps the last
one, because a drain admits each block the first time it meets it and after that
only sets `child_of`.
Proposals go over `data_net`, which loses messages but keeps a connection's
order; everything else is sent reliably. A request for a block and its answer
are one step, which may come at any later time. A message the server would
ignore whatever happens is taken out of its inbox at once. The commit task of
the signature chain is its rule (`Committable`): without the blames of that
chain no round is skipped, and then the walk of `commit.rs`, the same as
Leto's, keeps the queue in order.

In `Hera` a data block is its author and height and an element is its round.
Everything HeraNet carries may be lost: a message is handled once, later, or
never. `proposals` and `blamed` hold what was ever sent, and `qcs` counts the
broadcasts of each QC, since every server that ends a round by a QC sends it on. The
round buffer is one queue. It keeps early messages for their round and drops those
that arrive after it, but a message that arrived in its round and was not handled in
it stays, and is handled in a later one: `msg_buf` is what may still be there of
earlier rounds. `handle_sig_proposal` drops such a message; a blame counts in the
later round (`HandleOldSigBlame`) and a QC ends it (`OnSigBlameQC`). The queue is
first in, first out, so handling a message takes everything of earlier rounds out
(`Behind`). Which of these messages a server received is left open until one is
handled, so the model keeps the set of all that were sent (`Unhandled`). A blame of
a peer that does not complete a quorum is invisible, so blames of the round are
counted when they complete one. `data_requests` are the blocks asked for in earlier
rounds, whose answers are taken at any time. The commit task runs behind the engine: how long is visible only when
an element, or a block pinned by a fetched element, arrives in between, and only
these steps may overtake it (`Settled`, `Overtakes`). The leader is a function of
the round, as `LeaderContext` makes it on every server alike.

In `DataBlockDB` a block is its height, sizes are in units of 64 bytes, and the
committer's items are one queue although they are sent as vectors. RocksDB gives
back what was written. In `ClientConfirm` time is left out: at the cap any cutoff
may be the one of 60 seconds ago, but a burst is given up as a whole because it
shares one time. A transaction is registered and tried at the ingress channel
without an await in between, so the two are one step up to the wait.

## Runs

| Run | Shows | Bounds |
|---|---|---|
| `txpool` | buckets, index, marks and byte count agree after any calls; no transaction is lost | 2 clients, nonces 0..2, 2 rounds, 2 sizes; batch of 2 bytes, so batches are cut between and within clients |
| `leader` | spacing and completeness of the rotation | 5 servers, limit 3, all 120 orders, all draws |
| `commit` | in every run the counters cover the queue, no `expect()` fails and the element adopted last is kept; while elements are adopted in order, commits form a chain, switches are reported and the commit rule is implemented | 4 servers, `commit_len` 3, 6 rounds, any stored parent, any rounds skipped or missed: a switch to a queued element and commits before and after it |
| `node_mempool` | marks follow commits, nothing committed is sealed, led rounds end | 3 servers, one client with 2 nonces, 5 rounds: the server leads twice |
| `leto` | one proposal per round, QCs are earned and kept, parents are stored, forks need a quorum of blames, every server gets through every round | 3 servers, quorum 2, 3 rounds: two rounds in a row can be skipped and a third extend either branch |
| `zeus` | the store is closed under parents, epochs follow QCs and QCs need f + 1 blames, one chain is committed while nobody stores siblings, the head shrinks only to a committed block or above | 3 servers, f = 1, 2 epochs, 2 rounds, 2 blocks: both in one epoch (parking, fetching, drains) or one in each (truncation, siblings, invalid blames) |
| `hera` | stored, parked and head blocks agree; a round without its proposal needs a quorum of blames, late ones included; what a server agrees to it can commit; no proposal waits for what nobody has; the output is a function of the committed attestations | 3 servers, quorum 2, 3 rounds, 2 timeouts, two blocks of server 0 and one of server 1 (`Budget`): a round skipped by one server and adopted by another, a parked child before its parent, two chains in one attestation, commits of more than one element; server 2 (`Lagging`) handles messages of round 1 (`MaxLate`) in rounds 2 and 3 |
| `zeus_delivery` | the cache keeps its books and budget; what is not emitted can be had; the application gets the chain in order, once; confirmations are founded; what the listener read is delivered | 4 transactions in bursts of 2 with a cap of 2 (trickle, and a full burst after giving up); ingress of 1; batches of 1 or 2 in a cache of 4 units: one insertion can evict two blocks |
| `leto_crash` (violation) | a leader that crashes in mid-broadcast leaves servers in its round | 4 servers, quorum 3, one crash, 2 rounds |
| `zeus_fork` (violation) | two servers, neither faulty, commit different blocks at one height | one schedule of 32 steps (`MCZeusFork`), 3 epochs, 4 blocks |
| `zeus_new_epoch` (violation) | the first block of a new eleader is taken for equivocation by the eleader itself | 2 epochs, 1 round, 2 blocks |
| `hera_gap` (violation) | a server that skipped a round, fetched its element and adopted two that extend it never commits the fetched one and commits the newest twice | as `hera` |

`hera` takes a commit step at once when it can (`MCNext`). `Urgent` holds when that
step is the only one of its server, it then uses nothing that other servers change
and changes nothing they use, so it commutes with every step of the others. In any
other order each server goes through the same states, and an invariant, which is
about one server and what commit steps leave alone in the others, sees nothing new. 1,208,775 states remain;
`leto` has 692,323, `zeus` 627,038 and `zeus_delivery` 196,534.

`Lagging` and `MaxLate` bound `hera` only; the theorems hold for any values. One
lagging server is enough: the second copy of a QC ends its next round, and two
blames of round 1 that are left over end round 2. The last round can then be
proposed by a server that no quorum let into it. A blame of round 1 that makes a
quorum with one of round 2, whose QC the peers refuse, takes three timeouts: with
`MaxBlames = 3` (and `MaxBlocks = 1` to be quick) TLC finds no violation either.

In `commit` an adopted element extends any stored one, as `handle_proposal` has it.
After an ordinary blame QC for round r the leader of r+1 may extend r-1 while r-1 is
still queued behind others. The walk then queues r+1 twice, once under the key of
r-1, which is dropped and reported as orphaned, and counts its proposer again: the
committed elements are no chain (`CommittedChain`), r-1 is never committed
(`AdoptedAccountedFor`). An element that extends a missed one does the same. This is
a finding; add the two properties to `MCCommitContext.cfg`. What holds in every run
is that the counters never fall short of the queue (`CountsCoverQueue`: the drift
is always upward, so the task does not panic) and that the newest element is not
lost (`HighestKept`). The history variable `in_order` is true as long as every
adopted element extended the highest one or the last final one, and
`InOrderOneChain` and `InOrderCommitRule` speak of these runs, in which rounds may
still be skipped, missed and fetched. `hera_gap` shows the walk in the whole of
Hera, where fetching the parent was meant to prevent it.

The Zeus violations have one origin each. `drain_pending_data_blocks`
admits parked blocks without the check for a sibling, and the commit walk never
looks at the pinned hash: `zeus_fork`, whose schedule is spelled out because a
search in breadth does not get that far, leads a server that missed the start of
an epoch through two eleader changes. `advance_to_epoch` leaves `child_of` above
D* in place: `zeus_new_epoch`.

Further findings have no run of their own; `PROJECT.json` quotes the lines.

- An attestation parked for a block is not replayed when the block comes together
  with a parked child, because `drain_pending_attestations` is called for the
  final head only: add `ParkedUntilStored` to `MCZeus.cfg` (1 round, 1 epoch).
  Hera has the same code.
- Hera's `advance_round` does not clear the round buffer, and blames and QCs are
  handled without a look at their round, unlike Leto's: the second copy of a QC ends
  a round that nobody blamed. Add `EverySkipBlamed` to `MCHera.cfg`. `SkipsEarned` is
  what still holds: a quorum blamed the round or an earlier one since which the
  server agreed to nothing. `ZeusRoundState` has the same buffer.
- A sealed batch that outlives its round puts a transaction into two committed
  batches: add `NoKeyCommittedTwice` to `MCNodeMempool.cfg` (6 rounds).
- Hera adopts a proposal whose grandparent is still missing, and commits fetched
  elements whose blocks it never looked up, passing over blocks for good.
  `EmissionDetermined` therefore speaks of servers that agreed to all they commit.
- The router can take a commit before the registration: that transaction is never
  confirmed and its registration stays for ever. `ClientConfirm` has both orders.
- Overtaken InFlight entries of the pool are not collected as its comments say, and
  attestations of an epoch that is over are accepted in Zeus.
- `DataBlockDB::get` returns None for blocks that were admitted, and reloads
  nothing, against its comment. `Zeus`, where every admitted block is found, shows
  the engine as the comment has it.

Deadlock is not checked where the bound on rounds ends the behaviours
(`commit`, `node_mempool`, `leto`, the Zeus and Hera runs). It is checked in `txpool` and `leader`; in
the latter it would be the `unwrap()` of an empty draw.

Fairness. `node_mempool`: the batcher's branches and the engine's take-up of a
sealed batch are weakly fair, as tokio polls a `select!` branch that stays
ready and the interval timer keeps ticking; clients, other leaders and the
commit task owe nothing. `leto`: some server that has a message to handle or a
timer to fire does so; leaders need not propose. Reliable senders retry until
delivery, so messages between running servers are not lost; the synchronizer's
best-effort requests are assumed to be answered.

`leto_crash` has the fairness of `leto`. A crash loses what the connections of the
server have not delivered, to any subset of the peers. Servers that adopted the
proposal have left the round and do not blame it; with n = 4 and one crash the
others cannot collect three blames, and later messages only wait.

`zeus_delivery`: listener, forwarder, writer, committer and fan-out are tasks of
their own that tokio polls while they have something to do, so their steps are
weakly fair; so are proposals of what the batcher holds (its timer seals), and
commits, which is the liveness of the consensus and is assumed here. The client,
the network and the router owe nothing.

`Zeus` and `Hera` state no liveness property. The signature rounds of `Zeus`
cannot time out yet. In `Hera` any message may be lost and none is sent again, so
a server may stay in a round; the code offers no retry to be fair to.

## Proofs

Every theorem is about the specification that TLC checks, for every value of the
constants that the named assumption allows.

`DataLemmas` has what the provers lack about data. They do not do induction, so a
fact about a recursive function (`FlattenSeq`, the fold behind a sum) is proved
from the least number at which it fails (`LeastNat`): first that a function with
the recursive equation exists, then that any two agree, then what it computes.

`MempoolProofs`, for any finite set of clients and any nonces, rounds, sizes and
batch size (`PoolAssumption`):

- `PoolSound`: `SoundPool` is inductive. It conjoins types, disjoint buckets,
  freshness of Mineable and exactness of the index. No part is inductive alone:
  a rollback keeps the buckets disjoint because the index names only InFlight
  entries, and keeps Mineable fresh because it filters by the marks. One lemma
  per operation (`AddTxSound` and so on) shows that the operator keeps it.
- `PoolTyped`, `BucketsDisjoint`, `NothingCommittedIsMineable`,
  `IndexMatchesTags` follow; `NoTransactionLost` is an action property, from
  one lemma per operation and the invariant.
- `BytesCounted`: the byte count is the sum of the sizes in Mineable. Every
  operation takes out a set of keys or puts in one that is disjoint from what is
  there, so the count changes by the sum over that set (`SumParts`).

and for the pool in its server, with any leaders, commit length and number of rounds
(`NodeAssumption`):

- `NodeInvariant`: `NodeInv` is inductive. `NodeTyped` says that what engine, task
  and channels name is stored: `EndRoundOver` shows that the handler of `EndRound`,
  walk and commit loop included, stays within the stored elements, whatever shape
  the chain has, and that these only grow. `NodeTracked` says that the batcher's
  channel is in step with the log: a function gives for every place in the channel
  how much of the log was read before it, a commit message advances it by one and
  carries the payload of that element, any other leaves it, and the marks of the
  pool are those of the part already read.
- `MarksAreOfCommits` (`MarksFollowCommits`) and `CommittedNotSealed`
  (`NeverSealsCommitted`, an action property) follow.

`LeaderContextProofs`, for any finite committee and limit below its size
(`LeaderAssumption`):

- `RotationInvariant`: every server is elligible or in the history, the next
  leader is elligible and the current one is not; if START_ID was clear, no
  elligible server is in the history, and a server that led less than `Limit`
  rounds ago is.
- `NoImmediateReelection`, `NobodyDropped`, `DistinctLeaders` follow.
- `DrawNeverRunsDry`: the elligible set keeps at least `NumNodes - Limit` members,
  because the history has at most `Limit` and the two cover the committee.

`LetoProofs`, for any finite committee, quorum, leaders and number of rounds, with
and without crashes (`LetoAssumption`). The properties alone are
not inductive: they speak of a server's state, which a message changes. `LetoInv`
adds that a message under way carries an element of its round, a blame that was
sent in its round or a QC that has a quorum (`MessagesTruthful`); that a server
stores what it extends, from an earlier round, and the parent of that
(`ChainStored`); that the leader of a round with a proposal has left it
(`LeadersMovedOn`); that counted blames are of the server's round
(`BlamesCounted`); and that without a quorum of blames every proposal extends the
one of the round before (`Linear`). From it:

- `LetoTyped`; `ProposalsUnique`, at most one element per round;
  `SkippedRoundsHaveQCs`, a server has the QC of every round it passed without a
  proposal; `ExtendedIsStored`, what a server extends is stored with its parent;
  `BlameQCsEarned`, a QC has a quorum that blamed its round;
  `NoForkWithoutBlames`, if no round has such a quorum the highest chains of any
  two servers extend one another.

`CommitProofs`, for any committee, leaders, number of rounds and commit length above
one (`CommitAssumption`). Two invariants of the same `Spec`.

In every run, with any stored parent, any rounds skipped and missed: `TaskInv` says
that each proposer of a queue entry is counted at least as often as it occurs
(`Occurs`), that fewer than `CommitLen` proposers are counted between rounds, and that
no entry is later than the highest element. The walk may run along elements that are
queued already, and put the new one under an old key; `ExtendedIs` follows the
queue and the counters through such an insertion, in which the occurrences grow by
no more than the counters, and `LoopIs` follows the pops. The surplus alone never
reaches `CommitLen` with an empty queue.

- `TaskInvariant`; `TaskNeverPanics` (`CountsCoverQueue`) and `HighestIsKept`
  (`HighestKept`) follow.

While `in_order` holds, the counters are a function of the queue (`CountsOf`), and
merging, replacing and popping keep them so. The loop then pops the shortest prefix
after which fewer than `CommitLen` proposers are left (`CommitLoopIs`), and the walk
ends after two iterations, at the queue's back or at the last committed element
(`WalkEnds`). `CommitInv` says that log and queue are one chain of the store, rising
in rounds, that what is in neither was reported, that nothing is left to commit, and
that the engine's highest element is the last of the chain. The last part is what
makes every adopted element either extend the queue or start on the last committed
element. `EngineInv`, which needs no such condition, says that a stored or missed
element is of an earlier round than the engine's and its parent of an earlier one
still; so a fetched element changes nothing that the task has.

- `InOrderInvariant`; `InOrderCommits` (`InOrderOneChain`) follows.
- `InOrderImplementsRule` (`InOrderCommitRule`): as long as elements are adopted in
  order, every adoption is an `Extend` or a `Switch` of `ChainCommit`
  and a skipped round is a stutter, because the prefix that the loop pops is the
  only one the rule's `FinalCount` can choose (`SettlesOnce`).

`ZeusProofs`, for any committee 0 .. n - 1, leaders, rounds, epochs and batches and
any loss of proposals (`ZeusAssumption`). A handler is an operator on the record of
a server, so one lemma per handler says that the record it ends in is good
(`GoodStep`), and `StepOK` carries that over to the system once: messages arrive,
the other servers stay. `ZeusInv`, which TLC also checked on the instance of
`zeus`, has these parts:

- `ChainOK`, of one server: the store is finite, has all parents and the blocks
  the server names; the pins it adopted are stored; the committed chain is no
  longer than D* and, if nobody has a sibling, a prefix of a committed pin.
- `EpochOK`, `BlamesSigned`, `PassedEarned`: a blame is held by its signer, who had
  reached the epoch. That is why a server that skips epochs with one QC skips
  earned ones only: some blamer of the last had left the others.
- `MessageOK`: what is on the way says what is so. A QC on the way was earned.
- `SigAgree`: one block is pinned per round, by a leader that has reached it;
  the leader of round 1 proposes once, either when its wait for a block ends or
  not at all. It needs the flag `rleader_waiting_fresh` in the invariant.

The admission of a block is a recursive function over a stack of calls; that the
function exists and that every call keeps `Admitting` are proved from the least
number of calls for which they fail, and the commit walk in the same way.

- `InvariantHolds`, `TypeCorrect`, `StoreStaysChained`, `EpochsFollowQCs`,
  `EveryEpochEarned`; `OneChainCommitted`, from `SigAgree` and the fact that a store
  without siblings is one chain; `HeadNeverBelowCommit`, an action property, because
  D* is never below what is committed.

`DeliveryProofs`, for the client, the tasks of a Zeus server and its payload
store, with any bounds (`ClientAssumption`, `CapAssumption`, `BatchAssumption`).
`DeliveryInv` is three invariants:

- `StoreInv`: the cache holds the last blocks of the chain in order, the
  committer's items are the heights from the emitted one up to the committed one,
  and what is not emitted is cached, queued or written. It gives
  `NothingUnemittedLost`.
- `ConfirmInv`: transactions reach the listener in the order the client made them,
  so each is registered once; and the router hears of a batch after the
  application. It gives `ConfirmedOnceDelivered`.
- `DeliveredInOrder`: the sink with what the fan-out holds is the flattened
  payload of the blocks taken. It gives `DeliveryInOrder`.
- `BudgetKept` follows by a sum: the byte count is that of the resident blocks,
  and an insertion evicts until it fits or one block is left.

`HeraProofs`, for any committee 0 .. n - 1, leaders, rounds, blocks, timeouts,
lagging servers and any loss of messages (`HeraAssumption`, `CommitAssumption`). `HeraInvariant`: of
each author a server stores exactly the blocks up to its head, and parks only
what misses a parent (`DataOK`); nobody knows of a block its author has not made
(`HeadsOwned`); someone has the element each proposal extends (`ProposalsOK`);
a QC that verifies was formed from the blames of a quorum (`BlamesOK`); what is
requested can be had (`Fetchable`). Late messages need two more parts: each counted
blame is one that was sent, and blames or QCs of earlier rounds are counted or
buffered only if a quorum blamed a round since which nothing was adopted (`LateOK`,
`Earned`); and every round passed without its proposal is accounted for in the same
way (`SkipsOK`), which is `SkipsEarned`. What a handler does to the record of a server is one lemma, used by
every action that calls it. The commit task changes only fields this invariant does
not mention.

- `HeraTyped`; `SkippedRoundsBlamed`, a round is passed without its proposal only if
  a quorum blamed it or an earlier one since which the server agreed to nothing;
  `AgreedIsStored`, of what a server adopted it has the parent element
  and all the blocks pinned; `ParkedCanBeFetched`, someone has the element a
  parked proposal waits for.
- `EmitInvariant`: on top of `HeraInv`, `EmitInv` is about the commit task and the
  output. What the task commits need not be one chain (`hera_gap`), so nothing is
  said about the order of the log, only that it is of stored elements
  (`EndRoundOver` again). Everything stored or requested is of an earlier round than
  the server's, and only the current round is adopted: a committed element that the
  server had not agreed to never becomes one it agreed to, so a server that agreed to
  all of its log always had. For such a server a block is pinned by the log exactly
  if it is not above its author's watermark, and the output is the merge (`Emits`);
  while one attestation is handled this holds author by author (`MidEmits`).
- `EmissionIsMerge` (`EmissionDetermined`): a server that agreed to all it committed
  has emitted all the blocks its log pins, once, in the order of `Before`: by the
  first attestation that pins a block, then its author, then its height. `IsMerge`
  is stated by membership and order rather than by a construction, and
  `AgreedOutputsAgree` shows that this determines the output: no two blocks go
  before each other, a longer log pins its new blocks after the old ones, so of two
  such servers, if the log of one is a prefix of the other's, so is its output.

Only model-checked:

- the liveness properties `OwnRoundsEnd`, `RoundsAdvance` and
  `ReceivedIsDelivered`, as the provers do no reasoning about fairness.

## Not modelled

Byzantine servers and bad signatures; timing (a timeout may fire at any time,
so the synchrony that Leto's safety needs is not assumed: chains may fork over
a round that a quorum blamed, and `ForkNeedsQuorumBlame` says only then); the
priority of proposals over QCs over blames when a round starts; GC of send
handlers after 4n rounds; restarts (nothing is recovered from disk); the
throughput reports. In Zeus also the timeouts and blames of the signature
chain and faulty eleaders; the property `SingleChainAgreement` is conditional
because the code does admit siblings. In Hera faulty servers, the startup gate
and the sockets below HeraNet. In `ZeusDelivery` the pool between forwarder and
sealed batch is a queue (`TxPool` and `RRBatcher` model it), failed reads of
RocksDB, and clients that send to all servers of Leto: there a transaction can be
committed before its own listener sees it. No property yet says what becomes of
the batch of round 1, which is tagged with round 0 and which no rollback names.

The request tables of the Leto synchronizer are planned: `Leto` assumes that a
request between running servers is answered. Configuration, serialization, the
node binary, deployment and benchmark tooling hold no logic of the protocols and
are left out.
