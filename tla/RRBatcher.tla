------------------------------ MODULE RRBatcher ------------------------------
(***************************************************************************)
(* The batcher task of a Leto server: consensus/src/server/rr_batcher.rs.  *)
(*                                                                         *)
(* It owns the transaction pool, learns of rounds, proposals, commits and  *)
(* chain switches from the consensus engine and the commit task through    *)
(* one channel, and seals at most one batch in each round this server      *)
(* leads.  A sealed batch goes to the mempool's processor (external: it    *)
(* stores the batch and passes its hash on) and from there, in order, to   *)
(* the engine; sealed is all of that path.                                 *)
(***************************************************************************)
EXTENDS TxPool, Sequences

CONSTANTS
    my_id,
    INITIAL_LEADER

VARIABLES
    current_leader,
    current_round,
    proposed,
    from_consensus,     \* rx_incoming_consensus
    sealed              \* tx_outgoing_batch up to rx_mem_to_consensus

batcherVars == <<pool, current_leader, current_round, proposed, from_consensus, sealed>>

BatcherInit ==
    /\ pool = EmptyPool
    /\ current_leader = INITIAL_LEADER
    /\ current_round = 0
    /\ proposed = FALSE
    /\ from_consensus = <<>>
    /\ sealed = <<>>

\* The messages of BatcherConsensusMsg.
NewRound(leader, r)  == [type |-> "NewRound", leader |-> leader, round |-> r]
Proposed(batch, r)   == [type |-> "Proposed", batch |-> batch, round |-> r]
Committed(batch, r)  == [type |-> "Committed", batch |-> batch, round |-> r]
RolledBack(rounds)   == [type |-> "Rollback", rounds |-> rounds]

CanPropose == my_id = current_leader /\ ~ proposed

\* The pool is p; if now holds, a batch of it is sealed for round r.
SealIf(now, p, r) ==
    /\ pool' = IF now THEN make_batch(p, r) ELSE p
    /\ sealed' = IF now THEN Append(sealed, SealedBatch(p)) ELSE sealed

\* The batch timer fires: what there is, if only an empty batch, is sealed.
TickTimer ==
    /\ CanPropose
    /\ SealIf(TRUE, pool, current_round)
    /\ proposed' = TRUE
    /\ UNCHANGED <<current_leader, current_round, from_consensus>>

\* A transaction comes from the client listener.
RecvTx(k, size) ==
    LET p == add_tx(pool, k, size)
        now == CanPropose /\ ready(p)
    IN /\ SealIf(now, p, current_round)
       /\ proposed' = (proposed \/ now)
       /\ UNCHANGED <<current_leader, current_round, from_consensus>>

\* mutant: the flag of the last round is not reset
RecvNewRoundKeepFlag(m) ==
    LET now == my_id = m.leader /\ ~ proposed /\ ready(pool)
    IN /\ current_leader' = m.leader
       /\ current_round' = m.round
       /\ SealIf(now, pool, m.round)
       /\ proposed' = (proposed \/ now)

\* A new round begins: the flag of the last one is reset.
RecvNewRound(m) ==
    LET now == my_id = m.leader /\ ready(pool)
    IN /\ current_leader' = m.leader
       /\ current_round' = m.round
       /\ SealIf(now, pool, m.round)
       /\ proposed' = now

\* mutant: a commit of a round that has passed is taken for stale
PoolAfterLateIgnored(m) ==
    CASE m.type = "Proposed"  -> admit_proposal(pool, m.batch, m.round)
      [] m.type = "Committed" -> IF m.round + 1 < current_round THEN pool
                                 ELSE commit(pool, m.batch, m.round)
      [] m.type = "Rollback"  -> rollback(pool, m.rounds)

\* What the other three messages do to the pool.
PoolAfter(m) ==
    CASE m.type = "Proposed"  -> admit_proposal(pool, m.batch, m.round)
      [] m.type = "Committed" -> commit(pool, m.batch, m.round)
      [] m.type = "Rollback"  -> rollback(pool, m.rounds)

\* A message comes from the engine or the commit task.
RecvConsensus ==
    /\ from_consensus # <<>>
    /\ from_consensus' = Tail(from_consensus)
    /\ LET m == Head(from_consensus)
       IN IF m.type = "NewRound"
          THEN RecvNewRound(m)
          ELSE /\ pool' = PoolAfter(m)
               /\ UNCHANGED <<current_leader, current_round, proposed, sealed>>
==============================================================================
