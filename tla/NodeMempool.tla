----------------------------- MODULE NodeMempool -----------------------------
(***************************************************************************)
(* The path of a transaction through one Leto server: batcher, engine and  *)
(* commit task together.  It composes RRBatcher (and with it TxPool) with  *)
(* the handler of CommitTask, which here runs on its own and gets EndRound *)
(* messages through a queue, so that its Committed and Rollback messages   *)
(* reach the batcher any time after the engine has moved on.               *)
(*                                                                         *)
(* The engine is reduced to how a round ends: with the server's own        *)
(* proposal of the next sealed batch (handle_new_batch), with the proposal *)
(* of another leader, or with a blame QC.  Other leaders are honest and    *)
(* never propose a transaction twice in one chain.                         *)
(***************************************************************************)
EXTENDS RRBatcher

CONSTANTS CommitIds, START_ID, CommitLen, MaxRound, LeaderOf

VARIABLES
    round, db, highest,     \* engine: as in CommitContext
    payload,                \* engine: the batch of each adopted element
    end_rounds,             \* EndRound messages for the commit task
    task, log, orphaned     \* commit task: as in CommitContext

engineVars == <<round, db, highest, payload, end_rounds>>
taskVars == <<task, log, orphaned>>
vars == <<batcherVars, engineVars, taskVars>>

Task == INSTANCE CommitTask

ASSUME NodeAssumption == MaxRound \in Nat /\ Rounds = 0 .. MaxRound

EmptyBatch == [k \in {} |-> 0]

NodeInit ==
    /\ BatcherInit
    /\ round = 1
    /\ db = [e \in {Task!Genesis} |-> Task!NoParent]
    /\ highest = Task!Genesis
    /\ payload = [e \in {Task!Genesis} |-> EmptyBatch]
    /\ end_rounds = <<>>
    /\ task = Task!InitTask
    /\ log = <<>>
    /\ orphaned = {}

----------------------------------------------------------------------------
\* advance_round, after what was sent before it: the commit task gets the
\* highest chain and the batcher the new round and its leader.
AdvanceRound(before) ==
    /\ round' = round + 1
    /\ end_rounds' = Append(end_rounds, highest')
    /\ from_consensus' =
          from_consensus \o before \o <<NewRound(LeaderOf[round + 1], round + 1)>>

\* on_correct_proposal for this round's proposal, on parent p with batch b.
Adopt(p, b) ==
    /\ db' = [e \in DOMAIN db \cup {round} |-> IF e = round THEN p ELSE db[e]]
    /\ payload' = [e \in DOMAIN payload \cup {round} |->
                      IF e = round THEN b ELSE payload[e]]
    /\ highest' = round
    /\ AdvanceRound(<<Proposed(b, round)>>)

\* handle_new_batch: the next sealed batch is proposed, whatever happened to
\* its transactions since it was sealed.
ProposeOwn ==
    /\ round < MaxRound
    /\ LeaderOf[round] = my_id
    /\ sealed # <<>>
    /\ sealed' = Tail(sealed)
    /\ Adopt(highest, Head(sealed))
    /\ UNCHANGED <<pool, current_leader, current_round, proposed, taskVars>>

Ancestors(e) ==
    LET path[x \in Task!Elements] ==
            IF x = 0 THEN {0} ELSE {x} \cup path[IF x \in DOMAIN db THEN db[x] ELSE 0]
    IN path[e]

ChainKeys(e) == UNION {DOMAIN payload[x] : x \in Ancestors(e)}

\* A proposal of another leader is adopted; it may extend any stored element.
AdoptOther ==
    /\ round < MaxRound
    /\ LeaderOf[round] # my_id
    /\ \E p \in DOMAIN db, b \in Batches :
          /\ \A k \in DOMAIN b : k[2] > 0 /\ k \notin ChainKeys(p)
          /\ Adopt(p, b)
    /\ UNCHANGED <<pool, current_leader, current_round, proposed, sealed, taskVars>>

\* handle_blame_qc ends the round.
BlameQC ==
    /\ round < MaxRound
    /\ UNCHANGED <<db, highest, payload>>
    /\ AdvanceRound(<<>>)
    /\ UNCHANGED <<pool, current_leader, current_round, proposed, sealed, taskVars>>

\* The commit task handles its next EndRound message: first the rollback, then
\* one Committed message per element.
RunCommitTask ==
    /\ end_rounds # <<>>
    /\ end_rounds' = Tail(end_rounds)
    /\ task' = Task!end_round(task, db, Head(end_rounds))
    /\ LET gone == Task!end_round_orphans(task, db, Head(end_rounds))
           final == task'.committed
       IN /\ orphaned' = orphaned \cup gone
          /\ log' = log \o final
          /\ from_consensus' =
                from_consensus
                  \o (IF gone = {} THEN <<>> ELSE <<RolledBack(gone)>>)
                  \o [i \in 1 .. Len(final) |-> Committed(payload[final[i]], final[i])]
    /\ UNCHANGED <<pool, current_leader, current_round, proposed, sealed,
                   round, db, highest, payload>>

\* A client sends a transaction.
ClientTx ==
    /\ \E k \in TxKey, size \in Sizes : RecvTx(k, size)
    /\ UNCHANGED <<engineVars, taskVars>>

BatcherTimer == TickTimer /\ UNCHANGED <<engineVars, taskVars>>

BatcherRecv == RecvConsensus /\ UNCHANGED <<engineVars, taskVars>>

NodeNext ==
    \/ ProposeOwn \/ AdoptOther \/ BlameQC
    \/ RunCommitTask
    \/ ClientTx \/ BatcherTimer \/ BatcherRecv

\* Tokio polls every branch of a select! that stays ready, the batch timer
\* keeps ticking, and a leader takes up the sealed batch that is waiting for
\* it.  Nothing makes clients, other leaders or the commit
\* task act.
NodeFairness ==
    /\ WF_vars(ProposeOwn)
    /\ WF_vars(BatcherTimer)
    /\ WF_vars(BatcherRecv)

NodeSpec == NodeInit /\ [][NodeNext]_vars /\ NodeFairness

----------------------------------------------------------------------------
\* The Committed messages the batcher has not read yet.
Unread == {i \in 1 .. Len(from_consensus) : from_consensus[i].type = "Committed"}

\* The elements whose Committed message the batcher has processed.
ReadLog == SubSeq(log, 1, Len(log) - Cardinality(Unread))

\* The high-water marks are those of the commits the batcher has been told of,
\* in any interleaving with rounds, proposals and rollbacks: exactly the
\* largest committed nonce of each client, nothing from a proposal that was
\* only adopted or was dropped.
MarksFollowCommits ==
    \A c \in Clients :
        pool.high_committed_nonce[c] =
            Max({0} \cup {n \in Nonces : \E i \in 1 .. Len(ReadLog) :
                                             <<c, n>> \in DOMAIN payload[ReadLog[i]]})

\* The batcher never seals a transaction whose commit it has been told of,
\* whatever came back through clients and rollbacks in between.
NeverSealsCommitted ==
    [][\A i \in (Len(sealed) + 1) .. Len(sealed') :
          \A j \in 1 .. Len(ReadLog) :
              DOMAIN sealed'[i] \cap DOMAIN payload[ReadLog[j]] = {}]_vars

\* A round led by this server ends even if nobody blames it: the batcher hears
\* of the round, forgets that it has proposed before, and its timer gives the
\* engine a batch.
OwnRoundsEnd ==
    \A r \in 1 .. (MaxRound - 1) : (round = r /\ LeaderOf[r] = my_id) ~> (round > r)

\* The aim of the nonce-keyed pool: no transaction is in two committed batches.
\* It does not hold when a sealed batch outlives its round (six rounds show it).
NoKeyCommittedTwice ==
    \A i, j \in 1 .. Len(log) :
        i # j => DOMAIN payload[log[i]] \cap DOMAIN payload[log[j]] = {}
==============================================================================
