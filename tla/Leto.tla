-------------------------------- MODULE Leto --------------------------------
(***************************************************************************)
(* The rounds of the Leto protocol on all its servers: the engine loop of  *)
(* consensus/src/server/leto/core.rs with round_context.rs and the         *)
(* handlers of phases/{proposal,relay,blame}.rs.                           *)
(*                                                                         *)
(* A server ends a round by adopting the leader's proposal (its own        *)
(* included), by collecting QcLen blames, or by receiving a blame QC.      *)
(* Every server follows the protocol.                                      *)
(*                                                                         *)
(* inbox[i] holds what was sent to server i and not handled: the network,  *)
(* the loopback, the synchronizer and the queues of the round context.     *)
(* Messages reach the queues in any order, so the order in which a round's *)
(* messages are handled is any order, and a message of a later round waits *)
(* in inbox as it does in proposals_ready, blame_ready or blame_qc_ready.  *)
(* A message of an earlier round is dropped.                               *)
(*                                                                         *)
(* elements is the table of all proposals ever made; an element is known   *)
(* by its index (its hash), genesis by 0.  Batches and signatures are left *)
(* out: a batch is always there to be proposed (the batch timer makes an   *)
(* empty one), and honest messages verify.                                 *)
(***************************************************************************)
EXTENDS Integers, Sequences, FiniteSets, SequencesExt

CONSTANTS
    Ids,        \* the servers
    QcLen,      \* (n + f + 1) / 2
    MaxRound,   \* bound on the rounds played
    LeaderOf,   \* the leader of each round, the same on every server
    MaxCrash    \* how many servers may crash

ASSUME LetoAssumption ==
    /\ IsFiniteSet(Ids)
    /\ QcLen \in Nat \ {0}
    /\ MaxRound \in Nat
    /\ LeaderOf \in [1 .. (MaxRound + 1) -> Ids]
    /\ MaxCrash \in Nat

VARIABLES
    elements,       \* all proposals made: [round, parent]
    current_round,  \* round_context.current_round
    timer_enabled,
    blame_map,      \* who blamed the current round
    highest,        \* chain_state: the highest chain element
    store,          \* chain_state: elements in the database
    qc_map,         \* chain_state: rounds with a blame QC
    inbox,          \* sent to the server, not handled and not stale
    crashed,
    blamed          \* history variable: who blamed each round

serverVars == <<current_round, timer_enabled, blame_map, highest, store, qc_map>>
vars == <<elements, serverVars, inbox, crashed, blamed>>

Genesis == 0
RoundOf(e) == IF e = Genesis THEN 0 ELSE elements[e].round
ParentOf(e) == elements[e].parent

\* ProtocolMsg.  A relay carries the proposal to the next leader.
ProposeMsg(e, r, i) == [type |-> "Propose", elem |-> e, round |-> r, from |-> i]
RelayMsg(e, r, i)   == [type |-> "Relay", elem |-> e, round |-> r, from |-> i]
BlameMsg(r, i)      == [type |-> "Blame", round |-> r, from |-> i]
BlameQCMsg(r, i)    == [type |-> "BlameQC", round |-> r, from |-> i]

Init ==
    /\ elements = <<>>
    /\ current_round = [i \in Ids |-> 1]
    /\ timer_enabled = [i \in Ids |-> TRUE]
    /\ blame_map = [i \in Ids |-> {}]
    /\ highest = [i \in Ids |-> Genesis]
    /\ store = [i \in Ids |-> {Genesis}]
    /\ qc_map = [i \in Ids |-> {}]
    /\ inbox = [i \in Ids |-> {}]
    /\ crashed = {}
    /\ blamed = [r \in 1 .. MaxRound |-> {}]

\* The server is running and within the rounds played.
Running(i) == i \notin crashed /\ current_round[i] <= MaxRound

----------------------------------------------------------------------------
\* Send with the reliable sender, which retries until the message is delivered.
\* round_context.sync drops a message of an earlier round.
SendToAll(boxes, js, m) ==
    [j \in Ids |-> IF j \in js \ crashed /\ m.round >= current_round[j]
                   THEN boxes[j] \cup {m} ELSE boxes[j]]

\* consensus_net.broadcast to broadcast_peers.
Broadcast(boxes, i, m) == SendToAll(boxes, Ids \ {i}, m)

\* relay_proposal, unless this server is the next leader.
Relayed(boxes, i, e, r) ==
    SendToAll(boxes, {LeaderOf[r + 1]} \ {i}, RelayMsg(e, r, i))

\* mutant: the messages that came early go with the old ones
LaterThanForget(box, r) == {}

LaterThanKeepsOld(box, r) == {m \in box : m.round >= r}    \* mutant

LaterThan(box, r) == {m \in box : m.round > r}

\* mutant: blames of the last round still count
AdvanceRoundKeepBlames(i, boxes) ==
    /\ current_round' = [current_round EXCEPT ![i] = @ + 1]
    /\ timer_enabled' = [timer_enabled EXCEPT ![i] = TRUE]
    /\ UNCHANGED blame_map
    /\ inbox' = [boxes EXCEPT ![i] = LaterThan(@, current_round[i])]

\* advance_round: the timer and the blames are reset, and what was queued for
\* the old round is dropped.
AdvanceRound(i, boxes) ==
    /\ current_round' = [current_round EXCEPT ![i] = @ + 1]
    /\ timer_enabled' = [timer_enabled EXCEPT ![i] = TRUE]
    /\ blame_map' = [blame_map EXCEPT ![i] = {}]
    /\ inbox' = [boxes EXCEPT ![i] = LaterThan(@, current_round[i])]

\* mutant: the round stays
OnCorrectProposalStay(i, e, boxes) ==
    /\ highest' = [highest EXCEPT ![i] = e]
    /\ store' = [store EXCEPT ![i] = @ \cup {e}]
    /\ inbox' = Relayed(boxes, i, e, current_round[i])
    /\ UNCHANGED <<current_round, timer_enabled, blame_map, qc_map>>

\* on_correct_proposal: relay, write the element, advance.
OnCorrectProposal(i, e, boxes) ==
    /\ highest' = [highest EXCEPT ![i] = e]
    /\ store' = [store EXCEPT ![i] = @ \cup {e}]
    /\ AdvanceRound(i, Relayed(boxes, i, e, current_round[i]))
    /\ UNCHANGED qc_map

\* mutant: the QC is not kept
HandleBlameQCNotKept(i) ==
    /\ AdvanceRound(i, Broadcast(inbox, i, BlameQCMsg(current_round[i], i)))
    /\ UNCHANGED <<highest, store, qc_map>>

\* handle_blame_qc: broadcast the QC, keep it, advance.
HandleBlameQC(i) ==
    /\ qc_map' = [qc_map EXCEPT ![i] = @ \cup {current_round[i]}]
    /\ AdvanceRound(i, Broadcast(inbox, i, BlameQCMsg(current_round[i], i)))
    /\ UNCHANGED <<highest, store>>

----------------------------------------------------------------------------
\* handle_new_batch: the leader proposes on its highest chain, broadcasts, and
\* handles its own proposal.
HandleNewBatch(i) ==
    /\ Running(i)
    /\ LeaderOf[current_round[i]] = i
    /\ LET e == Len(elements) + 1
       IN /\ elements' = Append(elements, [round |-> current_round[i],
                                           parent |-> highest[i]])
          /\ OnCorrectProposal(i, e,
                Broadcast(inbox, i, ProposeMsg(e, current_round[i], i)))
    /\ UNCHANGED <<crashed, blamed>>

\* on_round_timeout: blame once per round; the own blame comes back through
\* the loopback.
OnRoundTimeout(i) ==
    /\ Running(i)
    /\ timer_enabled[i]
    /\ timer_enabled' = [timer_enabled EXCEPT ![i] = FALSE]
    /\ inbox' = SendToAll(inbox, Ids, BlameMsg(current_round[i], i))
    /\ blamed' = [blamed EXCEPT ![current_round[i]] = @ \cup {i}]
    /\ UNCHANGED <<elements, current_round, blame_map, highest, store, qc_map, crashed>>

\* The synchronizer knows the batch of the message's proposal: the leader's own
\* message brings it, and so does the answer of the sender of another relay.
BatchKnown(i, m) ==
    \/ m.type = "Propose"
    \/ m.type = "Relay" /\ \E n \in inbox[i] \ {m} :
            /\ n.type = "Propose" \/ (n.type = "Relay" /\ n.from \notin crashed)
            /\ n.elem = m.elem

\* The synchronizer's helper, for a proposal or relay with a batch that is known
\* and a parent that is not: it asks the sender for the parent, and with the
\* answer it writes the proposal too, whatever its round.  (A relay that misses
\* both asks for its batch only.)
FetchParent(i, m) ==
    /\ Running(i)
    /\ BatchKnown(i, m)
    /\ m.from \notin crashed
    /\ ParentOf(m.elem) \notin store[i]
    /\ store' = [store EXCEPT ![i] = @ \cup {ParentOf(m.elem), m.elem}]
    /\ UNCHANGED <<elements, current_round, timer_enabled, blame_map, highest, qc_map,
                   inbox, crashed, blamed>>

\* The message is of this round and of one of the types.
Due(i, m, types) == Running(i) /\ m.type \in types /\ m.round = current_round[i]

SyncedAlways(i, m) == TRUE    \* mutant

\* The synchronizer lets a proposal through when its parent is stored, and a
\* relay when the relayer has also answered with its batch.
Synced(i, m) ==
    /\ ParentOf(m.elem) \in store[i]
    /\ m.type = "Relay" => m.from \notin crashed

\* handle_proposal, for the leader's message and for a relay.  The check of the
\* QCs in it only logs.
HandleProposal(i, m) ==
    /\ Due(i, m, {"Propose", "Relay"})
    /\ Synced(i, m)
    /\ OnCorrectProposal(i, m.elem, inbox)
    /\ UNCHANGED <<elements, crashed, blamed>>

FullBlameMapFewer(map) == Cardinality(map) = QcLen - 1    \* mutant

FullBlameMap(map) == Cardinality(map) = QcLen

\* handle_blame, for a blame that does not complete a QC ...
HandleBlame(i, m) ==
    /\ Due(i, m, {"Blame"})
    /\ LET map == blame_map[i] \cup {m.from}
       IN /\ ~ FullBlameMap(map)
          /\ blame_map' = [blame_map EXCEPT ![i] = map]
    /\ inbox' = [inbox EXCEPT ![i] = @ \ {m}]
    /\ UNCHANGED <<elements, current_round, timer_enabled, highest, store, qc_map,
                   crashed, blamed>>

\* ... and for the one that does.
CompleteBlameQC(i, m) ==
    /\ Due(i, m, {"Blame"})
    /\ FullBlameMap(blame_map[i] \cup {m.from})
    /\ HandleBlameQC(i)
    /\ UNCHANGED <<elements, crashed, blamed>>

\* on_blame_qc: a QC another server formed.
OnBlameQC(i, m) ==
    /\ Due(i, m, {"BlameQC"})
    /\ HandleBlameQC(i)
    /\ UNCHANGED <<elements, crashed, blamed>>

\* A server stops for good.  What it sent but its connections have not yet
\* delivered can be lost, to any of the peers.
Crash(i) ==
    /\ Cardinality(crashed) < MaxCrash
    /\ i \notin crashed
    /\ crashed' = crashed \cup {i}
    /\ \E lost \in SUBSET (Ids \ {i}) :
          inbox' = [j \in Ids |->
                       IF j = i THEN {}
                       ELSE IF j \in lost THEN {m \in inbox[j] : m.from # i}
                       ELSE inbox[j]]
    /\ UNCHANGED <<elements, serverVars, blamed>>

\* The engine handles what it received.
Receive(i) ==
    \E m \in inbox[i] :
        \/ FetchParent(i, m)
        \/ HandleProposal(i, m)
        \/ HandleBlame(i, m)
        \/ CompleteBlameQC(i, m)
        \/ OnBlameQC(i, m)

Next == \E i \in Ids : HandleNewBatch(i) \/ OnRoundTimeout(i) \/ Receive(i)

CrashNext == Next \/ \E i \in Ids : Crash(i)

\* While a select! loop has a branch that is ready, the timer of a round that
\* does not end included, some loop runs one.  A leader need not propose in time.
\* (Every server's own loop is fair; with a bound on the rounds, and with it on
\* the messages, this is all that progress needs.)
Fairness == WF_vars(\E i \in Ids : OnRoundTimeout(i) \/ Receive(i))

Spec == Init /\ [][Next]_vars /\ Fairness

CrashSpec == Init /\ [][CrashNext]_vars /\ Fairness

----------------------------------------------------------------------------
\* Types of the servers' state.
TypeOK ==
    /\ \A e \in DOMAIN elements : RoundOf(e) \in 1 .. MaxRound /\ ParentOf(e) \in 0 .. (e - 1)
    /\ current_round \in [Ids -> 1 .. (MaxRound + 1)]
    /\ timer_enabled \in [Ids -> BOOLEAN]
    /\ blame_map \in [Ids -> SUBSET Ids]
    /\ \A i \in Ids : /\ highest[i] \in store[i]
                      /\ store[i] \subseteq 0 .. Len(elements)
                      /\ qc_map[i] \subseteq 1 .. MaxRound
                      /\ \A m \in inbox[i] : m.round \in current_round[i] .. MaxRound

\* No server proposes twice in a round, and no two servers do: the loopback of
\* its own proposal moves a leader on, and servers agree on who leads.
OneProposalPerRound ==
    \A d, e \in DOMAIN elements : RoundOf(d) = RoundOf(e) => d = e

\* A server that moved past rounds without adopting a proposal has their blame
\* QCs: expect("Expected qc for this round") of handle_new_batch never fails.
QCForEverySkippedRound ==
    \A i \in Ids :
        \A r \in (RoundOf(highest[i]) + 1) .. (current_round[i] - 1) : r \in qc_map[i]

\* The highest element of a server, which it extends when it leads, is stored
\* there, and so is its parent: the unwrap() of handle_proposal never fails for
\* it, and an ElementRequest of one of the two is answered.
ParentsStored ==
    \A i \in Ids :
        /\ highest[i] \in store[i]
        /\ highest[i] # Genesis => ParentOf(highest[i]) \in store[i]

\* A blame QC is made of QcLen blames for its own round by different servers:
\* none is counted twice or carried over from the round before, and a QC for a
\* round is never applied to another.
QCsAreEarned == \A i \in Ids : \A r \in qc_map[i] : Cardinality(blamed[r]) >= QcLen

Ancestors(e) ==
    LET up[x \in 0 .. Len(elements)] ==
            IF x = Genesis THEN {Genesis} ELSE {x} \cup up[ParentOf(x)]
    IN up[e]

\* Chains fork only over a round that QcLen servers blamed: if there is none,
\* the highest chains of any two servers extend one another, however far they
\* are apart and whatever order messages came in.
ForkNeedsQuorumBlame ==
    (\A r \in 1 .. MaxRound : Cardinality(blamed[r]) < QcLen)
        => \A i, j \in Ids : \/ highest[i] \in Ancestors(highest[j])
                             \/ highest[j] \in Ancestors(highest[i])

\* Every server that runs gets through every round, whether or not the leaders
\* propose in time.
RoundsAdvance == <>(\A i \in Ids : i \in crashed \/ current_round[i] > MaxRound)
==============================================================================
