-------------------------------- MODULE Hera --------------------------------
(***************************************************************************)
(* The Hera engine on all its servers: consensus/src/server/hera/core.rs,  *)
(* phases/{data,attestation,sig,commit}.rs, chain_state/multi_data_chain.rs*)
(* and the pacing of load_gen.rs.                                          *)
(*                                                                         *)
(* Every server extends a data chain of its own.  The leader of a round of *)
(* the signature chain proposes an element that pins, per author, the head *)
(* of the data chain it has stored if it is new to it.  A committed        *)
(* element makes the pinned prefixes final, author by author.              *)
(*                                                                         *)
(* A data block is <<author, height>> and a signature-chain element is its *)
(* round: servers follow the protocol, so there is at most one of each.    *)
(* The commit task is that of CommitTask; it runs on its own and gets      *)
(* EndRound messages through a queue.  What it does depends, besides the   *)
(* messages, on the elements it finds stored, and what the engine emits    *)
(* for it on the blocks; for elements the server agreed to it finds all it *)
(* looks for.  So its step is delayed past the arrival of elements, and of *)
(* blocks if it may commit an element that was only fetched, and past      *)
(* nothing else (Settled, Overtakes).                                      *)
(*                                                                         *)
(* HeraNet drops a frame when the peer is behind or not connected, and     *)
(* gives data and signature messages separate channels.  proposals, blamed,*)
(* and qcs hold every signature-plane message ever sent.  A message that   *)
(* arrives after its round is dropped, one that arrived in its round and   *)
(* was not handled in it stays in the round buffer, which is first in,     *)
(* first out, and is handled in a later round.  A proposal's round is then *)
(* compared with the server's, a blame's and a QC's is not.  A peer's      *)
(* blocks arrive in order, any of them may be lost.  A request and its     *)
(* answer are one step.  SigRelay messages are sent and ignored by all.    *)
(* Blames of the server's round that are short of a quorum change nothing  *)
(* that is seen elsewhere, so those that complete a quorum are handled in  *)
(* one step.                                                               *)
(***************************************************************************)
EXTENDS CommitTask

CONSTANTS
    Budget,         \* bound on the data blocks of each author
    MaxBlocks,      \* bound on the data blocks of all authors together
    MaxOutstanding, \* MAX_OUTSTANDING_TXS, in blocks
    MaxBlames,      \* bound on the timeouts of all servers together
    Lagging,        \* bound: the servers that handle messages of earlier rounds
    MaxLate         \* bound: the last round whose messages are handled later

ASSUME HeraAssumption ==
    /\ IsFiniteSet(CommitIds) /\ CommitIds = 0 .. (Cardinality(CommitIds) - 1)
    /\ MaxRound # 0
    /\ Budget \in [CommitIds -> Nat]
    /\ {MaxBlocks, MaxOutstanding, MaxBlames, MaxLate} \subseteq Nat

VARIABLES
    node,       \* the state of every server
    proposals,  \* the SigPropose messages, by round: parent and pinned heights
    blamed,     \* the senders of SigBlame messages, by round
    qcs         \* how many SigBlameQC messages that verify were sent, by round

vars == <<node, proposals, blamed, qcs>>

Ids == CommitIds
Rounds == 1 .. MaxRound
NoHeights == [a \in Ids |-> 0]

Block(a, h) == <<a, h>>
AuthorOf(b) == b[1]
Height(b) == b[2]

\* The blame of server i in round r, and the n-th QC of round r that was sent.
SigBlame(r, i) == [type |-> "SigBlame", round |-> r, no |-> i]
SigBlameQC(r, n) == [type |-> "SigBlameQC", round |-> r, no |-> n]

\* No blame yet; a blame_map has for each blamer the round it blamed.
NoBlames == [j \in {} |-> 0]

\* Hera at spawn and after run() has set up genesis; the genesis block is left
\* out of the store.
InitialNode ==
    [round |-> 1,
     timer_enabled |-> TRUE,
     blame_map |-> NoBlames,
     msg_buf |-> {},                \* what it may still hold of earlier rounds
     highest |-> Genesis,           \* sig_chain_state.highest_chain
     elements |-> {Genesis},        \* the elements it has stored
     adopted |-> {},                \* those it agreed to
     pending_attestations |-> {},   \* where this round's proposal is parked
     pending_sig_proposals |-> {},
     pending_sig_element_requests |-> {},
     data_requests |-> {},          \* blocks it asked for in earlier rounds
     block_store |-> {},
     heights |-> NoHeights,         \* and with them heads
     committed_heights |-> NoHeights,
     pending_data_blocks |-> {},
     prev_attested_heights |-> NoHeights,
     end_rounds |-> <<>>,           \* EndRound messages for the commit task
     task |-> InitTask,
     log |-> <<>>,                  \* elements it sent back, all handled
     emitted |-> <<>>,              \* blocks sent to tx_data_commit
     out |-> {}]                    \* a SigPropose a handler sends

\* The first leader has proposed on its way into the loop.
Init ==
    /\ node = [i \in Ids |-> InitialNode]
    /\ proposals = [r \in {1} |-> [parent |-> Genesis, heads |-> NoHeights]]
    /\ blamed = [r \in Rounds |-> {}]
    /\ qcs = [r \in Rounds |-> 0]

\* The step of server i that leaves it in state s.
Done(i, s) ==
    /\ node' = [node EXCEPT ![i] = [s EXCEPT !.out = {}]]
    /\ proposals' = [r \in DOMAIN proposals \cup {s.round : p \in s.out} |->
                        IF r \in DOMAIN proposals THEN proposals[r]
                        ELSE CHOOSE p \in s.out : TRUE]

----------------------------------------------------------------------------
(***************************************************************************)
(* The data plane.                                                         *)
(***************************************************************************)

\* The last height of author a that is reached from its head through blocks of
\* the set B.
Reach(s, a, B) ==
    Max({h \in s.heights[a] .. MaxBlocks :
            \A k \in (s.heights[a] + 1) .. h : Block(a, k) \in B})

\* mutant: the drained blocks are stored and the head stays
DrainPendingForAuthorHeadStays(s, a) ==
    LET drained == {Block(a, k) : k \in (s.heights[a] + 1) .. Reach(s, a, s.pending_data_blocks)}
    IN [s EXCEPT !.block_store = @ \cup drained,
                 !.pending_data_blocks = @ \ drained]

\* Parked blocks that now extend the head are stored, one after the other.
DrainPendingForAuthor(s, a) ==
    LET top == Reach(s, a, s.pending_data_blocks)
        drained == {Block(a, k) : k \in (s.heights[a] + 1) .. top}
    IN [s EXCEPT !.block_store = @ \cup drained,
                 !.pending_data_blocks = @ \ drained,
                 !.heights[a] = top]

\* The head follows the stored blocks.
AdvanceHeadViaChildOf(s, a) ==
    [s EXCEPT !.heights[a] = Reach(s, a, s.block_store)]

\* Proposals parked for this very block are taken up again.
DrainPendingAttestations(s, b) == [s EXCEPT !.pending_attestations = @ \ {b}]

\* admit_typed, and what its callers do with its result: a duplicate, a block on
\* its author's head, one on a stored block below the head, or an orphan.
Admit(s, b) ==
    LET a == AuthorOf(b)
        parent == Block(a, Height(b) - 1)
        stored == [s EXCEPT !.block_store = @ \cup {b}]
        Replay(t) == DrainPendingAttestations(t, Block(a, t.heights[a]))
    IN IF b \in s.block_store THEN s
       ELSE IF Height(b) = s.heights[a] + 1
       THEN Replay(DrainPendingForAuthor([stored EXCEPT !.heights[a] = Height(b)], a))
       ELSE IF parent \in s.block_store \/ Height(b) = 1
       THEN Replay(DrainPendingForAuthor(AdvanceHeadViaChildOf(stored, a), a))
       ELSE [s EXCEPT !.pending_data_blocks = @ \cup {b}]

\* broadcast_data_request: the blocks that are asked of the peers are the missing
\* parents of parked blocks and the block this round's proposal waits for, or an
\* earlier round's waited for.
Requested(s) ==
    ({Block(AuthorOf(b), Height(b) - 1) : b \in s.pending_data_blocks}
        \cup s.pending_attestations \cup s.data_requests)
    \ (s.block_store \cup s.pending_data_blocks)

\* The server has seen no block of author a at height h or above.
News(s, a, h) ==
    \A b \in s.block_store \cup s.pending_data_blocks :
        AuthorOf(b) = a => Height(b) < h

\* Nothing waits for the commit task.
Settled(i) == node[i].end_rounds = <<>>

\* A block that arrives now may be found by the commit that is still to come.
Overtakes(i) == Settled(i) \/ node[i].elements # node[i].adopted \cup {Genesis}

\* The blocks server i has proposed: it stores them before it does anything else,
\* since its loopback goes before the network and the batcher.
MyHeight(i) == node[i].heights[i]

Proposed == {Block(a, h) : a \in Ids, h \in 1 .. MaxBlocks}
                \cap UNION {node[a].block_store : a \in Ids}

\* load_gen: transactions of its own that this server has not emitted.
Outstanding(i) ==
    MyHeight(i) - Cardinality({k \in 1 .. Len(node[i].emitted) :
                                   AuthorOf(node[i].emitted[k]) = i})

\* on_self_propose with the next batch, which is not empty.
OnSelfPropose(i) ==
    /\ MyHeight(i) < Budget[i]
    /\ Cardinality(Proposed) < MaxBlocks
    /\ Outstanding(i) < MaxOutstanding
    /\ Settled(i)
    /\ Done(i, Admit(node[i], Block(i, MyHeight(i) + 1)))
    /\ UNCHANGED <<blamed, qcs>>

\* The announcement of a peer's block arrives; earlier ones that did not are lost.
OnDataPropose(i) ==
    /\ Overtakes(i)
    /\ \E a \in Ids \ {i} : \E h \in 1 .. MyHeight(a) :
          /\ News(node[i], a, h)
          /\ Done(i, Admit(node[i], Block(a, h)))
    /\ UNCHANGED <<blamed, qcs>>

\* on_data_request at a peer that has the block, and on_data_response here.
OnDataResponse(i) ==
    /\ Overtakes(i)
    /\ \E b \in Requested(node[i]), j \in Ids \ {i} :
          /\ b \in node[j].block_store
          /\ Done(i, Admit(node[i], b))
    /\ UNCHANGED <<blamed, qcs>>

----------------------------------------------------------------------------
(***************************************************************************)
(* The signature chain.                                                    *)
(***************************************************************************)

\* Heads that are new since this server's last proposal; 0 blames the author.
MakeMultiAttestation(s) ==
    [a \in Ids |-> IF s.heights[a] > s.prev_attested_heights[a] THEN s.heights[a] ELSE 0]

HandleNewSigRound(s) ==
    [s EXCEPT !.out = {[parent |-> s.highest, heads |-> MakeMultiAttestation(s)]},
              !.prev_attested_heights = s.heights]

\* What a server may have received for its round and not handled; it has sent no
\* QC of that round itself.  A blame of a round whose proposal it agreed to is
\* ignored when it is handled.
Unhandled(s) ==
    {SigBlame(s.round, j) : j \in {k \in blamed[s.round] : s.highest # s.round}}
        \cup {SigBlameQC(s.round, n) : n \in 1 .. qcs[s.round]}

\* What is left in the round buffer when message m has been handled: the messages
\* of earlier rounds were before it.
Behind(buf, m) == {n \in buf \ {m} : n.round >= m.round}

\* advance_sig_round, with try_commit; rest is what the server may still have
\* buffered.  What is parked for a round that has passed is dropped when it is
\* taken up again, so it is dropped here.
AdvanceSigRound(i, s, rest) ==
    LET t == [s EXCEPT !.round = @ + 1, !.timer_enabled = TRUE, !.blame_map = NoBlames,
                       !.msg_buf = {m \in rest : i \in Lagging /\ s.round <= MaxLate},
                       !.pending_attestations = {}, !.pending_sig_proposals = {},
                       !.data_requests = (@ \cup s.pending_attestations) \ s.block_store,
                       !.end_rounds = Append(@, s.highest)]
    IN IF t.round \in Rounds /\ LeaderOf[t.round] = i THEN HandleNewSigRound(t) ELSE t

OnCorrectSigProposal(i, s, r) ==
    LET t == [s EXCEPT !.highest = r,
                       !.elements = @ \cup {r},
                       !.adopted = @ \cup {r}]
    IN AdvanceSigRound(i, t, Unhandled(t))

\* mutant: heads are not looked up in the block store
MissingHeadsNone(s, p) == {}

\* The heads of a proposal whose blocks are not stored.
MissingHeads(s, p) ==
    {a \in Ids : p.heads[a] > 0 /\ Block(a, p.heads[a]) \notin s.block_store}

\* mutant: the parent element is not looked up
HandleSigProposalNoParent(i, s, r) ==
    LET p == proposals[r]
        missing == MissingHeads(s, p)
        first == Block(Min(missing), p.heads[Min(missing)])
    IN IF missing # {}
       THEN [s EXCEPT !.pending_attestations = {first}]
       ELSE OnCorrectSigProposal(i, s, r)

\* The proposal is parked under the first block it misses, or under its parent
\* element, or adopted.
HandleSigProposal(i, s, r) ==
    LET p == proposals[r]
        missing == MissingHeads(s, p)
        first == Block(Min(missing), p.heads[Min(missing)])
    IN CASE missing # {} -> [s EXCEPT !.pending_attestations = {first}]
         [] missing = {} /\ p.parent \notin s.elements ->
               [s EXCEPT !.pending_sig_proposals = {p.parent},
                         !.pending_sig_element_requests = @ \cup {p.parent}]
         [] OTHER -> OnCorrectSigProposal(i, s, r)

\* This round's proposal comes from the network, the loopback or a park map.
RecvSigPropose(i) ==
    LET s == [node[i] EXCEPT !.msg_buf = {}]
    IN /\ Settled(i)
       /\ s.round \in DOMAIN proposals
       /\ s.pending_attestations = {} /\ s.pending_sig_proposals = {}
       /\ Done(i, HandleSigProposal(i, s, s.round))
       /\ UNCHANGED <<blamed, qcs>>

\* mutant: a fetched element does not take up the proposals parked for it
OnSigElementResponseNoReplay(s, e) ==
    LET p == proposals[e].parent
    IN [s EXCEPT !.elements = @ \cup {e},
                 !.pending_sig_element_requests =
                     (@ \ {e}) \cup (IF p \in s.elements THEN {} ELSE {p})]

\* The element is stored, its own parent is asked for if that is missing too,
\* and the proposals parked for the element are taken up again.
OnSigElementResponse(s, e) ==
    LET p == proposals[e].parent
    IN [s EXCEPT !.elements = @ \cup {e},
                 !.pending_sig_element_requests =
                     (@ \ {e}) \cup (IF p \in s.elements THEN {} ELSE {p}),
                 !.pending_sig_proposals = @ \ {e}]

\* on_sig_element_request at a peer that has the element, and the answer here.
FetchElement(i) ==
    /\ \E e \in node[i].pending_sig_element_requests, j \in Ids \ {i} :
          /\ e \in node[j].elements
          /\ Done(i, OnSigElementResponse(node[i], e))
    /\ UNCHANGED <<blamed, qcs>>

OnRoundTimeout(i) ==
    LET s == node[i]
    IN /\ Settled(i)
       /\ s.timer_enabled /\ s.round \in Rounds
       /\ Cardinality({p \in Rounds \X Ids : p[2] \in blamed[p[1]]}) < MaxBlames
       /\ Done(i, [s EXCEPT !.timer_enabled = FALSE])
       /\ blamed' = [blamed EXCEPT ![s.round] = @ \cup {i}]
       /\ UNCHANGED qcs

\* blame_map.insert for blames of round r; a later blame of a server replaces its
\* earlier one.
Insert(map, J, r) == [j \in DOMAIN map \cup J |-> IF j \in J THEN r ELSE map[j]]

\* mutant: one blame short of a quorum
FullBlameMapEarly(map) == Cardinality(DOMAIN map) >= CommitLen - 1

\* qc_len is computed like commit_len.
FullBlameMap(map) == Cardinality(DOMAIN map) >= CommitLen

\* handle_sig_blame_qc: broadcast the QC, advance.  Peers refuse a QC of round r
\* with a blame of another round.
HandleSigBlameQC(i, r, map, rest) ==
    /\ Done(i, AdvanceSigRound(i, node[i], rest))
    /\ qcs' = IF \A j \in DOMAIN map : map[j] = r THEN [qcs EXCEPT ![r] = @ + 1] ELSE qcs
    /\ UNCHANGED blamed

\* handle_sig_blame for blames of this round, the last of which fills the map.
HandleSigBlame(i) ==
    LET s == node[i]
    IN /\ Settled(i)
       /\ s.round \in Rounds /\ s.highest # s.round
       /\ \E J \in SUBSET blamed[s.round] :
             /\ FullBlameMap(Insert(s.blame_map, J, s.round))
             /\ \E j \in J : ~ FullBlameMap(Insert(s.blame_map, J \ {j}, s.round))
             /\ HandleSigBlameQC(i, s.round, Insert(s.blame_map, J, s.round),
                                 Unhandled(s) \ {SigBlame(s.round, j) : j \in J})

\* handle_sig_blame for a blame of an earlier round: it counts in this one.
HandleOldSigBlame(i) ==
    LET s == node[i]
    IN /\ Settled(i)
       /\ s.round \in Rounds
       /\ \E m \in s.msg_buf :
             LET map == Insert(s.blame_map, {m.no}, m.round)
             IN /\ m.type = "SigBlame"
                /\ s.highest # m.round
                /\ IF FullBlameMap(map)
                   THEN HandleSigBlameQC(i, m.round, map, Behind(s.msg_buf \cup Unhandled(s), m))
                   ELSE /\ Done(i, [s EXCEPT !.blame_map = map, !.msg_buf = Behind(@, m)])
                        /\ UNCHANGED <<blamed, qcs>>

\* on_sig_blame_qc for a QC of this round or an earlier one: it ends this round,
\* and is sent on.
OnSigBlameQC(i) ==
    LET s == node[i]
    IN /\ Settled(i)
       /\ s.round \in Rounds
       /\ \E m \in s.msg_buf \cup Unhandled(s) :
             /\ m.type = "SigBlameQC"
             /\ SigBlameQC(m.round, m.no + 1) \notin s.msg_buf \cup Unhandled(s)
             /\ HandleSigBlameQC(i, m.round, NoBlames, Behind(s.msg_buf \cup Unhandled(s), m))

----------------------------------------------------------------------------
(***************************************************************************)
(* Commit.                                                                 *)
(***************************************************************************)

\* The stored blocks from the watermark up to the pinned one, found from the tip
\* backwards: below a missing block nothing is found.
WalkRange(s, a, to) ==
    LET from == s.committed_heights[a]
        low == Max({from} \cup {h \in (from + 1) .. to : Block(a, h) \notin s.block_store})
    IN [k \in 1 .. (to - low) |-> Block(a, low + k)]

\* One author's head of a committed attestation.
EmitHead(s, a, to) ==
    IF to <= s.committed_heights[a] THEN s
    ELSE [s EXCEPT !.emitted = @ \o WalkRange(s, a, to),
                   !.committed_heights[a] = to]

\* on_committed_attestation, author by author.  Genesis, when it is committed,
\* carries no attestation.
OnCommittedAttestation(s, r) ==
    LET t[k \in 0 .. Cardinality(Ids)] ==
            IF k = 0 THEN [s EXCEPT !.log = Append(@, r)]
            ELSE EmitHead(t[k - 1], k - 1, proposals[r].heads[k - 1])
    IN IF r = Genesis THEN s ELSE t[Cardinality(Ids)]

\* Every element that the commit task sends back.
OnCommittedElements(s, seq) ==
    LET t[k \in 0 .. Len(seq)] ==
            IF k = 0 THEN s ELSE OnCommittedAttestation(t[k - 1], seq[k])
    IN t[Len(seq)]

\* The commit task handles its next EndRound message, and the engine what it
\* sends back, which goes before everything but the timer.
RunCommitTask(i) ==
    LET s == node[i]
        chain == [e \in s.elements |-> IF e = Genesis THEN NoParent ELSE proposals[e].parent]
        task == end_round(s.task, chain, Head(s.end_rounds))
        t == OnCommittedElements(s, task.committed)
    IN /\ ~ Settled(i)
       /\ Done(i, [s EXCEPT !.end_rounds = Tail(@),
                            !.task = [task EXCEPT !.committed = <<>>],
                            !.log = t.log,
                            !.emitted = t.emitted,
                            !.committed_heights = t.committed_heights])
       /\ UNCHANGED <<blamed, qcs>>

Next ==
    \E i \in Ids :
        \/ OnSelfPropose(i) \/ OnDataPropose(i) \/ OnDataResponse(i)
        \/ RecvSigPropose(i) \/ FetchElement(i)
        \/ OnRoundTimeout(i)
        \/ HandleSigBlame(i) \/ HandleOldSigBlame(i) \/ OnSigBlameQC(i)
        \/ RunCommitTask(i)

Spec == Init /\ [][Next]_vars

----------------------------------------------------------------------------
\* Types, and the shape of the data chains: the store holds of each author
\* exactly the blocks up to its head, and what is parked misses its parent.
TypeOK ==
    \A i \in Ids :
        LET s == node[i]
        IN /\ s.round \in 1 .. (MaxRound + 1)
           /\ s.elements \subseteq {Genesis} \cup DOMAIN proposals
           /\ s.highest \in s.elements
           /\ s.block_store = {b \in Ids \X (1 .. MaxBlocks) : Height(b) <= s.heights[AuthorOf(b)]}
           /\ \A b \in s.pending_data_blocks : Height(b) > s.heights[AuthorOf(b)] + 1
           /\ \A a \in Ids : s.heights[a] <= MyHeight(a)

\* Blames of an earlier round and repeated QCs can end a round nobody blamed, and
\* yet no round ends for nothing: a server passes a round without its proposal
\* only if a quorum blamed that round, or an earlier one since which it agreed to
\* no proposal, however blames, timeouts, QCs and proposals interleave.
SkipsEarned ==
    \A i \in Ids : \A r \in (1 .. (node[i].round - 1)) \ node[i].adopted :
        \E q \in 1 .. r :
            /\ Cardinality(blamed[q]) >= CommitLen
            /\ ((q + 1) .. r) \cap node[i].adopted = {}

\* "Structurally identical to Zeus/Leto": each round passed without its proposal was
\* itself blamed by a quorum.  It does not hold: of two copies of a QC, sent by two
\* servers, the second ends the next round.
EverySkipBlamed ==
    \A i \in Ids : \A r \in (1 .. (node[i].round - 1)) \ node[i].adopted :
        Cardinality(blamed[r]) >= CommitLen

\* What a server agreed to it can also commit: it has the element's parent, and
\* every block the element pins together with all blocks below it.
AdoptedBacked ==
    \A i \in Ids : \A r \in node[i].adopted :
        /\ proposals[r].parent \in node[i].elements
        /\ \A a \in Ids : \A h \in 1 .. proposals[r].heads[a] :
              Block(a, h) \in node[i].block_store

\* A proposal that waits for its parent element waits for an answer some server
\* can give: the parked proposal and the set that suppresses repeated requests
\* never disagree.
ParkedIsFetchable ==
    \A i \in Ids :
        /\ node[i].pending_sig_proposals \subseteq node[i].pending_sig_element_requests
        /\ \A e \in node[i].pending_sig_element_requests :
              \E j \in Ids : e \in node[j].elements

\* What the attestations pin that make up log l, in order.
Pins(l) == [k \in 1 .. Len(l) |-> proposals[l[k]].heads]

PinnedBy(b, pins) == {k \in 1 .. Len(pins) : pins[k][AuthorOf(b)] >= Height(b)}

\* Block b goes before c in the output: by the first attestation that pins it,
\* then by its author, then by its height.
Before(b, c, pins) ==
    LET p == Min(PinnedBy(b, pins))
        q == Min(PinnedBy(c, pins))
    IN \/ p < q
       \/ p = q /\ AuthorOf(b) < AuthorOf(c)
       \/ p = q /\ AuthorOf(b) = AuthorOf(c) /\ Height(b) < Height(c)

\* out is the merge of the data chains as far as they are pinned.
IsMerge(out, pins) ==
    /\ ToSet(out) = {b \in Ids \X (1 .. MaxBlocks) : PinnedBy(b, pins) # {}}
    /\ \A j, k \in 1 .. Len(out) : j < k => Before(out[j], out[k], pins)

\* The output is a function of the committed attestations alone: whatever was
\* lost, parked or fetched, and in whatever order, servers that commit the same
\* attestations, all of which they agreed to, emit the same blocks in the same
\* order, each once and none left out.
EmissionDetermined ==
    \A i \in Ids :
        (\A k \in 1 .. Len(node[i].log) : node[i].log[k] \in node[i].adopted)
            => IsMerge(node[i].emitted, Pins(node[i].log))

\* The committer never sees a gap: each committed element's parent is the one
\* committed just before it.
CommittedWithoutGap ==
    \A i \in Ids : \A k \in 1 .. Len(node[i].log) :
        proposals[node[i].log[k]].parent = IF k = 1 THEN Genesis ELSE node[i].log[k - 1]
==============================================================================
