-------------------------------- MODULE Zeus --------------------------------
(***************************************************************************)
(* The data plane of Zeus on all its servers:                              *)
(* consensus/src/server/zeus/core.rs and phases/{data,blame,attestation,   *)
(* commit}.rs, with the part of phases/sig.rs that pins data blocks.       *)
(*                                                                         *)
(* The eleader of an epoch extends a chain of data blocks.  Every round of *)
(* the signature chain pins one server's head of that chain in an          *)
(* attestation, and a committed attestation makes the data prefix it pins  *)
(* final.  f + 1 blames end an epoch: every server then truncates its head *)
(* to the last committed pin, D*, where the next eleader starts.           *)
(*                                                                         *)
(* A data block is the sequence of its ancestors' <<epoch, batch>> pairs   *)
(* and its own: its height is its length and its hash is itself.  Honest   *)
(* signatures verify, and every server follows the protocol.               *)
(*                                                                         *)
(* Left out: the blames of the signature chain (each of its rounds ends    *)
(* with its leader's proposal or not at all), the payload cache of         *)
(* chain_state/db.rs, and what is only reported or logged.                 *)
(*                                                                         *)
(* node[i] is the state of server i; its field out holds what a handler    *)
(* sends, and is empty between steps.  inbox[i] holds what was sent to     *)
(* server i, by the network or its loopback, and not handled; what would   *)
(* be ignored for good is taken out.  An eleader's proposals reach a peer  *)
(* in order, but best effort: any of them may be lost.                     *)
(*                                                                         *)
(* A server keeps the blocks it stores, so when a peer answers a           *)
(* DataRequest does not matter: the answer and its way back are one step.  *)
(***************************************************************************)
EXTENDS Integers, Sequences, FiniteSets, SequencesExt

CONSTANTS
    Ids,        \* the servers, 0 .. n - 1
    NumFaults,  \* f
    CommitLen,  \* (n + f + 1) / 2
    LeaderOf,   \* the leader of each round of the signature chain
    MaxRound,   \* bound on the rounds of the signature chain
    MaxEpoch,   \* bound on the epochs: nobody blames the last one
    MaxBatches  \* bound on the batches that all batchers seal together

NumNodes == Cardinality(Ids)

ASSUME ZeusAssumption ==
    /\ IsFiniteSet(Ids) /\ Ids = 0 .. (NumNodes - 1) /\ Ids # {}
    /\ {NumFaults, CommitLen, MaxRound, MaxEpoch, MaxBatches} \subseteq Nat
    /\ MaxRound # 0 /\ MaxEpoch # 0
    /\ LeaderOf \in [1 .. (MaxRound + 1) -> Ids]

VARIABLES
    node,   \* the state of every server
    inbox   \* sent to the server, not handled and not stale

vars == <<node, inbox>>

Genesis == <<>>
NoBlock == <<<<0, 0>>>>
Height(b) == Len(b)
Parent(b) == Front(b)
EpochOf(b) == IF b = Genesis THEN 0 ELSE Last(b)[1]

eleader(e) == e % NumNodes

\* DataChainState::genesis, the fields of Zeus at spawn, and run() up to its
\* loop: the data timer is armed, and the leader of the first round waits for
\* a block to attest.
InitialNode(i) ==
    [current_epoch |-> 1,
     head |-> Genesis,
     store |-> {Genesis},               \* data_block_db
     child_of |-> {},                   \* the children it names
     pending_data_blocks |-> [p \in {} |-> <<>>],   \* parked, by their parent
     pending_attestations |-> {},       \* parked SigPropose messages
     admitted_change_qcs |-> {0},       \* the epochs they end
     eleader_blames |-> {},
     last_proposed |-> NoBlock,
     batches |-> 0,                     \* batches taken from the batcher
     data_timer |-> MaxEpoch > 1,       \* TimerDataRoundEntry is armed
     rleader_waiting_fresh |-> LeaderOf[1] = i,
     sig_chain |-> <<>>,                \* what each past round pinned
     commits |-> 0,                     \* rounds whose commit was handled
     commit_lock |-> {},                \* the pins it holds
     last_committed |-> Genesis,
     requested |-> {},                  \* blocks asked of the peers
     out |-> {}]

Init ==
    /\ node = [i \in Ids |-> InitialNode(i)]
    /\ inbox = [i \in Ids |-> {}]

----------------------------------------------------------------------------
\* ZeusMsg, with the servers it goes to.
DataPropose(b)        == [type |-> "DataPropose", to |-> Ids, block |-> b]
EleaderBlame(i, b)    == [type |-> "EleaderBlame", to |-> Ids \ {i}, blame |-> b]
EleaderChangeQC(i, e) == [type |-> "EleaderChangeQC", to |-> Ids \ {i}, epoch |-> e]
SigPropose(r, b)      == [type |-> "SigPropose", to |-> Ids, round |-> r, pin |-> b]

Sends(s, msgs) == [s EXCEPT !.out = @ \cup msgs]

\* broadcast_data_request
Requests(s, h) == [s EXCEPT !.requested = @ \cup {h}]

SigRound(s) == Len(s.sig_chain) + 1

\* latest_committed_attestation: the block it pins, or genesis.
DStar(s) ==
    IF s.commit_lock = {} THEN Genesis
    ELSE CHOOSE p \in s.commit_lock : \A q \in s.commit_lock : Height(q) <= Height(p)

\* conflicts_data_prefix: b does not extend a committed pin, or the walk down to
\* the pin misses an ancestor.
ConflictsDataPrefix(s, b) ==
    \E p \in s.commit_lock :
        \/ Height(p) > Height(b)
        \/ \E k \in Height(p) .. (Height(b) - 1) : SubSeq(b, 1, k) \notin s.store
        \/ ~IsPrefix(p, b)

\* epoch_gate_valid
EpochGateValid(s, b, e_cur) ==
    /\ EpochOf(b) >= e_cur
    /\ EpochOf(b) > e_cur => (EpochOf(b) - 1) \in s.admitted_change_qcs

\* child_of names another child of b's parent.
Siblings(s, b) == {c \in s.child_of : c # b /\ Parent(c) = Parent(b)}

----------------------------------------------------------------------------
Silence(i, e) == [epoch |-> e, signer |-> i, reason |-> "Silence", valid |-> TRUE]

\* arm_data_timer.  A server's second silence blame in an epoch changes nothing,
\* so its timer is not followed then, nor in the last epoch.
ArmDataTimer(s, i) ==
    [s EXCEPT !.data_timer = /\ s.current_epoch < MaxEpoch
                             /\ Silence(i, s.current_epoch) \notin s.eleader_blames]

\* make_attestation: what the leader of a round pins.
MakeAttestation(s) == s.head

\* handle_new_sig_round
HandleNewSigRound(s) ==
    Sends([s EXCEPT !.rleader_waiting_fresh = FALSE, !.data_timer = FALSE],
          {SigPropose(SigRound(s), MakeAttestation(s))})

\* advance_sig_round after the proposal of the round, pinning b, is adopted.
AdvanceSigRound(s, i, b) ==
    LET t == ArmDataTimer([s EXCEPT !.sig_chain = Append(@, b)], i)
    IN IF LeaderOf[SigRound(t)] = i /\ SigRound(t) <= MaxRound
       THEN HandleNewSigRound(t) ELSE t

----------------------------------------------------------------------------
(***************************************************************************)
(* Block admission.  admit_data_block and the drains call each other; the  *)
(* calls still to be made are kept on a stack, todo.                       *)
(***************************************************************************)
Admit(b) == [call |-> "admit", block |-> b]
Call(c)  == [call |-> c, block |-> Genesis]

\* post_admit_side_effects, for the head's block.
PostAdmitSideEffects(s, i) ==
    [s EXCEPT !.data_timer = FALSE,
              !.rleader_waiting_fresh = @ /\ LeaderOf[SigRound(s)] # i]

\* data_block_db.insert and child_of.insert
Insert(s, b) ==
    [s EXCEPT !.store = @ \cup {b},
              !.requested = @ \ {b},
              !.child_of = (@ \ Siblings(s, b)) \cup {b}]

\* The blocks that wait for block p, in order of arrival.
ParkedFor(s, p) ==
    IF p \in DOMAIN s.pending_data_blocks THEN s.pending_data_blocks[p] ELSE <<>>

\* pending_data_blocks.entry(parent).or_default().push(block).  Of the later
\* arrivals of parked blocks only the very last one tells: a drain admits each
\* block the first time it comes to it, and after that only sets child_of.
Park(s, b) ==
    LET parked == ParkedFor(s, Parent(b))
        first == IF IsInjective(parked) THEN parked ELSE Front(parked)
        now == IF first # <<>> /\ Last(first) = b THEN first ELSE Append(first, b)
    IN [s EXCEPT !.pending_data_blocks =
           [p \in DOMAIN @ \cup {Parent(b)} |-> IF p = Parent(b) THEN now ELSE @[p]]]

\* mutant: case (c) is missing.
AdmitDataBlockUnparked(s, i, b, todo) ==
    IF Parent(b) = s.head
    THEN <<PostAdmitSideEffects([Insert(s, b) EXCEPT !.head = b], i),
           <<Call("drain"), Call("replay")>> \o todo>>
    ELSE <<Insert(s, b), <<Call("drain"), Call("advance"), Call("replay")>> \o todo>>

\* admit_data_block: (a) b extends the head, (b) its parent is stored, (c) b is
\* parked and its parent requested.
AdmitDataBlock(s, i, b, todo) ==
    IF Parent(b) = s.head
    THEN <<PostAdmitSideEffects([Insert(s, b) EXCEPT !.head = b], i),
           <<Call("drain"), Call("replay")>> \o todo>>
    ELSE IF Parent(b) \in s.store
    THEN <<Insert(s, b), <<Call("drain"), Call("advance"), Call("replay")>> \o todo>>
    ELSE <<Requests(Park(s, b), Parent(b)), todo>>

\* drain_pending_data_blocks: admit what waits for the head, until nothing does.
DrainPendingDataBlocks(s, todo) ==
    LET parked == ParkedFor(s, s.head)
    IN IF parked = <<>>
       THEN <<s, todo>>
       ELSE <<[s EXCEPT !.pending_data_blocks = Restrict(@, DOMAIN @ \ {s.head})],
              [k \in DOMAIN parked |-> Admit(parked[k])] \o <<Call("drain")>> \o todo>>

\* advance_head_via_child_of: one step along child_of, until there is none.
AdvanceHeadViaChildOf(s, i, todo) ==
    LET next == {c \in s.child_of : Parent(c) = s.head} \cap s.store
    IN IF next = {}
       THEN <<s, todo>>
       ELSE <<PostAdmitSideEffects([s EXCEPT !.head = CHOOSE c \in next : TRUE], i),
              <<Call("advance")>> \o todo>>

\* drain_pending_attestations: what waits for the head is dispatched again.
DrainPendingAttestations(s, i, todo) ==
    LET parked == {m \in s.pending_attestations : m.pin = s.head}
    IN <<Sends([s EXCEPT !.pending_attestations = @ \ parked],
               {[m EXCEPT !.to = {i}] : m \in parked}), todo>>

MakeCall(i, st) ==
    LET s == st[1]
        todo == st[2]
    IN IF todo = <<>> THEN st
       ELSE LET rest == Tail(todo) IN
            CASE Head(todo).call = "admit"   -> AdmitDataBlock(s, i, Head(todo).block, rest)
              [] Head(todo).call = "drain"   -> DrainPendingDataBlocks(s, rest)
              [] Head(todo).call = "advance" -> AdvanceHeadViaChildOf(s, i, rest)
              [] Head(todo).call = "replay"  -> DrainPendingAttestations(s, i, rest)

\* A bound on the calls one admission makes.
MaxCalls(s) ==
    12 * (Cardinality(UNION {ToSet(ParkedFor(s, p)) : p \in DOMAIN s.pending_data_blocks}) + 1)
        + Cardinality(s.store)

\* The state and the calls still to be made, after each call.
Calls(s, i, b) ==
    LET calls[k \in 0 .. MaxCalls(s)] ==
            IF k = 0 THEN <<s, <<Admit(b)>>>> ELSE MakeCall(i, calls[k - 1])
    IN calls

\* admit_data_block from a handler, which then wakes up a waiting leader.
Admitted(s, i, b) ==
    LET t == Calls(s, i, b)[MaxCalls(s)][1]
    IN IF s.rleader_waiting_fresh /\ ~t.rleader_waiting_fresh
       THEN HandleNewSigRound(t) ELSE t

----------------------------------------------------------------------------
(***************************************************************************)
(* Blames and epochs.                                                      *)
(***************************************************************************)

\* eleader_blame_valid for the blocks a, b of an equivocation: the eleader of b's
\* epoch, the epoch blamed, must have signed both.
EleaderBlameValid(a, b) ==
    /\ a # b /\ Height(a) = Height(b)
    /\ eleader(EpochOf(a)) = eleader(EpochOf(b))

\* make_equivocation_blame for b and the child child_of already names.
Equivocation(i, a, b) ==
    [epoch |-> EpochOf(b), signer |-> i, reason |-> "Equivocation",
     valid |-> EleaderBlameValid(a, b)]

BlamesOf(s, e) == {b \in s.eleader_blames : b.epoch = e}

\* mutant: last_proposed_hash survives the change of the epoch.
AdvanceToEpochKeepProposed(s, e) ==
    [s EXCEPT !.current_epoch = e,
              !.head = DStar(s),
              !.rleader_waiting_fresh = FALSE,
              !.pending_data_blocks = [p \in {} |-> <<>>],
              !.pending_attestations = {},
              !.data_timer = e < MaxEpoch]

\* mutant: the head is always truncated to genesis.
AdvanceToEpochFromGenesis(s, e) ==
    [s EXCEPT !.current_epoch = e,
              !.head = Genesis,
              !.last_proposed = NoBlock,
              !.rleader_waiting_fresh = FALSE,
              !.pending_data_blocks = [p \in {} |-> <<>>],
              !.pending_attestations = {},
              !.data_timer = e < MaxEpoch]

\* advance_to_epoch.  child_of and the store keep the blocks above D*; what is
\* parked goes with its parent, for all children of a block have one height.
AdvanceToEpoch(s, e) ==
    LET d == DStar(s)
    IN [s EXCEPT
           !.current_epoch = e,
           !.head = d,
           !.last_proposed = NoBlock,
           !.rleader_waiting_fresh = FALSE,
           !.pending_data_blocks =
               Restrict(@, {p \in DOMAIN @ : p \in s.store /\ Height(p) < Height(d)}),
           !.pending_attestations =
               {m \in @ : m.pin \in s.store /\ Height(m.pin) <= Height(d)},
           !.data_timer = e < MaxEpoch]

\* mutant: a server in the epoch that ends does not leave it.
AdmitChangeQCStrict(s, i, e) ==
    LET t == [s EXCEPT !.admitted_change_qcs = @ \cup {e},
                       !.eleader_blames = {b \in @ : b.epoch = e => b.signer = i}]
    IN IF s.current_epoch < e THEN AdvanceToEpoch(t, e + 1) ELSE t

\* The QC for epoch e is admitted, and the server leaves the epoch if it is there.
\* The blames of the epoch are not looked at again; the server's own are kept.
AdmitChangeQC(s, i, e) ==
    LET t == [s EXCEPT !.admitted_change_qcs = @ \cup {e},
                       !.eleader_blames = {b \in @ : b.epoch = e => b.signer = i}]
    IN IF s.current_epoch <= e THEN AdvanceToEpoch(t, e + 1) ELSE t

\* mutant: f blames are enough.
TryFormChangeQCEarly(s, i, e) ==
    IF /\ e \notin s.admitted_change_qcs
       /\ Cardinality({b.signer : b \in BlamesOf(s, e)}) >= NumFaults
       /\ \A b \in BlamesOf(s, e) : b.valid
    THEN Sends(AdmitChangeQC(s, i, e), {EleaderChangeQC(i, e)})
    ELSE s

\* eleader_change_qc_valid: f + 1 signers, and one invalid blame spoils the QC.
ChangeQCValid(blames) ==
    /\ Cardinality({b.signer : b \in blames}) > NumFaults
    /\ \A b \in blames : b.valid

\* try_form_change_qc
TryFormChangeQC(s, i, e) ==
    IF e \notin s.admitted_change_qcs /\ ChangeQCValid(BlamesOf(s, e))
    THEN Sends(AdmitChangeQC(s, i, e), {EleaderChangeQC(i, e)})
    ELSE s

\* Sign a blame, broadcast it, keep it, and try to end the epoch (MaxEpoch is the
\* last one played).
Blame(s, i, blame) ==
    IF blame.epoch >= MaxEpoch THEN s
    ELSE TryFormChangeQC(Sends([s EXCEPT !.eleader_blames = @ \cup {blame}],
                               {EleaderBlame(i, blame)}), i, blame.epoch)

----------------------------------------------------------------------------
(***************************************************************************)
(* The handlers of dispatch: what server i makes of a message in state s.  *)
(***************************************************************************)
OnDataPropose(s, i, b) ==
    IF ~EpochGateValid(s, b, s.current_epoch) \/ b \in s.store THEN s
    ELSE IF Siblings(s, b) # {}
    THEN Blame(s, i, Equivocation(i, CHOOSE c \in Siblings(s, b) : TRUE, b))
    ELSE IF ConflictsDataPrefix(s, b) THEN s
    ELSE Admitted(s, i, b)

OnDataResponse(s, i, b) ==
    IF \/ b \in s.store
       \/ ~EpochGateValid(s, b, EpochOf(b))
       \/ Siblings(s, b) # {}
    THEN s ELSE Admitted(s, i, b)

\* on_eleader_blame; a second blame of the signer with the same reason is dropped.
OnEleaderBlame(s, i, blame) ==
    IF \/ ~blame.valid
       \/ \E b \in BlamesOf(s, blame.epoch) :
              b.signer = blame.signer /\ b.reason = blame.reason
    THEN s
    ELSE TryFormChangeQC([s EXCEPT !.eleader_blames = @ \cup {blame}], i, blame.epoch)

\* on_eleader_change_qc.  The blames it carries no longer matter once its epoch
\* is admitted.
OnEleaderChangeQC(s, i, e) ==
    IF e \in s.admitted_change_qcs THEN s ELSE AdmitChangeQC(s, i, e)

\* attestation_valid
AttestationValid(s, pin) ==
    IF pin \notin s.store THEN "Parked"
    ELSE IF ConflictsDataPrefix(s, pin) THEN "Invalid" ELSE "Valid"

\* mutant: an attestation of a block that is not stored is adopted.
HandleSigProposalUnparked(s, i, m) ==
    IF ConflictsDataPrefix(s, m.pin) THEN s ELSE AdvanceSigRound(s, i, m.pin)

\* handle_sig_proposal: parked, ignored or adopted.
HandleSigProposal(s, i, m) ==
    CASE AttestationValid(s, m.pin) = "Parked" ->
            Requests([s EXCEPT !.pending_attestations = @ \cup {m}], m.pin)
      [] AttestationValid(s, m.pin) = "Invalid" -> s
      [] AttestationValid(s, m.pin) = "Valid" -> AdvanceSigRound(s, i, m.pin)

----------------------------------------------------------------------------
\* The server will ignore m whatever happens: the block is stored or of an epoch
\* that is over, the blame is not valid or its epoch has a QC, the round is past.
Stale(s, m) ==
    CASE m.type = "DataPropose"     -> m.block \in s.store \/ EpochOf(m.block) < s.current_epoch
      [] m.type = "EleaderBlame"    -> ~m.blame.valid \/ m.blame.epoch \in s.admitted_change_qcs
      [] m.type = "EleaderChangeQC" -> m.epoch \in s.admitted_change_qcs
      [] m.type = "SigPropose"      -> m.round < SigRound(s)

\* Server i ends a step in state s, having taken the messages ms.
Done(i, s, ms) ==
    /\ node' = [node EXCEPT ![i] = [s EXCEPT !.out = {}]]
    /\ inbox' = [j \in Ids |->
                    {m \in (inbox[j] \ (IF j = i THEN ms ELSE {}))
                               \cup {m \in s.out : j \in m.to} : ~Stale(node'[j], m)}]

\* on_eleader_propose: the block extends the last one proposed or, first in its
\* epoch, D*.
OnEleaderPropose(i) ==
    LET s == node[i]
        parent == IF s.last_proposed # NoBlock THEN s.last_proposed
                  ELSE IF DStar(s) \in s.store THEN DStar(s) ELSE Genesis
        b == Append(parent, <<s.current_epoch, s.batches + 1>>)
    IN /\ eleader(s.current_epoch) = i
       /\ SumFunctionOnSet([j \in Ids |-> node[j].batches], Ids) < MaxBatches
       /\ Done(i, Sends([s EXCEPT !.last_proposed = b, !.batches = @ + 1],
                        {DataPropose(b)}), {})

\* on_data_timer_expired: blame the eleader for its silence.
OnDataTimerExpired(i) ==
    /\ node[i].data_timer
    /\ Done(i, Blame([node[i] EXCEPT !.data_timer = FALSE], i,
                     Silence(i, node[i].current_epoch)), {})

\* The proposals of the same eleader that were sent before m and have not come.
Missed(i, m) ==
    {k \in inbox[i] : /\ k.type = "DataPropose"
                      /\ EpochOf(k.block) = EpochOf(m.block)
                      /\ Last(k.block)[2] < Last(m.block)[2]}

\* dispatch, for a message of the data plane.  The loopback loses nothing.
Dispatch(i, m) ==
    \/ /\ m.type = "DataPropose"
       /\ eleader(EpochOf(m.block)) = i => Missed(i, m) = {}
       /\ Done(i, OnDataPropose(node[i], i, m.block), {m} \cup Missed(i, m))
    \/ /\ m.type = "EleaderBlame"
       /\ Done(i, OnEleaderBlame(node[i], i, m.blame), {m})
    \/ /\ m.type = "EleaderChangeQC"
       /\ Done(i, OnEleaderChangeQC(node[i], i, m.epoch), {m})

\* enqueue and handle_sig_ordered: a proposal waits for its round.
HandleSigOrdered(i, m) ==
    /\ m.type = "SigPropose"
    /\ m.round = SigRound(node[i])
    /\ Done(i, HandleSigProposal(node[i], i, m), {m})

\* The commit task pops a round when the proposers from it up to the last round
\* are CommitLen different ones.
Committable(s, r) ==
    /\ r <= Len(s.sig_chain)
    /\ Cardinality({LeaderOf[k] : k \in r .. Len(s.sig_chain)}) >= CommitLen

\* The commit walk: along child_of from the last block committed to height h,
\* one block at a time.
WalkStep(s, h, cur) ==
    LET next == {c \in s.child_of : Parent(c) = cur} \cap s.store
    IN IF Height(cur) >= h \/ next = {} THEN cur ELSE CHOOSE c \in next : TRUE

CommitWalk(s, h) ==
    LET walk[k \in 0 .. h] ==
            IF k = 0 THEN s.last_committed ELSE WalkStep(s, h, walk[k - 1])
    IN walk[h]

\* on_committed_attestation, for the next round the commit task reports.
OnCommittedAttestation(i) ==
    LET s == node[i]
        pin == s.sig_chain[s.commits + 1]
        kept == {p \in s.commit_lock : Height(p) >= Height(pin)}
    IN /\ Committable(s, s.commits + 1)
       /\ Done(i, [s EXCEPT !.commits = @ + 1,
                            !.commit_lock = IF kept = {} THEN {pin} ELSE kept,
                            !.last_committed = CommitWalk(s, Height(pin))], {})

\* on_data_request at a peer that stores the block, and on_data_response here.
FetchBlock(i, b) ==
    /\ \E j \in Ids \ {i} : b \in node[j].store
    /\ OnDataResponse(node[i], i, b) # node[i]
    /\ Done(i, OnDataResponse(node[i], i, b), {})

Next ==
    \E i \in Ids :
        \/ OnEleaderPropose(i)
        \/ OnDataTimerExpired(i)
        \/ OnCommittedAttestation(i)
        \/ \E m \in inbox[i] : Dispatch(i, m) \/ HandleSigOrdered(i, m)
        \/ \E b \in node[i].requested : FetchBlock(i, b)

Spec == Init /\ [][Next]_vars

----------------------------------------------------------------------------
(***************************************************************************)
(* Properties.                                                             *)
(***************************************************************************)
Comparable(b, c) == IsPrefix(b, c) \/ IsPrefix(c, b)

IsBlock(b) ==
    \A k \in DOMAIN b : b[k][1] \in 1 .. MaxEpoch /\ b[k][2] \in 1 .. MaxBatches

\* Type invariant.  A server's last proposal is of its current epoch: the state
\* of the eleader is reset by advance_to_epoch.
TypeOK ==
    \A i \in Ids :
        LET s == node[i] IN
        /\ s.current_epoch \in 1 .. MaxEpoch
        /\ \A b \in s.store \cup s.requested \cup {s.head, s.last_committed} : IsBlock(b)
        /\ s.child_of \cup s.commit_lock \subseteq s.store
        /\ s.last_proposed # NoBlock => EpochOf(s.last_proposed) = s.current_epoch
        /\ s.admitted_change_qcs \subseteq 0 .. (MaxEpoch - 1)
        /\ s.commits <= Len(s.sig_chain) /\ Len(s.sig_chain) <= MaxRound
        /\ s.out = {}

\* What DataChainState says of the store: every block's parent is stored, so
\* that membership is chain validity (data_chain_valid).  The head, wherever
\* truncation and drains put it, and the committed chain are stored too.
StoreChained ==
    \A i \in Ids :
        LET s == node[i] IN
        /\ {s.head, s.last_committed} \subseteq s.store
        /\ \A b \in s.store \ {Genesis} : Parent(b) \in s.store

\* A server is in the epoch after the last one it knows to be over, whether it
\* formed the QC or received it, and in which order.
EpochFollowsQCs ==
    \A i \in Ids :
        /\ (node[i].current_epoch - 1) \in node[i].admitted_change_qcs
        /\ \A e \in node[i].admitted_change_qcs : e < node[i].current_epoch

\* A server leaves an epoch only if more than f servers blamed its eleader.
EpochsEarned ==
    \A i \in Ids : \A e \in 1 .. (node[i].current_epoch - 1) :
        Cardinality({j \in Ids : \E b \in BlamesOf(node[j], e) : b.signer = j /\ b.valid})
            > NumFaults

\* Servers commit one chain of data blocks, although they walk child_of and
\* never compare with the pinned block, as long as nobody stores two children
\* of one block.
SingleChainAgreement ==
    (\A i \in Ids : \A b, c \in node[i].store \ {Genesis} :
        Parent(b) = Parent(c) => b = c) =>
    (\A i, j \in Ids : Comparable(node[i].last_committed, node[j].last_committed))

\* on_committed_attestation: "The unique-child invariant (equivocation is
\* rejected at admit) guarantees a single chain, so we never commit two blocks
\* for one height."
OneBlockPerHeight ==
    \A i, j \in Ids : Comparable(node[i].last_committed, node[j].last_committed)

\* Within an epoch the head only grows; leaving one, a server does not truncate
\* its head below what it has committed.
HeadMoves ==
    [][\A i \in Ids :
          IF node'[i].current_epoch = node[i].current_epoch
          THEN IsPrefix(node[i].head, node'[i].head)
          ELSE Height(node'[i].head) >= Height(node[i].last_committed)]_vars

\* attestation_valid parks a proposal under the block it misses, and "the existing
\* pending_attestations + on_data_response drain machinery handles it": what
\* is parked still waits for its block.  It does not hold when the block comes
\* together with a parked child (one round and two blocks show it).
ParkedUntilStored ==
    \A i \in Ids : \A m \in node[i].pending_attestations : m.pin \notin node[i].store

\* The harness note of phases/blame.rs: after an eleader change "epoch increments
\* and the new eleader produces data blocks".  Once the loopback has brought an
\* eleader's last proposal back to it, the eleader stores it.
OwnBlockAdmitted ==
    \A i \in Ids :
        LET b == node[i].last_proposed
        IN b # NoBlock /\ DataPropose(b) \notin inbox[i] => b \in node[i].store
=============================================================================
