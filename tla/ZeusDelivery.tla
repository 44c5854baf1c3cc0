---------------------------- MODULE ZeusDelivery -----------------------------
(***************************************************************************)
(* From the client through an eleader and back: ClientConfirm's listener,  *)
(* fan-out, router and Stressor, and DataBlockDB's store, writer and       *)
(* committer, as the tasks of one Zeus server.                             *)
(*                                                                         *)
(* The batcher and the consensus are reduced to what the two ends see of   *)
(* them: a sealed batch is a non-empty run of forwarded transactions in    *)
(* order (one client, so TxPool's queue is by nonce) and becomes the next  *)
(* data block, and a committed attestation pins some admitted height.      *)
(***************************************************************************)
EXTENDS DataBlockDB, ClientConfirm

CONSTANT MaxBatch       \* bound: transactions in a sealed batch

ASSUME BatchAssumption == MaxBatch \in Nat \ {0}

vars == <<dbVars, confirmVars>>

Init == DBInit /\ ConfirmInit

----------------------------------------------------------------------------
\* on_eleader_propose of a sealed batch, which is never empty, and the
\* admission of the block when it comes back through the loopback.
Propose ==
    /\ \E k \in 1 .. Min({MaxBatch, Len(batcher)}) :
          /\ Insert(SubSeq(batcher, 1, k))
          /\ batcher' = SubSeq(batcher, k + 1, Len(batcher))
    /\ UNCHANGED <<clientVars, listenerVars, registrations, deliveryVars,
                   pending, to_client>>

\* A committed attestation pins a height.
Commit ==
    /\ \E pinned \in committed_high + 1 .. Len(payload) : CommitUpTo(pinned)
    /\ UNCHANGED confirmVars

\* The committer emits its next block: the payload goes to the fan-out.
Emit ==
    /\ EmitNext
    /\ fanout' = Append(fanout, payload[emitting'])
    /\ UNCHANGED <<clientVars, listenerVars, registrations, batcher, sink,
                   for_confirm, pending, to_client>>

StoreStep == (WriteSpilled \/ RaiseEmitted) /\ UNCHANGED confirmVars

ClientStep ==
    /\ BurstTick \/ RecvConfirmation
    /\ UNCHANGED dbVars

ListenerStep ==
    /\ ListenerRecv \/ ListenerForward \/ Forwarder
    /\ UNCHANGED dbVars

RouterStep ==
    /\ FanOut \/ RouterRegister \/ RouterCommit
    /\ UNCHANGED dbVars

Next ==
    \/ ClientStep \/ ListenerStep \/ RouterStep
    \/ Propose \/ Commit \/ StoreStep \/ Emit

\* The server's tasks run when they can; consensus goes on committing.  Nothing
\* is assumed of the client or of the messages between it and the server.
Fairness ==
    /\ WF_vars(ListenerStep) /\ WF_vars(Propose) /\ WF_vars(Commit)
    /\ WF_vars(WriteSpilled /\ UNCHANGED confirmVars)
    /\ WF_vars(RaiseEmitted /\ UNCHANGED confirmVars)
    /\ WF_vars(Emit)
    /\ WF_vars(FanOut /\ UNCHANGED dbVars)

Spec == Init /\ [][Next]_vars /\ Fairness

----------------------------------------------------------------------------
\* The whole delivery path, spills and re-reads included: the application gets
\* the payloads of the chain in height order, each of them once, and never
\* beyond what is committed.
SinkFollowsChain ==
    IsPrefix(sink \o FlattenSeq(fanout),
             FlattenSeq(SubSeq(payload, 1, committed_high)))

\* Backpressure delays and loses nothing: a transaction the listener has read
\* from the client reaches the application, whatever has to wait for room in
\* the ingress channel or for a spilled block to be written.
ReceivedIsDelivered ==
    \A t \in 1 .. MaxTx : t \in ToSet(batch) ~> t \in ToSet(sink)
=============================================================================
