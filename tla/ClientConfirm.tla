---------------------------- MODULE ClientConfirm ----------------------------
(***************************************************************************)
(* A client and the two ends of a Zeus server that talk to it.             *)
(*                                                                         *)
(* The client is the Stressor: bursts of transactions with closed-loop     *)
(* admission on the number outstanding.  At the server, the client         *)
(* listener registers each transaction with the confirmation router and    *)
(* then passes it through the bounded ingress channel, waiting while that  *)
(* is full; a forwarder moves it to the batcher.  Committed payloads come  *)
(* back through the fan-out to the application sink and to the router,     *)
(* which answers the client for every transaction it finds registered.     *)
(* There is one client, so a registration is just the transaction; what is *)
(* between the forwarder and the fan-out is not part of this module.       *)
(***************************************************************************)
EXTENDS Integers, FiniteSets, TLC, SequencesExt, Functions

CONSTANTS
    Burst,              \* txs_per_burst
    MaxOutstanding,     \* MAX_OUTSTANDING_TXS
    IngressCap,         \* CLIENT_INGRESS_CAP
    MaxTx               \* bound: transactions the client makes

ASSUME ClientAssumption ==
    /\ Burst \in Nat \ {0} /\ MaxOutstanding \in Nat \ {0}
    /\ IngressCap \in Nat \ {0} /\ MaxTx \in Nat

VARIABLES
    tx_id,              \* client: last transaction made
    send_ts,            \* client: when each outstanding transaction was sent
    latency_hist,       \* client: transactions with a latency sample
    to_server,          \* NewBatch messages on the way
    batch,              \* listener: what is left of the batch at hand
    registrations,      \* listener -> router
    ingress,            \* listener -> forwarder, bounded
    batcher,            \* forwarder -> batcher
    fanout,             \* committer -> fan-out
    sink,               \* fan-out -> application
    for_confirm,        \* fan-out -> router
    pending,            \* router: registered transactions
    to_client           \* Confirmation messages on the way

clientVars == <<tx_id, send_ts, latency_hist>>
listenerVars == <<to_server, batch, ingress>>
deliveryVars == <<fanout, sink, for_confirm>>
confirmVars == <<clientVars, listenerVars, registrations, batcher, deliveryVars,
                 pending, to_client>>

ConfirmInit ==
    /\ tx_id = 0 /\ send_ts = <<>> /\ latency_hist = {}
    /\ to_server = <<>> /\ batch = <<>>
    /\ registrations = <<>> /\ ingress = <<>> /\ batcher = <<>>
    /\ fanout = <<>> /\ sink = <<>> /\ for_confirm = <<>>
    /\ pending = {} /\ to_client = {}

----------------------------------------------------------------------------
AtCap(outstanding) == Cardinality(DOMAIN outstanding) >= MaxOutstanding

\* At the cap, and only there, a burst tick gives up what was sent up to the
\* cutoff, STALE_OUTSTANDING_SECS ago.
StillOutstanding(cutoff) ==
    IF AtCap(send_ts)
    THEN RestrictDomain(send_ts, LAMBDA t : send_ts[t] > cutoff)
    ELSE send_ts

\* The size of the next burst: a trickle of one while still at the cap.
ThisBurst(cutoff) == IF AtCap(StillOutstanding(cutoff)) THEN 1 ELSE Burst

\* The burst timer fires.  Any cutoff before now is possible, for time itself is
\* not modelled: a send time is the number of transactions made before.  The
\* send is best effort and may go nowhere.
BurstTick ==
    /\ \E cutoff \in {-1} \cup {send_ts[t] : t \in DOMAIN send_ts} :
          LET txs == [i \in 1 .. ThisBurst(cutoff) |-> tx_id + i] IN
          /\ tx_id + Len(txs) <= MaxTx
          /\ tx_id' = tx_id + Len(txs)
          /\ send_ts' = [t \in ToSet(txs) |-> tx_id] @@ StillOutstanding(cutoff)
          /\ \/ to_server' = Append(to_server, txs)
             \/ UNCHANGED to_server
    /\ UNCHANGED <<latency_hist, batch, ingress, registrations, batcher,
                   deliveryVars, pending, to_client>>

\* A Confirmation arrives; it counts if its transaction is still outstanding.
RecvConfirmation ==
    /\ \E t \in to_client :
          /\ to_client' = to_client \ {t}
          /\ latency_hist' = latency_hist \cup ({t} \cap DOMAIN send_ts)
          /\ send_ts' = RestrictDomain(send_ts, LAMBDA x : x # t)
    /\ UNCHANGED <<tx_id, listenerVars, registrations, batcher, deliveryVars, pending>>

----------------------------------------------------------------------------
\* The listener registers a transaction with the router just before it tries
\* to pass it on: the first of a NewBatch when it takes the batch ...
Register(txs) ==
    registrations' = IF txs = <<>> THEN registrations
                                   ELSE Append(registrations, Head(txs))

ListenerRecv ==
    /\ batch = <<>> /\ to_server # <<>>
    /\ batch' = Head(to_server)
    /\ to_server' = Tail(to_server)
    /\ Register(batch')
    /\ UNCHANGED <<clientVars, ingress, batcher, deliveryVars, pending, to_client>>

ListenerForwardTrySend ==
    /\ batch # <<>>
    /\ ingress' = IF Len(ingress) < IngressCap THEN Append(ingress, Head(batch))
                                              ELSE ingress
    /\ batch' = Tail(batch)
    /\ Register(batch')
    /\ UNCHANGED <<clientVars, to_server, batcher, deliveryVars, pending, to_client>>

\* ... and the next one once the last has found room in the ingress channel.
ListenerForward ==
    /\ batch # <<>>
    /\ Len(ingress) < IngressCap
    /\ ingress' = Append(ingress, Head(batch))
    /\ batch' = Tail(batch)
    /\ Register(batch')
    /\ UNCHANGED <<clientVars, to_server, batcher, deliveryVars, pending, to_client>>

Forwarder ==
    /\ ingress # <<>>
    /\ batcher' = Append(batcher, Head(ingress))
    /\ ingress' = Tail(ingress)
    /\ UNCHANGED <<clientVars, to_server, batch, registrations,
                   deliveryVars, pending, to_client>>

----------------------------------------------------------------------------
\* The fan-out task: a committed batch goes to the sink, then to the router.
FanOut ==
    /\ fanout # <<>>
    /\ sink' = sink \o Head(fanout)
    /\ for_confirm' = Append(for_confirm, Head(fanout))
    /\ fanout' = Tail(fanout)
    /\ UNCHANGED <<clientVars, listenerVars, registrations, batcher, pending, to_client>>

\* run_confirmation_router: select! takes a registration ...
RouterRegister ==
    /\ registrations # <<>>
    /\ pending' = pending \cup {Head(registrations)}
    /\ registrations' = Tail(registrations)
    /\ UNCHANGED <<clientVars, listenerVars, batcher, deliveryVars, to_client>>

\* The replies to a committed batch may be lost.
Reply(found) == \E delivered \in SUBSET found : to_client' = to_client \cup delivered

RouterCommitKeepsPending ==
    /\ for_confirm # <<>>
    /\ UNCHANGED pending
    /\ Reply(ToSet(Head(for_confirm)) \cap pending)
    /\ for_confirm' = Tail(for_confirm)
    /\ UNCHANGED <<clientVars, listenerVars, registrations, batcher, fanout, sink>>

\* ... or, in no particular order, a committed batch: what is registered leaves
\* pending and is confirmed; what is not is passed over.
RouterCommit ==
    /\ for_confirm # <<>>
    /\ LET found == ToSet(Head(for_confirm)) \cap pending IN
          /\ pending' = pending \ found
          /\ Reply(found)
    /\ for_confirm' = Tail(for_confirm)
    /\ UNCHANGED <<clientVars, listenerVars, registrations, batcher, fanout, sink>>

----------------------------------------------------------------------------
\* The round trip of a transaction: whatever the router has confirmed to the
\* client, on the way or already measured, has been handed to the application,
\* and its registration is gone for good, so that nothing is confirmed twice.
ConfirmedWasDelivered ==
    \A t \in to_client \cup latency_hist :
        t \in ToSet(sink) /\ t \notin pending \cup ToSet(registrations)
=============================================================================
