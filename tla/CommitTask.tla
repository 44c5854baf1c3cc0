------------------------------ MODULE CommitTask ------------------------------
(***************************************************************************)
(* The handler of the commit task that Leto and Hera share: the loop body  *)
(* of CommitContext::run (consensus/src/server/leto/phases/commit.rs) and  *)
(* of HeraCommitContext::run (hera/phases/commit.rs), which differ only in *)
(* what they do with a committed element.                                  *)
(*                                                                         *)
(* At the end of a round the engine sends the task the highest chain       *)
(* element.  The task walks from there towards the last committed element, *)
(* adds what it meets to a queue, or replaces the queue by it when the     *)
(* walk does not end at the queue's back, and commits from the front of    *)
(* the queue while the queue has commit_len distinct proposers.            *)
(*                                                                         *)
(* A server adopts, and fetches, at most one element per round, so the     *)
(* round of an element stands for the element and for its hash.  A         *)
(* LinkedHashMap is the sequence of its entries.                           *)
(***************************************************************************)
EXTENDS Integers, Sequences, FiniteSets, SequencesExt

CONSTANTS
    CommitIds,      \* the committee
    START_ID,       \* author of the genesis element
    CommitLen,      \* (n + f + 1) / 2
    MaxRound,       \* bound on the rounds
    LeaderOf        \* the leader of each round

ASSUME CommitAssumption ==
    /\ START_ID \in CommitIds
    /\ CommitLen \in Nat \ {0, 1}
    /\ MaxRound \in Nat
    /\ LeaderOf \in [1 .. MaxRound -> CommitIds]

Genesis == 0
NoParent == -1
Elements == 0 .. MaxRound

Author(e) == IF e = Genesis THEN START_ID ELSE LeaderOf[e]

----------------------------------------------------------------------------
\* insert of linked_hash_map: an existing key gets the new value and moves to
\* the back.
LinkedInsert(q, key, elem) ==
    Append(RemoveFirstMatch(q, LAMBDA x : x.key = key), [key |-> key, elem |-> elem])

LinkedExtend(q, r) ==
    LET acc[k \in 0 .. Len(r)] ==
            IF k = 0 THEN q ELSE LinkedInsert(acc[k - 1], r[k].key, r[k].elem)
    IN acc[Len(r)]

\* *counts.entry(id).or_insert(0) += n
Counted(counts, id, n) ==
    [i \in DOMAIN counts \cup {id} |->
        (IF i \in DOMAIN counts THEN counts[i] ELSE 0) + (IF i = id THEN n ELSE 0)]

\* Both maps of proposers merged.
Merged(c, d) ==
    [i \in DOMAIN c \cup DOMAIN d |->
        (IF i \in DOMAIN c THEN c[i] ELSE 0) + (IF i \in DOMAIN d THEN d[i] ELSE 0)]

\* A proposer counted down to zero leaves the map.
Discounted(counts, id) ==
    [i \in {j \in DOMAIN counts : j # id \/ counts[j] > 1} |->
        counts[i] - (IF i = id THEN 1 ELSE 0)]

(***************************************************************************)
(* The walk.  One iteration of its loop: w holds head, head_hash, the      *)
(* local queue and the local proposers.  The element read to become the    *)
(* new head is the one whose hash is head_hash, and head_hash then becomes *)
(* the hash of its parent.                                                 *)
(***************************************************************************)
WalkStep(t, store, w) ==
    IF w.stop # "no" THEN w
    ELSE IF w.head <= t.highest_committed_element THEN [w EXCEPT !.stop = "bottom"]
    ELSE IF t.commit_queue # <<>> /\ Last(t.commit_queue).key = w.head_hash
    THEN [w EXCEPT !.stop = "connected"]
    ELSE IF w.head_hash = t.highest_committed_hash THEN [w EXCEPT !.stop = "bottom"]
    ELSE LET seen == [w EXCEPT !.queue = LinkedInsert(@, w.head_hash, w.head),
                               !.proposers = Counted(@, Author(w.head), 1)]
         IN IF w.head_hash \notin DOMAIN store
            THEN [seen EXCEPT !.stop = "bottom"]
            ELSE [seen EXCEPT !.head = w.head_hash, !.head_hash = store[w.head_hash]]

Walk(t, store, e) ==
    LET start == [head |-> e, head_hash |-> e, queue |-> <<>>,
                  proposers |-> [i \in {} |-> 0], stop |-> "no"]
        w[k \in 0 .. (MaxRound + 2)] ==
            IF k = 0 THEN start ELSE WalkStep(t, store, w[k - 1])
    IN w[MaxRound + 2]

\* mutant: the local proposers are not merged
AttachedNotMerged(t, w) ==
    IF w.stop = "connected"
    THEN [t EXCEPT !.commit_queue = LinkedExtend(@, w.queue)]
    ELSE [t EXCEPT !.commit_queue = w.queue, !.unique_proposers = w.proposers]

\* mutant: a walk that meets the queue does not extend it
AttachedNotExtended(t, w) ==
    IF w.stop = "connected"
    THEN [t EXCEPT !.unique_proposers = Merged(@, w.proposers)]
    ELSE [t EXCEPT !.commit_queue = w.queue, !.unique_proposers = w.proposers]

\* The walk's queue extends or replaces the commit queue.
Attached(t, w) ==
    IF w.stop = "connected"
    THEN [t EXCEPT !.commit_queue = LinkedExtend(@, w.queue),
                   !.unique_proposers = Merged(@, w.proposers)]
    ELSE [t EXCEPT !.commit_queue = w.queue, !.unique_proposers = w.proposers]

OrphansNone(t, w) == {}    \* mutant: the batcher is not told of the switch

\* The rounds the batcher is told to roll back.
Orphans(t, w) ==
    IF w.stop = "connected" THEN {}
    ELSE {t.commit_queue[i].elem : i \in 1 .. Len(t.commit_queue)} \ {Genesis}

----------------------------------------------------------------------------
\* mutant: one proposer too many is asked for
EnoughStrict(t) == Cardinality(DOMAIN t.unique_proposers) > CommitLen

Enough(t) == Cardinality(DOMAIN t.unique_proposers) >= CommitLen

Popped(t) ==
    LET x == Head(t.commit_queue)
    IN [t EXCEPT !.commit_queue = Tail(@),
                 !.unique_proposers = Discounted(@, Author(x.elem)),
                 !.highest_committed_hash = x.key,
                 !.highest_committed_element = x.elem,
                 !.committed = Append(@, x.elem)]

\* expect("Must be unwrappable") of the queue's front and of its proposer.
Unwrappable(t) ==
    /\ t.commit_queue # <<>>
    /\ Author(Head(t.commit_queue).elem) \in DOMAIN t.unique_proposers

\* One iteration of the commit loop; a panic ends the task.
CommitStep(t) ==
    IF t.panicked \/ ~ Enough(t) THEN t
    ELSE IF ~ Unwrappable(t) THEN [t EXCEPT !.panicked = TRUE]
    ELSE Popped(t)

CommitLoop(t) ==
    LET c[k \in 0 .. (Len(t.commit_queue) + 1)] ==
            IF k = 0 THEN t ELSE CommitStep(c[k - 1])
    IN c[Len(t.commit_queue) + 1]

\* The handler of EndRound for element e: the task's new state.
end_round(t, store, e) ==
    IF t.panicked \/ e = Genesis THEN [t EXCEPT !.committed = <<>>]
    ELSE CommitLoop([Attached(t, Walk(t, store, e)) EXCEPT !.committed = <<>>])

\* The rounds it reports as orphaned.
end_round_orphans(t, store, e) ==
    IF t.panicked \/ e = Genesis THEN {} ELSE Orphans(t, Walk(t, store, e))

InitTask ==
    [commit_queue              |-> <<[key |-> Genesis, elem |-> Genesis]>>,
     unique_proposers          |-> [i \in {START_ID} |-> 1],
     highest_committed_hash    |-> Genesis,
     highest_committed_element |-> Genesis,
     committed                 |-> <<>>,    \* by the last EndRound
     panicked                  |-> FALSE]
===============================================================================
