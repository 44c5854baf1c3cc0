---------------------------- MODULE CommitContext ----------------------------
(***************************************************************************)
(* The commit task of a Leto server under its engine: the handler of       *)
(* CommitTask called at the end of every round.                            *)
(***************************************************************************)
EXTENDS CommitTask

VARIABLES
    round,      \* the engine's round
    db,         \* the stored elements: their parents
    missed,     \* elements of rounds this server skipped while others did not
    highest,    \* chain_state.highest_chain
    task,       \* the variables of CommitContext::run
    log,        \* elements sent to tx_commit, in order
    orphaned,   \* rounds of all Rollback messages sent to the batcher
    in_order    \* history: every element adopted so far extended the highest
                \* one or the last final one

vars == <<round, db, missed, highest, task, log, orphaned, in_order>>

----------------------------------------------------------------------------
(***************************************************************************)
(* The engine around the task.  The task reads the store only for elements *)
(* that are never rewritten, so running it as part of the engine's step    *)
(* shows every behaviour its queue of EndRound messages can have.          *)
(***************************************************************************)
Init ==
    /\ round = 1
    /\ db = [e \in {Genesis} |-> NoParent]
    /\ missed = [e \in {} |-> NoParent]
    /\ highest = Genesis
    /\ task = InitTask
    /\ log = <<>>
    /\ orphaned = {}
    /\ in_order = TRUE

\* The store with element e, whose parent is p.
WithElement(d, e, p) == [x \in DOMAIN d \cup {e} |-> IF x = e THEN p ELSE d[x]]

\* Leto::try_commit and the task's handler, with the highest chain now e.
EndRound(e) ==
    /\ round <= MaxRound
    /\ task' = end_round(task, db', e)
    /\ log' = log \o task'.committed
    /\ orphaned' = orphaned \cup end_round_orphans(task, db', e)
    /\ round' = round + 1

\* handle_proposal and on_correct_proposal: the proposal of this round, whose
\* parent may be any stored element, is adopted.
Adopt(p) ==
    /\ db' = WithElement(db, round, p)
    /\ highest' = round
    /\ in_order' = (in_order /\ p \in {highest, task.highest_committed_element})
    /\ EndRound(round)
    /\ UNCHANGED missed

\* handle_blame_qc: the round ends without a proposal.
SkipRound ==
    /\ UNCHANGED <<db, missed, highest, in_order>>
    /\ EndRound(highest)

\* handle_blame_qc in a round whose proposal, on p, others have adopted.
MissProposal(p) ==
    /\ missed' = WithElement(missed, round, p)
    /\ UNCHANGED <<db, highest, in_order>>
    /\ EndRound(highest)

\* The synchronizer stores an element the server missed, for a proposal that
\* extends it; the element's own parent may still be missing.
Fetch(e) ==
    /\ e \notin DOMAIN db
    /\ db' = WithElement(db, e, missed[e])
    /\ UNCHANGED <<round, missed, highest, task, log, orphaned, in_order>>

Next ==
    \/ \E p \in DOMAIN db : Adopt(p)
    \/ SkipRound
    \/ \E p \in DOMAIN db \cup DOMAIN missed : MissProposal(p)
    \/ \E e \in DOMAIN missed : Fetch(e)

Spec == Init /\ [][Next]_vars

----------------------------------------------------------------------------
QueueElems == [i \in 1 .. Len(task.commit_queue) |-> task.commit_queue[i].elem]

\* The counters cover the queue: every proposer in it is counted, at least as
\* often as it occurs, whatever parents the adopted elements have and whatever
\* was missed, and after each round too few are left to commit.  The counters
\* drift: a switch to a queued element counts it again.  What they never do is
\* fall short, so both expect() of the commit loop hold and the task, which
\* nobody restarts, does not panic.
CountsCoverQueue ==
    /\ ~ task.panicked
    /\ Cardinality(DOMAIN task.unique_proposers) < CommitLen
    /\ \A id \in {Author(QueueElems[i]) : i \in DOMAIN QueueElems} :
          /\ id \in DOMAIN task.unique_proposers
          /\ task.unique_proposers[id] >=
                 Cardinality({i \in DOMAIN QueueElems : Author(QueueElems[i]) = id})

\* The element adopted last is final or in the commit queue, also after rounds
\* that brought nothing and after switches that replaced the queue.
HighestKept ==
    highest # Genesis => \/ \E i \in 1 .. Len(log) : log[i] = highest
                         \/ \E i \in DOMAIN QueueElems : QueueElems[i] = highest

\* What is committed is one chain from genesis on: every committed element's
\* parent is the one committed just before it.  So no element is committed
\* twice, and none before its parent.  (Genesis itself is sent to tx_commit,
\* first, unless a switch in the first rounds drops it from the queue.)  The
\* comments of commit.rs promise it of every run; the code keeps it only while
\* elements are adopted in order: see InOrderOneChain.
CommittedChain ==
    \A i \in 1 .. Len(log) :
        db[log[i]] = CASE i > 1 -> log[i - 1]
                       [] i = 1 /\ log[i] = Genesis -> NoParent
                       [] OTHER -> Genesis

\* Every adopted element is committed, still queued, or was reported to the
\* batcher in a Rollback, and only one of them: no transaction of a dropped
\* proposal stays InFlight unnoticed, and no committed round is rolled back.
AdoptedAccountedFor ==
    \A e \in DOMAIN db \ (DOMAIN missed \cup {Genesis}) :
        Cardinality({k \in 1 .. 3 :
            CASE k = 1 -> \E i \in 1 .. Len(log) : log[i] = e
              [] k = 2 -> \E i \in DOMAIN QueueElems : QueueElems[i] = e
              [] k = 3 -> e \in orphaned}) = 1

\* As long as every adopted element extended the highest one or the last final
\* one, with any rounds skipped, missed or fetched in between, what is committed
\* is one chain, and every adopted element is in exactly one place.  After an
\* element that extends another queued one neither holds.
InOrderOneChain == in_order => CommittedChain /\ AdoptedAccountedFor

Rule == INSTANCE ChainCommit WITH
            AuthorOf <- Author,
            chain <- QueueElems

\* As long as elements are adopted in order, the counters, the queue and the
\* walk implement the commit rule: an element is final exactly when commit_len
\* distinct proposers built on it, itself included, and a switch never takes
\* back a final element.
InOrderCommitRule == Rule!Init /\ [][in_order' => Rule!Next]_<<log, QueueElems>>
==============================================================================
