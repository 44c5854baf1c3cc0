---------------------------- MODULE LeaderContext ----------------------------
(***************************************************************************)
(* Leader rotation: consensus/src/server/leto/leader_context.rs, also used *)
(* by Zeus and Hera for the leaders of their signature chains.             *)
(*                                                                         *)
(* The last replacement_limit leaders are kept in history and may not lead *)
(* again; the next leader is drawn from the others.  The draw comes from a *)
(* generator seeded with a constant: the same on every server, but nothing *)
(* here may depend on its values, so it is a choice.                       *)
(*                                                                         *)
(* new() takes the ids in the iteration order of the committee's hash map: *)
(* an order that only depends on the hash function.  START_ID leads first, *)
(* wherever that order puts it.                                            *)
(***************************************************************************)
EXTENDS Integers, FiniteSets, Functions

CONSTANTS
    Ids,        \* the committee
    START_ID,   \* leader of the first round
    Limit       \* replacement_limit, (n + f + 1) / 2

NumNodes == Cardinality(Ids)

ASSUME LeaderAssumption ==
    /\ IsFiniteSet(Ids)
    /\ START_ID \in Ids
    /\ Limit \in 1 .. (NumNodes - 1)

VARIABLES
    order,          \* the ids as new() got them; fixed
    elligible,      \* who may be drawn as the next leader
    history,        \* the last Limit leaders, the latest first
    current_leader,
    next_leader,
    age             \* history variable: rounds since a server led, up to Limit

vars == <<order, elligible, history, current_leader, next_leader, age>>

Orders == {o \in [1 .. NumNodes -> Ids] : IsInjective(o) /\ Range(o) = Ids}

\* mutant: the new leader replaces the oldest at the back
PushedBack(h, leader) == [h EXCEPT ![Limit] = leader]

\* history.pop_back and history.push_front(leader).
Pushed(h, leader) == [i \in 1 .. Limit |-> IF i = 1 THEN leader ELSE h[i - 1]]

\* mutant: the new leader stays elligible
RotatedKeepLeader(el, h, leader) == el \cup {h[Limit]}

RotatedNoReturn(el, h, leader) == el \ {leader}    \* mutant: nobody comes back

\* The oldest leader of h is elligible again and the new one is not.
Rotated(el, h, leader) == (el \cup {h[Limit]}) \ {leader}

\* The Limit last ids of o, popped from the back and pushed to the front.
InitialHistory(o) == [i \in 1 .. Limit |-> o[NumNodes - Limit + i]]

\* mutant: one server too few
InitialElligibleShort(o) == {o[i] : i \in 2 .. (NumNodes - Limit)}

InitialElligible(o) == {o[i] : i \in 1 .. (NumNodes - Limit)}

\* new: START_ID is the next leader, and one round is advanced.
Init ==
    /\ order \in Orders
    /\ current_leader = START_ID
    /\ history = Pushed(InitialHistory(order), START_ID)
    /\ elligible = Rotated(InitialElligible(order), InitialHistory(order), START_ID)
    /\ next_leader \in elligible
    /\ age = [i \in Ids |-> IF i = START_ID THEN 0 ELSE Limit]

\* advance_round.  unwrap() of the draw needs an elligible server: without one
\* the action is disabled and the run deadlocks.
AdvanceRound ==
    /\ current_leader' = next_leader
    /\ elligible' = Rotated(elligible, history, next_leader)
    /\ history' = Pushed(history, next_leader)
    /\ next_leader' \in elligible'
    /\ age' = [i \in Ids |-> CASE i = next_leader -> 0
                               [] i # next_leader /\ age[i] < Limit -> age[i] + 1
                               [] OTHER -> Limit]
    /\ UNCHANGED order

Next == AdvanceRound

Spec == Init /\ [][Next]_vars

----------------------------------------------------------------------------
\* new() does not find START_ID in the history it starts from (unless it is
\* the entry popped first): what the unit test sets up.
StartClear(o) == \A i \in (NumNodes - Limit + 1) .. (NumNodes - 1) : o[i] # START_ID

\* Types of the rotation state; the draw is always among the committee.
TypeOK ==
    /\ order \in Orders
    /\ elligible \subseteq Ids
    /\ history \in [1 .. Limit -> Ids]
    /\ current_leader \in Ids
    /\ next_leader \in Ids
    /\ age \in [Ids -> 0 .. Limit]

\* No leader follows itself, in any order of the ids: relay_proposal always has
\* another server to relay to, and a crashed leader costs one round at a time.
NeverTwiceInARow == next_leader # current_leader

\* No server is lost to the rotation: each is elligible or in the history, so
\* it comes back after at most Limit rounds, whatever was drawn.
EveryoneRotates == elligible \cup Range(history) = Ids

\* With START_ID clear of the initial history, the next leader is none of the
\* last Limit leaders: Limit consecutive proposals always carry the
\* commit_len = Limit distinct proposers the commit rule asks for.
LeadersSpaced == StartClear(order) => age[next_leader] = Limit

\* The draw never runs dry: n - Limit servers are elligible in every round, as
\* the unit test asserts, and at most one more when START_ID was not clear.
ElligibleCount ==
    /\ Cardinality(elligible) <= NumNodes - Limit + 1
    /\ Cardinality(elligible) >= NumNodes - Limit
    /\ StartClear(order) => Cardinality(elligible) = NumNodes - Limit
==============================================================================
