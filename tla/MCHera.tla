------------------------------- MODULE MCHera -------------------------------
(***************************************************************************)
(* Three servers that lead in turn; quorum and commit length are           *)
(* (3 + 1 + 1) / 2 = 2.  Servers 0 and 1 run a load generator: two blocks  *)
(* of server 0 give a chain with a parked child, a block of each gives an  *)
(* attestation that pins two chains.  Server 2, the leader of the last     *)
(* round, is the one whose round buffer lags.                              *)
(***************************************************************************)
EXTENDS Hera

CONSTANT N

MCIds == 0 .. (N - 1)
MCLeaderOf == [r \in 1 .. MaxRound |-> (r - 1) % N]
MCBudget == [i \in MCIds |-> IF i = 0 THEN 2 ELSE IF i = 1 THEN 1 ELSE 0]
MCLagging == {2}
NoBudget == [i \in MCIds |-> 0]

\* The commit step is the only step of server i, and it uses nothing that steps
\* of other servers change, nor changes anything that they use.
Urgent(i) ==
    /\ ~ Overtakes(i)
    /\ node[i].pending_sig_element_requests = {}

\* So it is enough to take it at once: in every other order of the same steps
\* each server goes through the same states.
MCNext ==
    \/ \E i \in Ids : Urgent(i) /\ RunCommitTask(i)
    \/ (\A i \in Ids : ~ Urgent(i)) /\ Next

MCSpec == Init /\ [][MCNext]_vars
==============================================================================
