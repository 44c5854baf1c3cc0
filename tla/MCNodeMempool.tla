---------------------------- MODULE MCNodeMempool ----------------------------
(***************************************************************************)
(* Server 0 of three (commit_len 2), which leads rounds 1 and 4; one       *)
(* client with two nonces, transactions of one byte, batches of one byte.  *)
(***************************************************************************)
EXTENDS NodeMempool

CONSTANT N

MCIds == 0 .. (N - 1)
MCRounds == 0 .. MaxRound
MCLeaderOf == [r \in 1 .. MaxRound |-> (r - 1) % N]
==============================================================================
