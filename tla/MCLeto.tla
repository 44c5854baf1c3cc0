------------------------------- MODULE MCLeto -------------------------------
(***************************************************************************)
(* The leaders take turns.                                                 *)
(***************************************************************************)
EXTENDS Leto

MCLeaderOf == [r \in 1 .. (MaxRound + 1) |-> (r - 1) % Cardinality(Ids)]
==============================================================================
