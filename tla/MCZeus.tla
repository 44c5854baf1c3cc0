------------------------------- MODULE MCZeus -------------------------------
(***************************************************************************)
(* The leaders of the signature chain take turns.                          *)
(***************************************************************************)
EXTENDS Zeus

MCLeaderOf == [r \in 1 .. (MaxRound + 1) |-> (r - 1) % Cardinality(Ids)]
==============================================================================
