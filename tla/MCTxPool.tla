------------------------------ MODULE MCTxPool ------------------------------
(***************************************************************************)
(* Two clients with nonces 0..2, two rounds, sizes 1 and 2, a batch of two *)
(* bytes: an overwrite changes a size, a batch can be cut between two keys *)
(* of one client or between clients, a commit can overtake both a Mineable *)
(* and an InFlight key, and a rollback can hit one of two rounds.          *)
(***************************************************************************)
EXTENDS TxPool
=============================================================================
