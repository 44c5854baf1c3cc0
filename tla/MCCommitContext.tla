--------------------------- MODULE MCCommitContext ---------------------------
(***************************************************************************)
(* Four servers: commit_len is (4 + 1 + 1) / 2 = 3.  The leaders take      *)
(* turns, as the rotation of four servers with a limit of three makes them *)
(* do; skipped rounds bring the same proposer back into the queue.  Six    *)
(* rounds are enough for a switch to a queued element, for a fetched       *)
(* element in the walk, and for commits before and after them.             *)
(***************************************************************************)
EXTENDS CommitContext

CONSTANT N

MCIds == 0 .. (N - 1)
MCLeaderOf == [r \in 1 .. MaxRound |-> (r - 1) % N]
==============================================================================
