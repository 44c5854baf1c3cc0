--------------------------- MODULE MCLeaderContext ---------------------------
(***************************************************************************)
(* Five servers, one fault: replacement_limit is (5 + 1 + 1) / 2 = 3.  Two *)
(* servers are elligible at a time, so the draw has a choice, and START_ID *)
(* is tried in every position of the initial order.                        *)
(***************************************************************************)
EXTENDS LeaderContext
==============================================================================
