--------------------------- MODULE MCZeusDelivery ----------------------------
(***************************************************************************)
(* ZeusDelivery with four transactions in bursts of two and a cap of two,  *)
(* so that later ones trickle or follow when the first are given up; an    *)
(* ingress channel of one place; a cache of two small blocks, or one large *)
(* one, so that a large block evicts two.                                  *)
(***************************************************************************)
EXTENDS ZeusDelivery
=============================================================================
