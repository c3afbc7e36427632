--------------------------- MODULE MCDeliveryLive ---------------------------
(* A smaller instance of Delivery, with fairness. *)
EXTENDS Delivery

CONSTANTS r1, r2

MCRequests == {r1, r2}
=============================================================================
