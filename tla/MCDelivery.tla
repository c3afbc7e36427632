----------------------------- MODULE MCDelivery ------------------------------
(* Small instances of Delivery for TLC: behaviours about retries, crashes  *)
(* and expiries of the batches of one minute, with one batch to a rate     *)
(* window; and behaviours about the order in which batches and snapshots   *)
(* arrive, over two minutes and with two batches to a window.              *)
EXTENDS Delivery, TLC

CONSTANTS r1, r2

VARIABLE kind

OneToAWindow == INSTANCE Delivery WITH RateLimit <- 1

MCRequests == {r1, r2}
RequestSymmetry == Permutations(MCRequests)

kindVars == <<kind, vars>>

KindInit == kind \in {"retries", "order"} /\ Init

(* The bounds of the two kinds. *)
KindNext ==
  /\ UNCHANGED kind
  /\ \/ /\ kind = "retries" /\ OneToAWindow!Next
        /\ local'[1] = 0 /\ spent'.snapshots = 0
     \/ /\ kind = "order" /\ Next
        /\ local'[1] + local'[2] <= 1
        /\ spent'.faults <= 1 /\ spent'.crashes = 0 /\ spent'.expiries = 0

KindSpec == KindInit /\ [][KindNext]_kindVars

=============================================================================
