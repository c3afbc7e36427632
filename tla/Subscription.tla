---------------------------- MODULE Subscription ----------------------------
(***************************************************************************)
(* What the collector may rely on from every RpcSubscription, whichever    *)
(* transport stands behind it (RpcSubscription of rpc.ts): events reach    *)
(* the handler only until it ends; `ready` settles exactly once, with the  *)
(* first event or with the end; and an end is reported through onError at  *)
(* most once, and never after the caller has cancelled.                    *)
(***************************************************************************)
EXTENDS Integers

CONSTANT Subs  \* subscriptions

VARIABLES
  ready,     \* the promise `ready`: "pending", "ready" or "failed"
  ended,     \* `done` has settled
  reported,  \* calls of onError
  handled    \* events the handler has taken

vars == <<ready, ended, reported, handled>>

Init ==
  /\ ready = [s \in Subs |-> "pending"]
  /\ ended = [s \in Subs |-> FALSE]
  /\ reported = [s \in Subs |-> 0]
  /\ handled = [s \in Subs |-> 0]

(* What the handler takes only grows, one subscription at a time. *)
Takes(s) == handled' = [handled EXCEPT ![s] = handled'[s]]

(* The handler takes more events, the first of which makes it ready. *)
Deliver(s) ==
  /\ ~ended[s] /\ handled'[s] > handled[s] /\ Takes(s)
  /\ ready' = [ready EXCEPT ![s] = "ready"]
  /\ UNCHANGED <<ended, reported>>

(* The subscription ends, perhaps after some last events; it fails to      *)
(* become ready if there never was one.  The end may be reported.          *)
End(s, report) ==
  /\ ~ended[s] /\ handled'[s] >= handled[s] /\ Takes(s)
  /\ ended' = [ended EXCEPT ![s] = TRUE]
  /\ reported' = [reported EXCEPT ![s] = @ + report]
  /\ ready' = [ready EXCEPT ![s] = IF handled'[s] = 0 THEN "failed" ELSE "ready"]

(* close() ends the subscriptions of S together, without a report. *)
Close(S) ==
  /\ \A s \in S : ~ended[s]
  /\ ended' = [s \in Subs |-> ended[s] \/ s \in S]
  /\ ready' = [s \in Subs |-> IF s \in S /\ handled[s] = 0 THEN "failed" ELSE ready[s]]
  /\ UNCHANGED <<reported, handled>>

Next ==
  \/ \E s \in Subs : Deliver(s) \/ End(s, 0) \/ End(s, 1)
  \/ \E S \in SUBSET Subs : Close(S)

Spec == Init /\ [][Next]_vars
=============================================================================
