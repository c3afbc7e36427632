------------------------------- MODULE Replica -------------------------------
(***************************************************************************)
(* What delivery promises: D1 is a replica of the collector's aggregates   *)
(* that lags but never runs ahead and never goes back, however often and   *)
(* in whatever order the batches that carry them arrive; the snapshot it   *)
(* keeps does not go back either.  Delivery implements this module.        *)
(***************************************************************************)
EXTENDS Naturals

CONSTANTS
  Minutes,   \* minute buckets
  Actors     \* actors of the day

VARIABLES
  local,     \* actions of each minute bucket at the collector
  seen,      \* actors of the day at the collector
  remote,    \* actions of each minute bucket at D1
  members,   \* actors of the day at D1
  latest     \* the snapshot at D1, by the order they were made in

vars == <<local, seen, remote, members, latest>>

Init ==
  /\ local = [m \in Minutes |-> 0]
  /\ seen = {}
  /\ remote = [m \in Minutes |-> 0]
  /\ members = {}
  /\ latest = 0

(* An action of an actor is counted in its minute. *)
Count(m, a) ==
  /\ local' = [local EXCEPT ![m] = @ + 1]
  /\ seen' = seen \cup {a}
  /\ UNCHANGED <<remote, members, latest>>

(* The replica catches up on some minutes and actors, or on the snapshot. *)
CatchUp ==
  /\ \A m \in Minutes : remote[m] <= remote'[m] /\ remote'[m] <= local[m]
  /\ members \subseteq members' /\ members' \subseteq seen
  /\ latest <= latest'
  /\ UNCHANGED <<local, seen>>

Next == CatchUp \/ \E m \in Minutes, a \in Actors : Count(m, a)

Spec == Init /\ [][Next]_vars
=============================================================================
