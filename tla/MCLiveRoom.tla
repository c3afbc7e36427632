------------------------------ MODULE MCLiveRoom ----------------------------
(* Instances of LiveRoom for model checking. *)
EXTENDS LiveRoom, TLC

CONSTANTS p1, p2, n1, q1, q2, b1

TwoPulses == {p1, p2}
OneSnapshot == {n1}
TwoRequests == {q1, q2}
OneBrowser == {b1}

(* Requests and pulses are interchangeable. *)
Symmetry == Permutations(TwoRequests) \cup Permutations(TwoPulses)
=============================================================================
