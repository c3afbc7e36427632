---------------------------- MODULE MCProcessLock ----------------------------
(* Small instances of ProcessLock for TLC. *)
EXTENDS ProcessLock

CONSTANTS p1, p2, p3

ThreePids == {p1, p2, p3}
=============================================================================
