----------------------------- MODULE MCFailover ------------------------------
(* Instances of Failover for TLC. *)
EXTENDS Failover, TLC
CONSTANTS s1, s2

TwoShards == {s1, s2}
BothSources == {"snapchain", "hypersnap"}
OneShard == {s1}
Talking == {"healthy", "failing", "down"}
ShardSymmetry == Permutations(TwoShards)
AllConditions == Talking \cup {"silent", "drifted"}
=============================================================================
