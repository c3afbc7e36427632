------------------------------ MODULE MCHistory -----------------------------
(* History of a source whose node forgets what the collector never read    *)
(* and whose cursors are not checked against the node.                     *)
EXTENDS History

MCNodes == {[checked |-> FALSE, keeps |-> 2, lasts |-> 5]}
=============================================================================
