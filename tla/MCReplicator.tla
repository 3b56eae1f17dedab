---------------------------- MODULE MCReplicator ----------------------------
(* Small instances of Replicator; each cfg is one workload and failure mix. *)
EXTENDS Replicator

CONSTANTS a, b      \* row payloads

OneRow  == {a}
TwoRows == {a, b}
=============================================================================
