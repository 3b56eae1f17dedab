----------------------------- MODULE MCCluster -----------------------------
(* Small instances of Cluster.                                             *)
EXTENDS Cluster

CONSTANTS A, B, C, r1, r2     \* endpoints and readers

Both         == {"py", "js"}
Python       == {"py"}
TwoEndpoints == <<A, B>>
AnyPrimary   == {None, B, C}
SecondNode   == {B}
TwoReaders   == {r1, r2}
NoReaders    == {}
SomeKeys     == {<<>>, <<97>>, <<65535, 1>>}
NoKeys       == {}
SomeHashes   == {-3, 0, 3}
NoHashes     == {}

\* Reads and writes to all have only the nodes in common: each is explored with
\* everything else, but not with the other.
ReadsOrWrites == fan = NoFan \/ (turn = 0 /\ lock = None)
=============================================================================
