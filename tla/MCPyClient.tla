----------------------------- MODULE MCPyClient -----------------------------
(* Small instances of PyClient.                                            *)
EXTENDS PyClient

Commands1 == <<{"send", "raw"}>>
Batches1  == <<{"send"}>>
FirstOnly == {1}

\* A subscribed connection for commands, then one without for tensor calls.
CommandsThenTensors == <<{"send", "raw"}, {"send", "matmul"}>>
=============================================================================
