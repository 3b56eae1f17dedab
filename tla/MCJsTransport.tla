--------------------------- MODULE MCJsTransport ---------------------------
(* Small instances of JsTransport.                                         *)
EXTENDS JsTransport

AllThree      == {"tcp", "ws", "wasm"}
WithAndWithout == BOOLEAN
SendAndBatch  == {1, 2}
OnlyTcp       == {"tcp"}
Without       == {FALSE}
OnlySend      == {1}
=============================================================================
