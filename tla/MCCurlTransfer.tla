--------------------------- MODULE MCCurlTransfer ---------------------------
(* CurlTransfer for TLC: a transfer with a user's write handler and a       *)
(* JsonRPC request.                                                         *)
EXTENDS CurlTransfer

CONSTANTS plain, rpc

MCTransfer == {plain, rpc}
MCUserHandler == {plain}
MCOnce == [t \in {plain, rpc} |-> 1]
=============================================================================
