--------------------------- MODULE MCCurlDownload ---------------------------
(* CurlDownload for TLC: a downloader with a user's read handler and a      *)
(* JsonRPC request.                                                         *)
EXTENDS CurlDownload

CONSTANTS file, rpc

MCTransfer == {file, rpc}
MCSome == {file}
MCMaxExec == [t \in {file, rpc} |-> IF t = file THEN 1 ELSE 2]
MCMaxCallbacks == [t \in {file, rpc} |-> IF t = file THEN 1 ELSE 0]
=============================================================================
