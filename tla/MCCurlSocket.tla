---------------------------- MODULE MCCurlSocket ----------------------------
(* CurlSocket for TLC.  One socket: what other sockets do to it is done by  *)
(* the timer as well.                                                       *)
EXTENDS CurlSocket

CONSTANT s1

MCSock == {s1}
=============================================================================
