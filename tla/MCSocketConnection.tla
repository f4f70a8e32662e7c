------------------------- MODULE MCSocketConnection -------------------------
(* A connection for TLC: two messages, of one and of two units, and two     *)
(* reads from two senders.                                                  *)
EXTENDS SocketConnection

CONSTANTS m1, m2, s1, s2

MCMsg == {m1, m2}
MCUnits == [m \in MCMsg |-> IF m = m1 THEN 2 ELSE 1]
MCHasDest == {m1}
MCSender == {s1, s2}
=============================================================================
