------------------------------ MODULE MCScgiPool ------------------------------
(* Three clients compete for two slots. *)
EXTENDS ScgiPool

CONSTANTS c1, c2, c3

MCConn == {c1, c2, c3}
=============================================================================
