---------------------------- MODULE MCScgiParser ----------------------------
(* ScgiParser for TLC; the bounds are given in the config. *)
EXTENDS ScgiParser
=============================================================================
