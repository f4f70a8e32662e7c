----------------------------- MODULE MCEslClient -----------------------------
(* EslClient for TLC; the bounds are given in the configs. *)
EXTENDS EslClient
=============================================================================
