---------------------------- MODULE MCLiveCapture ----------------------------
(* LiveCapture for TLC: two servers, the second with a client of its own and *)
(* the first with a client too many, below a limit of one and of two.        *)
EXTENDS LiveCapture

CONSTANTS s1, s2

MCServer == {s1, s2}

MCLimits == {1, 2}

MCArrivals == [s \in MCServer |-> IF s = s1 THEN 2 ELSE 1]
=============================================================================
