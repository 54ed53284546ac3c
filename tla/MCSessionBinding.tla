-------------------------- MODULE MCSessionBinding --------------------------
(* Three calls for one incident; incidents do not share anything.          *)
EXTENDS SessionBinding

CONSTANTS i1, c1, c2, c3
=============================================================================
