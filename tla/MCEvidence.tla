----------------------------- MODULE MCEvidence -----------------------------
(* Two requests and three turns on one incident. The requests are alike:   *)
(* an action names at most one, and no property tells them apart.          *)
EXTENDS Evidence

CONSTANTS c1, c2

CallSymmetry == Permutations(Call)
=============================================================================
