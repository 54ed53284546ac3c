----------------------------- MODULE MCReadJobs -----------------------------
(* One connector process and jobs of either kind.                          *)
EXTENDS ReadJobs

CONSTANTS h1, h2, b1, p1
=============================================================================
