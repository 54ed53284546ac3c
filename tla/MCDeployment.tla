---------------------------- MODULE MCDeployment ----------------------------
(* Small instances of Deployment for TLC. *)
EXTENDS Deployment, TLC

CONSTANTS a1, a2, f1, f2, f3, r1, r2

\* One attempt whose artifact may change from f1 to f2, and another incident's.
MCAttempt == {a1, a2}
MCFingerprint == {f1, f2, f3}
MCAttemptOf == [f \in MCFingerprint |-> IF f = f3 THEN a2 ELSE a1]

\* Two incidents with one artifact each.
TwoFingerprints == {f1, f3}
TwoAttemptOf == [f \in TwoFingerprints |-> IF f = f3 THEN a2 ELSE a1]

MCRequest == {r1, r2}
Symmetry == Permutations(Request)
=============================================================================
