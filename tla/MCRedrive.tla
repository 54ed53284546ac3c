------------------------------ MODULE MCRedrive ------------------------------
(* Small instances of Redrive for TLC. *)
EXTENDS Redrive

CONSTANTS i1, f1, f2, r1, r2

MCIncident == {i1}
MCFingerprint == {f1, f2}
MCIncidentOf == [f \in MCFingerprint |-> i1]
TwoRequests == {r1, r2}
=============================================================================
