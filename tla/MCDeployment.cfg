SPECIFICATION Spec
CONSTANTS
    a1 = a1
    a2 = a2
    f1 = f1
    f2 = f2
    f3 = f3
    r1 = r1
    r2 = r2
    None = None
    Attempt <- MCAttempt
    Fingerprint <- MCFingerprint
    AttemptOf <- MCAttemptOf
    Request <- MCRequest
    MaxPolls = 1
    MaxDrift = 1
    MaxEdits = 1
SYMMETRY Symmetry
INVARIANTS
    TypeOK
    AtMostOneApply
    VerifiedRuns
PROPERTIES
    SpentOnApprovedArtifact
    ImplementsGate
CHECK_DEADLOCK FALSE
