SPECIFICATION Spec
CONSTANTS
    a1 = a1
    a2 = a2
    f1 = f1
    f2 = f2
    f3 = f3
    r1 = r1
    r2 = r2
    None = None
    Attempt <- MCAttempt
    Fingerprint <- TwoFingerprints
    AttemptOf <- TwoAttemptOf
    Request <- MCRequest
    MaxPolls = 2
    MaxDrift = 0
    MaxEdits = 0
SYMMETRY Symmetry
INVARIANTS
    VerifiedIdentity
CHECK_DEADLOCK FALSE
