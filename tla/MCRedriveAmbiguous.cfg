SPECIFICATION Spec
CONSTANTS
    i1 = i1
    f1 = f1
    f2 = f2
    r1 = r1
    r2 = r2
    None = None
    Incident <- MCIncident
    Fingerprint <- MCFingerprint
    IncidentOf <- MCIncidentOf
    Request <- TwoRequests
    MaxPolls = 2
    MaxMutations = 2
    MaxForeign = 0
    MaxDrift = 0
INVARIANTS
    AmbiguousIsUnknown
CHECK_DEADLOCK FALSE
